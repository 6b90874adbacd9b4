-------------------------- MODULE RoomMatch_proofs --------------------------
(***************************************************************************)
(* Proofs about module RoomMatch, for any number of sessions: nobody starts a  *)
(* match alone or without a seed, no victory comes before a departure, and    *)
(* the server takes only the steps of a GameRoom.                            *)
(*                                                                          *)
(* None of this can be seen in the state of the sessions alone.  The invariant  *)
(* follows an order to start and a verdict from the handler that posts it,     *)
(* through the stream, to the session that takes it; and it says of every      *)
(* connection that the server gives up why its session no longer plays.       *)
(***************************************************************************)
EXTENDS RoomMatch, FiniteSetTheorems, SequenceTheorems, TLAPS

(* The messages under way to c, and from c.                                   *)
InFlight(c) == {toClient[c][i] : i \in 1 .. Len(toClient[c])}
Sent(c)     == {toServer[c][i] : i \in 1 .. Len(toServer[c])}

Ordered(c) == \E m \in InFlight(c) : m.type = "Server_AllPlayersReady"
Gone(c)    == screen[c] \in {"over", "gone"}

(* Two have registered, though they may have departed since.                   *)
Two == \E d, e \in registered : d # e

StartInv ==
    (\/ starting
     \/ \E c \in Client : c \in queued \/ screen[c] = "play" \/ Ordered(c))
        => Two

(* A session that the server has lost is over or gone, as long as there is one.  *)
GoneInv ==
    /\ up => \A c \in Client \ alive : screen[c] = "title" \/ Gone(c)
    /\ \A c \in Client : "Client_UnregisterWithServer" \in Sent(c) => Gone(c)
    /\ \A c \in departed : Gone(c)

VerdictInv ==
    /\ \A c \in Client : \A m \in InFlight(c) :
           m.type = "Server_GameOver" => m.loser \in departed /\ m.winner # m.loser
    /\ \A c \in remoteOver : \E d \in departed : d # c

BegunInv ==
    /\ IsFiniteSet(room) /\ IsFiniteSet(Begun)
    /\ room \subseteq registered /\ registered \subseteq Begun
    /\ deq \subseteq Begun /\ linked \subseteq Begun

(* The seed of c is ahead of the i-th message under way to it.                  *)
SeedAhead(c, i) ==
    \/ seed[c] # NoSeed
    \/ \E j \in 1 .. Len(toClient[c]) : j < i /\ toClient[c][j].type = "Game_SendBagSeed"

Seeded(c) ==
    /\ starting /\ c \in Listeners \cap linked => SeedAhead(c, Len(toClient[c]) + 1)
    /\ \A i \in 1 .. Len(toClient[c]) :
           toClient[c][i].type = "Server_AllPlayersReady" => SeedAhead(c, i)
    /\ c \in queued \/ screen[c] = "play" => seed[c] # NoSeed

SeedInv == Cardinality(Begun) <= 2 => \A c \in Client : Seeded(c)

IInv == TypeOK /\ StartInv /\ GoneInv /\ VerdictInv /\ BegunInv /\ SeedInv

-----------------------------------------------------------------------------
(* The streams.                                                              *)

LEMMA ServerMsgs ==
    /\ \A t \in Room!Signals : Room!Signal(t) \in Room!ServerMsg
    /\ \A s \in Seed : Room!BagSeed(s) \in Room!ServerMsg
    /\ \A w, l \in Client : Room!GameOver(w, l) \in Room!ServerMsg
  BY DEF Room!ServerMsg

LEMMA PostType ==
    ASSUME NEW to \in SUBSET Client, NEW m \in Room!ServerMsg
    PROVE  /\ Room!Post(to, m) \in Room!Posts
           /\ Room!Post(to, m).to = to /\ Room!Post(to, m).msg = m
  BY DEF Room!Post, Room!Posts

(* A message is put at the end of a stream, or not, or taken from its front, or  *)
(* the stream is emptied.                                                    *)
LEMMA SendType ==
    ASSUME TypeOK, NEW c \in Client, NEW m \in ClientMsg, Send(c, m) \/ UNCHANGED toServer
    PROVE  /\ toServer' \in [Client -> Seq(ClientMsg)]
           /\ \A d \in Client : \A x \in Sent(d)' : x \in Sent(d) \/ (d = c /\ x = m)
<1>1. toServer \in [Client -> Seq(ClientMsg)] /\ toServer[c] \in Seq(ClientMsg)
  BY DEF TypeOK
<1>2. CASE toServer' = toServer
  BY <1>1, <1>2 DEF Sent
<1>3. CASE toServer' = [toServer EXCEPT ![c] = Append(@, m)]
  <2> DEFINE q == Append(toServer[c], m)
  <2>1. /\ q \in Seq(ClientMsg) /\ Len(q) = Len(toServer[c]) + 1 /\ q[Len(toServer[c]) + 1] = m
        /\ \A i \in 1 .. Len(toServer[c]) : q[i] = toServer[c][i]
        /\ Len(toServer[c]) \in Nat
    BY <1>1, AppendProperties, LenProperties
  <2> HIDE DEF q
  <2>2. /\ toServer' \in [Client -> Seq(ClientMsg)] /\ toServer'[c] = q
        /\ \A d \in Client \ {c} : toServer'[d] = toServer[d]
    BY <1>1, <1>3, <2>1 DEF q
  <2>3. \A i \in 1 .. Len(q) : i \in 1 .. Len(toServer[c]) \/ q[i] = m
    BY <2>1
  <2>4. \A x \in Sent(c)' : x \in Sent(c) \/ x = m
    BY <2>1, <2>2, <2>3 DEF Sent
  <2>5. \A d \in Client \ {c} : Sent(d)' = Sent(d)
    BY <2>2 DEF Sent
  <2> QED
    BY <2>2, <2>4, <2>5
<1> QED
  BY <1>1, <1>2, <1>3 DEF Send

LEMMA TailElements ==
    ASSUME NEW S, NEW s \in Seq(S), s # <<>>
    PROVE  /\ Tail(s) \in Seq(S) /\ Len(Tail(s)) = Len(s) - 1 /\ Len(s) \in Nat \ {0}
           /\ \A i \in 1 .. Len(Tail(s)) : i + 1 \in 1 .. Len(s) /\ Tail(s)[i] = s[i + 1]
           /\ Head(s) = s[1] /\ 1 \in 1 .. Len(s)
<1>1. /\ Tail(s) \in Seq(S) /\ Len(Tail(s)) = Len(s) - 1 /\ Len(s) \in Nat \ {0}
      /\ Head(s) = s[1]
  OBVIOUS
<1>2. \A i \in 1 .. Len(Tail(s)) : Tail(s)[i] = s[i + 1]
  BY HeadTailProperties
<1> QED
  BY <1>1, <1>2

LEMMA TakeType ==
    ASSUME TypeOK, NEW c \in Client, NEW m, TakeMessage(c, m)
    PROVE  /\ toServer' \in [Client -> Seq(ClientMsg)]
           /\ \A d \in Client : Sent(d)' \subseteq Sent(d)
           /\ m \in Sent(c)
<1>1. /\ toServer \in [Client -> Seq(ClientMsg)] /\ toServer[c] \in Seq(ClientMsg)
      /\ toServer[c] # <<>> /\ toServer' = [toServer EXCEPT ![c] = Tail(@)] /\ Head(toServer[c]) = m
  BY DEF TypeOK, TakeMessage
<1> DEFINE q == Tail(toServer[c])
<1>2. /\ q \in Seq(ClientMsg) /\ \A i \in 1 .. Len(q) : i + 1 \in 1 .. Len(toServer[c])
                                                     /\ q[i] = toServer[c][i + 1]
      /\ toServer[c][1] = m /\ 1 \in 1 .. Len(toServer[c])
  BY <1>1, TailElements
<1> HIDE DEF q
<1>3. /\ toServer' \in [Client -> Seq(ClientMsg)] /\ toServer'[c] = q
      /\ \A d \in Client \ {c} : toServer'[d] = toServer[d]
  BY <1>1, <1>2 DEF q
<1>4. \A x \in Sent(c)' : x \in Sent(c)
  BY <1>2, <1>3 DEF Sent
<1>5. \A d \in Client \ {c} : Sent(d)' = Sent(d)
  BY <1>3 DEF Sent
<1>6. m \in Sent(c)
  BY <1>2 DEF Sent
<1> QED
  BY <1>3, <1>4, <1>5, <1>6

LEMMA EmptiedType ==
    ASSUME TypeOK, NEW c \in Client,
           \/ toServer' = [toServer EXCEPT ![c] = <<>>]
           \/ toServer' = [d \in Client |-> <<>>]
    PROVE  /\ toServer' \in [Client -> Seq(ClientMsg)]
           /\ \A d \in Client : Sent(d)' \subseteq Sent(d)
<1>1. toServer \in [Client -> Seq(ClientMsg)] /\ <<>> \in Seq(ClientMsg)
  BY DEF TypeOK
<1>2. toServer' \in [Client -> Seq(ClientMsg)]
  BY <1>1
<1>3. \A d \in Client : toServer'[d] = toServer[d] \/ toServer'[d] = <<>>
  BY <1>1
<1>4. Len(<<>>) = 0
  OBVIOUS
<1> QED
  BY <1>2, <1>3, <1>4 DEF Sent

LEMMA TakesType ==
    ASSUME TypeOK, NEW c \in Client, toClient[c] # <<>>,
           toClient' = [toClient EXCEPT ![c] = Tail(@)]
    PROVE  /\ toClient' \in [Client -> Seq(Room!ServerMsg)]
           /\ \A d \in Client : InFlight(d)' \subseteq InFlight(d)
           /\ \A d \in Client \ {c} : toClient'[d] = toClient[d]
           /\ Len(toClient'[c]) = Len(toClient[c]) - 1 /\ Len(toClient[c]) \in Nat \ {0}
           /\ \A i \in 1 .. Len(toClient'[c]) :
                  i + 1 \in 1 .. Len(toClient[c]) /\ toClient'[c][i] = toClient[c][i + 1]
           /\ Head(toClient[c]) = toClient[c][1] /\ Head(toClient[c]) \in InFlight(c)
           /\ Head(toClient[c]) \in Room!ServerMsg
<1>1. toClient \in [Client -> Seq(Room!ServerMsg)] /\ toClient[c] \in Seq(Room!ServerMsg)
  BY DEF TypeOK
<1> DEFINE q == Tail(toClient[c])
<1>2. /\ q \in Seq(Room!ServerMsg) /\ Len(q) = Len(toClient[c]) - 1
      /\ Len(toClient[c]) \in Nat \ {0}
      /\ \A i \in 1 .. Len(q) : i + 1 \in 1 .. Len(toClient[c]) /\ q[i] = toClient[c][i + 1]
      /\ Head(toClient[c]) = toClient[c][1] /\ 1 \in 1 .. Len(toClient[c])
  BY <1>1, TailElements
<1>3. Head(toClient[c]) \in Room!ServerMsg
  BY <1>1, <1>2, ElementOfSeq
<1> HIDE DEF q
<1>4. /\ toClient' \in [Client -> Seq(Room!ServerMsg)] /\ toClient'[c] = q
      /\ \A d \in Client \ {c} : toClient'[d] = toClient[d]
  BY <1>1, <1>2 DEF q
<1>5. \A d \in Client : InFlight(d)' \subseteq InFlight(d)
  BY <1>2, <1>4 DEF InFlight
<1> QED
  BY <1>2, <1>3, <1>4, <1>5 DEF InFlight

LEMMA DropType ==
    ASSUME TypeOK, NEW c \in Client, toClient' = [toClient EXCEPT ![c] = <<>>]
    PROVE  /\ toClient' \in [Client -> Seq(Room!ServerMsg)]
           /\ \A d \in Client : InFlight(d)' \subseteq InFlight(d)
           /\ \A d \in Client \ {c} : toClient'[d] = toClient[d]
           /\ toClient'[c] = <<>> /\ Len(toClient'[c]) = 0
<1>1. toClient \in [Client -> Seq(Room!ServerMsg)] /\ <<>> \in Seq(Room!ServerMsg)
  BY DEF TypeOK
<1>2. /\ toClient' \in [Client -> Seq(Room!ServerMsg)]
      /\ \A d \in Client \ {c} : toClient'[d] = toClient[d]
      /\ toClient'[c] = <<>> /\ Len(toClient'[c]) = 0
  BY <1>1
<1> QED
  BY <1>2 DEF InFlight

LEMMA PostSeq ==
    ASSUME NEW p \in Seq(Room!Posts), Len(p) <= 2
    PROVE  /\ Len(p) \in {0, 1, 2}
           /\ \A k \in 1 .. Len(p) : p[k].msg \in Room!ServerMsg
<1>1. Len(p) \in Nat
  BY LenProperties
<1>2. \A k \in 1 .. Len(p) : p[k] \in Room!Posts
  BY ElementOfSeq
<1>3. Len(p) \in {0, 1, 2}
  <2>1. \A n \in Nat : n <= 2 => n \in {0, 1, 2}
    OBVIOUS
  <2> QED
    BY <1>1, <2>1
<1>4. \A x \in Room!Posts : x.msg \in Room!ServerMsg
  BY DEF Room!Posts
<1> QED
  BY <1>2, <1>3, <1>4

LEMMA ConcatType ==
    ASSUME NEW S, NEW a \in Seq(S), NEW b \in Seq(S)
    PROVE  /\ a \o b \in Seq(S) /\ Len(a) \in Nat /\ Len(b) \in Nat
           /\ Len(a \o b) = Len(a) + Len(b)
           /\ \A i \in 1 .. Len(a) : (a \o b)[i] = a[i]
           /\ \A i \in 1 .. Len(b) : (a \o b)[Len(a) + i] = b[i]
           /\ \A i \in 1 .. Len(a \o b) :
                  \/ i \in 1 .. Len(a) /\ (a \o b)[i] = a[i]
                  \/ i - Len(a) \in 1 .. Len(b) /\ (a \o b)[i] = b[i - Len(a)]
<1>1. /\ a \o b \in Seq(S) /\ Len(a) \in Nat /\ Len(b) \in Nat
      /\ Len(a \o b) = Len(a) + Len(b)
  BY ConcatProperties, LenProperties
<1>2. \A i \in 1 .. Len(a) + Len(b) :
          (a \o b)[i] = IF i <= Len(a) THEN a[i] ELSE b[i - Len(a)]
  BY ConcatProperties
<1> QED
  BY <1>1, <1>2

(* What is posted to d: the messages of the posts that have d in their audience.  *)
LEMMA PostedType ==
    ASSUME posts' \in Seq(Room!Posts), Len(posts') <= 2, NEW d \in Client
    PROVE  /\ Posted(d) \in Seq(Room!ServerMsg)
           /\ \A i \in 1 .. Len(Posted(d)) : \E k \in 1 .. Len(posts') :
                  d \in posts'[k].to /\ Posted(d)[i] = posts'[k].msg
           /\ \A k \in 1 .. Len(posts') : d \in posts'[k].to =>
                  \E i \in 1 .. Len(Posted(d)) : Posted(d)[i] = posts'[k].msg
<1>1. /\ Len(posts') \in {0, 1, 2}
      /\ \A k \in 1 .. Len(posts') : posts'[k].msg \in Room!ServerMsg
  BY PostSeq
<1>2. ASSUME NEW k \in 1 .. Len(posts')
      PROVE  /\ PostTo(d, posts'[k]) \in Seq(Room!ServerMsg)
             /\ \A i \in 1 .. Len(PostTo(d, posts'[k])) :
                    d \in posts'[k].to /\ PostTo(d, posts'[k])[i] = posts'[k].msg
             /\ d \in posts'[k].to => /\ 1 \in 1 .. Len(PostTo(d, posts'[k]))
                                      /\ PostTo(d, posts'[k])[1] = posts'[k].msg
  BY <1>1 DEF PostTo
<1>3. CASE Len(posts') = 0
  BY <1>3 DEF Posted
<1>4. CASE Len(posts') = 1
  <2>1. 1 \in 1 .. Len(posts') /\ \A k \in 1 .. Len(posts') : k = 1
    BY <1>4
  <2>2. Posted(d) = PostTo(d, posts'[1])
    BY <1>4 DEF Posted
  <2> QED
    BY <1>2, <2>1, <2>2
<1>5. CASE Len(posts') = 2
  <2> DEFINE a == PostTo(d, posts'[1])
             b == PostTo(d, posts'[2])
  <2>1. 1 \in 1 .. Len(posts') /\ 2 \in 1 .. Len(posts')
        /\ \A k \in 1 .. Len(posts') : k = 1 \/ k = 2
    BY <1>5
  <2>2. /\ a \in Seq(Room!ServerMsg) /\ b \in Seq(Room!ServerMsg)
        /\ \A i \in 1 .. Len(a) : d \in posts'[1].to /\ a[i] = posts'[1].msg
        /\ \A i \in 1 .. Len(b) : d \in posts'[2].to /\ b[i] = posts'[2].msg
        /\ d \in posts'[1].to => 1 \in 1 .. Len(a) /\ a[1] = posts'[1].msg
        /\ d \in posts'[2].to => 1 \in 1 .. Len(b) /\ b[1] = posts'[2].msg
    BY <1>2, <2>1
  <2>3. Posted(d) = a \o b
    BY <1>5 DEF Posted
  <2> HIDE DEF a, b
  <2>4. /\ a \o b \in Seq(Room!ServerMsg) /\ Len(a) \in Nat /\ Len(b) \in Nat
        /\ Len(a \o b) = Len(a) + Len(b)
        /\ \A i \in 1 .. Len(a) : (a \o b)[i] = a[i]
        /\ \A i \in 1 .. Len(b) : (a \o b)[Len(a) + i] = b[i]
        /\ \A i \in 1 .. Len(a \o b) :
               \/ i \in 1 .. Len(a) /\ (a \o b)[i] = a[i]
               \/ i - Len(a) \in 1 .. Len(b) /\ (a \o b)[i] = b[i - Len(a)]
    BY <2>2, ConcatType
  <2>5. \A i \in 1 .. Len(a \o b) : \E k \in 1 .. Len(posts') :
            d \in posts'[k].to /\ (a \o b)[i] = posts'[k].msg
    BY <2>1, <2>2, <2>4
  <2>6. d \in posts'[1].to =>
            \E i \in 1 .. Len(a \o b) : (a \o b)[i] = posts'[1].msg
    <3>1. \A i \in 1 .. Len(a) : i \in 1 .. Len(a \o b)
      BY <2>4
    <3> QED
      BY <2>2, <2>4, <3>1
  <2>7. d \in posts'[2].to =>
            \E i \in 1 .. Len(a \o b) : (a \o b)[i] = posts'[2].msg
    <3>1. \A i \in 1 .. Len(b) : Len(a) + i \in 1 .. Len(a \o b)
      BY <2>4
    <3> QED
      BY <2>2, <2>4, <3>1
  <2>8. \A k \in 1 .. Len(posts') : d \in posts'[k].to =>
            \E i \in 1 .. Len(a \o b) : (a \o b)[i] = posts'[k].msg
    BY <2>1, <2>6, <2>7
  <2>9. a \o b \in Seq(Room!ServerMsg)
    BY <2>4
  <2> QED
    BY <2>3, <2>5, <2>8, <2>9
<1> QED
  BY <1>1, <1>3, <1>4, <1>5

(* A step of the server adds what it posts to the streams of the clients that are  *)
(* still there.                                                              *)
LEMMA DeliverType ==
    ASSUME TypeOK, NEW c \in Client, Deliver(c), posts' \in Seq(Room!Posts), Len(posts') <= 2
    PROVE  /\ toClient' \in [Client -> Seq(Room!ServerMsg)]
           /\ \A d \in Client : \A m \in InFlight(d)' :
                  m \in InFlight(d) \/ \E k \in 1 .. Len(posts') : m = posts'[k].msg
           /\ \A d \in Client : d \in linked => toClient'[d] = toClient[d] \o Posted(d)
           /\ \A d \in Client \ linked : Len(toClient'[d]) = 0
<1>1. /\ toClient \in [Client -> Seq(Room!ServerMsg)] /\ <<>> \in Seq(Room!ServerMsg)
      /\ toClient' = [d \in Client |-> IF d \in linked THEN toClient[d] \o Posted(d) ELSE <<>>]
  BY DEF TypeOK, Deliver
<1>2. ASSUME NEW d \in Client
      PROVE  /\ Posted(d) \in Seq(Room!ServerMsg)
             /\ \A i \in 1 .. Len(Posted(d)) :
                    \E k \in 1 .. Len(posts') : Posted(d)[i] = posts'[k].msg
  BY PostedType
<1>3. ASSUME NEW d \in Client, d \in linked
      PROVE  /\ toClient'[d] = toClient[d] \o Posted(d)
             /\ toClient'[d] \in Seq(Room!ServerMsg)
             /\ \A m \in InFlight(d)' :
                    m \in InFlight(d) \/ \E k \in 1 .. Len(posts') : m = posts'[k].msg
  <2> DEFINE a == toClient[d]
             b == Posted(d)
  <2>1. a \in Seq(Room!ServerMsg) /\ b \in Seq(Room!ServerMsg) /\ toClient'[d] = a \o b
    BY <1>1, <1>2, <1>3
  <2>2. \A i \in 1 .. Len(b) : \E k \in 1 .. Len(posts') : b[i] = posts'[k].msg
    BY <1>2
  <2> HIDE DEF a, b
  <2>3. /\ a \o b \in Seq(Room!ServerMsg)
        /\ \A i \in 1 .. Len(a \o b) :
               \/ i \in 1 .. Len(a) /\ (a \o b)[i] = a[i]
               \/ i - Len(a) \in 1 .. Len(b) /\ (a \o b)[i] = b[i - Len(a)]
    BY <2>1, ConcatType
  <2>4. InFlight(d) = {a[i] : i \in 1 .. Len(a)}
    BY DEF InFlight, a
  <2>5. InFlight(d)' = {(a \o b)[i] : i \in 1 .. Len(a \o b)}
    BY <2>1 DEF InFlight
  <2>6. \A i \in 1 .. Len(a \o b) :
            (a \o b)[i] \in InFlight(d) \/ \E k \in 1 .. Len(posts') : (a \o b)[i] = posts'[k].msg
    BY <2>2, <2>3, <2>4
  <2>7. toClient'[d] = toClient[d] \o Posted(d)
    BY <2>1 DEF a, b
  <2>8. \A m \in InFlight(d)' :
            m \in InFlight(d) \/ \E k \in 1 .. Len(posts') : m = posts'[k].msg
    BY <2>5, <2>6
  <2>9. toClient'[d] \in Seq(Room!ServerMsg)
    BY <2>1, <2>3
  <2> QED
    BY <2>7, <2>8, <2>9
<1>4. ASSUME NEW d \in Client, d \notin linked
      PROVE  toClient'[d] = <<>> /\ InFlight(d)' = {}
  BY <1>1, <1>4 DEF InFlight
<1>5. toClient' \in [Client -> Seq(Room!ServerMsg)]
  BY <1>1, <1>3, <1>4
<1>6. Len(<<>>) = 0
  OBVIOUS
<1> QED
  BY <1>3, <1>4, <1>5, <1>6

-----------------------------------------------------------------------------
(* Counting.                                                                 *)

LEMMA TwoPlayersAreTwo ==
    ASSUME IsFiniteSet(room), Room!TwoPlayers
    PROVE  \E d, e \in room : d # e
<1>1. Cardinality(room) = 2
  BY DEF Room!TwoPlayers, Cardinality, Room!Cardinality
<1>2. room # {}
  BY <1>1, FS_EmptySet
<1>3. PICK d \in room : TRUE
  BY <1>2
<1>4. IsFiniteSet(room \ {d}) /\ Cardinality(room \ {d}) = 1
  BY <1>1, <1>3, FS_RemoveElement
<1>5. room \ {d} # {}
  BY <1>4, FS_EmptySet
<1> QED
  BY <1>3, <1>5

(* Two sessions that have begun and a third that begins are three.             *)
LEMMA ThreeAreMany ==
    ASSUME NEW S, IsFiniteSet(S), NEW a \in S, NEW b \in S, NEW c \in S,
           a # b, a # c, b # c
    PROVE  ~(Cardinality(S) <= 2)
<1>1. /\ IsFiniteSet(S \ {a}) /\ Cardinality(S \ {a}) = Cardinality(S) - 1
      /\ Cardinality(S) \in Nat
  BY FS_RemoveElement, FS_CardinalityType
<1>2. /\ IsFiniteSet((S \ {a}) \ {b})
      /\ Cardinality((S \ {a}) \ {b}) = Cardinality(S \ {a}) - 1
  BY <1>1, FS_RemoveElement
<1>3. /\ Cardinality((S \ {a}) \ {b}) \in Nat
      /\ Cardinality((S \ {a}) \ {b}) # 0
  BY <1>2, FS_CardinalityType, FS_EmptySet
<1> QED
  BY <1>1, <1>2, <1>3

-----------------------------------------------------------------------------
(* What a step of a client, or of the server that posts nothing, keeps.         *)

LEMMA QuietStep ==
    ASSUME IInv, UNCHANGED <<room, departed, starting, registered>>, up' => up,
           \A d \in Client : InFlight(d)' \subseteq InFlight(d),
           \A d \in Client : Gone(d) => Gone(d)',
           \A d \in Client : screen'[d] = "title" => screen[d] = "title",
           \A d \in Client : "Client_UnregisterWithServer" \in Sent(d)' => Gone(d)',
           up' => \A d \in Client \ alive' : screen'[d] = "title" \/ Gone(d)',
           \A d \in Client : d \in queued' \/ screen'[d] = "play" =>
               \/ d \in queued \/ screen[d] = "play" \/ Ordered(d),
           \A d \in remoteOver' : d \in remoteOver \/ \E e \in departed : e # d,
           remoteOver' \subseteq Client, deq' \cup linked' \subseteq Begun', IsFiniteSet(Begun')
    PROVE  StartInv' /\ GoneInv' /\ VerdictInv' /\ BegunInv'
<1>1. StartInv /\ GoneInv /\ VerdictInv /\ BegunInv /\ departed \subseteq Client
  BY DEF IInv, TypeOK
<1>2. \A d \in Client : Ordered(d)' => Ordered(d)
  BY DEF Ordered
<1>3. Two' = Two
  BY DEF Two
<1>4. StartInv'
  BY <1>1, <1>2, <1>3 DEF StartInv
<1>5. GoneInv'
  BY <1>1 DEF GoneInv
<1>6. VerdictInv'
  <2>1. \A d \in Client : \A m \in InFlight(d)' :
            m.type = "Server_GameOver" => m.loser \in departed' /\ m.winner # m.loser
    BY <1>1 DEF VerdictInv
  <2>2. \A d \in remoteOver' : \E e \in departed' : e # d
    BY <1>1 DEF VerdictInv
  <2> QED
    BY <2>1, <2>2 DEF VerdictInv
<1>7. Begun \subseteq Begun'
  BY DEF Begun
<1>8. BegunInv'
  BY <1>1, <1>7 DEF BegunInv
<1> QED
  BY <1>4, <1>5, <1>6, <1>8

(* What a handler of the server keeps: the clients only get messages, each from  *)
(* the posts of the step.                                                    *)
LEMMA HandlerKeeps ==
    ASSUME IInv, UNCHANGED <<screen, linked, queued, remoteOver, up, alive, deq>>,
           \A d \in Client : \A m \in InFlight(d)' :
               m \in InFlight(d) \/ \E k \in 1 .. Len(posts') : m = posts'[k].msg,
           \A d \in Client : Sent(d)' \subseteq Sent(d),
           registered \subseteq registered', departed \subseteq departed',
           departed' \subseteq Client, \A d \in departed' \ departed : Gone(d),
           room' \subseteq registered', registered' \subseteq Begun, IsFiniteSet(room'),
           starting' => Two',
           \A k \in 1 .. Len(posts') : posts'[k].msg.type = "Server_AllPlayersReady" => Two',
           \A k \in 1 .. Len(posts') : posts'[k].msg.type = "Server_GameOver" =>
               posts'[k].msg.loser \in departed' /\ posts'[k].msg.winner # posts'[k].msg.loser
    PROVE  StartInv' /\ GoneInv' /\ VerdictInv' /\ BegunInv'
<1>1. StartInv /\ GoneInv /\ VerdictInv /\ BegunInv
  BY DEF IInv
<1>2. Two => Two'
  BY DEF Two
<1>3. \A d \in Client : Ordered(d)' => Ordered(d) \/ Two'
  BY DEF Ordered
<1>4. StartInv'
  BY <1>1, <1>2, <1>3 DEF StartInv
<1>5. \A d \in Client : Gone(d)' = Gone(d)
  BY DEF Gone
<1>6. GoneInv'
  BY <1>1, <1>5 DEF GoneInv
<1>7. VerdictInv'
  <2>1. ASSUME NEW d \in Client, NEW m \in InFlight(d)', m.type = "Server_GameOver"
        PROVE  m.loser \in departed' /\ m.winner # m.loser
    <3>1. CASE m \in InFlight(d)
      BY <1>1, <2>1, <3>1 DEF VerdictInv
    <3>2. CASE \E k \in 1 .. Len(posts') : m = posts'[k].msg
      BY <2>1, <3>2
    <3> QED
      BY <3>1, <3>2
  <2>2. \A d \in remoteOver' : \E e \in departed' : e # d
    BY <1>1 DEF VerdictInv
  <2> QED
    BY <2>1, <2>2 DEF VerdictInv
<1>8. Begun' = Begun
  BY DEF Begun
<1>9. BegunInv'
  BY <1>1, <1>8 DEF BegunInv
<1> QED
  BY <1>4, <1>6, <1>7, <1>9

-----------------------------------------------------------------------------
(* How a step keeps the seed ahead of the order to start, session by session.   *)

LEMMA SeedSame ==
    ASSUME NEW d, Seeded(d), toClient'[d] = toClient[d], seed'[d] = seed[d],
           starting' /\ d \in Listeners' \cap linked' => starting /\ d \in Listeners \cap linked,
           d \in queued' \/ screen'[d] = "play" => d \in queued \/ screen[d] = "play"
    PROVE  Seeded(d)'
<1>1. \A i : SeedAhead(d, i)' = SeedAhead(d, i)
  BY DEF SeedAhead
<1> QED
  BY <1>1 DEF Seeded

LEMMA SeedDropped ==
    ASSUME NEW d, Seeded(d), Len(toClient'[d]) = 0, d \notin linked', seed'[d] = seed[d],
           d \in queued' \/ screen'[d] = "play" => d \in queued \/ screen[d] = "play"
    PROVE  Seeded(d)'
  BY DEF Seeded

(* The first message is taken: it is not the seed, or there is a seed now.       *)
LEMMA SeedTaken ==
    ASSUME NEW d, Seeded(d), Len(toClient[d]) \in Nat \ {0},
           Len(toClient'[d]) = Len(toClient[d]) - 1,
           \A i \in 1 .. Len(toClient'[d]) : toClient'[d][i] = toClient[d][i + 1],
           \/ seed'[d] # NoSeed
           \/ seed'[d] = seed[d] /\ toClient[d][1].type # "Game_SendBagSeed",
           starting' /\ d \in Listeners' \cap linked' => starting /\ d \in Listeners \cap linked,
           d \in queued' \/ screen'[d] = "play" =>
               \/ d \in queued \/ screen[d] = "play"
               \/ toClient[d][1].type = "Server_AllPlayersReady"
    PROVE  Seeded(d)'
<1>1. CASE seed'[d] # NoSeed
  BY <1>1 DEF Seeded, SeedAhead
<1>2. CASE seed'[d] = seed[d] /\ toClient[d][1].type # "Game_SendBagSeed"
  <2>1. ASSUME NEW i \in 1 .. Len(toClient[d]), SeedAhead(d, i + 1)
        PROVE  SeedAhead(d, i)'
    <3>1. CASE seed[d] # NoSeed
      BY <1>2, <3>1 DEF SeedAhead
    <3>2. CASE \E j \in 1 .. Len(toClient[d]) : j < i + 1 /\ toClient[d][j].type = "Game_SendBagSeed"
      <4>1. PICK j \in 1 .. Len(toClient[d]) : j < i + 1 /\ toClient[d][j].type = "Game_SendBagSeed"
        BY <3>2
      <4>2. j # 1
        BY <1>2, <4>1
      <4>3. j - 1 \in 1 .. Len(toClient'[d]) /\ j - 1 < i /\ (j - 1) + 1 = j
        BY <4>1, <4>2
      <4>4. toClient'[d][j - 1] = toClient[d][j]
        BY <4>3
      <4> QED
        BY <4>1, <4>3, <4>4 DEF SeedAhead
    <3> QED
      BY <2>1, <3>1, <3>2 DEF SeedAhead
  <2>2. starting' /\ d \in Listeners' \cap linked' => SeedAhead(d, Len(toClient[d]) + 1)'
    <3> SUFFICES ASSUME starting', d \in Listeners' \cap linked'
                 PROVE  SeedAhead(d, Len(toClient[d]) + 1)'
      OBVIOUS
    <3>1. SeedAhead(d, Len(toClient[d]) + 1)
      BY DEF Seeded
    <3>2. Len(toClient[d]) \in 1 .. Len(toClient[d]) /\ Len(toClient[d]) = Len(toClient'[d]) + 1
      OBVIOUS
    <3>3. ASSUME NEW n, n = Len(toClient[d]) PROVE SeedAhead(d, n)'
      BY <2>1, <3>1, <3>2, <3>3
    <3> QED
      BY <3>2, <3>3 DEF SeedAhead
  <2>3. ASSUME NEW i \in 1 .. Len(toClient'[d]), toClient'[d][i].type = "Server_AllPlayersReady"
        PROVE  SeedAhead(d, i)'
    <3>1. i \in 1 .. Len(toClient[d]) /\ i + 1 \in 1 .. Len(toClient[d])
      OBVIOUS
    <3>2. toClient[d][i + 1].type = "Server_AllPlayersReady"
      BY <2>3
    <3> QED
      BY <2>1, <3>1, <3>2 DEF Seeded
  <2>4. d \in queued' \/ screen'[d] = "play" => seed'[d] # NoSeed
    <3>1. CASE d \in queued \/ screen[d] = "play"
      BY <1>2, <3>1 DEF Seeded
    <3>2. CASE toClient[d][1].type = "Server_AllPlayersReady"
      <4>1. SeedAhead(d, 1)
        BY <3>2 DEF Seeded
      <4>2. \A j \in 1 .. Len(toClient[d]) : ~(j < 1)
        OBVIOUS
      <4> QED
        BY <1>2, <4>1, <4>2 DEF SeedAhead
    <3> QED
      BY <3>1, <3>2
  <2> QED
    BY <2>2, <2>3, <2>4 DEF Seeded
<1> QED
  BY <1>1, <1>2

(* Messages are put at the end: the order to start comes to a listener to whom  *)
(* the seed was sent.                                                        *)
LEMMA SeedPosted ==
    ASSUME NEW S, NEW d, Seeded(d), NEW p \in Seq(S), toClient[d] \in Seq(S),
           toClient'[d] = toClient[d] \o p, seed'[d] = seed[d],
           d \in queued' \/ screen'[d] = "play" => d \in queued \/ screen[d] = "play",
           \A i \in 1 .. Len(p) : p[i].type = "Server_AllPlayersReady" =>
               starting /\ d \in Listeners \cap linked,
           starting' /\ d \in Listeners' \cap linked' =>
               \/ starting /\ d \in Listeners \cap linked
               \/ \E i \in 1 .. Len(p) : p[i].type = "Game_SendBagSeed"
    PROVE  Seeded(d)'
<1> DEFINE a == toClient[d]
<1>1. /\ a \o p \in Seq(S) /\ Len(a) \in Nat /\ Len(p) \in Nat
      /\ Len(a \o p) = Len(a) + Len(p)
      /\ \A i \in 1 .. Len(a) : (a \o p)[i] = a[i]
      /\ \A i \in 1 .. Len(p) : (a \o p)[Len(a) + i] = p[i]
      /\ \A i \in 1 .. Len(a \o p) :
             \/ i \in 1 .. Len(a) /\ (a \o p)[i] = a[i]
             \/ i - Len(a) \in 1 .. Len(p) /\ (a \o p)[i] = p[i - Len(a)]
  BY ConcatType
<1>2. toClient'[d] = a \o p /\ toClient[d] = a
  OBVIOUS
<1> HIDE DEF a
(* What was ahead of a message is ahead of it still, and of all that is behind.   *)
<1>3. ASSUME NEW i \in Nat, NEW k \in Nat, i <= Len(a) + 1, i <= k, SeedAhead(d, i)
      PROVE  SeedAhead(d, k)'
  <2>1. CASE seed[d] # NoSeed
    BY <2>1 DEF SeedAhead
  <2>2. CASE \E j \in 1 .. Len(a) : j < i /\ a[j].type = "Game_SendBagSeed"
    <3>1. PICK j \in 1 .. Len(a) : j < i /\ a[j].type = "Game_SendBagSeed"
      BY <2>2
    <3>2. j \in 1 .. Len(a \o p) /\ j < k /\ (a \o p)[j] = a[j]
      BY <1>1, <1>3, <3>1
    <3> QED
      BY <1>2, <3>1, <3>2 DEF SeedAhead
  <2> QED
    BY <1>2, <1>3, <2>1, <2>2 DEF SeedAhead
<1>4. starting /\ d \in Listeners \cap linked => SeedAhead(d, Len(a) + 1)
  BY <1>2 DEF Seeded
<1>5. ASSUME NEW i \in 1 .. Len(a \o p), (a \o p)[i].type = "Server_AllPlayersReady"
      PROVE  SeedAhead(d, i)'
  <2>1. CASE i \in 1 .. Len(a) /\ (a \o p)[i] = a[i]
    <3>1. SeedAhead(d, i)
      BY <1>2, <1>5, <2>1 DEF Seeded
    <3>2. i \in Nat /\ i <= Len(a) + 1 /\ i <= i
      BY <1>1, <2>1
    <3> QED
      BY <1>3, <3>1, <3>2
  <2>2. CASE i - Len(a) \in 1 .. Len(p) /\ (a \o p)[i] = p[i - Len(a)]
    <3>1. SeedAhead(d, Len(a) + 1)
      BY <1>4, <1>5, <2>2
    <3>2. i \in Nat /\ Len(a) + 1 \in Nat /\ Len(a) + 1 <= Len(a) + 1 /\ Len(a) + 1 <= i
      BY <1>1, <2>2
    <3> QED
      BY <1>3, <3>1, <3>2
  <2> QED
    BY <1>1, <2>1, <2>2
<1>6. ASSUME starting', d \in Listeners' \cap linked'
      PROVE  SeedAhead(d, Len(toClient[d]) + 1)'
  <2>1. CASE starting /\ d \in Listeners \cap linked
    <3>1. /\ Len(a) + 1 \in Nat /\ Len(a \o p) + 1 \in Nat
          /\ Len(a) + 1 <= Len(a) + 1 /\ Len(a) + 1 <= Len(a \o p) + 1
      BY <1>1
    <3>2. ASSUME NEW k, k = Len(a \o p) + 1 PROVE SeedAhead(d, k)'
      BY <1>3, <1>4, <2>1, <3>1, <3>2
    <3> QED
      BY <1>2, <3>2 DEF SeedAhead
  <2>2. CASE \E i \in 1 .. Len(p) : p[i].type = "Game_SendBagSeed"
    <3>1. PICK i \in 1 .. Len(p) : p[i].type = "Game_SendBagSeed"
      BY <2>2
    <3>2. /\ Len(a) + i \in 1 .. Len(a \o p) /\ Len(a) + i < Len(a \o p) + 1
          /\ (a \o p)[Len(a) + i] = p[i]
      BY <1>1
    <3> QED
      BY <1>2, <3>1, <3>2 DEF SeedAhead
  <2> QED
    BY <1>6, <2>1, <2>2
<1>7. d \in queued' \/ screen'[d] = "play" => seed'[d] # NoSeed
  BY DEF Seeded
<1> QED
  BY <1>2, <1>5, <1>6, <1>7 DEF Seeded

LEMMA SeedInvStep ==
    ASSUME IInv, Begun \subseteq Begun', IsFiniteSet(Begun'),
           \A d \in Client : Seeded(d) => Seeded(d)'
    PROVE  SeedInv'
<1>1. /\ IsFiniteSet(Begun) /\ Cardinality(Begun) <= Cardinality(Begun')
      /\ Cardinality(Begun) \in Nat /\ Cardinality(Begun') \in Nat
  BY FS_Subset, FS_CardinalityType
<1>2. Cardinality(Begun') <= 2 => Cardinality(Begun) <= 2
  BY <1>1
<1> QED
  BY <1>2 DEF SeedInv, IInv

-----------------------------------------------------------------------------
(* The handlers of the server.                                               *)

LEMMA DeliverStep ==
    ASSUME IInv, NEW c \in Client, Deliver(c), posts' \in Seq(Room!Posts), Len(posts') <= 2,
           UNCHANGED <<up, deq, alive, clientVars>>,
           toServer' \in [Client -> Seq(ClientMsg)],
           \A d \in Client : Sent(d)' \subseteq Sent(d),
           members' \subseteq Client, greeted' \subseteq Client, starting' \in BOOLEAN,
           registered \subseteq registered', departed \subseteq departed',
           departed' \subseteq Client, \A d \in departed' \ departed : Gone(d),
           room' \subseteq registered', registered' \subseteq Begun, IsFiniteSet(room'),
           \A k \in 1 .. Len(posts') :
               /\ posts'[k].msg.type = "Server_AllPlayersReady" => starting
               /\ posts'[k].msg.type = "Server_GameOver" =>
                      posts'[k].msg.loser \in departed' /\ posts'[k].msg.winner # posts'[k].msg.loser,
           starting' => Two' /\ (starting \/ \E k \in 1 .. Len(posts') :
                                                posts'[k].msg.type = "Game_SendBagSeed")
    PROVE  IInv'
<1>0. UNCHANGED <<screen, linked, responded, named, queued, seed, localOver, remoteOver, waiting,
                  broke, relays>>
  BY DEF clientVars, joinVars, playVars
<1>1. TypeOK /\ StartInv /\ toClient \in [Client -> Seq(Room!ServerMsg)]
  BY DEF IInv, TypeOK
<1>2. /\ toClient' \in [Client -> Seq(Room!ServerMsg)]
      /\ \A d \in Client : \A m \in InFlight(d)' :
             m \in InFlight(d) \/ \E k \in 1 .. Len(posts') : m = posts'[k].msg
      /\ \A d \in Client : d \in linked => toClient'[d] = toClient[d] \o Posted(d)
      /\ \A d \in Client \ linked : Len(toClient'[d]) = 0
  BY <1>1, DeliverType
<1>3. room' \subseteq Client /\ registered' \subseteq Client
  BY DEF Begun
<1>4. TypeOK'
  BY <1>0, <1>1, <1>2, <1>3 DEF TypeOK
<1>5. starting => Two'
  BY <1>1 DEF StartInv, Two
<1>6. StartInv' /\ GoneInv' /\ VerdictInv' /\ BegunInv'
  BY <1>0, <1>2, <1>5, HandlerKeeps
<1>7. \A k \in 1 .. Len(posts') :
          posts'[k].msg.type \in {"Server_AllPlayersReady", "Game_SendBagSeed"} =>
              posts'[k].to = Listeners
  BY DEF Deliver, Reach
<1>8. ASSUME NEW d \in Client, Seeded(d) PROVE Seeded(d)'
  <2>1. CASE d \in linked
    <3>1. /\ Posted(d) \in Seq(Room!ServerMsg)
          /\ \A i \in 1 .. Len(Posted(d)) : \E k \in 1 .. Len(posts') :
                 d \in posts'[k].to /\ Posted(d)[i] = posts'[k].msg
          /\ \A k \in 1 .. Len(posts') : d \in posts'[k].to =>
                 \E i \in 1 .. Len(Posted(d)) : Posted(d)[i] = posts'[k].msg
      BY PostedType
    <3> DEFINE p == Posted(d)
    <3>2. p \in Seq(Room!ServerMsg) /\ toClient'[d] = toClient[d] \o p
          /\ toClient[d] \in Seq(Room!ServerMsg)
      BY <1>1, <1>2, <2>1, <3>1
    <3>3. ASSUME NEW i \in 1 .. Len(p), p[i].type = "Server_AllPlayersReady"
          PROVE  starting /\ d \in Listeners \cap linked
      <4>1. PICK k \in 1 .. Len(posts') : d \in posts'[k].to /\ p[i] = posts'[k].msg
        BY <3>1
      <4> QED
        BY <1>7, <2>1, <3>3, <4>1
    <3>4. ASSUME starting', d \in Listeners' \cap linked', ~starting
          PROVE  \E i \in 1 .. Len(p) : p[i].type = "Game_SendBagSeed"
      <4>1. PICK k \in 1 .. Len(posts') : posts'[k].msg.type = "Game_SendBagSeed"
        BY <3>4
      <4>2. d \in Listeners
        BY <3>4 DEF Listeners
      <4>3. d \in posts'[k].to
        BY <1>7, <4>1, <4>2
      <4>4. PICK i \in 1 .. Len(p) : p[i] = posts'[k].msg
        BY <3>1, <4>3
      <4> QED
        BY <4>1, <4>4
    <3>5. d \in Listeners' \cap linked' => d \in Listeners \cap linked
      BY <1>0 DEF Listeners
    <3> HIDE DEF p
    <3> QED
      BY <1>0, <1>8, <3>2, <3>3, <3>4, <3>5, SeedPosted
  <2>2. CASE d \notin linked
    BY <1>0, <1>2, <1>8, <2>2, SeedDropped
  <2> QED
    BY <2>1, <2>2
<1>9. Begun' = Begun /\ IsFiniteSet(Begun)
  BY <1>0 DEF Begun, IInv, BegunInv
<1>10. SeedInv'
  BY <1>8, <1>9, SeedInvStep
<1> QED
  BY <1>4, <1>6, <1>10 DEF IInv

LEMMA OnePost ==
    ASSUME NEW to \in SUBSET Client, NEW m \in Room!ServerMsg, posts' = <<Room!Post(to, m)>>
    PROVE  /\ posts' \in Seq(Room!Posts) /\ Len(posts') <= 2
           /\ \A k \in 1 .. Len(posts') : posts'[k].msg = m
           /\ 1 \in 1 .. Len(posts')
<1> DEFINE p == Room!Post(to, m)
<1>1. p \in Room!Posts /\ p.msg = m
  BY PostType
<1> HIDE DEF p
<1>2. posts' = <<p>>
  BY DEF p
<1> QED
  BY <1>1, <1>2

LEMMA TwoPosts ==
    ASSUME NEW to1 \in SUBSET Client, NEW m1 \in Room!ServerMsg,
           NEW to2 \in SUBSET Client, NEW m2 \in Room!ServerMsg,
           posts' = <<Room!Post(to1, m1), Room!Post(to2, m2)>>
    PROVE  /\ posts' \in Seq(Room!Posts) /\ Len(posts') <= 2
           /\ \A k \in 1 .. Len(posts') : posts'[k].msg \in {m1, m2}
           /\ 2 \in 1 .. Len(posts') /\ posts'[2].msg = m2
<1> DEFINE p == Room!Post(to1, m1)
           q == Room!Post(to2, m2)
<1>1. p \in Room!Posts /\ p.msg = m1 /\ q \in Room!Posts /\ q.msg = m2
  BY PostType
<1> HIDE DEF p, q
<1>2. posts' = <<p, q>>
  BY DEF p, q
<1> QED
  BY <1>1, <1>2

LEMMA NoPost == posts' = <<>> => posts' \in Seq(Room!Posts) /\ Len(posts') = 0
  OBVIOUS

LEMMA MsgFacts ==
    /\ \A t : Room!Signal(t).type = t
    /\ \A s : Room!BagSeed(s).type = "Game_SendBagSeed" /\ Room!BagSeed(s).seed = s
    /\ \A w, l : /\ Room!GameOver(w, l).type = "Server_GameOver"
                 /\ Room!GameOver(w, l).winner = w /\ Room!GameOver(w, l).loser = l
  BY DEF Room!Signal, Room!BagSeed, Room!GameOver

LEMMA InvFacts ==
    ASSUME IInv
    PROVE  /\ TypeOK /\ StartInv /\ GoneInv /\ IsFiniteSet(room)
           /\ room \subseteq registered /\ registered \subseteq Begun
           /\ room \subseteq Client /\ departed \subseteq Client /\ deq \subseteq Begun
           /\ Listeners \in SUBSET Client /\ greeted \subseteq Client /\ members \subseteq Client
           /\ starting \in BOOLEAN
           /\ toServer \in [Client -> Seq(ClientMsg)]
  BY DEF IInv, BegunInv, TypeOK, Listeners

LEMMA SentSame == UNCHANGED toServer => \A d \in Client : Sent(d)' = Sent(d)
  BY DEF Sent

LEMMA GreetStep ==
    ASSUME IInv, NEW c \in Client, Greet(c)
    PROVE  IInv'
<1>1. /\ UNCHANGED <<up, deq, alive, clientVars, toServer, members, room, departed,
                     starting, registered>>
      /\ greeted' = greeted \cup {c} /\ Deliver(c) /\ Len(posts') = 1
      /\ posts'[1].msg = Room!Signal("Client_Accepted")
  BY DEF Greet, Room!Serve
<1>2. PICK to \in SUBSET Client, t \in {"Client_Accepted", "Server_Ping"} :
          posts' = <<Room!Post(to, Room!Signal(t))>>
  <2>1. posts' # <<>>
    BY <1>1
  <2>2. \E to \in Room!Audience, t \in {"Client_Accepted", "Server_Ping"} :
            posts' = <<Room!Post(to, Room!Signal(t))>>
    BY <2>1 DEF Greet, Room!Serve
  <2>3. Room!Audience \subseteq SUBSET Client
    BY DEF Room!Audience
  <2> QED
    BY <2>2, <2>3
<1>3. Room!Signal(t) \in Room!ServerMsg
  BY ServerMsgs DEF Room!Signals
<1>4. /\ posts' \in Seq(Room!Posts) /\ Len(posts') <= 2
      /\ \A k \in 1 .. Len(posts') : posts'[k].msg.type = t
  BY <1>2, <1>3, OnePost, MsgFacts
<1>5. starting' => Two'
  BY <1>1, InvFacts DEF StartInv, Two
<1> QED
  BY <1>1, <1>4, <1>5, InvFacts, SentSame, DeliverStep

LEMMA RegisterStep ==
    ASSUME IInv, NEW c \in Client, RegisterWithServer(c)
    PROVE  IInv'
<1>1. /\ UNCHANGED <<up, greeted, deq, alive, clientVars, members, departed, starting>>
      /\ room' = room \cup {c} /\ registered' = registered \cup {c} /\ ~starting
      /\ Deliver(c) /\ c \in deq
      /\ TakeMessage(c, "Client_RegisterWithServer")
  BY DEF RegisterWithServer, Room!Register, connVars, TakeMessage
<1>2. PICK to \in SUBSET {c} : posts' = <<Room!Post(to, Room!Signal("Client_AssignID"))>>
  BY DEF RegisterWithServer, Room!Register
<1>3. Room!Signal("Client_AssignID") \in Room!ServerMsg /\ to \in SUBSET Client
  BY ServerMsgs DEF Room!Signals
<1>4. /\ posts' \in Seq(Room!Posts) /\ Len(posts') <= 2
      /\ \A k \in 1 .. Len(posts') : posts'[k].msg.type = "Client_AssignID"
  BY <1>2, <1>3, OnePost, MsgFacts
<1>5. IsFiniteSet(room') /\ room' \subseteq Begun
  BY <1>1, InvFacts, FS_AddElement
<1>6. toServer' \in [Client -> Seq(ClientMsg)] /\ \A d \in Client : Sent(d)' \subseteq Sent(d)
  BY <1>1, InvFacts, TakeType
<1> QED
  BY <1>1, <1>4, <1>5, <1>6, InvFacts, DeliverStep

LEMMA JoinStep ==
    ASSUME IInv, NEW c \in Client, RequestRoomJoin(c)
    PROVE  IInv'
<1>1. /\ UNCHANGED <<up, greeted, deq, alive, clientVars, members, room, departed, registered>>
      /\ starting' = Room!TwoPlayers /\ ~starting /\ Deliver(c)
      /\ TakeMessage(c, "Client_RequestRoomJoin")
  BY DEF RequestRoomJoin, Room!RequestRoomJoin, connVars
<1> DEFINE accepted(to) == Room!Post(to, Room!Signal("Server_RoomJoinAccepted"))
<1>2. PICK to \in SUBSET Client, all \in SUBSET Client, s \in Seed :
          posts' = IF Room!TwoPlayers THEN <<accepted(to), Room!Post(all, Room!BagSeed(s))>>
                                      ELSE <<accepted(to)>>
  BY DEF RequestRoomJoin, Room!RequestRoomJoin, Room!Audience
<1>3. /\ Room!Signal("Server_RoomJoinAccepted") \in Room!ServerMsg
      /\ Room!BagSeed(s) \in Room!ServerMsg
  BY ServerMsgs DEF Room!Signals
<1>4. /\ posts' \in Seq(Room!Posts) /\ Len(posts') <= 2
      /\ \A k \in 1 .. Len(posts') :
             posts'[k].msg.type \in {"Server_RoomJoinAccepted", "Game_SendBagSeed"}
      /\ starting' => Two' /\ \E k \in 1 .. Len(posts') : posts'[k].msg.type = "Game_SendBagSeed"
  <2>1. CASE Room!TwoPlayers
    <3>1. /\ posts' \in Seq(Room!Posts) /\ Len(posts') <= 2
          /\ \A k \in 1 .. Len(posts') : posts'[k].msg \in {Room!Signal("Server_RoomJoinAccepted"),
                                                            Room!BagSeed(s)}
          /\ 2 \in 1 .. Len(posts') /\ posts'[2].msg = Room!BagSeed(s)
      BY <1>2, <1>3, <2>1, TwoPosts
    <3>2. Two'
      BY <1>1, <2>1, InvFacts, TwoPlayersAreTwo DEF Two
    <3> QED
      BY <3>1, <3>2, MsgFacts
  <2>2. CASE ~Room!TwoPlayers
    <3>1. /\ posts' \in Seq(Room!Posts) /\ Len(posts') <= 2
          /\ \A k \in 1 .. Len(posts') : posts'[k].msg = Room!Signal("Server_RoomJoinAccepted")
      BY <1>2, <1>3, <2>2, OnePost
    <3> QED
      BY <1>1, <2>2, <3>1, MsgFacts
  <2> QED
    BY <2>1, <2>2
<1>5. starting' \in BOOLEAN
  BY <1>1 DEF Room!TwoPlayers
<1>6. toServer' \in [Client -> Seq(ClientMsg)] /\ \A d \in Client : Sent(d)' \subseteq Sent(d)
  BY <1>1, InvFacts, TakeType
<1> QED
  BY <1>1, <1>4, <1>5, <1>6, InvFacts, DeliverStep

LEMMA ReadyStep ==
    ASSUME IInv, AllPlayersReady
    PROVE  IInv'
<1>1. /\ UNCHANGED <<up, greeted, deq, alive, clientVars, toServer, members, room, departed, registered>>
      /\ starting' = FALSE /\ starting
  BY DEF AllPlayersReady, Room!AllPlayersReady, connVars
<1>2. PICK c \in Client : Deliver(c)
  BY DEF AllPlayersReady
<1>3. PICK all \in SUBSET Client : posts' = <<Room!Post(all, Room!Signal("Server_AllPlayersReady"))>>
  BY DEF AllPlayersReady, Room!AllPlayersReady, Room!Audience
<1>4. Room!Signal("Server_AllPlayersReady") \in Room!ServerMsg
  BY ServerMsgs DEF Room!Signals
<1>5. /\ posts' \in Seq(Room!Posts) /\ Len(posts') <= 2
      /\ \A k \in 1 .. Len(posts') : posts'[k].msg.type = "Server_AllPlayersReady"
  BY <1>3, <1>4, OnePost, MsgFacts
<1> QED
  BY <1>1, <1>2, <1>5, InvFacts, SentSame, DeliverStep

LEMMA RelayStep ==
    ASSUME IInv, NEW c \in Client, RelayGameState(c)
    PROVE  IInv'
<1>1. /\ UNCHANGED <<up, greeted, deq, alive, clientVars, members, room, departed, starting,
                  registered>>
      /\ ~starting /\ Deliver(c) /\ TakeMessage(c, "Relay")
  BY DEF RelayGameState, Room!Relay, connVars
<1>2. PICK to \in SUBSET Client : posts' = <<Room!Post(to, Room!Signal("Relay"))>>
  BY DEF RelayGameState, Room!Relay, Room!Audience
<1>3. Room!Signal("Relay") \in Room!ServerMsg
  BY ServerMsgs DEF Room!Signals
<1>4. /\ posts' \in Seq(Room!Posts) /\ Len(posts') <= 2
      /\ \A k \in 1 .. Len(posts') : posts'[k].msg.type = "Relay"
  BY <1>2, <1>3, OnePost, MsgFacts
<1>5. toServer' \in [Client -> Seq(ClientMsg)] /\ \A d \in Client : Sent(d)' \subseteq Sent(d)
  BY <1>1, InvFacts, TakeType
<1> QED
  BY <1>1, <1>4, <1>5, InvFacts, DeliverStep

(* The departed was over or gone: the server no longer had its connection.       *)
LEMMA DepartStep ==
    ASSUME IInv, up, NEW c \in Client, HandleClientDisconnected(c)
    PROVE  IInv'
<1>1. /\ UNCHANGED <<up, greeted, deq, alive, clientVars, toServer, starting, registered>>
      /\ ~starting /\ Deliver(c) /\ Room!Verdict(c)
      /\ members' = members \ {c} /\ room' = room \ {c} /\ departed' = departed \cup {c}
  BY DEF HandleClientDisconnected, Room!Depart, connVars
<1>2. Gone(c)
  BY InvFacts DEF HandleClientDisconnected, GoneInv, TypeOK
<1>3. /\ posts' \in Seq(Room!Posts) /\ Len(posts') <= 2
      /\ \A k \in 1 .. Len(posts') : /\ posts'[k].msg.type = "Server_GameOver"
                                     /\ posts'[k].msg.loser = c /\ posts'[k].msg.winner # c
  <2>1. CASE Room!TwoPlayers
    <3>1. PICK to \in SUBSET Client, w \in room \ {c} : posts' = <<Room!Post(to, Room!GameOver(w, c))>>
      BY <1>1, <2>1 DEF Room!Verdict, Room!Audience
    <3>2. Room!GameOver(w, c) \in Room!ServerMsg
      BY ServerMsgs, InvFacts
    <3> QED
      BY <3>1, <3>2, OnePost, MsgFacts
  <2>2. CASE ~Room!TwoPlayers
    BY <1>1, <2>2, NoPost DEF Room!Verdict
  <2> QED
    BY <2>1, <2>2
<1>4. IsFiniteSet(room')
  BY <1>1, InvFacts, FS_RemoveElement
<1> QED
  BY <1>1, <1>2, <1>3, <1>4, InvFacts, SentSame, DeliverStep

-----------------------------------------------------------------------------
(* The steps of the server that post nothing: a connection that it gives up is   *)
(* that of a session which is over or gone.                                  *)
LEMMA ServerQuiet ==
    ASSUME IInv, UNCHANGED <<room, departed, starting, registered, greeted, toClient, clientVars>>,
           up' \in BOOLEAN, up' => up, members' \subseteq Client, posts' = <<>>,
           deq' \subseteq deq, alive' \subseteq alive, alive' \subseteq deq',
           toServer' \in [Client -> Seq(ClientMsg)],
           \A d \in Client : Sent(d)' \subseteq Sent(d),
           up' => \A d \in alive \ alive' : Gone(d)
    PROVE  IInv'
<1>0. UNCHANGED <<screen, linked, responded, named, queued, seed, localOver, remoteOver, waiting,
                  broke, relays>>
  BY DEF clientVars, joinVars, playVars
<1>1. TypeOK /\ GoneInv /\ BegunInv
  BY DEF IInv
<1>2. TypeOK'
  BY <1>0, <1>1, NoPost DEF TypeOK
<1>3. /\ \A d \in Client : InFlight(d)' = InFlight(d) /\ Gone(d)' = Gone(d)
      /\ Begun' = Begun /\ IsFiniteSet(Begun) /\ remoteOver \subseteq Client
      /\ deq \cup linked \subseteq Begun
  BY <1>0, <1>1 DEF InFlight, Gone, Begun, BegunInv, TypeOK
<1>4. \A d \in Client : "Client_UnregisterWithServer" \in Sent(d)' => Gone(d)'
  BY <1>1, <1>3 DEF GoneInv
<1>5. up' => \A d \in Client \ alive' : screen'[d] = "title" \/ Gone(d)'
  BY <1>0, <1>1, <1>3 DEF GoneInv
<1>6. \A d \in Client : d \in queued' \/ screen'[d] = "play" =>
          \/ d \in queued \/ screen[d] = "play" \/ Ordered(d)
  BY <1>0
<1>7. StartInv' /\ GoneInv' /\ VerdictInv' /\ BegunInv'
  BY <1>0, <1>3, <1>4, <1>5, <1>6, QuietStep
<1>8. ASSUME NEW d \in Client, Seeded(d) PROVE Seeded(d)'
  <2>1. starting' /\ d \in Listeners' \cap linked' => starting /\ d \in Listeners \cap linked
    BY <1>0 DEF Listeners
  <2> QED
    BY <1>0, <1>8, <2>1, SeedSame
<1>9. SeedInv'
  BY <1>3, <1>8, SeedInvStep
<1> QED
  BY <1>2, <1>7, <1>9 DEF IInv

LEMMA AdmitStep ==
    ASSUME IInv, NEW c \in Client, HandleClientValidated(c)
    PROVE  IInv'
<1>1. /\ UNCHANGED <<room, departed, starting, registered, up, greeted, deq, alive,
                     toServer, toClient, clientVars>>
      /\ members' = members \cup {c} /\ posts' = <<>>
  BY DEF HandleClientValidated, Room!Admit, connVars
<1>2. up \in BOOLEAN /\ alive \subseteq deq
  BY DEF IInv, TypeOK
<1> QED
  BY <1>1, <1>2, InvFacts, SentSame, ServerQuiet

LEMMA DisconnectStep ==
    ASSUME IInv, NEW c \in Client, Disconnect(c), Gone(c),
           toServer' \in [Client -> Seq(ClientMsg)],
           \A d \in Client : Sent(d)' \subseteq Sent(d)
    PROVE  IInv'
<1>1. /\ UNCHANGED <<members, room, departed, starting, registered, up, greeted, deq,
                     toClient, clientVars>>
      /\ alive' = alive \ {c} /\ posts' = <<>>
  BY DEF Disconnect, roomVars
<1>2. up \in BOOLEAN /\ alive \subseteq deq
  BY DEF IInv, TypeOK
<1> QED
  BY <1>1, <1>2, InvFacts, ServerQuiet

LEMMA SweepStep ==
    ASSUME IInv, NEW c \in Client, Sweep(c)
    PROVE  IInv'
<1>1. /\ UNCHANGED <<members, room, departed, starting, registered, up, greeted, alive,
                     toClient, clientVars>>
      /\ deq' = deq \ {c} /\ c \notin alive /\ posts' = <<>>
      /\ toServer' = [toServer EXCEPT ![c] = <<>>]
  BY DEF Sweep, roomVars
<1>2. up \in BOOLEAN /\ alive \subseteq deq
  BY DEF IInv, TypeOK
<1>3. toServer' \in [Client -> Seq(ClientMsg)] /\ \A d \in Client : Sent(d)' \subseteq Sent(d)
  BY <1>1, InvFacts, EmptiedType
<1> QED
  BY <1>1, <1>2, <1>3, InvFacts, ServerQuiet

LEMMA ServerEndsStep ==
    ASSUME IInv, ServerEnds
    PROVE  IInv'
<1>1. /\ UNCHANGED <<members, room, departed, starting, registered, greeted, toClient, clientVars>>
      /\ up' = FALSE /\ deq' = {} /\ alive' = {} /\ posts' = <<>>
      /\ toServer' = [d \in Client |-> <<>>]
  BY DEF ServerEnds, roomVars
<1>2. toServer' \in [Client -> Seq(ClientMsg)] /\ \A d \in Client : Sent(d)' \subseteq Sent(d)
  <2>1. <<>> \in Seq(ClientMsg) /\ Len(<<>>) = 0
    OBVIOUS
  <2> QED
    BY <1>1, <2>1 DEF Sent
<1> QED
  BY <1>1, <1>2, InvFacts, ServerQuiet

LEMMA ServerStepKeeps ==
    ASSUME IInv, ServerStep
    PROVE  IInv'
<1>0. up
  BY DEF ServerStep
<1>1. CASE AllPlayersReady
  BY <1>1, ReadyStep
<1>2. ASSUME NEW c \in Client, UnregisterWithServer(c) PROVE IInv'
  <2>1. TakeMessage(c, "Client_UnregisterWithServer") /\ Disconnect(c)
    BY <1>2 DEF UnregisterWithServer
  <2>2. /\ toServer' \in [Client -> Seq(ClientMsg)]
        /\ \A d \in Client : Sent(d)' \subseteq Sent(d)
        /\ "Client_UnregisterWithServer" \in Sent(c)
    BY <2>1, InvFacts, TakeType
  <2>3. Gone(c)
    BY <2>2, InvFacts DEF GoneInv
  <2> QED
    BY <2>1, <2>2, <2>3, DisconnectStep
<1>3. ASSUME NEW c \in Client, ReadFails(c) \/ PongTimeout(c) PROVE IInv'
  <2>1. Gone(c) /\ Disconnect(c) /\ UNCHANGED toServer
    BY <1>3 DEF ReadFails, PongTimeout, Gone
  <2> QED
    BY <2>1, InvFacts, SentSame, DisconnectStep
<1> QED
  BY <1>0, <1>1, <1>2, <1>3, GreetStep, AdmitStep, RegisterStep, JoinStep, RelayStep, SweepStep,
     DepartStep DEF ServerStep

-----------------------------------------------------------------------------
(* The steps of a session c that has begun: the server and the other sessions    *)
(* stay as they are.                                                         *)
LEMMA ClientQuiet ==
    ASSUME IInv, TypeOK', NEW c \in Client, NoServerStep,
           \A d \in Client \ {c} :
               /\ screen'[d] = screen[d] /\ toClient'[d] = toClient[d] /\ seed'[d] = seed[d]
               /\ d \in queued' => d \in queued
               /\ d \in linked' => d \in linked
               /\ d \in remoteOver' => d \in remoteOver,
           \A d \in Client : "Client_UnregisterWithServer" \in Sent(d)' =>
               "Client_UnregisterWithServer" \in Sent(d) \/ (d = c /\ Gone(c)'),
           InFlight(c)' \subseteq InFlight(c),
           screen[c] # "title", screen'[c] # "title", Gone(c) => Gone(c)',
           c \in queued' \/ screen'[c] = "play" =>
               \/ c \in queued \/ screen[c] = "play" \/ Ordered(c),
           c \in remoteOver' => c \in remoteOver \/ \E e \in departed : e # c,
           Seeded(c) => Seeded(c)'
    PROVE  IInv'
<1>1. /\ GoneInv /\ BegunInv
      /\ UNCHANGED <<members, room, departed, starting, registered, up, greeted, deq, alive>>
  BY DEF IInv, NoServerStep, roomVars, connVars
<1>2. /\ \A d \in Client : InFlight(d)' \subseteq InFlight(d)
      /\ \A d \in Client : Gone(d) => Gone(d)'
      /\ \A d \in Client : screen'[d] = "title" <=> screen[d] = "title"
  <2>1. \A d \in Client \ {c} : InFlight(d)' = InFlight(d)
    BY DEF InFlight
  <2>2. \A d \in Client \ {c} : Gone(d)' = Gone(d)
    BY DEF Gone
  <2> QED
    BY <2>1, <2>2
<1>3. Begun' = Begun /\ IsFiniteSet(Begun) /\ deq \cup linked' \subseteq Begun'
  <2>1. Begun' = Begun
    BY <1>2 DEF Begun
  <2>2. linked' \subseteq Client /\ c \in Begun'
    BY DEF Begun, TypeOK
  <2> QED
    BY <1>1, <2>1, <2>2 DEF BegunInv
<1>4. \A d \in Client : "Client_UnregisterWithServer" \in Sent(d)' => Gone(d)'
  BY <1>1, <1>2 DEF GoneInv
<1>5. up' => \A d \in Client \ alive' : screen'[d] = "title" \/ Gone(d)'
  BY <1>1, <1>2 DEF GoneInv
<1>6. /\ \A d \in Client : d \in queued' \/ screen'[d] = "play" =>
             \/ d \in queued \/ screen[d] = "play" \/ Ordered(d)
      /\ \A d \in remoteOver' : d \in remoteOver \/ \E e \in departed : e # d
      /\ remoteOver' \subseteq Client
  BY DEF TypeOK
<1>7. StartInv' /\ GoneInv' /\ VerdictInv' /\ BegunInv'
  BY <1>1, <1>2, <1>3, <1>4, <1>5, <1>6, QuietStep
<1>8. ASSUME NEW d \in Client \ {c}, Seeded(d) PROVE Seeded(d)'
  <2>1. starting' /\ d \in Listeners' \cap linked' => starting /\ d \in Listeners \cap linked
    BY <1>1 DEF Listeners
  <2> QED
    BY <1>8, <2>1, SeedSame
<1>9. SeedInv'
  BY <1>3, <1>8, SeedInvStep
<1> QED
  BY <1>7, <1>9 DEF IInv

(* A message is taken from the stream.                                         *)
LEMMA TakesKeeps ==
    ASSUME IInv, NEW c \in Client, NEW s \in {"join", "play"}, NEW t, ClientTakes(c, s, t),
           toServer' \in [Client -> Seq(ClientMsg)],
           \A d \in Client : \A x \in Sent(d)' :
               x \in Sent(d) \/ x # "Client_UnregisterWithServer",
           responded' \subseteq Client, named' \subseteq Client, broke' \subseteq Client,
           queued' \subseteq queued \cup {c},
           c \in queued' => c \in queued \/ t = "Server_AllPlayersReady",
           seed' \in [Client -> Seed \cup {NoSeed}],
           \A d \in Client \ {c} : seed'[d] = seed[d],
           \/ seed'[c] # NoSeed
           \/ seed'[c] = seed[c] /\ (t # "Game_SendBagSeed" \/ s = "play"),
           localOver' \subseteq Client, remoteOver' \subseteq remoteOver \cup {c},
           waiting' = waiting, waiting \subseteq localOver' \cup remoteOver',
           c \in remoteOver' => c \in remoteOver \/ \E e \in departed : e # c
    PROVE  IInv'
<1>1. /\ TypeOK /\ toClient[c] # <<>> /\ toClient' = [toClient EXCEPT ![c] = Tail(@)]
      /\ screen[c] = s /\ Head(toClient[c]).type = t /\ UNCHANGED <<screen, linked, relays>>
      /\ NoServerStep
  BY DEF IInv, ClientTakes
<1>2. UNCHANGED <<members, room, departed, starting, registered, up, greeted, deq,
                  alive>> /\ posts' = <<>>
  BY <1>1 DEF NoServerStep, roomVars, connVars
<1>3. /\ toClient' \in [Client -> Seq(Room!ServerMsg)]
      /\ \A d \in Client : InFlight(d)' \subseteq InFlight(d)
      /\ \A d \in Client \ {c} : toClient'[d] = toClient[d]
      /\ Len(toClient'[c]) = Len(toClient[c]) - 1 /\ Len(toClient[c]) \in Nat \ {0}
      /\ \A i \in 1 .. Len(toClient'[c]) :
             i + 1 \in 1 .. Len(toClient[c]) /\ toClient'[c][i] = toClient[c][i + 1]
      /\ Head(toClient[c]) = toClient[c][1] /\ Head(toClient[c]) \in InFlight(c)
  BY <1>1, TakesType
<1>4. TypeOK'
  BY <1>1, <1>2, <1>3, NoPost DEF TypeOK
<1>5. Gone(c)' = Gone(c) /\ screen[c] # "title"
  BY <1>1 DEF Gone
<1>6. t = "Server_AllPlayersReady" => Ordered(c)
  BY <1>1, <1>3 DEF Ordered
<1>7. ASSUME Seeded(c) PROVE Seeded(c)'
  <2>1. \/ seed'[c] # NoSeed
        \/ seed'[c] = seed[c] /\ toClient[c][1].type # "Game_SendBagSeed"
    BY <1>1, <1>3, <1>7 DEF Seeded
  <2>2. starting' /\ c \in Listeners' \cap linked' => starting /\ c \in Listeners \cap linked
    BY <1>1, <1>2 DEF Listeners
  <2>3. c \in queued' \/ screen'[c] = "play" =>
            \/ c \in queued \/ screen[c] = "play"
            \/ toClient[c][1].type = "Server_AllPlayersReady"
    BY <1>1, <1>3
  <2> QED
    BY <1>3, <1>7, <2>1, <2>2, <2>3, SeedTaken
<1> QED
  BY <1>1, <1>3, <1>4, <1>5, <1>6, <1>7, ClientQuiet

LEMMA JoinTakesStep ==
    ASSUME IInv, NEW c \in Client,
           \/ JoinAccepted(c) \/ JoinAssignID(c) \/ JoinRoomJoinAccepted(c)
           \/ JoinSendBagSeed(c) \/ JoinAllPlayersReady(c) \/ JoinNotValid(c)
    PROVE  IInv'
<1> USE DEF joinVars, playVars
<1>0. /\ TypeOK /\ responded \subseteq Client /\ named \subseteq Client /\ queued \subseteq Client
      /\ seed \in [Client -> Seed \cup {NoSeed}] /\ localOver \subseteq Client
      /\ remoteOver \subseteq Client /\ waiting \subseteq localOver \cup remoteOver
      /\ broke \subseteq Client /\ toServer \in [Client -> Seq(ClientMsg)]
  BY DEF IInv, TypeOK
<1>1. CASE JoinAccepted(c)
  <2>1. /\ ClientTakes(c, "join", "Client_Accepted") /\ responded' = responded \cup {c}
        /\ Send(c, "Client_RegisterWithServer")
        /\ UNCHANGED <<named, queued, seed, localOver, remoteOver, waiting, broke>>
    BY <1>1 DEF JoinAccepted
  <2>2. /\ toServer' \in [Client -> Seq(ClientMsg)]
        /\ \A d \in Client : \A x \in Sent(d)' :
               x \in Sent(d) \/ x # "Client_UnregisterWithServer"
    BY <1>0, <2>1, SendType DEF ClientMsg
  <2> QED
    BY <1>0, <2>1, <2>2, TakesKeeps
<1>2. CASE JoinAssignID(c)
  <2>1. /\ ClientTakes(c, "join", "Client_AssignID") /\ named' = named \cup {c}
        /\ Send(c, "Client_RequestRoomJoin")
        /\ UNCHANGED <<responded, queued, seed, localOver, remoteOver, waiting, broke>>
    BY <1>2 DEF JoinAssignID
  <2>2. /\ toServer' \in [Client -> Seq(ClientMsg)]
        /\ \A d \in Client : \A x \in Sent(d)' :
               x \in Sent(d) \/ x # "Client_UnregisterWithServer"
    BY <1>0, <2>1, SendType DEF ClientMsg
  <2> QED
    BY <1>0, <2>1, <2>2, TakesKeeps
<1>3. CASE JoinRoomJoinAccepted(c)
  <2>1. /\ ClientTakes(c, "join", "Server_RoomJoinAccepted")
        /\ UNCHANGED <<toServer, responded, named, queued, seed, localOver, remoteOver, waiting, broke>>
    BY <1>3 DEF JoinRoomJoinAccepted
  <2> QED
    BY <1>0, <2>1, SentSame, TakesKeeps
<1>4. CASE JoinSendBagSeed(c)
  <2>1. /\ ClientTakes(c, "join", "Game_SendBagSeed")
        /\ seed' = [seed EXCEPT ![c] = Head(toClient[c]).seed]
        /\ UNCHANGED <<toServer, responded, named, queued, localOver, remoteOver, waiting, broke>>
    BY <1>4 DEF JoinSendBagSeed
  <2>2. Head(toClient[c]) \in Room!ServerMsg /\ Head(toClient[c]).type = "Game_SendBagSeed"
    BY <1>0, <2>1, TakesType DEF ClientTakes
  <2>3. Head(toClient[c]).seed \in Seed
    BY <2>2 DEF Room!ServerMsg, Room!Signals, Room!Signal, Room!BagSeed, Room!GameOver
  <2>4. /\ seed' \in [Client -> Seed \cup {NoSeed}] /\ seed'[c] # NoSeed
        /\ \A d \in Client \ {c} : seed'[d] = seed[d]
    BY <1>0, <2>1, <2>3, NoSeedAssumption
  <2> QED
    BY <1>0, <2>1, <2>4, SentSame, TakesKeeps
<1>5. CASE JoinAllPlayersReady(c)
  <2>1. /\ ClientTakes(c, "join", "Server_AllPlayersReady") /\ queued' = queued \cup {c}
        /\ UNCHANGED <<toServer, responded, named, seed, localOver, remoteOver, waiting, broke>>
    BY <1>5 DEF JoinAllPlayersReady
  <2> QED
    BY <1>0, <2>1, SentSame, TakesKeeps
<1>6. CASE JoinNotValid(c)
  <2>1. PICK t \in {"Relay", "Server_GameOver"} : ClientTakes(c, "join", t)
    BY <1>6 DEF JoinNotValid
  <2>2. /\ broke' = broke \cup {c}
        /\ UNCHANGED <<toServer, responded, named, queued, seed, localOver, remoteOver, waiting>>
    BY <1>6 DEF JoinNotValid
  <2> QED
    BY <1>0, <2>1, <2>2, SentSame, TakesKeeps
<1> QED
  BY <1>1, <1>2, <1>3, <1>4, <1>5, <1>6

(* A victory is taken from a verdict, whose loser has departed and is not c.     *)
LEMMA PlayTakesStep ==
    ASSUME IInv, NEW c \in Client, PlayGameOver(c) \/ PlayOtherPacket(c)
    PROVE  IInv'
<1> USE DEF joinVars, playVars
<1>0. /\ TypeOK /\ responded \subseteq Client /\ named \subseteq Client /\ queued \subseteq Client
      /\ seed \in [Client -> Seed \cup {NoSeed}] /\ localOver \subseteq Client
      /\ remoteOver \subseteq Client /\ waiting \subseteq localOver \cup remoteOver
      /\ broke \subseteq Client /\ toServer \in [Client -> Seq(ClientMsg)]
  BY DEF IInv, TypeOK
<1>1. CASE PlayGameOver(c)
  <2>1. /\ ClientTakes(c, "play", "Server_GameOver")
        /\ UNCHANGED <<toServer, responded, named, queued, seed, waiting, broke>>
    BY <1>1 DEF PlayGameOver
  <2>2. Head(toClient[c]) \in InFlight(c) /\ Head(toClient[c]).type = "Server_GameOver"
    BY <1>0, <2>1, TakesType DEF ClientTakes
  <2>3. /\ Head(toClient[c]).loser \in departed
        /\ Head(toClient[c]).winner # Head(toClient[c]).loser
    BY <2>2 DEF IInv, VerdictInv
  <2>4. CASE c \in named /\ Head(toClient[c]).winner = c
    <3>1. remoteOver' = remoteOver \cup {c} /\ UNCHANGED localOver
      BY <1>1, <2>4 DEF PlayGameOver
    <3>2. \E e \in departed : e # c
      BY <2>3, <2>4
    <3> QED
      BY <1>0, <2>1, <3>1, <3>2, SentSame, TakesKeeps
  <2>5. CASE ~(c \in named /\ Head(toClient[c]).winner = c)
    <3>1. localOver' = localOver \cup {c} /\ UNCHANGED remoteOver
      BY <1>1, <2>5 DEF PlayGameOver
    <3> QED
      BY <1>0, <2>1, <3>1, SentSame, TakesKeeps
  <2> QED
    BY <2>4, <2>5
<1>2. CASE PlayOtherPacket(c)
  <2>1. PICK t \in Room!Signals \cup {"Game_SendBagSeed"} : ClientTakes(c, "play", t)
    BY <1>2 DEF PlayOtherPacket
  <2>2. UNCHANGED <<toServer, responded, named, queued, seed, localOver, remoteOver, waiting, broke>>
    BY <1>2 DEF PlayOtherPacket
  <2> QED
    BY <1>0, <2>1, <2>2, SentSame, TakesKeeps
<1> QED
  BY <1>1, <1>2

(* The transition to the match, the verdict and the frames of a match.           *)
LEMMA PlayStep ==
    ASSUME IInv, NEW c \in Client,
           \/ JoinTransition(c) \/ PlaySync(c) \/ PlayTopOut(c)
           \/ PlayVerdict(c) \/ PlayToGameOver(c)
    PROVE  IInv'
<1> USE DEF joinVars, playVars
<1>0. /\ TypeOK /\ screen \in [Client -> Screens] /\ remoteOver \subseteq Client
      /\ toServer \in [Client -> Seq(ClientMsg)]
  BY DEF IInv, TypeOK
<1>1. /\ NoServerStep /\ posts' = <<>> /\ screen[c] \in {"join", "play"}
      /\ UNCHANGED <<members, room, departed, starting, registered, up, greeted, deq, alive,
                     toClient, linked, responded, named, seed, remoteOver>>
  BY DEF JoinTransition, PlaySync, PlayTopOut, PlayVerdict, PlayToGameOver, NoServerStep,
     roomVars, connVars
<1>2. /\ toServer' \in [Client -> Seq(ClientMsg)]
      /\ \A d \in Client : \A x \in Sent(d)' :
             x \in Sent(d) \/ x # "Client_UnregisterWithServer"
  <2>1. Send(c, "Relay") \/ UNCHANGED toServer
    BY DEF JoinTransition, PlaySync, PlayTopOut, PlayVerdict, PlayToGameOver
  <2> QED
    BY <1>0, <2>1, SendType DEF ClientMsg
<1>3. /\ screen' \in [Client -> Screens] /\ screen'[c] \in {"play", "over"}
      /\ \A d \in Client \ {c} : screen'[d] = screen[d]
      /\ queued' \subseteq queued /\ (screen'[c] = "play" => c \in queued \/ screen[c] = "play")
  BY <1>0 DEF JoinTransition, PlaySync, PlayTopOut, PlayVerdict, PlayToGameOver, Screens
<1>4. /\ queued' \subseteq Client /\ localOver' \subseteq Client
      /\ waiting' \subseteq localOver' \cup remoteOver' /\ broke' \subseteq Client
      /\ relays' \in 0 .. MaxRelays
  <2>1. /\ queued \subseteq Client /\ localOver \subseteq Client /\ broke \subseteq Client
        /\ waiting \subseteq localOver \cup remoteOver /\ relays \in 0 .. MaxRelays
    BY <1>0 DEF TypeOK
  <2>2. relays' \in 0 .. MaxRelays
    BY <2>1, MaxRelaysAssumption
    DEF JoinTransition, PlaySync, PlayTopOut, PlayVerdict, PlayToGameOver
  <2> QED
    BY <2>1, <2>2 DEF JoinTransition, PlaySync, PlayTopOut, PlayVerdict, PlayToGameOver
<1>5. TypeOK'
  BY <1>0, <1>1, <1>2, <1>3, <1>4, NoPost DEF TypeOK
<1>6. InFlight(c)' = InFlight(c) /\ ~Gone(c) /\ screen[c] # "title" /\ screen'[c] # "title"
  BY <1>1, <1>3 DEF InFlight, Gone
<1>7. ASSUME Seeded(c) PROVE Seeded(c)'
  <2>1. starting' /\ c \in Listeners' \cap linked' => starting /\ c \in Listeners \cap linked
    BY <1>1 DEF Listeners
  <2>2. c \in queued' \/ screen'[c] = "play" => c \in queued \/ screen[c] = "play"
    BY <1>3
  <2> QED
    BY <1>1, <1>7, <2>1, <2>2, SeedSame
<1> QED
  BY <1>1, <1>2, <1>3, <1>5, <1>6, <1>7, ClientQuiet

(* The socket closes: at the end of a session, or because the server is lost.     *)
LEMMA CloseStep ==
    ASSUME IInv, NEW c \in Client, screen[c] # "title", CloseSocket(c), NoServerStep,
           Send(c, "Client_UnregisterWithServer") \/ UNCHANGED toServer
    PROVE  IInv'
<1> USE DEF joinVars, playVars
<1>0. /\ TypeOK /\ screen \in [Client -> Screens] /\ toServer \in [Client -> Seq(ClientMsg)]
  BY DEF IInv, TypeOK
<1>1. /\ posts' = <<>> /\ screen' = [screen EXCEPT ![c] = "gone"] /\ linked' = linked \ {c}
      /\ toClient' = [toClient EXCEPT ![c] = <<>>]
      /\ UNCHANGED <<members, room, departed, starting, registered, up, greeted, deq, alive,
                     responded, named, queued, seed, localOver, remoteOver, waiting, broke, relays>>
  BY DEF NoServerStep, CloseSocket, roomVars, connVars
<1>2. /\ screen' \in [Client -> Screens] /\ screen'[c] = "gone"
      /\ \A d \in Client \ {c} : screen'[d] = screen[d]
  BY <1>0, <1>1 DEF Screens
<1>3. /\ toServer' \in [Client -> Seq(ClientMsg)]
      /\ \A d \in Client : \A x \in Sent(d)' : x \in Sent(d) \/ d = c
  BY <1>0, SendType DEF ClientMsg
<1>4. /\ toClient' \in [Client -> Seq(Room!ServerMsg)]
      /\ InFlight(c)' \subseteq InFlight(c)
      /\ \A d \in Client \ {c} : toClient'[d] = toClient[d]
      /\ Len(toClient'[c]) = 0
  BY <1>0, <1>1, DropType
<1>5. TypeOK'
  BY <1>0, <1>1, <1>2, <1>3, <1>4, NoPost DEF TypeOK
<1>6. Gone(c)'
  BY <1>2 DEF Gone
<1>7. ASSUME Seeded(c) PROVE Seeded(c)'
  BY <1>1, <1>2, <1>4, <1>7, SeedDropped
<1> QED
  BY <1>1, <1>2, <1>3, <1>4, <1>5, <1>6, <1>7, ClientQuiet

LEMMA LostStep ==
    ASSUME IInv, NEW c \in Client, ServerIsLost(c)
    PROVE  IInv'
<1> USE DEF joinVars, playVars
<1>0. TypeOK
  BY DEF IInv
<1>1. /\ posts' = <<>> /\ linked' = linked \ {c} /\ c \in linked /\ c \notin deq /\ NoServerStep
      /\ toClient' = [toClient EXCEPT ![c] = <<>>]
      /\ UNCHANGED <<members, room, departed, starting, registered, up, greeted, deq,
                     alive, toServer, screen,
                     responded, named, queued, seed, localOver, remoteOver, waiting, broke, relays>>
  BY DEF ServerIsLost, NoServerStep, roomVars, connVars
<1>4. /\ toClient' \in [Client -> Seq(Room!ServerMsg)]
      /\ InFlight(c)' \subseteq InFlight(c)
      /\ \A d \in Client \ {c} : toClient'[d] = toClient[d]
      /\ Len(toClient'[c]) = 0
  BY <1>0, <1>1, DropType
<1>5. TypeOK'
  BY <1>0, <1>1, <1>4, NoPost DEF TypeOK
<1>6. Gone(c)' = Gone(c)
  BY <1>1 DEF Gone
<1>7. ASSUME Seeded(c) PROVE Seeded(c)'
  BY <1>1, <1>4, <1>7, SeedDropped
<1>8. screen[c] # "title"
  BY <1>1 DEF IInv, BegunInv, Begun
<1> QED
  BY <1>1, <1>4, <1>5, <1>6, <1>7, <1>8, SentSame, ClientQuiet

(* A session begins: during the start of a match it is the third.                 *)
LEMMA StartStep ==
    ASSUME IInv, NEW c \in Client, Start(c)
    PROVE  IInv'
<1> USE DEF joinVars, playVars
<1>0. /\ TypeOK /\ StartInv /\ GoneInv /\ BegunInv /\ screen \in [Client -> Screens]
      /\ IsFiniteSet(Begun) /\ departed \subseteq Client
  BY DEF IInv, TypeOK, BegunInv
<1>1. /\ posts' = <<>> /\ screen[c] = "title" /\ screen' = [screen EXCEPT ![c] = "join"]
      /\ linked' = linked \cup {c}
      /\ deq' = IF up THEN deq \cup {c} ELSE deq
      /\ alive' = IF up THEN alive \cup {c} ELSE alive
      /\ UNCHANGED <<members, room, departed, starting, registered, up, greeted, toServer, toClient,
                     responded, named, queued, seed, localOver, remoteOver, waiting, broke, relays>>
  BY DEF Start, roomVars
<1>2. /\ screen' \in [Client -> Screens] /\ screen'[c] = "join"
      /\ \A d \in Client \ {c} : screen'[d] = screen[d]
  BY <1>0, <1>1 DEF Screens
<1>3. /\ Begun' = Begun \cup {c} /\ IsFiniteSet(Begun') /\ c \notin Begun
  <2>1. Begun' = Begun \cup {c} /\ c \notin Begun
    BY <1>1, <1>2 DEF Begun
  <2> QED
    BY <1>0, <2>1, FS_AddElement
<1>4. TypeOK'
  <2>1. deq' \subseteq Client /\ alive' \subseteq deq' /\ linked' \subseteq Client
    BY <1>0, <1>1 DEF TypeOK
  <2> QED
    BY <1>0, <1>1, <1>2, <2>1, NoPost DEF TypeOK
<1>5. /\ \A d \in Client : InFlight(d)' \subseteq InFlight(d)
      /\ \A d \in Client : Gone(d) => Gone(d)'
      /\ \A d \in Client : screen'[d] = "title" => screen[d] = "title"
      /\ deq' \cup linked' \subseteq Begun'
  <2>1. deq' \cup linked' \subseteq Begun'
    BY <1>0, <1>1, <1>3 DEF BegunInv
  <2> QED
    BY <1>1, <1>2, <2>1 DEF InFlight, Gone
<1>6. \A d \in Client : "Client_UnregisterWithServer" \in Sent(d)' => Gone(d)'
  BY <1>0, <1>1, <1>5, SentSame DEF GoneInv
<1>7. up' => \A d \in Client \ alive' : screen'[d] = "title" \/ Gone(d)'
  BY <1>0, <1>1, <1>2, <1>5 DEF GoneInv
<1>8. /\ \A d \in Client : d \in queued' \/ screen'[d] = "play" =>
             \/ d \in queued \/ screen[d] = "play" \/ Ordered(d)
      /\ remoteOver' \subseteq Client
  BY <1>0, <1>1, <1>2 DEF TypeOK
<1>9. StartInv' /\ GoneInv' /\ VerdictInv' /\ BegunInv'
  BY <1>1, <1>3, <1>5, <1>6, <1>7, <1>8, QuietStep
<1>10. CASE ~starting
  <2>1. ASSUME NEW d \in Client, Seeded(d) PROVE Seeded(d)'
    <3>1. d \in queued' \/ screen'[d] = "play" => d \in queued \/ screen[d] = "play"
      BY <1>1, <1>2
    <3> QED
      BY <1>1, <1>10, <2>1, <3>1, SeedSame
  <2>2. SeedInv'
    BY <1>3, <2>1, SeedInvStep
  <2> QED
    BY <1>4, <1>9, <2>2 DEF IInv
<1>11. CASE starting
  <2>1. PICK d, e \in registered : d # e
    BY <1>0, <1>11 DEF StartInv, Two
  <2>2. d \in Begun /\ e \in Begun
    BY <1>0 DEF BegunInv
  <2>3. ~(Cardinality(Begun') <= 2)
    BY <1>3, <2>1, <2>2, ThreeAreMany
  <2> QED
    BY <1>4, <1>9, <2>3 DEF IInv, SeedInv
<1> QED
  BY <1>10, <1>11

LEMMA ClientStepKeeps ==
    ASSUME IInv, NEW c \in Client, ClientFrame(c) \/ ClientChoice(c)
    PROVE  IInv'
<1>1. ASSUME JoinTimeout(c) \/ PlayDisconnected(c) \/ OverToTitle(c) PROVE IInv'
  <2>1. /\ screen[c] # "title" /\ CloseSocket(c) /\ NoServerStep
        /\ Send(c, "Client_UnregisterWithServer") \/ UNCHANGED toServer
    BY <1>1 DEF JoinTimeout, PlayDisconnected, OverToTitle, PopToTitle
  <2> QED
    BY <2>1, CloseStep
<1>2. ASSUME Quit(c) PROVE IInv'
  BY <1>2, CloseStep DEF Quit
<1> QED
  BY <1>1, <1>2, LostStep, JoinTakesStep, PlayTakesStep, PlayStep, StartStep
  DEF ClientFrame, ClientChoice

-----------------------------------------------------------------------------
(* The invariant.                                                            *)

LEMMA InitHolds == Init => IInv
<1> SUFFICES ASSUME Init PROVE IInv
  OBVIOUS
<1>1. /\ members = {} /\ room = {} /\ departed = {} /\ starting = FALSE /\ posts = <<>>
      /\ up = TRUE /\ greeted = {} /\ deq = {} /\ alive = {}
      /\ toServer = [d \in Client |-> <<>>] /\ toClient = [d \in Client |-> <<>>]
      /\ screen = [d \in Client |-> "title"] /\ linked = {} /\ responded = {} /\ named = {}
      /\ queued = {} /\ seed = [d \in Client |-> NoSeed] /\ localOver = {} /\ remoteOver = {}
      /\ waiting = {} /\ broke = {} /\ relays = 0 /\ registered = {}
  BY DEF Init, Room!Init
<1>2. Len(<<>>) = 0 /\ \A S : <<>> \in Seq(S)
  OBVIOUS
<1>3. TypeOK
  <2>1. /\ toServer \in [Client -> Seq(ClientMsg)]
        /\ toClient \in [Client -> Seq(Room!ServerMsg)]
        /\ posts \in Seq(Room!Posts)
    BY <1>1, <1>2
  <2>2. /\ screen \in [Client -> Screens] /\ seed \in [Client -> Seed \cup {NoSeed}]
        /\ relays \in 0 .. MaxRelays
    BY <1>1, MaxRelaysAssumption DEF Screens
  <2> QED
    BY <1>1, <2>1, <2>2 DEF TypeOK
<1>4. \A c \in Client : InFlight(c) = {} /\ Sent(c) = {} /\ screen[c] = "title"
  BY <1>1, <1>2 DEF InFlight, Sent
<1>5. StartInv /\ GoneInv /\ VerdictInv
  BY <1>1, <1>4 DEF StartInv, GoneInv, VerdictInv, Ordered
<1>6. Begun = {}
  BY <1>4 DEF Begun
<1>7. BegunInv
  BY <1>1, <1>6, FS_EmptySet DEF BegunInv
<1>8. \A c \in Client : Len(toClient[c]) = 0
  BY <1>1, <1>2
<1>9. SeedInv
  BY <1>1, <1>4, <1>8 DEF SeedInv, Seeded
<1> QED
  BY <1>3, <1>5, <1>7, <1>9 DEF IInv

LEMMA NextKeeps == IInv /\ [Next]_vars => IInv'
<1> SUFFICES ASSUME IInv, [Next]_vars PROVE IInv'
  OBVIOUS
<1>1. CASE UNCHANGED vars
  BY <1>1
  DEF vars, roomVars, connVars, clientVars, joinVars, playVars, IInv, TypeOK, StartInv, GoneInv,
      VerdictInv, BegunInv, SeedInv, Seeded, SeedAhead, Two, Ordered, Gone, InFlight, Sent, Begun,
      Listeners
<1>2. CASE ServerStep
  BY <1>2, ServerStepKeeps
<1>3. CASE ServerEnds
  BY <1>3, ServerEndsStep
<1>4. CASE \E c \in Client : ClientFrame(c) \/ ClientChoice(c)
  BY <1>4, ClientStepKeeps
<1> QED
  BY <1>1, <1>2, <1>3, <1>4 DEF Next

LEMMA Inductive == Spec => []IInv
<1>1. Init => IInv
  BY InitHolds
<1>2. IInv /\ [Next]_vars => IInv'
  BY NextKeeps
<1> QED
  BY <1>1, <1>2, PTL DEF Spec

-----------------------------------------------------------------------------
(* Every variable keeps its type: no post, no message in flight and no screen   *)
(* is ever one that the code has no case for.                                *)
THEOREM TypeCorrect == Spec => []TypeOK
<1>1. IInv => TypeOK
  BY DEF IInv
<1> QED
  BY <1>1, Inductive, PTL

(* Nobody is sent into a match (PerformTransitionToMultiPlay) unless the server    *)
(* had handled the Client_RegisterWithServer of another session.              *)
THEOREM NobodyStartsAloneHolds == Spec => []NobodyStartsAlone
<1>1. IInv => NobodyStartsAlone
  <2> SUFFICES ASSUME IInv, NEW c \in Client, screen[c] = "play"
               PROVE  \E d \in Client \ {c} : d \in registered
    BY DEF NobodyStartsAlone
  <2>1. PICK d, e \in registered : d # e
    BY DEF IInv, StartInv, Two
  <2>2. d \in Client /\ e \in Client
    BY DEF IInv, TypeOK
  <2> QED
    BY <2>1, <2>2
<1> QED
  BY <1>1, Inductive, PTL

(* As long as no third session has begun, MultiPlayState is built with a seed     *)
(* that the server has sent.                                                 *)
THEOREM PlaySeededHolds == Spec => []PlaySeeded
<1>1. IInv => PlaySeeded
  BY DEF IInv, SeedInv, Seeded, PlaySeeded
<1> QED
  BY <1>1, Inductive, PTL

(* Server_GameOver makes a winner only of a session whose opponent has departed,   *)
(* which it does only by ending or by falling silent on the game-over screen.  *)
THEOREM VictoryNeedsDepartureHolds == Spec => []VictoryNeedsDeparture
<1>1. IInv => VictoryNeedsDeparture
  <2> SUFFICES ASSUME IInv, NEW c \in remoteOver
               PROVE  \E d \in departed \ {c} : screen[d] \in {"over", "gone"}
    BY DEF VictoryNeedsDeparture
  <2>1. PICK d \in departed : d # c
    BY DEF IInv, VerdictInv
  <2>2. Gone(d)
    BY DEF IInv, GoneInv, TypeOK
  <2> QED
    BY <2>1, <2>2 DEF Gone
<1> QED
  BY <1>1, Inductive, PTL

-----------------------------------------------------------------------------
(* The server of a match is the room of GameRoom.                             *)

LEMMA QuietIsServe ==
    ASSUME posts' = <<>>, UNCHANGED roomVars
    PROVE  Room!Next
  BY DEF roomVars, Room!Next, Room!Serve

LEMMA ServerStepInRoom ==
    ASSUME ServerStep
    PROVE  Room!Next
<1>1. CASE AllPlayersReady
  BY <1>1 DEF AllPlayersReady, Room!Next
<1>2. ASSUME NEW c \in Client,
             \/ HandleClientValidated(c) \/ RegisterWithServer(c) \/ RequestRoomJoin(c)
             \/ RelayGameState(c) \/ HandleClientDisconnected(c)
      PROVE  Room!Next
  BY <1>2 DEF HandleClientValidated, RegisterWithServer, RequestRoomJoin, RelayGameState,
              HandleClientDisconnected, Room!Next
<1>3. ASSUME NEW c \in Client, Greet(c)
      PROVE  Room!Next
  BY <1>3 DEF Greet, Room!Next
<1>4. ASSUME NEW c \in Client,
             UnregisterWithServer(c) \/ ReadFails(c) \/ PongTimeout(c) \/ Sweep(c)
      PROVE  Room!Next
  BY <1>4, QuietIsServe DEF UnregisterWithServer, ReadFails, PongTimeout, Sweep, Disconnect
<1> QED
  BY <1>1, <1>2, <1>3, <1>4 DEF ServerStep

LEMMA ClientStepInRoom ==
    ASSUME NEW c \in Client, ClientFrame(c) \/ ClientChoice(c)
    PROVE  Room!Next
<1>1. CASE Start(c)
  BY <1>1, QuietIsServe DEF Start
<1>2. CASE ~Start(c)
  <2>1. NoServerStep
    BY <1>2
    DEF ClientFrame, ClientChoice, ServerIsLost, ClientTakes, JoinAccepted, JoinAssignID,
        JoinRoomJoinAccepted, JoinSendBagSeed, JoinAllPlayersReady, JoinNotValid,
        JoinTransition, JoinTimeout, PopToTitle, PlayGameOver, PlayOtherPacket, PlayVerdict,
        PlayToGameOver, PlayDisconnected, PlaySync, PlayTopOut, OverToTitle, Quit
  <2> QED
    BY <2>1, QuietIsServe DEF NoServerStep
<1> QED
  BY <1>1, <1>2

(* Whatever the clients do, and also when its process ends, the server of a match *)
(* takes only the steps of a GameRoom (TetrisServer.cpp), which the server of    *)
(* TetrisServer.tla with its threads and queues takes as well.                *)
THEOREM ServerIsARoom == Spec => Room!Spec
<1>1. Init => Room!Init
  BY DEF Init
<1>2. [Next]_vars => [Room!Next]_(Room!vars)
  <2>1. CASE ServerEnds
    BY <2>1, QuietIsServe DEF ServerEnds
  <2>2. CASE UNCHANGED vars
    BY <2>2 DEF vars, roomVars, Room!vars
  <2> QED
    BY <2>1, <2>2, ServerStepInRoom, ClientStepInRoom DEF Next
<1> QED
  BY <1>1, <1>2, PTL DEF Spec, Room!Spec
=============================================================================
