-------------------------- MODULE MultiPlay_proofs --------------------------
(***************************************************************************)
(* Proofs about module MultiPlay, for boards of any size, any set of types,   *)
(* games of any length and any number of packets under way: the rules that    *)
(* MultiPlayLogic repeats are those of SinglePlay, and what the opponent sees  *)
(* of the game is right once no packet is under way.                         *)
(*                                                                          *)
(* For the second the invariant speaks of the packets: a part is marked by its *)
(* flag, or the last packet about it, or what is shown if none is under way,  *)
(* says what it is now.                                                      *)
(***************************************************************************)
EXTENDS MultiPlay, Rules_proofs

-----------------------------------------------------------------------------
(* The instance of SinglePlay has the board and the bag of this module.        *)

LEMMA SameBlocks == Single!Cells = Cells /\ \A m : Single!Blocks(m) = Blocks(m)
<1>1. Single!Cells = Cells
  BY DEF Single!Cells, Cells, Single!Columns, Columns, Single!Rows, Rows
<1>2. Single!Shapes = Shapes
  BY DEF Single!Shapes, Shapes
<1> QED
  BY <1>1, <1>2 DEF Single!Blocks, Blocks

LEMMA SameIsCollide == \A b, m : Single!IsCollide(b, m) <=> IsCollide(b, m)
  BY SameBlocks DEF Single!IsCollide, IsCollide

LEMMA SameLock == \A b, m : Single!Lock(b, m) = Lock(b, m)
  BY SameBlocks DEF Single!Lock, Lock

LEMMA SameClear == \A b : Single!ClearFullLines(b) = ClearFullLines(b)
<1>1. Single!ClearFrom = ClearFrom
  BY DEF Single!ClearFrom, ClearFrom, Single!Rows, Rows, Single!Columns, Columns,
         Single!Cells, Cells, Single!Row, Row, Single!IsFull, IsFull,
         Single!PullDown, PullDown
<1> QED
  BY <1>1 DEF Single!ClearFullLines, ClearFullLines

LEMMA SameMinos ==
    /\ \A t : Single!AtSpawn(t) = AtSpawn(t)
    /\ \A m, dx, dy : Single!Moved(m, dx, dy) = Moved(m, dx, dy)
    /\ \A m : Single!TurnedCW(m) = TurnedCW(m) /\ Single!TurnedCCW(m) = TurnedCCW(m)
  BY DEF Single!AtSpawn, AtSpawn, Single!Moved, Moved, Single!TurnedCW, TurnedCW,
         Single!TurnedCCW, TurnedCCW

LEMMA SameLanded == \A b, m : Single!Landed(b, m) = Landed(b, m)
  BY SameIsCollide, SameMinos DEF Single!Landed, Landed

LEMMA SamePieces == Single!Pieces = Pieces
  BY DEF Pieces, Single!Pieces, FoldFunctionOnSet, Single!FoldFunctionOnSet,
         MapThenFoldSet, Single!MapThenFoldSet

LEMMA SamePeeked == \A q, i : Single!Peeked(q, i) = Peeked(q, i)
<1>1. \A s : Single!Cardinality(s) = Cardinality(s)
  BY DEF Single!Cardinality, Cardinality
<1>2. \A s : Single!SetToSeqs(s) = SetToSeqs(s)
  BY <1>1 DEF Single!SetToSeqs, SetToSeqs
<1>3. \A s : Single!Bags(s) = Bags(s)
  BY <1>2 DEF Single!Bags, Bags
<1> QED
  BY <1>3 DEF Single!Peeked, Peeked

-----------------------------------------------------------------------------
(* What decides the next mino.  It matters only as long as the game goes on.   *)

HandType ==
    /\ ~IsOver => cur \in Mino(Type)
    /\ hold \in Type \cup {NoType}
    /\ queue \in Seq(Type) /\ Len(queue) >= Preview

(* A bag that was looked into keeps as many minos as are shown.                *)
LEMMA PeekedBag ==
    ASSUME NEW q \in Seq(Type), NEW r \in Peeked(q, 0)
    PROVE  /\ r \in Seq(Type) /\ Len(r) > 0 /\ Head(r) \in Type
           /\ AtSpawn(Head(r)) \in Mino(Type)
           /\ \A s \in Peeked(Tail(r), Preview - 1) : s \in Seq(Type) /\ Len(s) >= Preview
<1>1. r \in Seq(Type) /\ Len(r) > 0
  BY PeekedType, SizeOfBag
<1>2. Head(r) \in Type /\ Tail(r) \in Seq(Type)
  BY <1>1
<1>3. Preview \in Nat /\ Preview - 1 \in Nat /\ Preview - 1 < Cardinality(Type)
  BY PreviewAssumption, SizeOfBag
<1>4. \A s \in Peeked(Tail(r), Preview - 1) : s \in Seq(Type) /\ Len(s) > Preview - 1
  BY <1>2, <1>3, PeekedType
<1> QED
  BY <1>1, <1>2, <1>3, <1>4, SpawnIsMino

(* While the game goes on the next mino is in the queue already.               *)
LEMMA NextIsQueued ==
    ASSUME HandType
    PROVE  Peeked(queue, 0) = {queue}
  BY PreviewAssumption, SizeOfBag DEF HandType, Peeked

LEMMA SpawnHand ==
    ASSUME HandType, ~IsOver, hold' \in Type \cup {NoType}, NEW b, NEW m,
           TrySpawnMino(b, m)
    PROVE  HandType'
<1>1. PICK q \in Peeked(queue, 0) :
        \/ queue' = q /\ ended' = ended \cup {"Local"}
        \/ /\ cur' = AtSpawn(Head(q))
           /\ queue' \in Peeked(Tail(q), Preview - 1)
  BY DEF TrySpawnMino
<1>2. q = queue
  BY NextIsQueued
<1>3. CASE queue' = q /\ ended' = ended \cup {"Local"}
  BY <1>2, <1>3 DEF HandType, IsOver
<1>4. CASE /\ cur' = AtSpawn(Head(q))
           /\ queue' \in Peeked(Tail(q), Preview - 1)
  BY <1>4, PeekedBag DEF HandType, IsOver
<1> QED
  BY <1>1, <1>3, <1>4

LEMMA LockHand ==
    ASSUME HandType, ~IsOver, NEW m, LockAndProceed(m)
    PROVE  HandType'
<1>1. hold' \in Type \cup {NoType}
  BY DEF LockAndProceed, HandType
<1>2. TrySpawnMino(ClearFullLines(Lock(board, m)).cells, m)
  BY DEF LockAndProceed
<1> QED
  BY <1>1, <1>2, SpawnHand

LEMMA BecomesHand ==
    ASSUME HandType, NEW m \in Mino(Type), Becomes(m)
    PROVE  HandType'
  BY DEF HandType, Becomes, IsOver

LEMMA InitHand == Init => HandType
<1> SUFFICES ASSUME Init
             PROVE  HandType
  OBVIOUS
<1>1. PICK q \in Peeked(<<>>, 0) :
        cur = AtSpawn(Head(q)) /\ queue \in Peeked(Tail(q), Preview - 1)
  BY DEF Init
<1>2. <<>> \in Seq(Type)
  OBVIOUS
<1> QED
  BY <1>1, <1>2, PeekedBag DEF Init, HandType

(* Every step leaves the game as it is, or is one of these.                   *)
Moving ==
    \/ \E d \in {<<0, 1>>, <<-1, 0>>, <<1, 0>>} : Becomes(Moved(cur, d[1], d[2]))
    \/ Becomes(TurnedCW(cur))
    \/ Becomes(TurnedCCW(cur))

Locking ==
    \/ LockAndProceed(Landed(board, cur))
    \/ IsCollide(board, Moved(cur, 0, 1)) /\ LockAndProceed(cur)

FirstHold ==
    /\ ~held
    /\ hold = NoType
    /\ hold' = cur.type
    /\ held' = TRUE
    /\ TrySpawnMino(board, cur)
    /\ UNCHANGED <<board, locked, lines>>

Swap ==
    /\ ~held
    /\ hold # NoType
    /\ ~IsCollide(board, AtSpawn(hold))
    /\ cur' = AtSpawn(hold)
    /\ hold' = cur.type
    /\ held' = TRUE
    /\ UNCHANGED <<board, queue, locked, lines, ended>>

(* The steps in which a screen is left, which change nothing else.            *)
MatchIsLeft == PlayToGameOver \/ Leave \/ OpponentLeaves

LEMMA LeavingKeeps ==
    MatchIsLeft => /\ UNCHANGED <<gameVars, ended, pressed, sync, stream, mirror>>
                   /\ screen' \in {screen, "over", "gone"} /\ watched' \in {watched, FALSE}
  BY DEF MatchIsLeft, PlayToGameOver, Leave, OpponentLeaves

LEMMA GameSteps ==
    ASSUME [Next]_vars
    PROVE  \/ ~IsOver /\ (Moving \/ Locking \/ FirstHold \/ Swap)
           \/ UNCHANGED <<gameVars, IsOver>>
<1>1. CASE ProcessInputs
  <2>1. CASE TryMove(0, 1) \/ TryMove(-1, 0) \/ TryMove(1, 0)
    BY <2>1 DEF TryMove, Key, IsOver, Moving
  <2>2. CASE TryRotateCW \/ TryRotateCCW
    BY <2>2 DEF TryRotateCW, TryRotateCCW, Key, IsOver, Moving
  <2>3. CASE HardDrop
    BY <2>3 DEF HardDrop, Key, IsOver, Locking
  <2>4. CASE HoldFirst
    BY <2>4 DEF HoldFirst, Key, IsOver, FirstHold
  <2>5. CASE HoldSwap
    BY <2>5 DEF HoldSwap, Key, IsOver, Swap
  <2> QED
    BY <1>1, <2>1, <2>2, <2>3, <2>4, <2>5 DEF ProcessInputs
<1>2. CASE Update
  <2>1. CASE UpdateFalls
    BY <2>1 DEF UpdateFalls, IsOver, Moving
  <2>2. CASE UpdateLocks
    BY <2>2 DEF UpdateLocks, IsOver, Locking
  <2>3. CASE UpdateWaits
    BY <2>3 DEF UpdateWaits, IsOver
  <2> QED
    BY <1>2, <2>1, <2>2, <2>3 DEF Update
<1>3. CASE WinnerIsLocal \/ ApplyEnemyState \/ UNCHANGED vars
  BY <1>3 DEF WinnerIsLocal, ApplyEnemyState, vars, gameVars, IsOver
<1>4. CASE MatchIsLeft
  BY <1>4, LeavingKeeps DEF IsOver
<1> QED
  BY <1>1, <1>2, <1>3, <1>4 DEF Next, MatchIsLeft

LEMMA StepHand == HandType /\ [Next]_vars => HandType'
<1> SUFFICES ASSUME HandType, [Next]_vars
             PROVE  HandType'
  OBVIOUS
<1>1. CASE ~IsOver /\ Moving
  <2>1. cur \in Mino(Type)
    BY <1>1 DEF HandType
  <2>2. /\ \A d \in {<<0, 1>>, <<-1, 0>>, <<1, 0>>} : Moved(cur, d[1], d[2]) \in Mino(Type)
        /\ TurnedCW(cur) \in Mino(Type) /\ TurnedCCW(cur) \in Mino(Type)
    BY <2>1, MoveIsMino, TurnIsMino
  <2> QED
    BY <1>1, <2>2, BecomesHand DEF Moving
<1>2. CASE ~IsOver /\ Locking
  BY <1>2, LockHand DEF Locking
<1>3. CASE ~IsOver /\ FirstHold
  <2>1. hold' \in Type \cup {NoType}
    BY <1>3 DEF FirstHold, HandType, Mino
  <2> QED
    BY <1>3, <2>1, SpawnHand DEF FirstHold
<1>4. CASE ~IsOver /\ Swap
  <2>1. hold \in Type /\ cur.type \in Type
    BY <1>4 DEF Swap, HandType, Mino
  <2> QED
    BY <1>4, <2>1, SpawnIsMino DEF Swap, HandType, IsOver
<1>5. CASE UNCHANGED <<gameVars, IsOver>>
  BY <1>5 DEF gameVars, HandType
<1> QED
  BY <1>1, <1>2, <1>3, <1>4, <1>5, GameSteps

LEMMA Hand == Spec => []HandType
  BY InitHand, StepHand, PTL DEF Spec

-----------------------------------------------------------------------------
(* Refinement.  In SinglePlay the hand is empty once the game is over.         *)

LEMMA InHand ==
    ASSUME HandType, ~IsOver
    PROVE  cur # NoMino
  BY NoMinoAssumption DEF HandType

LEMMA SpawnRefines ==
    ASSUME HandType, ~IsOver, NEW b, NEW m, TrySpawnMino(b, m)
    PROVE  Single!TrySpawnMino(b)
<1>1. PICK q \in Peeked(queue, 0) :
        \/ /\ IsCollide(b, AtSpawn(Head(q)))
           /\ queue' = q
           /\ ended' = ended \cup {"Local"}
        \/ /\ ~IsCollide(b, AtSpawn(Head(q)))
           /\ cur' = AtSpawn(Head(q))
           /\ queue' \in Peeked(Tail(q), Preview - 1)
           /\ UNCHANGED ended
  BY DEF TrySpawnMino
<1>2. q \in Single!Peeked(queue, 0)
  BY SamePeeked
<1>3. CASE /\ IsCollide(b, AtSpawn(Head(q)))
           /\ queue' = q
           /\ ended' = ended \cup {"Local"}
  <2>1. IsOver'
    BY <1>3 DEF IsOver
  <2>2. Single!IsCollide(b, Single!AtSpawn(Head(q))) /\ Single!OnGameOver
    BY <1>3, <2>1, SameIsCollide, SameMinos DEF Single!OnGameOver
  <2> QED
    BY <1>2, <1>3, <2>2 DEF Single!TrySpawnMino
<1>4. CASE /\ ~IsCollide(b, AtSpawn(Head(q)))
           /\ cur' = AtSpawn(Head(q))
           /\ queue' \in Peeked(Tail(q), Preview - 1)
           /\ UNCHANGED ended
  <2>1. IsOver' = IsOver /\ ~IsOver'
    BY <1>4 DEF IsOver
  <2>2. ~Single!IsCollide(b, Single!AtSpawn(Head(q)))
    BY <1>4, SameIsCollide, SameMinos
  <2>3. queue' \in Single!Peeked(Tail(q), Preview - 1)
    BY <1>4, SamePeeked
  <2>4. (IF IsOver THEN NoMino ELSE cur)' = Single!AtSpawn(Head(q))
    BY <1>4, <2>1, SameMinos
  <2> QED
    BY <1>2, <2>1, <2>2, <2>3, <2>4 DEF Single!TrySpawnMino
<1> QED
  BY <1>1, <1>3, <1>4

LEMMA LockRefines ==
    ASSUME HandType, ~IsOver, NEW m, LockAndProceed(m)
    PROVE  Single!LockAndProceed(m)
<1>1. Single!ClearFullLines(Single!Lock(board, m)) = ClearFullLines(Lock(board, m))
  BY SameClear, SameLock
<1>2. Single!TrySpawnMino(ClearFullLines(Lock(board, m)).cells)
  BY SpawnRefines DEF LockAndProceed
<1> QED
  BY <1>1, <1>2, SamePieces DEF LockAndProceed, Single!LockAndProceed

LEMMA BecomesRefines ==
    ASSUME ~IsOver, NEW m, Becomes(m)
    PROVE  Single!Becomes(m)
  BY DEF Becomes, Single!Becomes, IsOver

LEMMA MovingRefines ==
    ASSUME HandType, ~IsOver, Moving
    PROVE  Single!Next
<1>1. Single!Playing
  BY InHand DEF Single!Playing
<1>2. CASE \E d \in {<<0, 1>>, <<-1, 0>>, <<1, 0>>} : Becomes(Moved(cur, d[1], d[2]))
  <2>1. PICK d \in {<<0, 1>>, <<-1, 0>>, <<1, 0>>} : Becomes(Moved(cur, d[1], d[2]))
    BY <1>2
  <2>2. /\ ~Single!IsCollide(board, Single!Moved(cur, d[1], d[2]))
        /\ Single!Becomes(Single!Moved(cur, d[1], d[2]))
    BY <2>1, SameIsCollide, SameMinos, BecomesRefines DEF Becomes
  <2>3. Single!TryMove(d[1], d[2])
    BY <1>1, <2>2 DEF Single!TryMove
  <2> QED
    BY <2>3 DEF Single!Next, Single!ProcessInputs
<1>3. CASE Becomes(TurnedCW(cur))
  <2>1. ~Single!IsCollide(board, Single!TurnedCW(cur)) /\ Single!Becomes(Single!TurnedCW(cur))
    BY <1>3, SameIsCollide, SameMinos, BecomesRefines DEF Becomes
  <2> QED
    BY <1>1, <2>1 DEF Single!TryRotateCW, Single!Next, Single!ProcessInputs
<1>4. CASE Becomes(TurnedCCW(cur))
  <2>1. ~Single!IsCollide(board, Single!TurnedCCW(cur)) /\ Single!Becomes(Single!TurnedCCW(cur))
    BY <1>4, SameIsCollide, SameMinos, BecomesRefines DEF Becomes
  <2> QED
    BY <1>1, <2>1 DEF Single!TryRotateCCW, Single!Next, Single!ProcessInputs
<1> QED
  BY <1>2, <1>3, <1>4 DEF Moving

LEMMA LockingRefines ==
    ASSUME HandType, ~IsOver, Locking
    PROVE  Single!Next
<1>1. Single!Playing
  BY InHand DEF Single!Playing
<1>2. CASE LockAndProceed(Landed(board, cur))
  <2>1. Single!LockAndProceed(Single!Landed(board, cur))
    BY <1>2, LockRefines, SameLanded
  <2> QED
    BY <1>1, <2>1 DEF Single!HardDrop, Single!Next, Single!ProcessInputs
<1>3. CASE IsCollide(board, Moved(cur, 0, 1)) /\ LockAndProceed(cur)
  <2>1. Single!IsCollide(board, Single!Moved(cur, 0, 1)) /\ Single!LockAndProceed(cur)
    BY <1>3, LockRefines, SameIsCollide, SameMinos
  <2> QED
    BY <1>1, <2>1 DEF Single!Gravity, Single!Next, Single!Update
<1> QED
  BY <1>2, <1>3 DEF Locking

LEMMA HoldingRefines ==
    ASSUME HandType, ~IsOver, FirstHold \/ Swap
    PROVE  Single!Next
<1>1. Single!Playing
  BY InHand DEF Single!Playing
<1>2. CASE FirstHold
  <2>1. Single!TrySpawnMino(board)
    BY <1>2, SpawnRefines DEF FirstHold
  <2> QED
    BY <1>1, <1>2, <2>1 DEF FirstHold, Single!HoldFirst, Single!Next, Single!ProcessInputs
<1>3. CASE Swap
  <2>1. /\ ~Single!IsCollide(board, Single!AtSpawn(hold))
        /\ (IF IsOver THEN NoMino ELSE cur)' = Single!AtSpawn(hold)
        /\ IsOver' = IsOver
    BY <1>3, SameIsCollide, SameMinos DEF Swap, IsOver
  <2> QED
    BY <1>1, <1>3, <2>1 DEF Swap, Single!HoldSwap, Single!Next, Single!ProcessInputs
<1> QED
  BY <1>2, <1>3

LEMMA InitRefines == Init => Single!Init
<1> SUFFICES ASSUME Init
             PROVE  Single!Init
  OBVIOUS
<1>1. ~IsOver
  BY DEF Init, IsOver
<1>2. \E q \in Single!Peeked(<<>>, 0) :
        /\ cur = Single!AtSpawn(Head(q))
        /\ queue \in Single!Peeked(Tail(q), Preview - 1)
  BY SamePeeked, SameMinos DEF Init
<1> QED
  BY <1>1, <1>2 DEF Init, Single!Init

LEMMA StepRefines == HandType /\ [Next]_vars => [Single!Next]_(Single!vars)
<1> SUFFICES ASSUME HandType, [Next]_vars
             PROVE  [Single!Next]_(Single!vars)
  OBVIOUS
<1>1. CASE ~IsOver /\ (Moving \/ Locking \/ FirstHold \/ Swap)
  BY <1>1, MovingRefines, LockingRefines, HoldingRefines
<1>2. CASE UNCHANGED <<gameVars, IsOver>>
  BY <1>2 DEF gameVars, Single!vars
<1> QED
  BY <1>1, <1>2, GameSteps

(* The rules of a match are those of a single game (MultiPlayLogic.cpp repeats *)
(* SinglePlayState.cpp): whatever was proved of one holds in the other.       *)
THEOREM Refinement == Spec => ImplementsSinglePlay
  BY InitRefines, StepRefines, Hand, PTL DEF Spec, ImplementsSinglePlay, Single!Spec

-----------------------------------------------------------------------------
(* What the opponent will have seen of a part when the packets have arrived.    *)

IsSeq(s) == \E S : s \in Seq(S)

(* The last packet of part p in s, or what is shown if there is none, says v.   *)
Carried(s, shown, p, v) ==
    /\ \A i \in 1 .. Len(s) :
        s[i].part = p /\ (\A j \in i + 1 .. Len(s) : s[j].part # p) => s[i].state = v
    /\ (\A i \in 1 .. Len(s) : s[i].part # p) => shown = v

LEMMA AddPacket ==
    ASSUME NEW s, IsSeq(s), NEW shown, NEW p, NEW v, NEW q, NEW w, NEW flags
    PROVE  /\ IsSeq(s \o Packet(q, w, flags))
           /\ (q # p \/ q \notin flags) /\ Carried(s, shown, p, v)
                => Carried(s \o Packet(q, w, flags), shown, p, v)
           /\ q = p /\ q \in flags => Carried(s \o Packet(q, w, flags), shown, p, w)
<1>1. PICK S : s \in Seq(S)
  BY DEF IsSeq
<1>2. CASE q \notin flags
  <2>1. s \o Packet(q, w, flags) = s
    BY <1>1, <1>2 DEF Packet
  <2> QED
    BY <1>2, <2>1
<1>3. CASE q \in flags
  <2> DEFINE x == [part |-> q, state |-> w]
             t == s \o <<x>>
  <2>1. s \o Packet(q, w, flags) = t
    BY <1>3 DEF Packet
  <2>2. t \in Seq(S \cup {x})
    BY <1>1
  <2>3. /\ Len(s) \in Nat /\ Len(t) = Len(s) + 1
        /\ \A i \in 1 .. Len(s) : t[i] = s[i]
        /\ t[Len(t)] = x
    BY <1>1
  <2>4. x.part = q /\ x.state = w
    OBVIOUS
  <2> HIDE DEF x, t
  <2>5. IsSeq(t)
    BY <2>2 DEF IsSeq
  <2>6. ASSUME q = p
        PROVE  Carried(t, shown, p, w)
    <3>1. \A i \in 1 .. Len(t) : i # Len(t) => Len(t) \in i + 1 .. Len(t)
      BY <2>3
    <3>2. Len(t) \in 1 .. Len(t) /\ t[Len(t)].part = p /\ t[Len(t)].state = w
      BY <2>3, <2>4, <2>6
    <3> QED
      BY <3>1, <3>2 DEF Carried
  <2>7. ASSUME q # p, Carried(s, shown, p, v)
        PROVE  Carried(t, shown, p, v)
    <3>1. ASSUME NEW i \in 1 .. Len(t), t[i].part = p,
                 \A j \in i + 1 .. Len(t) : t[j].part # p
          PROVE  t[i].state = v
      <4>1. i \in 1 .. Len(s) /\ t[i] = s[i]
        BY <2>3, <2>4, <2>7, <3>1
      <4>2. \A j \in i + 1 .. Len(s) : s[j].part # p
        BY <2>3, <3>1
      <4> QED
        BY <2>7, <3>1, <4>1, <4>2 DEF Carried
    <3>2. ASSUME \A i \in 1 .. Len(t) : t[i].part # p
          PROVE  shown = v
      <4>1. \A i \in 1 .. Len(s) : s[i].part # p
        BY <2>3, <3>2
      <4> QED
        BY <2>7, <4>1 DEF Carried
    <3> QED
      BY <3>1, <3>2 DEF Carried
  <2> QED
    BY <1>3, <2>1, <2>5, <2>6, <2>7
<1> QED
  BY <1>2, <1>3

LEMMA TakePacket ==
    ASSUME NEW s, IsSeq(s), s # <<>>, NEW shown, NEW p, NEW v, Carried(s, shown, p, v)
    PROVE  /\ IsSeq(Tail(s))
           /\ Carried(Tail(s), IF Head(s).part = p THEN Head(s).state ELSE shown, p, v)
<1>1. PICK S : s \in Seq(S)
  BY DEF IsSeq
<1> DEFINE t == Tail(s)
<1>2. t \in Seq(S)
  BY <1>1
<1>3. /\ Len(t) \in Nat /\ Len(s) = Len(t) + 1
      /\ \A i \in 1 .. Len(t) : t[i] = s[i + 1]
      /\ Head(s) = s[1]
  BY <1>1
<1> HIDE DEF t
<1>4. ASSUME NEW i \in 1 .. Len(t), t[i].part = p,
             \A j \in i + 1 .. Len(t) : t[j].part # p
      PROVE  t[i].state = v
  <2>1. i + 1 \in 1 .. Len(s) /\ t[i] = s[i + 1]
    BY <1>3
  <2>2. \A j \in (i + 1) + 1 .. Len(s) : s[j].part # p
    <3> SUFFICES ASSUME NEW j \in (i + 1) + 1 .. Len(s)
                 PROVE  s[j].part # p
      OBVIOUS
    <3>1. j - 1 \in i + 1 .. Len(t) /\ j - 1 \in 1 .. Len(t) /\ (j - 1) + 1 = j
      BY <1>3
    <3> QED
      BY <1>3, <1>4, <3>1
  <2> QED
    BY <1>4, <2>1, <2>2 DEF Carried
<1>5. ASSUME \A i \in 1 .. Len(t) : t[i].part # p
      PROVE  (IF Head(s).part = p THEN Head(s).state ELSE shown) = v
  <2>1. \A j \in 2 .. Len(s) : s[j].part # p
    <3> SUFFICES ASSUME NEW j \in 2 .. Len(s)
                 PROVE  s[j].part # p
      OBVIOUS
    <3>1. j - 1 \in 1 .. Len(t) /\ (j - 1) + 1 = j
      BY <1>3
    <3> QED
      BY <1>3, <1>5, <3>1
  <2>2. 1 \in 1 .. Len(s)
    BY <1>3
  <2>3. CASE s[1].part = p
    BY <1>3, <2>1, <2>2, <2>3 DEF Carried
  <2>4. CASE s[1].part # p
    <3>1. \A i \in 1 .. Len(s) : s[i].part # p
      <4> SUFFICES ASSUME NEW i \in 1 .. Len(s)
                   PROVE  s[i].part # p
        OBVIOUS
      <4>1. i = 1 \/ i \in 2 .. Len(s)
        BY <1>3
      <4> QED
        BY <2>1, <2>4, <4>1
    <3> QED
      BY <1>3, <2>4, <3>1 DEF Carried
  <2> QED
    BY <2>3, <2>4
<1> QED
  BY <1>2, <1>4, <1>5 DEF IsSeq, Carried, t

-----------------------------------------------------------------------------
(* Every part is marked to be sent, or what is under way is right.             *)

Current == [cur |-> cur, hold |-> hold, preview |-> PreviewOf(queue), board |-> board]

Sent == {"hold", "preview", "board"}

StreamInv ==
    /\ IsSeq(stream)
    /\ mirror = [p \in Parts |-> mirror[p]]
    /\ \A p \in Sent : p \in sync \/ Carried(stream, mirror[p], p, Current[p])
    /\ \/ "cur" \in sync
       \/ Carried(stream, mirror["cur"], "cur", cur)
       \/ cur = AtSpawn(cur.type)

(* The flags that a step of the game sets cover what it changed, but for a mino *)
(* that has just come into play.                                             *)
Flagged(flags) ==
    /\ \A p \in Sent : p \in flags \/ Current'[p] = Current[p]
    /\ "cur" \in flags \/ cur' = cur \/ cur' = AtSpawn(cur'.type)

LEMMA SendParts ==
    ASSUME IsSeq(stream), NEW flags, SyncToServer(flags), NEW p \in Parts, NEW shown
    PROVE  /\ IsSeq(stream')
           /\ p \in flags => Carried(stream', shown, p, Current'[p])
           /\ \A v : p \notin flags /\ Carried(stream, shown, p, v)
                        => Carried(stream', shown, p, v)
<1> DEFINE s1 == stream \o Packet("cur", cur', flags)
           s2 == s1 \o Packet("hold", hold', flags)
           s3 == s2 \o Packet("preview", PreviewOf(queue'), flags)
           s4 == s3 \o Packet("board", board', flags)
<1>1. stream' = s4
  BY DEF SyncToServer, WithPackets
<1>2. IsSeq(s1) /\ IsSeq(s2) /\ IsSeq(s3) /\ IsSeq(s4)
  <2>1. IsSeq(s1)
    BY AddPacket
  <2>2. IsSeq(s2)
    BY <2>1, AddPacket
  <2>3. IsSeq(s3)
    BY <2>2, AddPacket
  <2>4. IsSeq(s4)
    BY <2>3, AddPacket
  <2> QED
    BY <2>1, <2>2, <2>3, <2>4
<1> DEFINE Keeps(q, s, t) ==
               \A v : (q # p \/ p \notin flags) /\ Carried(s, shown, p, v) => Carried(t, shown, p, v)
<1>3. /\ Keeps("cur", stream, s1)
      /\ Keeps("hold", s1, s2)
      /\ Keeps("preview", s2, s3)
      /\ Keeps("board", s3, s4)
  <2>1. Keeps("cur", stream, s1)
    BY AddPacket
  <2> HIDE DEF s1
  <2>2. Keeps("hold", s1, s2)
    BY <1>2, AddPacket
  <2> HIDE DEF s2
  <2>3. Keeps("preview", s2, s3)
    BY <1>2, AddPacket
  <2> HIDE DEF s3
  <2>4. Keeps("board", s3, s4)
    BY <1>2, AddPacket
  <2> QED
    BY <2>1, <2>2, <2>3, <2>4
<1>4. /\ p = "cur" /\ p \in flags => Carried(s1, shown, p, cur')
      /\ p = "hold" /\ p \in flags => Carried(s2, shown, p, hold')
      /\ p = "preview" /\ p \in flags => Carried(s3, shown, p, PreviewOf(queue'))
      /\ p = "board" /\ p \in flags => Carried(s4, shown, p, board')
  <2>1. p = "cur" /\ p \in flags => Carried(s1, shown, p, cur')
    BY AddPacket
  <2> HIDE DEF s1
  <2>2. p = "hold" /\ p \in flags => Carried(s2, shown, p, hold')
    BY <1>2, AddPacket
  <2> HIDE DEF s2
  <2>3. p = "preview" /\ p \in flags => Carried(s3, shown, p, PreviewOf(queue'))
    BY <1>2, AddPacket
  <2> HIDE DEF s3
  <2>4. p = "board" /\ p \in flags => Carried(s4, shown, p, board')
    BY <1>2, AddPacket
  <2> QED
    BY <2>1, <2>2, <2>3, <2>4
<1> HIDE DEF s1, s2, s3, s4
<1>5. ASSUME p \in flags
      PROVE  Carried(s4, shown, p, Current'[p])
  BY <1>3, <1>4, <1>5 DEF Parts, Current
<1> QED
  BY <1>1, <1>2, <1>3, <1>5

LEMMA KeyInv ==
    ASSUME StreamInv, NEW flags, Key(flags), Flagged(flags)
    PROVE  StreamInv'
<1>1. /\ sync' = sync \cup flags
      /\ UNCHANGED <<stream, mirror>>
  BY DEF Key
<1>2. \A p \in Sent : p \in sync' \/ Carried(stream, mirror[p], p, Current'[p])
  BY <1>1 DEF StreamInv, Flagged
<1>3. \/ "cur" \in sync' \/ Carried(stream, mirror["cur"], "cur", cur')
      \/ cur' = AtSpawn(cur'.type)
  BY <1>1 DEF StreamInv, Flagged
<1> QED
  BY <1>1, <1>2, <1>3 DEF StreamInv

LEMMA FrameInv ==
    ASSUME StreamInv, NEW flags, FrameEnds(flags), Flagged(flags)
    PROVE  StreamInv'
<1> DEFINE all == sync \cup flags
<1>1. SyncToServer(all) /\ mirror' = mirror /\ IsSeq(stream)
  BY DEF FrameEnds, StreamInv
<1>2. \A p \in Parts :
        /\ p \in all => Carried(stream', mirror[p], p, Current'[p])
        /\ \A v : p \notin all /\ Carried(stream, mirror[p], p, v) => Carried(stream', mirror[p], p, v)
  BY <1>1, SendParts
<1>3. IsSeq(stream')
  BY <1>1, SendParts DEF Parts
<1>4. \A p \in Sent : Carried(stream', mirror[p], p, Current'[p])
  BY <1>2 DEF StreamInv, Flagged, Sent, Parts
<1>5. Carried(stream', mirror["cur"], "cur", cur') \/ cur' = AtSpawn(cur'.type)
  <2>1. "cur" \in Parts /\ Current'["cur"] = cur'
    BY DEF Parts, Current
  <2> QED
    BY <1>2, <2>1 DEF StreamInv, Flagged
<1> QED
  BY <1>1, <1>3, <1>4, <1>5 DEF StreamInv

-----------------------------------------------------------------------------
(* The flags of each step.                                                    *)

LEMMA SpawnFlagged ==
    ASSUME HandType, ~IsOver, NEW b, NEW m, TrySpawnMino(b, m)
    PROVE  \/ cur' = m /\ queue' = queue
           \/ cur' = AtSpawn(cur'.type) /\ "preview" \in SpawnFlags
<1>1. PICK q \in Peeked(queue, 0) :
        \/ queue' = q /\ cur' = m
        \/ cur' = AtSpawn(Head(q)) /\ UNCHANGED ended
  BY DEF TrySpawnMino
<1>2. q = queue
  BY NextIsQueued
<1>3. AtSpawn(Head(q)) = AtSpawn(AtSpawn(Head(q)).type)
  BY DEF AtSpawn
<1> QED
  BY <1>1, <1>2, <1>3 DEF SpawnFlags, IsOver

LEMMA LockFlagged ==
    ASSUME HandType, ~IsOver, NEW m, LockAndProceed(m), NEW flags, "board" \in flags,
           SpawnFlags \subseteq flags, m # cur => "cur" \in flags
    PROVE  Flagged(flags)
<1>1. hold' = hold /\ TrySpawnMino(ClearFullLines(Lock(board, m)).cells, m)
  BY DEF LockAndProceed
<1>2. \/ cur' = m /\ queue' = queue
      \/ cur' = AtSpawn(cur'.type) /\ "preview" \in flags
  BY <1>1, SpawnFlagged
<1> QED
  BY <1>1, <1>2 DEF Flagged, Sent, Current

LEMMA BecomesFlagged ==
    ASSUME NEW m, Becomes(m), NEW flags, "cur" \in flags
    PROVE  Flagged(flags)
  BY DEF Becomes, Flagged, Sent, Current

LEMMA HoldFlagged ==
    /\ HandType /\ HoldFirst => Flagged({"hold"} \cup SpawnFlags)
    /\ HoldSwap => Flagged({"hold"})
<1>1. ASSUME HandType, HoldFirst
      PROVE  Flagged({"hold"} \cup SpawnFlags)
  <2>1. ~IsOver /\ board' = board /\ TrySpawnMino(board, cur)
    BY <1>1 DEF HoldFirst, Key, IsOver
  <2>2. \/ cur' = cur /\ queue' = queue
        \/ cur' = AtSpawn(cur'.type) /\ "preview" \in SpawnFlags
    BY <1>1, <2>1, SpawnFlagged
  <2> QED
    BY <2>1, <2>2 DEF Flagged, Sent, Current
<1>2. ASSUME HoldSwap
      PROVE  Flagged({"hold"})
  <2>1. cur' = AtSpawn(hold) /\ UNCHANGED <<board, queue>>
    BY <1>2 DEF HoldSwap
  <2>2. cur' = AtSpawn(cur'.type)
    BY <2>1 DEF AtSpawn
  <2> QED
    BY <2>1, <2>2 DEF Flagged, Sent, Current
<1> QED
  BY <1>1, <1>2

LEMMA ApplyInv ==
    ASSUME StreamInv, ApplyEnemyState
    PROVE  StreamInv'
<1>1. /\ IsSeq(stream) /\ stream # <<>>
      /\ mirror' = [mirror EXCEPT ![Head(stream).part] = Head(stream).state]
      /\ stream' = Tail(stream)
      /\ UNCHANGED <<cur, hold, queue, board, sync>>
  BY DEF ApplyEnemyState, StreamInv, gameVars
<1>2. mirror = [p \in Parts |-> mirror[p]]
  BY DEF StreamInv
<1>3. /\ mirror' = [p \in Parts |-> mirror'[p]]
      /\ \A p \in Parts : mirror'[p] = IF Head(stream).part = p THEN Head(stream).state ELSE mirror[p]
  BY <1>1, <1>2
<1>4. /\ IsSeq(stream')
      /\ \A p \in Parts : \A v : Carried(stream, mirror[p], p, v) => Carried(stream', mirror'[p], p, v)
  <2>1. \A p \in Parts : \A v : Carried(stream, mirror[p], p, v) =>
            Carried(stream', IF Head(stream).part = p THEN Head(stream).state ELSE mirror[p], p, v)
    BY <1>1, TakePacket
  <2>2. IsSeq(stream')
    BY <1>1 DEF IsSeq
  <2> QED
    BY <1>3, <2>1, <2>2
<1>5. \A p \in Sent : p \in Parts /\ Current'[p] = Current[p]
  BY <1>1 DEF Sent, Parts, Current
<1>6. "cur" \in Parts
  BY DEF Parts
<1> QED
  BY <1>1, <1>3, <1>4, <1>5, <1>6 DEF StreamInv

LEMMA InitStream == Init => StreamInv
<1> SUFFICES ASSUME Init
             PROVE  StreamInv
  OBVIOUS
<1>1. stream = <<>> /\ sync = {"preview"}
      /\ mirror = [cur |-> cur, hold |-> NoType, preview |-> PreviewOf(queue), board |-> {}]
      /\ hold = NoType /\ board = {}
  BY DEF Init
<1>2. IsSeq(stream) /\ Len(stream) = 0
  <2>1. <<>> \in Seq({})
    OBVIOUS
  <2> QED
    BY <1>1, <2>1 DEF IsSeq
<1>3. \A p, v : Carried(stream, v, p, v)
  BY <1>2 DEF Carried
<1>4. mirror = [p \in Parts |-> mirror[p]]
  BY <1>1 DEF Parts
<1>5. \A p \in Parts : mirror[p] = Current[p]
  BY <1>1 DEF Parts, Current
<1> QED
  BY <1>2, <1>3, <1>4, <1>5 DEF StreamInv, Sent, Parts, Current

LEMMA StepStream == HandType /\ StreamInv /\ [Next]_vars => StreamInv'
<1> SUFFICES ASSUME HandType, StreamInv, [Next]_vars
             PROVE  StreamInv'
  OBVIOUS
<1>1. CASE TryMove(0, 1) \/ TryMove(-1, 0) \/ TryMove(1, 0)
  BY <1>1, KeyInv, BecomesFlagged DEF TryMove
<1>2. CASE TryRotateCW \/ TryRotateCCW
  BY <1>2, KeyInv, BecomesFlagged DEF TryRotateCW, TryRotateCCW
<1>3. CASE HardDrop
  <2> DEFINE m == Landed(board, cur)
             flags == (IF m # cur THEN {"cur"} ELSE {}) \cup {"board"} \cup SpawnFlags
  <2>1. LockAndProceed(m) /\ Key(flags) /\ ~IsOver
    BY <1>3 DEF HardDrop, Key, IsOver
  <2>2. "board" \in flags /\ SpawnFlags \subseteq flags /\ (m # cur => "cur" \in flags)
    OBVIOUS
  <2> HIDE DEF m, flags
  <2> QED
    BY <2>1, <2>2, LockFlagged, KeyInv
<1>4. CASE HoldFirst
  <2>1. Key({"hold"} \cup SpawnFlags)
    BY <1>4 DEF HoldFirst
  <2> QED
    BY <1>4, <2>1, HoldFlagged, KeyInv
<1>5. CASE HoldSwap
  <2>1. Key({"hold"})
    BY <1>5 DEF HoldSwap
  <2> QED
    BY <1>5, <2>1, HoldFlagged, KeyInv
<1>6. CASE UpdateFalls
  <2>1. Becomes(Moved(cur, 0, 1)) /\ FrameEnds({"cur", "preview"})
    BY <1>6 DEF UpdateFalls
  <2> QED
    BY <2>1, BecomesFlagged, FrameInv
<1>7. CASE UpdateLocks
  <2>1. LockAndProceed(cur) /\ FrameEnds({"preview", "board"}) /\ ~IsOver
    BY <1>7 DEF UpdateLocks, IsOver
  <2>2. Flagged({"preview", "board"})
    BY <2>1, LockFlagged DEF SpawnFlags
  <2> QED
    BY <2>1, <2>2, FrameInv
<1>8. CASE UpdateWaits
  <2>1. PICK flags : FrameEnds(flags)
    BY <1>8 DEF UpdateWaits
  <2>2. Flagged(flags)
    BY <1>8 DEF UpdateWaits, gameVars, Flagged, Current
  <2> QED
    BY <2>1, <2>2, FrameInv
<1>9. CASE WinnerIsLocal \/ UNCHANGED vars
  BY <1>9 DEF WinnerIsLocal, vars, gameVars, StreamInv, Current
<1>10. CASE ApplyEnemyState
  BY <1>10, ApplyInv
<1>11. CASE MatchIsLeft
  BY <1>11, LeavingKeeps DEF gameVars, StreamInv, Current
<1> QED
  BY <1>1, <1>2, <1>3, <1>4, <1>5, <1>6, <1>7, <1>8, <1>9, <1>10, <1>11
  DEF Next, ProcessInputs, Update, MatchIsLeft

LEMMA Streams == Spec => [](HandType /\ StreamInv)
<1>1. Init => HandType /\ StreamInv
  BY InitHand, InitStream
<1>2. HandType /\ StreamInv /\ [Next]_vars => HandType' /\ StreamInv'
  BY StepHand, StepStream
<1> QED
  BY <1>1, <1>2, PTL DEF Spec

LEMMA SettledParts == StreamInv => PartsMirrored /\ MovedMinoMirrored
<1> SUFFICES ASSUME StreamInv, Settled
             PROVE  /\ \A p \in Sent : mirror[p] = Current[p]
                    /\ mirror["cur"] = cur \/ cur = AtSpawn(cur.type)
  BY DEF PartsMirrored, MovedMinoMirrored, Sent, Current
<1>1. sync = {} /\ Len(stream) = 0
  BY DEF Settled
<1>2. \A p, v : Carried(stream, mirror[p], p, v) => mirror[p] = v
  BY <1>1 DEF Carried
<1> QED
  BY <1>1, <1>2 DEF StreamInv

(* Hold, preview and board: whenever nothing is under way the opponent sees     *)
(* them as they are, whatever keys and packets came in between.               *)
THEOREM PartsMirroredHolds == Spec => []PartsMirrored
  BY Streams, SettledParts, PTL

(* The mino is seen as it is, unless it is where a spawn or a swap has put it,   *)
(* which no flag announces (MultiPlayLogic.cpp:181, 362).                    *)
THEOREM MovedMinoMirroredHolds == Spec => []MovedMinoMirrored
  BY Streams, SettledParts, PTL
-----------------------------------------------------------------------------
(* Types.  What a hard drop leaves in hand when the game ends is the mino at    *)
(* rest; there is one because the mino in hand fitted.                       *)

GameType ==
    /\ board \subseteq Cells
    /\ cur \in Mino(Type)
    /\ held \in BOOLEAN
    /\ locked \in [Type -> 0 .. MaxPieces]
    /\ lines \in Nat
    /\ ~IsOver => ~IsCollide(board, cur)

LEMMA SpawnGame ==
    ASSUME HandType, ~IsOver, NEW b, NEW m \in Mino(Type), TrySpawnMino(b, m)
    PROVE  cur' \in Mino(Type) /\ (~IsOver' => ~IsCollide(b, cur'))
<1>1. PICK q \in Peeked(queue, 0) :
        \/ ended' = ended \cup {"Local"} /\ cur' = m
        \/ cur' = AtSpawn(Head(q)) /\ ~IsCollide(b, AtSpawn(Head(q)))
  BY DEF TrySpawnMino
<1>2. AtSpawn(Head(q)) \in Mino(Type)
  BY PeekedBag DEF HandType
<1> QED
  BY <1>1, <1>2 DEF IsOver

LEMMA PieceBound ==
    ASSUME GameType, Pieces < MaxPieces
    PROVE  \A t \in Type : locked[t] + 1 \in 0 .. MaxPieces
<1>1. Pieces = Sum(locked, Type)
  BY SumIsFold, Zenon DEF Pieces
<1>2. IsFiniteSet(Type) /\ \A t \in Type : locked[t] \in Nat
  BY BagAssumption, BoundAssumption DEF GameType
<1>3. Sum(locked, Type) \in Nat /\ \A t \in Type : locked[t] <= Sum(locked, Type)
  BY <1>2, SumBound
<1> QED
  BY <1>1, <1>2, <1>3, BoundAssumption

LEMMA LockGame ==
    ASSUME HandType, GameType, ~IsOver, NEW m \in Mino(Type), LockAndProceed(m)
    PROVE  GameType'
<1> DEFINE r == ClearFullLines(Lock(board, m))
<1>1. /\ board' = r.cells /\ lines' = lines + r.cleared /\ held' = FALSE
      /\ locked' = [locked EXCEPT ![m.type] = @ + 1]
      /\ Pieces < MaxPieces
      /\ TrySpawnMino(r.cells, m)
  BY DEF LockAndProceed
<1>2. board \in SUBSET Cells /\ lines \in Nat /\ locked \in [Type -> 0 .. MaxPieces]
  BY DEF GameType
<1>3. r \in [cells : SUBSET Cells, cleared : Nat]
  <2>1. Lock(board, m) \in SUBSET Cells
    BY <1>2 DEF Lock
  <2> QED
    BY <2>1, ClearFullLinesType
<1> HIDE DEF r
<1>4. cur' \in Mino(Type) /\ (~IsOver' => ~IsCollide(r.cells, cur'))
  BY <1>1, SpawnGame
<1>5. locked' \in [Type -> 0 .. MaxPieces]
  <2>1. m.type \in Type
    BY DEF Mino
  <2>2. locked[m.type] + 1 \in 0 .. MaxPieces
    BY <1>1, <2>1, PieceBound
  <2> QED
    BY <1>1, <1>2, <2>1, <2>2
<1>6. board' \subseteq Cells /\ lines' \in Nat
  BY <1>1, <1>2, <1>3
<1>7. ~IsOver' => ~IsCollide(board', cur')
  BY <1>1, <1>4
<1> QED
  BY <1>1, <1>4, <1>5, <1>6, <1>7 DEF GameType

LEMMA StepGame ==
    ASSUME HandType, GameType, [Next]_vars
    PROVE  GameType'
<1>0. cur \in Mino(Type) /\ (~IsOver => ~IsCollide(board, cur))
  BY DEF GameType
<1>1. ASSUME ~IsOver, NEW m \in Mino(Type), Becomes(m)
      PROVE  GameType'
  <2>1. ~IsCollide(board', cur')
    BY <1>1 DEF Becomes
  <2> QED
    BY <1>1, <2>1 DEF Becomes, GameType
<1>2. CASE ~IsOver /\ Moving
  <2>1. /\ \A d \in {<<0, 1>>, <<-1, 0>>, <<1, 0>>} : Moved(cur, d[1], d[2]) \in Mino(Type)
        /\ TurnedCW(cur) \in Mino(Type) /\ TurnedCCW(cur) \in Mino(Type)
    BY <1>0, MoveIsMino, TurnIsMino
  <2> QED
    BY <1>1, <1>2, <2>1 DEF Moving
<1>3. CASE ~IsOver /\ Locking
  <2>1. PICK d \in 0 .. Height : Landed(board, cur) = Moved(cur, 0, d)
    BY <1>0, <1>3, LandedFits, TypeAssumption
  <2>2. Landed(board, cur) \in Mino(Type)
    BY <1>0, <2>1, MoveIsMino, SizeAssumption
  <2> QED
    BY <1>0, <1>3, <2>2, LockGame DEF Locking
<1>4. CASE ~IsOver /\ FirstHold
  <2>1. cur' \in Mino(Type) /\ (~IsOver' => ~IsCollide(board, cur'))
    BY <1>0, <1>4, SpawnGame DEF FirstHold
  <2>2. ~IsOver' => ~IsCollide(board', cur')
    BY <1>4, <2>1 DEF FirstHold
  <2> QED
    BY <1>4, <2>1, <2>2 DEF FirstHold, GameType
<1>5. CASE ~IsOver /\ Swap
  <2>1. hold \in Type
    BY <1>5 DEF Swap, HandType
  <2>2. cur' \in Mino(Type) /\ ~IsCollide(board', cur')
    BY <1>5, <2>1, SpawnIsMino DEF Swap
  <2> QED
    BY <1>5, <2>2 DEF Swap, GameType
<1>6. CASE UNCHANGED <<gameVars, IsOver>>
  BY <1>6 DEF gameVars, GameType
<1> QED
  BY <1>2, <1>3, <1>4, <1>5, <1>6, GameSteps

LEMMA InitGame == Init => GameType
<1> SUFFICES ASSUME Init
             PROVE  GameType
  OBVIOUS
<1>1. PICK q \in Peeked(<<>>, 0) : cur = AtSpawn(Head(q))
  BY DEF Init
<1>2. <<>> \in Seq(Type)
  OBVIOUS
<1>3. Head(q) \in Type /\ cur \in Mino(Type)
  BY <1>1, <1>2, PeekedBag
<1>4. ~IsCollide(board, cur)
  BY <1>1, <1>3, SpawnAssumption DEF Init
<1>5. locked \in [Type -> 0 .. MaxPieces]
  BY BoundAssumption DEF Init
<1> QED
  BY <1>3, <1>4, <1>5 DEF Init, GameType

(* What is sent is a state of the part that the packet is about.               *)
LEMMA CurrentType ==
    ASSUME HandType, GameType
    PROVE  \A p \in Parts : IsState(p, Current[p])
<1>1. PreviewOf(queue) \in Seq(Type) /\ Len(PreviewOf(queue)) = Preview
  <2>1. queue \in Seq(Type) /\ Len(queue) >= Preview /\ Preview \in Nat \ {0}
    BY PreviewAssumption, SizeOfBag DEF HandType
  <2> QED
    BY <2>1 DEF PreviewOf
<1>2. IsState("cur", cur) /\ IsState("hold", hold) /\ IsState("board", board)
  BY DEF HandType, GameType, IsState
<1>3. IsState("preview", PreviewOf(queue))
  BY <1>1 DEF IsState
<1>4. /\ Current["cur"] = cur /\ Current["hold"] = hold
      /\ Current["preview"] = PreviewOf(queue) /\ Current["board"] = board
  BY DEF Current
<1> QED
  BY <1>2, <1>3, <1>4 DEF Parts

LEMMA CurrentIsState == HandType /\ GameType => \A p \in Parts : IsState(p, Current[p])
  BY CurrentType

IsPacket(x) == x.part \in Parts /\ IsState(x.part, x.state)

LEMMA AddIsPacket ==
    ASSUME NEW s, IsSeq(s), \A i \in DOMAIN s : IsPacket(s[i]),
           NEW p \in Parts, NEW v, IsState(p, v), NEW flags
    PROVE  /\ IsSeq(s \o Packet(p, v, flags))
           /\ \A i \in DOMAIN (s \o Packet(p, v, flags)) : IsPacket((s \o Packet(p, v, flags))[i])
<1>1. PICK S : s \in Seq(S)
  BY DEF IsSeq
<1>2. CASE p \notin flags
  <2>1. s \o Packet(p, v, flags) = s
    BY <1>1, <1>2 DEF Packet
  <2> QED
    BY <2>1
<1>3. CASE p \in flags
  <2> DEFINE x == [part |-> p, state |-> v]
             t == s \o <<x>>
  <2>1. s \o Packet(p, v, flags) = t
    BY <1>3 DEF Packet
  <2>2. t \in Seq(S \cup {x})
    BY <1>1
  <2>3. \A i \in DOMAIN t : (i \in DOMAIN s /\ t[i] = s[i]) \/ t[i] = x
    BY <1>1
  <2>4. IsPacket(x)
    BY DEF IsPacket
  <2> HIDE DEF x, t
  <2>5. IsSeq(t) /\ \A i \in DOMAIN t : IsPacket(t[i])
    BY <2>2, <2>3, <2>4 DEF IsSeq
  <2> QED
    BY <2>1, <2>5
<1> QED
  BY <1>2, <1>3

LEMMA SendPackets ==
    ASSUME IsSeq(stream), \A i \in DOMAIN stream : IsPacket(stream[i]),
           \A p \in Parts : IsState(p, Current'[p]), NEW flags, SyncToServer(flags)
    PROVE  \A i \in DOMAIN stream' : IsPacket(stream'[i])
<1> DEFINE s1 == stream \o Packet("cur", cur', flags)
           s2 == s1 \o Packet("hold", hold', flags)
           s3 == s2 \o Packet("preview", PreviewOf(queue'), flags)
           s4 == s3 \o Packet("board", board', flags)
           OK(s) == IsSeq(s) /\ \A i \in DOMAIN s : IsPacket(s[i])
<1>1. stream' = s4
  BY DEF SyncToServer, WithPackets
<1>2. /\ IsState("cur", cur') /\ IsState("hold", hold')
      /\ IsState("preview", PreviewOf(queue')) /\ IsState("board", board')
  BY DEF Parts, Current
<1>3. {"cur", "hold", "preview", "board"} \subseteq Parts
  BY DEF Parts
<1>4. OK(s1)
  BY <1>2, <1>3, AddIsPacket
<1> HIDE DEF s1
<1>5. OK(s2)
  BY <1>2, <1>3, <1>4, AddIsPacket
<1> HIDE DEF s2
<1>6. OK(s3)
  BY <1>2, <1>3, <1>5, AddIsPacket
<1> HIDE DEF s3
<1>7. OK(s4)
  BY <1>2, <1>3, <1>6, AddIsPacket
<1> QED
  BY <1>1, <1>7

(* What is neither in the game nor under way.                                 *)
RestType ==
    /\ ended \subseteq {"Local", "Remote"}
    /\ pressed \in BOOLEAN
    /\ sync \subseteq Parts
    /\ screen \in {"play", "over", "gone"}
    /\ watched \in BOOLEAN

LEMMA StepRest ==
    ASSUME RestType, [Next]_vars
    PROVE  RestType'
<1>1. \A b, m : TrySpawnMino(b, m) => ended' \subseteq {"Local", "Remote"}
  BY DEF TrySpawnMino, RestType
<1>2. \A m : LockAndProceed(m) => ended' \subseteq {"Local", "Remote"}
  BY <1>1 DEF LockAndProceed
<1>3. \A m : Becomes(m) => ended' = ended
  BY DEF Becomes
<1>4. \A flags \in SUBSET Parts : Key(flags) =>
          pressed' \in BOOLEAN /\ sync' \subseteq Parts /\ UNCHANGED <<screen, watched>>
  BY DEF Key, RestType, screenVars
<1>5. \A flags : FrameEnds(flags) =>
          pressed' = FALSE /\ sync' = {} /\ UNCHANGED <<screen, watched>>
  BY DEF FrameEnds, SyncToServer, screenVars
<1>6. /\ {"cur"} \in SUBSET Parts /\ {"hold"} \in SUBSET Parts
      /\ {"hold"} \cup SpawnFlags \in SUBSET Parts
      /\ \A s \in {{}, {"cur"}} : s \cup {"board"} \cup SpawnFlags \in SUBSET Parts
  BY DEF Parts, SpawnFlags
<1>7. CASE TryMove(0, 1) \/ TryMove(-1, 0) \/ TryMove(1, 0) \/ TryRotateCW \/ TryRotateCCW
  BY <1>3, <1>4, <1>6, <1>7 DEF TryMove, TryRotateCW, TryRotateCCW, RestType
<1>8. CASE HardDrop
  BY <1>2, <1>4, <1>6, <1>8 DEF HardDrop, RestType
<1>9. CASE HoldFirst
  BY <1>1, <1>4, <1>6, <1>9 DEF HoldFirst, RestType
<1>10. CASE HoldSwap
  BY <1>4, <1>6, <1>10 DEF HoldSwap, RestType
<1>11. CASE Update
  BY <1>2, <1>3, <1>5, <1>11 DEF Update, UpdateFalls, UpdateLocks, UpdateWaits, RestType
<1>12. CASE WinnerIsLocal \/ ApplyEnemyState \/ UNCHANGED vars
  BY <1>12 DEF WinnerIsLocal, ApplyEnemyState, vars, screenVars, RestType
<1>13. CASE MatchIsLeft
  BY <1>13, LeavingKeeps DEF RestType
<1> QED
  BY <1>7, <1>8, <1>9, <1>10, <1>11, <1>12, <1>13 DEF Next, ProcessInputs, MatchIsLeft

(* What is under way and what is shown.                                      *)
PacketType ==
    /\ \A i \in DOMAIN stream : IsPacket(stream[i])
    /\ DOMAIN mirror = Parts
    /\ \A p \in Parts : IsState(p, mirror[p])

LEMMA StepPackets ==
    ASSUME PacketType, IsSeq(stream), HandType', GameType', [Next]_vars
    PROVE  PacketType'
<1>1. ASSUME NEW flags, FrameEnds(flags)
      PROVE  PacketType'
  <2>1. (HandType /\ GameType => \A p \in Parts : IsState(p, Current[p]))'
    BY CurrentIsState, PTL
  <2>2. \A p \in Parts : IsState(p, Current'[p])
    BY <2>1
  <2>3. SyncToServer(sync \cup flags) /\ mirror' = mirror
    BY <1>1 DEF FrameEnds
  <2> QED
    BY <2>2, <2>3, SendPackets DEF PacketType
<1>2. CASE ApplyEnemyState
  <2>1. PICK S : stream \in Seq(S)
    BY DEF IsSeq
  <2>2. /\ stream # <<>> /\ stream' = Tail(stream)
        /\ mirror' = [mirror EXCEPT ![Head(stream).part] = Head(stream).state]
    BY <1>2 DEF ApplyEnemyState
  <2>3. 1 \in DOMAIN stream /\ Head(stream) = stream[1]
    BY <2>1, <2>2
  <2>4. IsPacket(Head(stream))
    BY <2>3 DEF PacketType
  <2>5. \A i \in DOMAIN stream' : i + 1 \in DOMAIN stream /\ stream'[i] = stream[i + 1]
    BY <2>1, <2>2
  <2>6. \A i \in DOMAIN stream' : IsPacket(stream'[i])
    BY <2>5 DEF PacketType
  <2> DEFINE h == Head(stream)
  <2>7. h.part \in Parts /\ IsState(h.part, h.state)
    BY <2>4 DEF IsPacket
  <2>8. mirror' = [mirror EXCEPT ![h.part] = h.state]
    BY <2>2
  <2> HIDE DEF h
  <2>9. DOMAIN mirror' = Parts /\ \A p \in Parts : IsState(p, mirror'[p])
    BY <2>7, <2>8 DEF PacketType
  <2> QED
    BY <2>6, <2>9 DEF PacketType
<1>3. CASE UNCHANGED <<stream, mirror>>
  BY <1>3 DEF PacketType
<1>4. CASE ProcessInputs
  <2>1. \E flags : Key(flags)
    BY <1>4 DEF ProcessInputs, TryMove, TryRotateCW, TryRotateCCW, HardDrop, HoldFirst, HoldSwap
  <2> QED
    BY <1>3, <2>1 DEF Key
<1>5. CASE Update
  BY <1>1, <1>5 DEF Update, UpdateFalls, UpdateLocks, UpdateWaits
<1>6. CASE WinnerIsLocal \/ UNCHANGED vars
  BY <1>3, <1>6 DEF WinnerIsLocal, vars
<1>7. CASE MatchIsLeft
  BY <1>3, <1>7, LeavingKeeps
<1> QED
  BY <1>2, <1>4, <1>5, <1>6, <1>7 DEF Next, MatchIsLeft

AllTypes == HandType /\ StreamInv /\ GameType /\ RestType /\ PacketType

LEMMA InitTypes == Init => AllTypes
<1> SUFFICES ASSUME Init
             PROVE  AllTypes
  OBVIOUS
<1>1. HandType /\ StreamInv /\ GameType
  BY InitHand, InitStream, InitGame
<1>2. RestType
  BY DEF Init, RestType, Parts
<1>3. /\ mirror = [cur |-> cur, hold |-> NoType, preview |-> PreviewOf(queue), board |-> {}]
      /\ hold = NoType /\ board = {} /\ stream = <<>>
  BY DEF Init
<1>4. DOMAIN mirror = Parts /\ \A p \in Parts : mirror[p] = Current[p]
  BY <1>3 DEF Parts, Current
<1>5. \A p \in Parts : IsState(p, mirror[p])
  BY <1>1, <1>4, CurrentType
<1>6. DOMAIN stream = {}
  BY <1>3
<1> QED
  BY <1>1, <1>2, <1>4, <1>5, <1>6 DEF AllTypes, PacketType

LEMMA StepTypes == AllTypes /\ [Next]_vars => AllTypes'
<1> SUFFICES ASSUME AllTypes, [Next]_vars
             PROVE  AllTypes'
  OBVIOUS
<1>1. HandType' /\ StreamInv'
  BY StepHand, StepStream DEF AllTypes
<1>2. GameType'
  BY StepGame DEF AllTypes
<1>3. RestType'
  BY StepRest DEF AllTypes
<1>4. PacketType'
  BY <1>1, <1>2, StepPackets DEF AllTypes, StreamInv
<1> QED
  BY <1>1, <1>2, <1>3, <1>4 DEF AllTypes

LEMMA TypesAreTypeOK == AllTypes => TypeOK
  BY DEF AllTypes, HandType, GameType, RestType, PacketType, IsPacket, TypeOK

(* Type correctness, of the game as well as of every packet under way and of    *)
(* what the opponent is shown: a preview is always complete and a mino that    *)
(* stays in hand when the game ends is one.                                  *)
THEOREM TypeOKHolds == Spec => []TypeOK
  BY InitTypes, StepTypes, TypesAreTypeOK, PTL DEF Spec
-----------------------------------------------------------------------------
(* The refinement put to use: what was proved of a single game holds of the     *)
(* game in a match.  Proved has the theorems of SinglePlay_proofs, and its own  *)
(* copies of what they speak of, which are the same once more.               *)

Proved == INSTANCE SinglePlay_proofs WITH
    cur <- IF IsOver THEN NoMino ELSE cur,
    over <- IsOver, waiting <- IsOver, shown <- FALSE

LEMMA ProvedBlocks == Proved!Cells = Cells /\ \A m : Proved!Blocks(m) = Blocks(m)
<1>1. Proved!Cells = Cells
  BY DEF Proved!Cells, Cells, Proved!Columns, Columns, Proved!Rows, Rows
<1>2. Proved!Shapes = Shapes
  BY DEF Proved!Shapes, Shapes
<1> QED
  BY <1>1, <1>2 DEF Proved!Blocks, Blocks

LEMMA ProvedIsCollide == \A b, m : Proved!IsCollide(b, m) <=> IsCollide(b, m)
  BY ProvedBlocks DEF Proved!IsCollide, IsCollide

LEMMA ProvedLock == \A b, m : Proved!Lock(b, m) = Lock(b, m)
  BY ProvedBlocks DEF Proved!Lock, Lock

LEMMA ProvedClear == \A b : Proved!ClearFullLines(b) = ClearFullLines(b)
<1>1. Proved!ClearFrom = ClearFrom
  BY DEF Proved!ClearFrom, ClearFrom, Proved!Rows, Rows, Proved!Columns, Columns,
         Proved!Cells, Cells, Proved!Row, Row, Proved!IsFull, IsFull,
         Proved!PullDown, PullDown
<1> QED
  BY <1>1 DEF Proved!ClearFullLines, ClearFullLines

LEMMA ProvedMinos ==
    /\ \A t : Proved!AtSpawn(t) = AtSpawn(t)
    /\ \A m, dx, dy : Proved!Moved(m, dx, dy) = Moved(m, dx, dy)
    /\ \A m : Proved!TurnedCW(m) = TurnedCW(m) /\ Proved!TurnedCCW(m) = TurnedCCW(m)
  BY DEF Proved!AtSpawn, AtSpawn, Proved!Moved, Moved, Proved!TurnedCW, TurnedCW,
         Proved!TurnedCCW, TurnedCCW

LEMMA ProvedLanded == \A b, m : Proved!Landed(b, m) = Landed(b, m)
  BY ProvedIsCollide, ProvedMinos DEF Proved!Landed, Landed

LEMMA ProvedPieces == Proved!Pieces = Pieces
  BY DEF Pieces, Proved!Pieces, FoldFunctionOnSet, Proved!FoldFunctionOnSet,
         MapThenFoldSet, Proved!MapThenFoldSet

LEMMA ProvedPeeked == \A q, i : Proved!Peeked(q, i) = Peeked(q, i)
<1>1. \A s : Proved!Cardinality(s) = Cardinality(s)
  BY DEF Proved!Cardinality, Cardinality
<1>2. \A s : Proved!SetToSeqs(s) = SetToSeqs(s)
  BY <1>1 DEF Proved!SetToSeqs, SetToSeqs
<1>3. \A s : Proved!Bags(s) = Bags(s)
  BY <1>2 DEF Proved!Bags, Bags
<1> QED
  BY <1>3 DEF Proved!Peeked, Peeked


(* The assumptions of SinglePlay are those of this module.                    *)
LEMMA ProvedAssumptions ==
    /\ Type # {} /\ Proved!IsFiniteSet(Type)
    /\ Preview \in 1 .. Proved!Cardinality(Type)
    /\ Type \subseteq DOMAIN Proved!Shapes
    /\ NoMino \notin Proved!Mino(Type)
    /\ \A t \in Type : ~Proved!IsCollide({}, Proved!AtSpawn(t))
<1>1. Proved!IsFiniteSet(Type)
  BY BagAssumption DEF IsFiniteSet, Proved!IsFiniteSet
<1>2. Proved!Cardinality(Type) = Cardinality(Type)
  BY DEF Cardinality, Proved!Cardinality
<1>3. Proved!Shapes = Shapes
  BY DEF Shapes, Proved!Shapes
<1>4. Proved!Mino(Type) = Mino(Type)
  BY DEF Mino, Proved!Mino
<1> QED
  BY <1>1, <1>2, <1>3, <1>4, ProvedIsCollide, ProvedMinos, BagAssumption, PreviewAssumption,
     TypeAssumption, NoMinoAssumption, SpawnAssumption

(* Both instances take the same steps.                                       *)
LEMMA SameStep ==
    /\ Single!Init => Proved!Init
    /\ [Single!Next]_(Single!vars) => [Proved!Next]_(Proved!vars)
<1>1. \A b : Single!TrySpawnMino(b) => Proved!TrySpawnMino(b)
  BY SameIsCollide, SameMinos, SamePeeked, ProvedIsCollide, ProvedMinos, ProvedPeeked
  DEF Single!TrySpawnMino, Proved!TrySpawnMino, Single!OnGameOver, Proved!OnGameOver
<1>2. \A m : Single!LockAndProceed(m) => Proved!LockAndProceed(m)
  BY <1>1, SameClear, SameLock, SamePieces, ProvedClear, ProvedLock, ProvedPieces
  DEF Single!LockAndProceed, Proved!LockAndProceed
<1>3. Single!Playing <=> Proved!Playing
  BY DEF Single!Playing, Proved!Playing
<1>4. \A m : Single!Becomes(m) => Proved!Becomes(m)
  BY DEF Single!Becomes, Proved!Becomes
<1>5. \A dx, dy : Single!TryMove(dx, dy) => Proved!TryMove(dx, dy)
  BY <1>3, <1>4, SameIsCollide, SameMinos, ProvedIsCollide, ProvedMinos
  DEF Single!TryMove, Proved!TryMove
<1>6. /\ Single!TryRotateCW => Proved!TryRotateCW
      /\ Single!TryRotateCCW => Proved!TryRotateCCW
  BY <1>3, <1>4, SameIsCollide, SameMinos, ProvedIsCollide, ProvedMinos
  DEF Single!TryRotateCW, Proved!TryRotateCW, Single!TryRotateCCW, Proved!TryRotateCCW
<1>7. Single!HardDrop => Proved!HardDrop
  BY <1>2, <1>3, SameLanded, ProvedLanded DEF Single!HardDrop, Proved!HardDrop
<1>8. Single!Gravity => Proved!Gravity
  BY <1>2, <1>3, <1>5, SameIsCollide, SameMinos, ProvedIsCollide, ProvedMinos
  DEF Single!Gravity, Proved!Gravity
<1>9. Single!HoldFirst => Proved!HoldFirst
  BY <1>1, <1>3 DEF Single!HoldFirst, Proved!HoldFirst
<1>10. Single!HoldSwap => Proved!HoldSwap
  BY <1>3, SameIsCollide, SameMinos, ProvedIsCollide, ProvedMinos
  DEF Single!HoldSwap, Proved!HoldSwap
<1>11. Single!ShowGameOver => Proved!ShowGameOver
  BY DEF Single!ShowGameOver, Proved!ShowGameOver
<1>12. Single!Next => Proved!Next
  BY <1>5, <1>6, <1>7, <1>8, <1>9, <1>10, <1>11
  DEF Single!Next, Proved!Next, Single!ProcessInputs, Proved!ProcessInputs,
      Single!Update, Proved!Update
<1>13. UNCHANGED Single!vars => UNCHANGED Proved!vars
  BY DEF Single!vars, Proved!vars
<1>14. Single!Init => Proved!Init
  BY SameMinos, SamePeeked, ProvedMinos, ProvedPeeked DEF Single!Init, Proved!Init
<1> QED
  BY <1>12, <1>13, <1>14

LEMMA SameProperties ==
    /\ Proved!NoFullRow => FullRows(board) = {}
    /\ Proved!NoOverlap => Single!NoOverlap
    /\ Proved!ClearIsCompaction => Single!ClearIsCompaction
    /\ Proved!BlocksConserved => Single!BlocksConserved
    /\ Proved!DealtEvenly => Single!DealtEvenly
<1>1. Proved!NoOverlap => Single!NoOverlap
  BY SameIsCollide, ProvedIsCollide DEF Proved!NoOverlap, Single!NoOverlap
<1>2. \A s : Single!Cardinality(s) = Cardinality(s) /\ Proved!Cardinality(s) = Cardinality(s)
  BY DEF Cardinality, Proved!Cardinality, Single!Cardinality
<1>3. Proved!BlocksConserved => Single!BlocksConserved
  BY <1>2, SamePieces, ProvedPieces DEF Proved!BlocksConserved, Single!BlocksConserved
<1>4. Proved!DealtEvenly => Single!DealtEvenly
  BY DEF Proved!DealtEvenly, Single!DealtEvenly, Proved!Dealt, Single!Dealt
<1>5. \A b : Single!FullRows(b) = Proved!FullRows(b)
  BY DEF Single!FullRows, Proved!FullRows, Single!IsFull, Proved!IsFull, Single!Row, Proved!Row,
     Single!Rows, Proved!Rows, Single!Columns, Proved!Columns
<1>6. \A b : Single!Compacted(b) = Proved!Compacted(b)
  BY <1>2, <1>5 DEF Single!Compacted, Proved!Compacted
<1>7. Proved!ClearIsCompaction => Single!ClearIsCompaction
  BY <1>2, <1>5, <1>6, SameLock, SameLanded, SameClear, ProvedLock, ProvedLanded, ProvedClear
  DEF Proved!ClearIsCompaction, Single!ClearIsCompaction
<1>8. Proved!NoFullRow => FullRows(board) = {}
  BY DEF Proved!NoFullRow, Proved!FullRows, FullRows, Proved!IsFull, IsFull, Proved!Row, Row,
     Proved!Rows, Rows, Proved!Columns, Columns
<1> QED
  BY <1>1, <1>3, <1>4, <1>7, <1>8

(* In a match as in a single game the mino lies on free cells, ClearFullLines   *)
(* removes all full rows and leaves none, no block is lost and the bag deals   *)
(* evenly (MultiPlayLogic.cpp against SinglePlayState.cpp).                   *)
THEOREM RulesCarryOver ==
    Spec => [](/\ Single!NoOverlap /\ Single!ClearIsCompaction /\ FullRows(board) = {}
               /\ Single!BlocksConserved /\ Single!DealtEvenly)
<1>1. Proved!Spec => []Proved!NoOverlap
  BY Proved!NoOverlapHolds, ProvedAssumptions, SizeAssumption, TypeAssumption, BoundAssumption
<1>2. Proved!Spec => []Proved!ClearIsCompaction
  BY Proved!ClearIsCompactionHolds, ProvedAssumptions, SizeAssumption, TypeAssumption, BoundAssumption
<1>3. Proved!Spec => []Proved!BlocksConserved
  BY Proved!BlocksConservedHolds, ProvedAssumptions, SizeAssumption, TypeAssumption, BoundAssumption
<1>4. Proved!Spec => []Proved!DealtEvenly
  BY Proved!DealtEvenlyHolds, ProvedAssumptions, SizeAssumption, TypeAssumption, BoundAssumption
<1>5. Proved!Spec => []Proved!NoFullRow
  BY Proved!NoFullRowHolds, ProvedAssumptions, SizeAssumption, TypeAssumption, BoundAssumption
<1>6. Single!Spec => Proved!Spec
  BY SameStep, PTL DEF Single!Spec, Proved!Spec
<1> QED
  BY <1>1, <1>2, <1>3, <1>4, <1>5, <1>6, Refinement, SameProperties, PTL
  DEF ImplementsSinglePlay

(* In a match, too, a step clears four lines at most: the line scores that       *)
(* LockAndProceed adds have no more than four to count.                         *)
THEOREM FourLinesAtMost == Spec => [][lines' \in lines .. lines + 4]_vars
<1>1. Proved!Spec => [][lines' \in lines .. lines + 4]_(Proved!vars)
  BY Proved!FourLinesAtMost, ProvedAssumptions, SizeAssumption, TypeAssumption, BoundAssumption
<1>2. Single!Spec => Proved!Spec
  BY SameStep, PTL DEF Single!Spec, Proved!Spec
<1>3. /\ TypeOK /\ [lines' \in lines .. lines + 4]_(Proved!vars)
      => [lines' \in lines .. lines + 4]_vars
  BY DEF TypeOK, Proved!vars
<1> QED
  BY <1>1, <1>2, <1>3, Refinement, TypeOKHolds, PTL DEF ImplementsSinglePlay
=============================================================================
