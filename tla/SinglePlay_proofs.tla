------------------------- MODULE SinglePlay_proofs -------------------------
(***************************************************************************)
(* Proofs about module SinglePlay, for boards of any size, any set of types   *)
(* and games of any length: the mino in hand never overlaps the board or     *)
(* leaves it, and a game that is not over has one; no block is lost, full     *)
(* lines vanish as they should, and the bag deals evenly.                    *)
(*                                                                          *)
(* The first two need nothing of ClearFullLines: whatever board it leaves,    *)
(* the next mino is checked against that board before it is in hand.         *)
(***************************************************************************)
EXTENDS SinglePlay, Rules_proofs

(* What the steps rely on: types of the parts that decide which mino comes.     *)
HandType ==
    /\ cur \in Mino(Type) \cup {NoMino}
    /\ hold \in Type \cup {NoType}
    /\ queue \in Seq(Type)
    /\ over \in BOOLEAN

Inv == HandType /\ NoOverlap /\ NeverEmptyHanded

-----------------------------------------------------------------------------
(* A mino is never NoMino.                                                   *)

LEMMA SpawnType ==
    ASSUME NEW t \in Type
    PROVE  AtSpawn(t) \in Mino(Type) /\ AtSpawn(t) # NoMino
  BY SpawnIsMino, NoMinoAssumption

LEMMA MoveType ==
    ASSUME NEW m \in Mino(Type), NEW dx \in Int, NEW dy \in Int
    PROVE  Moved(m, dx, dy) \in Mino(Type) /\ Moved(m, dx, dy) # NoMino
  BY MoveIsMino, NoMinoAssumption

LEMMA TurnType ==
    ASSUME NEW m \in Mino(Type)
    PROVE  /\ TurnedCW(m) \in Mino(Type) /\ TurnedCW(m) # NoMino
           /\ TurnedCCW(m) \in Mino(Type) /\ TurnedCCW(m) # NoMino
  BY TurnIsMino, NoMinoAssumption

-----------------------------------------------------------------------------
(* The next mino is checked against the board it is put on.                   *)

LEMMA SpawnInv ==
    ASSUME HandType, ~over, hold' \in Type \cup {NoType}, NEW b, board' = b,
           TrySpawnMino(b)
    PROVE  Inv'
<1>1. PICK q \in Peeked(queue, 0) :
        \/ IsCollide(b, AtSpawn(Head(q))) /\ queue' = q /\ OnGameOver
        \/ /\ ~IsCollide(b, AtSpawn(Head(q)))
           /\ cur' = AtSpawn(Head(q))
           /\ queue' \in Peeked(Tail(q), Preview - 1)
           /\ UNCHANGED <<over, waiting>>
  BY DEF TrySpawnMino
<1>2. /\ q \in Seq(Type) /\ Head(q) \in Type
      /\ \A s \in Peeked(Tail(q), Preview - 1) : s \in Seq(Type)
  BY HeadAndTail DEF HandType
<1>3. CASE queue' = q /\ OnGameOver
  BY <1>2, <1>3 DEF OnGameOver, Inv, HandType, NoOverlap, NeverEmptyHanded
<1>4. CASE /\ ~IsCollide(b, AtSpawn(Head(q)))
           /\ cur' = AtSpawn(Head(q))
           /\ queue' \in Peeked(Tail(q), Preview - 1)
           /\ UNCHANGED <<over, waiting>>
  <2>1. cur' \in Mino(Type) /\ cur' # NoMino
    BY <1>2, <1>4, SpawnType
  <2>2. ~IsCollide(board', cur')
    BY <1>4
  <2> QED
    BY <1>2, <1>4, <2>1, <2>2 DEF Inv, HandType, NoOverlap, NeverEmptyHanded
<1> QED
  BY <1>1, <1>3, <1>4

LEMMA LockInv ==
    ASSUME Inv, ~over, NEW m, LockAndProceed(m)
    PROVE  Inv'
<1> DEFINE b == ClearFullLines(Lock(board, m)).cells
<1>1. board' = b /\ hold' = hold /\ TrySpawnMino(b)
  BY DEF LockAndProceed
<1> HIDE DEF b
<1> QED
  BY <1>1, SpawnInv DEF Inv, HandType

(* A mino that does not collide may be put in hand where the board is the same. *)
LEMMA HandInv ==
    ASSUME Inv, ~over, NEW m \in Mino(Type), m # NoMino, ~IsCollide(board, m),
           cur' = m, hold' \in Type \cup {NoType}, UNCHANGED <<board, queue, over>>
    PROVE  Inv'
<1>1. ~IsCollide(board', cur')
  OBVIOUS
<1> QED
  BY <1>1 DEF Inv, HandType, NoOverlap, NeverEmptyHanded

LEMMA InHand ==
    ASSUME Inv, Playing
    PROVE  ~over /\ cur \in Mino(Type)
  BY DEF Inv, HandType, Playing

-----------------------------------------------------------------------------
(* The steps.                                                                *)

LEMMA InitInv == Init => Inv
<1> SUFFICES ASSUME Init
             PROVE  Inv
  OBVIOUS
<1>1. PICK q \in Peeked(<<>>, 0) :
        cur = AtSpawn(Head(q)) /\ queue \in Peeked(Tail(q), Preview - 1)
  BY DEF Init
<1>2. <<>> \in Seq(Type)
  OBVIOUS
<1>3. Head(q) \in Type /\ queue \in Seq(Type)
  BY <1>1, <1>2, HeadAndTail
<1>4. cur \in Mino(Type) /\ cur # NoMino
  BY <1>1, <1>3, SpawnType
<1>5. ~IsCollide(board, cur)
  BY <1>1, <1>3, SpawnAssumption DEF Init
<1> QED
  BY <1>3, <1>4, <1>5 DEF Init, Inv, HandType, NoOverlap, NeverEmptyHanded

LEMMA MoveInv ==
    ASSUME Inv, NEW dx \in Int, NEW dy \in Int, TryMove(dx, dy)
    PROVE  Inv'
<1>1. ~over /\ cur \in Mino(Type)
  BY InHand DEF TryMove
<1>2. Moved(cur, dx, dy) \in Mino(Type) /\ Moved(cur, dx, dy) # NoMino
  BY <1>1, MoveType
<1>3. /\ ~IsCollide(board, Moved(cur, dx, dy))
      /\ cur' = Moved(cur, dx, dy)
      /\ hold' \in Type \cup {NoType}
      /\ UNCHANGED <<board, queue, over>>
  BY DEF TryMove, Becomes, Inv, HandType
<1> QED
  BY <1>1, <1>2, <1>3, HandInv

LEMMA RotateInv ==
    ASSUME Inv, TryRotateCW \/ TryRotateCCW
    PROVE  Inv'
<1>1. ~over /\ cur \in Mino(Type)
  BY InHand DEF TryRotateCW, TryRotateCCW
<1>2. hold' \in Type \cup {NoType} /\ UNCHANGED <<board, queue, over>>
  BY DEF TryRotateCW, TryRotateCCW, Becomes, Inv, HandType
<1>3. CASE TryRotateCW
  <2>1. ~IsCollide(board, TurnedCW(cur)) /\ cur' = TurnedCW(cur)
    BY <1>3 DEF TryRotateCW, Becomes
  <2> QED
    BY <1>1, <1>2, <2>1, TurnType, HandInv
<1>4. CASE TryRotateCCW
  <2>1. ~IsCollide(board, TurnedCCW(cur)) /\ cur' = TurnedCCW(cur)
    BY <1>4 DEF TryRotateCCW, Becomes
  <2> QED
    BY <1>1, <1>2, <2>1, TurnType, HandInv
<1> QED
  BY <1>3, <1>4

LEMMA HoldInv ==
    ASSUME Inv, HoldFirst \/ HoldSwap
    PROVE  Inv'
<1>1. ~over /\ cur \in Mino(Type) /\ cur.type \in Type
  BY InHand DEF HoldFirst, HoldSwap, Mino
<1>2. CASE HoldFirst
  <2>1. hold' \in Type \cup {NoType} /\ board' = board /\ TrySpawnMino(board)
    BY <1>1, <1>2 DEF HoldFirst
  <2> QED
    BY <1>1, <2>1, SpawnInv DEF Inv
<1>3. CASE HoldSwap
  <2>1. /\ hold \in Type
        /\ ~IsCollide(board, AtSpawn(hold))
        /\ cur' = AtSpawn(hold)
        /\ hold' \in Type \cup {NoType}
        /\ UNCHANGED <<board, queue, over>>
    BY <1>1, <1>3 DEF HoldSwap, Inv, HandType
  <2> QED
    BY <1>1, <2>1, SpawnType, HandInv
<1> QED
  BY <1>2, <1>3

LEMMA StepInv == Inv /\ [Next]_vars => Inv'
<1> SUFFICES ASSUME Inv, [Next]_vars
             PROVE  Inv'
  OBVIOUS
<1>1. CASE TryRotateCW \/ TryRotateCCW
  BY <1>1, RotateInv
<1>2. CASE TryMove(0, 1)
  BY <1>2, MoveInv
<1>3. CASE TryMove(-1, 0)
  BY <1>3, MoveInv
<1>4. CASE TryMove(1, 0)
  BY <1>4, MoveInv
<1>5. CASE HardDrop
  BY <1>5, LockInv, InHand DEF HardDrop
<1>6. CASE HoldFirst \/ HoldSwap
  BY <1>6, HoldInv
<1>7. CASE Gravity
  <2>1. CASE TryMove(0, 1)
    BY <2>1, MoveInv
  <2>2. CASE Playing /\ LockAndProceed(cur)
    BY <2>2, LockInv, InHand
  <2> QED
    BY <1>7, <2>1, <2>2 DEF Gravity
<1>8. CASE ShowGameOver
  BY <1>8 DEF ShowGameOver, Inv, HandType, NoOverlap, NeverEmptyHanded
<1>9. CASE UNCHANGED vars
  BY <1>9 DEF vars, Inv, HandType, NoOverlap, NeverEmptyHanded
<1> QED
  BY <1>1, <1>2, <1>3, <1>4, <1>5, <1>6, <1>7, <1>8, <1>9
  DEF Next, ProcessInputs, Update

-----------------------------------------------------------------------------
(* What is locked.  A lock is the only step that changes the board, the lines *)
(* and the number of pieces: what a hard drop locks has come to rest, what     *)
(* gravity locks is the mino in hand, and both fit the board.                *)

Fits(m) == m \in Mino(Type) /\ m.type = cur.type /\ ~IsCollide(board, m)

LEMMA LandedIsFit ==
    ASSUME Inv, cur # NoMino
    PROVE  Fits(cur) /\ Fits(Landed(board, cur))
<1>1. cur \in Mino(Type) /\ ~IsCollide(board, cur)
  BY DEF Inv, HandType, NoOverlap
<1>2. PICK d \in 0 .. Height :
        Landed(board, cur) = Moved(cur, 0, d) /\ ~IsCollide(board, Moved(cur, 0, d))
  BY <1>1, LandedFits, TypeAssumption
<1>3. Moved(cur, 0, d) \in Mino(Type)
  BY <1>1, MoveType, SizeAssumption
<1>4. Moved(cur, 0, d).type = cur.type
  BY <1>1 DEF Moved, Mino
<1> QED
  BY <1>1, <1>2, <1>3, <1>4 DEF Fits

(* Either nothing is locked or a mino that fits.                              *)
LEMMA LockOrNot ==
    ASSUME Inv, [Next]_vars
    PROVE  \/ UNCHANGED <<board, locked, lines>>
           \/ cur # NoMino /\ \E m : Fits(m) /\ LockAndProceed(m)
<1>1. CASE HardDrop
  <2>1. cur # NoMino /\ LockAndProceed(Landed(board, cur))
    BY <1>1 DEF HardDrop, Playing
  <2> QED
    BY <2>1, LandedIsFit
<1>2. CASE Playing /\ LockAndProceed(cur)
  BY <1>2, LandedIsFit DEF Playing
<1>3. CASE UNCHANGED <<board, locked, lines>>
  BY <1>3
<1> QED
  BY <1>1, <1>2, <1>3
  DEF Next, ProcessInputs, Update, Gravity, TryRotateCW, TryRotateCCW, TryMove, Becomes,
      HoldFirst, HoldSwap, ShowGameOver, vars

-----------------------------------------------------------------------------
(* Types.                                                                    *)

(* The pieces are the sum over the types, and none is more than the sum.        *)
LEMMA PiecesIsSum == Pieces = Sum(locked, Type)
  BY SumIsFold, Zenon DEF Pieces

LEMMA PrimedPieces == Pieces' = Sum(locked', Type)
<1>1. (Pieces = Sum(locked, Type))'
  BY PiecesIsSum, PTL
<1> QED
  BY <1>1

LEMMA PiecesSum ==
    ASSUME TypeOK
    PROVE  /\ Pieces = Sum(locked, Type) /\ Pieces \in Nat
           /\ locked \in [Type -> Nat]
           /\ \A t \in Type : locked[t] <= Pieces
<1>1. Pieces = Sum(locked, Type)
  BY PiecesIsSum
<1>2. IsFiniteSet(Type) /\ locked \in [Type -> Nat]
  BY BagAssumption, MaxPiecesAssumption DEF TypeOK
<1> QED
  BY <1>1, <1>2, SumBound

LEMMA LockType ==
    ASSUME Inv, TypeOK, NEW m, Fits(m), LockAndProceed(m)
    PROVE  board' \subseteq Cells /\ locked' \in [Type -> 0 .. MaxPieces] /\ lines' \in Nat
<1>1. board \in SUBSET Cells /\ lines \in Nat /\ locked \in [Type -> 0 .. MaxPieces]
  BY DEF TypeOK
<1>2. Lock(board, m) \in SUBSET Cells
  BY <1>1 DEF Lock
<1>3. ClearFullLines(Lock(board, m)) \in [cells : SUBSET Cells, cleared : Nat]
  BY <1>2, ClearFullLinesType
<1>4. /\ board' = ClearFullLines(Lock(board, m)).cells
      /\ lines' = lines + ClearFullLines(Lock(board, m)).cleared
      /\ locked' = [locked EXCEPT ![m.type] = @ + 1]
      /\ Pieces < MaxPieces
  BY DEF LockAndProceed
<1>5. m.type \in Type
  BY DEF Fits, Mino
<1>6. locked[m.type] + 1 \in 0 .. MaxPieces
  <2>1. locked[m.type] \in Nat /\ locked[m.type] <= Pieces /\ Pieces \in Nat
    BY <1>5, PiecesSum
  <2> QED
    BY <1>4, <2>1, MaxPiecesAssumption
<1>7. locked' \in [Type -> 0 .. MaxPieces]
  BY <1>1, <1>4, <1>5, <1>6
<1>8. board' \subseteq Cells /\ lines' \in Nat
  BY <1>1, <1>3, <1>4
<1> QED
  BY <1>7, <1>8

LEMMA TypeStep ==
    ASSUME Inv, TypeOK, [Next]_vars
    PROVE  TypeOK'
<1>1. HandType'
  BY StepInv DEF Inv
<1>2. board' \subseteq Cells /\ locked' \in [Type -> 0 .. MaxPieces] /\ lines' \in Nat
  <2>1. CASE UNCHANGED <<board, locked, lines>>
    BY <2>1 DEF TypeOK
  <2>2. CASE \E m : Fits(m) /\ LockAndProceed(m)
    BY <2>2, LockType
  <2> QED
    BY <2>1, <2>2, LockOrNot
<1>3. held' \in BOOLEAN /\ waiting' \in BOOLEAN /\ shown' \in BOOLEAN
  <2>1. \A b : TrySpawnMino(b) => waiting' \in BOOLEAN /\ shown' \in BOOLEAN
    BY DEF TrySpawnMino, OnGameOver, TypeOK
  <2>2. \A m : LockAndProceed(m) => held' = FALSE /\ \E b : TrySpawnMino(b)
    BY DEF LockAndProceed
  <2>3. CASE \E m : LockAndProceed(m)
    BY <2>1, <2>2, <2>3
  <2>4. CASE HoldFirst
    BY <2>1, <2>4 DEF HoldFirst
  <2>5. CASE HoldSwap \/ ShowGameOver \/ UNCHANGED vars
    BY <2>5 DEF HoldSwap, ShowGameOver, vars, TypeOK
  <2>6. CASE \E m : Becomes(m)
    BY <2>6 DEF Becomes, TypeOK
  <2> QED
    BY <2>3, <2>4, <2>5, <2>6
    DEF Next, ProcessInputs, Update, Gravity, TryRotateCW, TryRotateCCW, TryMove, HardDrop
<1> QED
  BY <1>1, <1>2, <1>3 DEF TypeOK, HandType

LEMMA InitType == Init => TypeOK
<1> SUFFICES ASSUME Init
             PROVE  TypeOK
  OBVIOUS
<1>1. HandType
  BY InitInv DEF Inv
<1>2. locked \in [Type -> 0 .. MaxPieces]
  BY MaxPiecesAssumption DEF Init
<1>3. board \subseteq Cells /\ lines \in Nat
  BY DEF Init
<1> QED
  BY <1>1, <1>2, <1>3 DEF Init, TypeOK, HandType

-----------------------------------------------------------------------------
(* Blocks: a lock adds four, the lines it clears take a row's width each.       *)

LEMMA BlocksStep ==
    ASSUME Inv, TypeOK, TypeOK', BlocksConserved, [Next]_vars
    PROVE  BlocksConserved'
<1>0. Pieces = Sum(locked, Type) /\ Pieces' = Sum(locked', Type)
  BY PiecesIsSum, PrimedPieces
<1>1. CASE UNCHANGED <<board, locked, lines>>
  BY <1>0, <1>1 DEF BlocksConserved
<1>2. ASSUME NEW m, Fits(m), LockAndProceed(m)
      PROVE  BlocksConserved'
  <2> DEFINE r == ClearFullLines(Lock(board, m))
  <2>1. /\ board' = r.cells /\ lines' = lines + r.cleared
        /\ locked' = [locked EXCEPT ![m.type] = @ + 1]
    BY <1>2 DEF LockAndProceed
  <2>2. board \in SUBSET Cells /\ lines \in Nat
    BY DEF TypeOK
  <2>3. /\ Lock(board, m) \in SUBSET Cells
        /\ Cardinality(Lock(board, m)) = Cardinality(board) + 4
    BY <1>2, <2>2, TypeAssumption, LockAddsFour DEF Fits
  <2>4. /\ r.cleared \in Nat
        /\ Cardinality(r.cells) = Cardinality(Lock(board, m)) - Width * r.cleared
    BY <2>3, ClearFullLinesType
  <2>5. Pieces' = Pieces + 1
    <3>1. m.type \in Type /\ IsFiniteSet(Type)
      BY <1>2, BagAssumption DEF Fits, Mino
    <3>2. Pieces = Sum(locked, Type) /\ locked \in [Type -> Nat]
      BY PiecesSum
    <3> QED
      BY <1>0, <2>1, <3>1, <3>2, SumBump
  <2>6. Cardinality(board) = 4 * Pieces - Width * lines
    BY DEF BlocksConserved
  <2>7. Pieces \in Nat /\ Width \in Nat
    BY PiecesSum, SizeAssumption
  <2> HIDE DEF r
  <2>8. Width * (lines + r.cleared) = Width * lines + Width * r.cleared
    BY <2>2, <2>4, <2>7
  <2>9. Width * lines \in Nat /\ Width * r.cleared \in Nat
    BY <2>2, <2>4, <2>7
  <2>10. Cardinality(board') = 4 * Pieces' - Width * lines'
    BY <2>1, <2>3, <2>4, <2>5, <2>6, <2>7, <2>8, <2>9
  <2> QED
    BY <2>10 DEF BlocksConserved
<1> QED
  BY <1>1, <1>2, LockOrNot

LEMMA InitBlocks ==
    ASSUME Init, TypeOK
    PROVE  BlocksConserved
<1>1. Cardinality({}) = 0
  BY FS_EmptySet
<1>2. Pieces = Sum(locked, Type) /\ IsFiniteSet(Type)
  BY PiecesSum, BagAssumption
<1>3. Sum(locked, Type) = 0
  BY <1>2, SumZero DEF Init
<1>4. Width * 0 = 0
  BY SizeAssumption
<1> QED
  BY <1>1, <1>2, <1>3, <1>4 DEF Init, BlocksConserved

-----------------------------------------------------------------------------
(* Lines: between steps no row is full, so the four blocks of a mino fill four   *)
(* at most.                                                                  *)

NoFullRow == FullRows(board) = {}

LEMMA InitRows == Init => NoFullRow
<1>1. ASSUME NEW y \in Rows
      PROVE  ~IsFull({}, y)
  <2>1. <<0, y>> \in Row(y)
    BY SizeAssumption DEF Row, Columns
  <2> QED
    BY <2>1 DEF IsFull
<1> QED
  BY <1>1 DEF Init, NoFullRow, FullRows

LEMMA LinesStep ==
    ASSUME Inv, TypeOK, NoFullRow, [Next]_vars
    PROVE  NoFullRow' /\ lines' \in lines .. lines + 4
<1>1. lines \in Nat
  BY DEF TypeOK
<1>2. CASE UNCHANGED <<board, locked, lines>>
  BY <1>1, <1>2 DEF NoFullRow
<1>3. ASSUME NEW m, Fits(m), LockAndProceed(m)
      PROVE  NoFullRow' /\ lines' \in lines .. lines + 4
  <2> DEFINE r == ClearFullLines(Lock(board, m))
  <2>1. board' = r.cells /\ lines' = lines + r.cleared
    BY <1>3 DEF LockAndProceed
  <2>2. board \in SUBSET Cells /\ Lock(board, m) \in SUBSET Cells
    BY DEF TypeOK, Lock
  <2>3. m \in Mino(DOMAIN Shapes)
    BY <1>3, MinoTypes, TypeAssumption DEF Fits
  <2>4. r.cleared \in 0 .. 4
    BY <2>2, <2>3, ClearFullLinesCompacts, LockFillsFour DEF NoFullRow
  <2>5. FullRows(r.cells) = {}
    BY <2>2, ClearFullLinesLeavesNone
  <2> HIDE DEF r
  <2>6. FullRows(board') = {}
    BY <2>1, <2>5
  <2> QED
    BY <1>1, <2>1, <2>4, <2>6 DEF NoFullRow
<1> QED
  BY <1>2, <1>3, LockOrNot

-----------------------------------------------------------------------------
(* The bag.  What was dealt is counted by type; a spawn deals the head of the   *)
(* queue, and no other step deals.                                           *)

Counted == [t \in Type |-> Dealt(t)]

LEMMA CountedType ==
    ASSUME TypeOK
    PROVE  Counted \in [Type -> Nat]
<1>1. \A t \in Type : locked[t] \in Nat
  BY PiecesSum
<1>2. \A t \in Type : Dealt(t) \in Nat
  BY <1>1 DEF Dealt
<1> QED
  BY <1>2 DEF Counted

(* The mino in hand was put away, onto the board or into the hold: the next one *)
(* is dealt, or the game is over.                                            *)
LEMMA SpawnDeals ==
    ASSUME TypeOK, TypeOK', Deals(queue, Counted), NEW b, TrySpawnMino(b),
           \A t \in Type : locked'[t] + (IF hold' = t THEN 1 ELSE 0) = Dealt(t)
    PROVE  Deals(queue, Counted)'
<1>1. PICK q \in Peeked(queue, 0) :
        \/ queue' = q /\ OnGameOver
        \/ /\ cur' = AtSpawn(Head(q))
           /\ queue' \in Peeked(Tail(q), Preview - 1)
  BY DEF TrySpawnMino
<1>2. /\ q \in Seq(Type) /\ q # <<>> /\ Head(q) \in Type /\ Tail(q) \in Seq(Type)
      /\ Deals(q, Counted)
  <2>1. queue \in Seq(Type) /\ 0 < Cardinality(Type)
    BY SizeOfBag DEF TypeOK
  <2>2. q \in Seq(Type) /\ Len(q) > 0 /\ Deals(q, Counted)
    BY <2>1, PeekedType, PeekDeals
  <2>3. Head(q) \in Type /\ Tail(q) \in Seq(Type)
    BY <2>1, HeadAndTail
  <2> QED
    BY <2>2, <2>3
<1>3. \A t \in Type : Dealt(t) \in Nat /\ Counted[t] = Dealt(t)
  BY CountedType DEF Counted
<1>4. \A t \in Type : Dealt(t)' =
          locked'[t] + (IF cur' # NoMino /\ cur'.type = t THEN 1 ELSE 0)
                     + (IF hold' = t THEN 1 ELSE 0)
  BY DEF Dealt
<1>5. \A t \in Type : locked'[t] \in Nat
  BY MaxPiecesAssumption DEF TypeOK
<1>6. CASE queue' = q /\ OnGameOver
  <2>1. \A t \in Type : Dealt(t)' = Dealt(t)
    BY <1>4, <1>5, <1>6 DEF OnGameOver
  <2>2. Counted' = Counted
    BY <2>1 DEF Counted
  <2> QED
    BY <1>2, <1>6, <2>2
<1>7. CASE cur' = AtSpawn(Head(q)) /\ queue' \in Peeked(Tail(q), Preview - 1)
  <2>1. cur' # NoMino /\ cur'.type = Head(q)
    BY <1>2, <1>7, SpawnType DEF AtSpawn
  <2>2. \A t \in Type : Dealt(t)' = IF t = Head(q) THEN Dealt(t) + 1 ELSE Dealt(t)
    BY <1>4, <1>5, <2>1
  <2>3. Counted' = [Counted EXCEPT ![Head(q)] = @ + 1]
    BY <1>2, <2>2 DEF Counted
  <2>4. Deals(Tail(q), Counted')
    BY <1>2, <2>3, CountedType, TakeDeals
  <2>5. Preview - 1 \in Nat /\ Preview - 1 < Cardinality(Type)
    BY PreviewAssumption, SizeOfBag
  <2>6. Deals(queue', Counted')
    BY <1>2, <1>7, <2>4, <2>5, PeekDeals
  <2> QED
    BY <2>6
<1> QED
  BY <1>1, <1>6, <1>7

LEMMA DealsStep ==
    ASSUME Inv, TypeOK, TypeOK', Deals(queue, Counted), [Next]_vars
    PROVE  Deals(queue, Counted)'
<1>1. ASSUME NEW m, Fits(m), cur # NoMino, LockAndProceed(m)
      PROVE  Deals(queue, Counted)'
  <2>1. PICK b : TrySpawnMino(b)
    BY <1>1 DEF LockAndProceed
  <2>2. m.type \in Type /\ m.type = cur.type
    BY <1>1 DEF Fits, Mino
  <2>3. locked' = [locked EXCEPT ![cur.type] = @ + 1] /\ hold' = hold
    BY <1>1, <2>2 DEF LockAndProceed
  <2>4. locked \in [Type -> Nat]
    BY PiecesSum
  <2>5. \A t \in Type : locked'[t] + (IF hold' = t THEN 1 ELSE 0) = Dealt(t)
    BY <1>1, <2>2, <2>3, <2>4 DEF Dealt
  <2> QED
    BY <2>1, <2>5, SpawnDeals
<1>2. CASE HoldFirst
  <2>1. cur # NoMino /\ cur.type \in Type
    BY <1>2, InHand DEF HoldFirst, Playing, Mino
  <2>2. /\ hold = NoType /\ hold' = cur.type /\ locked' = locked
        /\ TrySpawnMino(board)
    BY <1>2 DEF HoldFirst
  <2>3. locked \in [Type -> Nat]
    BY PiecesSum
  <2>4. \A t \in Type : locked'[t] + (IF hold' = t THEN 1 ELSE 0) = Dealt(t)
    BY <2>1, <2>2, <2>3, TypeAssumption DEF Dealt
  <2> QED
    BY <2>2, <2>4, SpawnDeals
<1>3. ASSUME UNCHANGED <<locked, queue>>, \A t \in Type : Dealt(t)' = Dealt(t)
      PROVE  Deals(queue, Counted)'
  <2>1. Counted' = Counted
    BY <1>3 DEF Counted
  <2> QED
    BY <1>3, <2>1
<1>4. CASE HoldSwap
  <2>1. cur # NoMino /\ cur.type \in Type /\ hold \in Type
    BY <1>4, InHand DEF HoldSwap, Playing, Mino, TypeOK
  <2>2. cur' = AtSpawn(hold) /\ hold' = cur.type /\ UNCHANGED <<locked, queue>>
    BY <1>4 DEF HoldSwap
  <2>3. cur' # NoMino /\ cur'.type = hold
    BY <2>1, <2>2, SpawnType DEF AtSpawn
  <2>4. locked \in [Type -> Nat]
    BY PiecesSum
  <2>5. \A t \in Type : Dealt(t)' = Dealt(t)
    BY <2>1, <2>2, <2>3, <2>4 DEF Dealt
  <2> QED
    BY <1>3, <2>2, <2>5
<1>5. ASSUME NEW m, m # NoMino, m.type = cur.type, cur # NoMino, Becomes(m)
      PROVE  Deals(queue, Counted)'
  <2>1. \A t \in Type : Dealt(t)' = Dealt(t)
    BY <1>5 DEF Becomes, Dealt
  <2> QED
    BY <1>3, <1>5, <2>1 DEF Becomes
<1>6. ASSUME NEW dx \in Int, NEW dy \in Int, TryMove(dx, dy)
      PROVE  Deals(queue, Counted)'
  <2>1. cur \in Mino(Type) /\ cur # NoMino /\ Becomes(Moved(cur, dx, dy))
    BY <1>6, InHand DEF TryMove, Playing
  <2>2. Moved(cur, dx, dy).type = cur.type
    BY <2>1 DEF Moved, Mino
  <2> QED
    BY <1>5, <2>1, <2>2, MoveType
<1>7. CASE TryRotateCW
  <2>1. cur \in Mino(Type) /\ cur # NoMino /\ Becomes(TurnedCW(cur))
    BY <1>7, InHand DEF TryRotateCW, Playing
  <2>2. TurnedCW(cur).type = cur.type
    BY <2>1 DEF TurnedCW, Mino
  <2> QED
    BY <1>5, <2>1, <2>2, TurnType
<1>8. CASE TryRotateCCW
  <2>1. cur \in Mino(Type) /\ cur # NoMino /\ Becomes(TurnedCCW(cur))
    BY <1>8, InHand DEF TryRotateCCW, Playing
  <2>2. TurnedCCW(cur).type = cur.type
    BY <2>1 DEF TurnedCCW, Mino
  <2> QED
    BY <1>5, <2>1, <2>2, TurnType
<1>9. CASE ShowGameOver \/ UNCHANGED vars
  <2>1. \A t \in Type : Dealt(t)' = Dealt(t)
    BY <1>9 DEF ShowGameOver, vars, Dealt
  <2> QED
    BY <1>3, <1>9, <2>1 DEF ShowGameOver, vars
<1>10. CASE HardDrop
  <2>1. cur # NoMino /\ LockAndProceed(Landed(board, cur))
    BY <1>10 DEF HardDrop, Playing
  <2> QED
    BY <1>1, <2>1, LandedIsFit
<1>11. CASE Playing /\ LockAndProceed(cur)
  BY <1>1, <1>11, LandedIsFit DEF Playing
<1> QED
  BY <1>2, <1>4, <1>6, <1>7, <1>8, <1>9, <1>10, <1>11
  DEF Next, ProcessInputs, Update, Gravity

LEMMA InitDeals ==
    ASSUME Init, TypeOK
    PROVE  Deals(queue, Counted)
<1> DEFINE none == [t \in Type |-> 0]
<1>1. PICK q \in Peeked(<<>>, 0) :
        cur = AtSpawn(Head(q)) /\ queue \in Peeked(Tail(q), Preview - 1)
  BY DEF Init
<1>2. <<>> \in Seq(Type) /\ 0 < Cardinality(Type)
  BY SizeOfBag
<1>3. q \in Seq(Type) /\ Len(q) > 0 /\ Deals(q, none)
  BY <1>1, <1>2, PeekedType, PeekDeals, NothingDealt
<1>4. Head(q) \in Type /\ Tail(q) \in Seq(Type) /\ q # <<>>
  BY <1>2, <1>3, HeadAndTail
<1>5. cur # NoMino /\ cur.type = Head(q)
  BY <1>1, <1>4, SpawnType DEF AtSpawn
<1>6. \A t \in Type : Dealt(t) = IF t = Head(q) THEN 1 ELSE 0
  BY <1>5, TypeAssumption DEF Init, Dealt
<1>7. Counted = [none EXCEPT ![Head(q)] = @ + 1]
  BY <1>4, <1>6 DEF Counted
<1>8. none \in [Type -> Nat]
  OBVIOUS
<1> HIDE DEF none
<1>9. Deals(Tail(q), Counted)
  BY <1>3, <1>4, <1>7, <1>8, TakeDeals
<1>10. Preview - 1 \in Nat /\ Preview - 1 < Cardinality(Type)
  BY PreviewAssumption, SizeOfBag
<1> QED
  BY <1>1, <1>4, <1>9, <1>10, PeekDeals

-----------------------------------------------------------------------------

(* The whole game: each part needs the types, and the blocks that the mino that *)
(* is locked fits.                                                           *)
GameInv == Inv /\ TypeOK /\ BlocksConserved /\ NoFullRow /\ Deals(queue, Counted)

LEMMA InitGame == Init => GameInv
  BY InitInv, InitType, InitBlocks, InitRows, InitDeals DEF GameInv

LEMMA StepGame == GameInv /\ [Next]_vars => GameInv'
  BY StepInv, TypeStep, BlocksStep, LinesStep, DealsStep DEF GameInv

LEMMA Invariance == Spec => []GameInv
  BY InitGame, StepGame, PTL DEF Spec

(* Type correctness: the counts are bounded by the bound on the pieces, and     *)
(* the board by the field.                                                   *)
THEOREM TypeOKHolds == Spec => []TypeOK
  BY Invariance, PTL DEF GameInv

(* The mino in hand always lies on free cells of the board.                   *)
THEOREM NoOverlapHolds == Spec => []NoOverlap
  BY Invariance, PTL DEF GameInv, Inv

(* The assertion of TryHold (SinglePlayState.cpp:276) never fails.            *)
THEOREM NeverEmptyHandedHolds == Spec => []NeverEmptyHanded
  BY Invariance, PTL DEF GameInv, Inv

(* Wherever the mino in hand comes to rest, ClearFullLines (Board.cpp:88) gives  *)
(* what removing all full rows at once gives, and counts them.               *)
THEOREM ClearIsCompactionHolds == Spec => []ClearIsCompaction
<1>1. TypeOK => ClearIsCompaction
  <2> SUFFICES ASSUME TypeOK
               PROVE  ClearIsCompaction
    OBVIOUS
  <2> DEFINE landing == Lock(board, Landed(board, cur))
  <2>1. landing \in SUBSET Cells
    BY DEF TypeOK, Lock
  <2> HIDE DEF landing
  <2>2. /\ ClearFullLines(landing).cells = Compacted(landing)
        /\ ClearFullLines(landing).cleared = Cardinality(FullRows(landing))
    BY <2>1, ClearFullLinesCompacts
  <2> QED
    BY <2>2 DEF ClearIsCompaction, landing
<1> QED
  BY <1>1, Invariance, PTL DEF GameInv

(* Through a whole game no block is lost or doubled: four for each piece that   *)
(* was locked, less a row's width for each line of the score.                *)
THEOREM BlocksConservedHolds == Spec => []BlocksConserved
  BY Invariance, PTL DEF GameInv

(* ClearFullLines leaves no full row, also of rows it pulled down: a board that  *)
(* is shown or sent has none.                                                *)
THEOREM NoFullRowHolds == Spec => []NoFullRow
  BY Invariance, PTL DEF GameInv

(* A step clears four lines at most, and the lines never go back: AddLineScore   *)
(* (Score.cpp:48), which would count more as four, is never asked to.         *)
THEOREM FourLinesAtMost == Spec => [][lines' \in lines .. lines + 4]_vars
<1>1. GameInv /\ [Next]_vars => lines' \in lines .. lines + 4
  BY LinesStep DEF GameInv
<1> QED
  BY <1>1, Invariance, PTL DEF Spec

(* The 7-bag of README.md:14: no type is ever more than one ahead of another,   *)
(* whatever is held and however far the preview looks into the bag.           *)
THEOREM DealtEvenlyHolds == Spec => []DealtEvenly
<1>1. GameInv => DealtEvenly
  <2> SUFFICES ASSUME GameInv
               PROVE  DealtEvenly
    OBVIOUS
  <2>1. Counted \in [Type -> Nat] /\ Deals(queue, Counted)
    BY CountedType DEF GameInv
  <2>2. \A s, t \in Type : Counted[s] <= Counted[t] + 1
    BY <2>1, DealtEven
  <2> QED
    BY <2>2 DEF DealtEvenly, Counted
<1> QED
  BY <1>1, Invariance, PTL
=============================================================================
