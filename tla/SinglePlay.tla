----------------------------- MODULE SinglePlay -----------------------------
(***************************************************************************)
(* One game of SinglePlayState: the mino in hand, the hold, the bag, gravity *)
(* and the end of the game, on the field of module Board.                   *)
(*                                                                          *)
(* A step is one key, one fall by gravity or the change of screen.  A frame   *)
(* is such steps one after the other, ProcessInputs before Update.  When the *)
(* gravity interval has passed is left open, and points are left out: they   *)
(* decide nothing here.                                                      *)
(***************************************************************************)
EXTENDS Board, BagRandom

CONSTANTS
    NoMino,     \* m_CurMino when it is null
    NoType,     \* TetrominoType::None
    MaxPieces   \* bound: how many minos are locked

ASSUME TypeAssumption == Type \subseteq DOMAIN Shapes /\ NoType \notin Type
ASSUME NoMinoAssumption == NoMino \notin Mino(Type)
ASSUME MaxPiecesAssumption == MaxPieces \in Nat
ASSUME SpawnAssumption == \A t \in Type : ~IsCollide({}, AtSpawn(t))

VARIABLES
    board,      \* m_Board
    cur,        \* m_CurMino
    hold,       \* m_holdMinoType
    held,       \* m_bHasHeldThisTurn
    queue,      \* the bag's m_Queue
    locked,     \* how many minos of each type were locked: m_totalPieces
    lines,      \* m_Lines of the score
    over,       \* m_bGameOver
    waiting,    \* m_bWaitingGameOverTransition
    shown       \* the GameOverState was pushed

vars == <<board, cur, hold, held, queue, locked, lines, over, waiting, shown>>

Pieces == FoldFunctionOnSet(+, 0, locked, Type)

TypeOK ==
    /\ board \subseteq Cells
    /\ cur \in Mino(Type) \cup {NoMino}
    /\ hold \in Type \cup {NoType}
    /\ held \in BOOLEAN
    /\ queue \in Seq(Type)
    /\ locked \in [Type -> 0 .. MaxPieces]
    /\ lines \in Nat
    /\ over \in BOOLEAN /\ waiting \in BOOLEAN /\ shown \in BOOLEAN

-----------------------------------------------------------------------------
(* TrySpawnMino on board b, and the peeks of UpdatePreviewMinos at the end of   *)
(* the frame.  A finished game no longer looks into the bag.                 *)

(* Mutant: the last mino stays in hand.                                       *)
OnGameOverKeepsMino ==
    /\ over' = TRUE
    /\ waiting' = TRUE
    /\ UNCHANGED cur

OnGameOver ==
    /\ over' = TRUE
    /\ waiting' = TRUE
    /\ cur' = NoMino

TrySpawnMino(b) ==
    /\ UNCHANGED shown
    /\ \E q \in Peeked(queue, 0) :
        \/ /\ IsCollide(b, AtSpawn(Head(q)))
           /\ queue' = q
           /\ OnGameOver
        \/ /\ ~IsCollide(b, AtSpawn(Head(q)))
           /\ cur' = AtSpawn(Head(q))
           /\ queue' \in Peeked(Tail(q), Preview - 1)
           /\ UNCHANGED <<over, waiting>>

(* The constructor and OnEnter.                                              *)
Init ==
    /\ board = {}
    /\ hold = NoType
    /\ held = FALSE
    /\ \E q \in Peeked(<<>>, 0) :
        /\ cur = AtSpawn(Head(q))
        /\ queue \in Peeked(Tail(q), Preview - 1)
    /\ locked = [t \in Type |-> 0]
    /\ lines = 0
    /\ over = FALSE /\ waiting = FALSE /\ shown = FALSE

-----------------------------------------------------------------------------
(* Moving.                                                                   *)

Playing == ~over /\ cur # NoMino

Becomes(m) ==
    /\ cur' = m
    /\ UNCHANGED <<board, hold, held, queue, locked, lines, over, waiting, shown>>

TryMove(dx, dy) ==
    /\ Playing
    /\ ~IsCollide(board, Moved(cur, dx, dy))
    /\ Becomes(Moved(cur, dx, dy))

(* Mutant: a rotation that collides is not taken back.                        *)
TryRotateCWAnyway == Playing /\ Becomes(TurnedCW(cur))

TryRotateCW ==
    /\ Playing
    /\ ~IsCollide(board, TurnedCW(cur))
    /\ Becomes(TurnedCW(cur))

TryRotateCCW ==
    /\ Playing
    /\ ~IsCollide(board, TurnedCCW(cur))
    /\ Becomes(TurnedCCW(cur))

-----------------------------------------------------------------------------
(* Locking.                                                                  *)

(* m is locked where it is, full lines go and the next mino comes.            *)
LockAndProceed(m) ==
    LET result == ClearFullLines(Lock(board, m))
    IN  /\ Pieces < MaxPieces
        /\ locked' = [locked EXCEPT ![m.type] = @ + 1]
        /\ board' = result.cells
        /\ lines' = lines + result.cleared
        /\ held' = FALSE
        /\ UNCHANGED hold
        /\ TrySpawnMino(result.cells)

HardDrop ==
    /\ Playing
    /\ LockAndProceed(Landed(board, cur))

Gravity ==
    \/ TryMove(0, 1)
    \/ /\ Playing
       /\ IsCollide(board, Moved(cur, 0, 1))
       /\ LockAndProceed(cur)

-----------------------------------------------------------------------------
(* Holding.                                                                  *)

HoldFirst ==
    /\ Playing
    /\ ~held
    /\ hold = NoType
    /\ hold' = cur.type
    /\ held' = TRUE
    /\ TrySpawnMino(board)
    /\ UNCHANGED <<board, locked, lines>>

(* Mutant: the swap does not use up the hold of this turn.                    *)
HoldSwapAgain ==
    /\ Playing
    /\ ~held
    /\ hold # NoType
    /\ ~IsCollide(board, AtSpawn(hold))
    /\ cur' = AtSpawn(hold)
    /\ hold' = cur.type
    /\ UNCHANGED <<board, held, queue, locked, lines, over, waiting, shown>>

(* Mutant: the mino in hand is not put into the hold.                         *)
HoldSwapKeeps ==
    /\ Playing
    /\ ~held
    /\ hold # NoType
    /\ ~IsCollide(board, AtSpawn(hold))
    /\ cur' = AtSpawn(hold)
    /\ held' = TRUE
    /\ UNCHANGED <<board, hold, queue, locked, lines, over, waiting, shown>>

(* Mutant: whether the held mino fits is not asked.                           *)
HoldSwapAnyway ==
    /\ Playing
    /\ ~held
    /\ hold # NoType
    /\ cur' = AtSpawn(hold)
    /\ hold' = cur.type
    /\ held' = TRUE
    /\ UNCHANGED <<board, queue, locked, lines, over, waiting, shown>>

HoldSwap ==
    /\ Playing
    /\ ~held
    /\ hold # NoType
    /\ ~IsCollide(board, AtSpawn(hold))
    /\ cur' = AtSpawn(hold)
    /\ hold' = cur.type
    /\ held' = TRUE
    /\ UNCHANGED <<board, queue, locked, lines, over, waiting, shown>>

-----------------------------------------------------------------------------

(* Update, three seconds after the game is over.                             *)
ShowGameOver ==
    /\ waiting
    /\ waiting' = FALSE
    /\ shown' = TRUE
    /\ UNCHANGED <<board, cur, hold, held, queue, locked, lines, over>>

ProcessInputs ==
    \/ TryRotateCW
    \/ TryRotateCCW
    \/ TryMove(0, 1)
    \/ TryMove(-1, 0)
    \/ TryMove(1, 0)
    \/ HardDrop
    \/ HoldFirst
    \/ HoldSwap

Update == Gravity \/ ShowGameOver

Next == ProcessInputs \/ Update

Spec == Init /\ [][Next]_vars

(* The main loop calls Update in every frame, and the two timers run.  Of the   *)
(* keys only a soft drop, a hold and a spawn restart the gravity timer: each   *)
(* happens finitely often in a turn, so the interval passes.                 *)
LiveSpec == Spec /\ WF_vars(Update)

-----------------------------------------------------------------------------
(* Properties.                                                               *)

(* The mino in hand lies on free cells of the board, whatever the keys, the    *)
(* holds and the cleared lines did: every one of the five places that move,   *)
(* turn or replace it asks IsCollide of the right mino first.                *)
NoOverlap == cur # NoMino => ~IsCollide(board, cur)

(* SinglePlayState.cpp:276, the assertion in TryHold: a game that is not over   *)
(* has a mino in hand, also after a hold or a lock that found no room.       *)
NeverEmptyHanded == ~over <=> cur # NoMino

(* Rows pulled down are examined as well: wherever the mino in hand may land,  *)
(* the loop that overwrites row after row gives what removing all full rows at *)
(* once gives, and counts them.                                              *)
ClearIsCompaction ==
    cur # NoMino =>
        LET landing == Lock(board, Landed(board, cur))
            result  == ClearFullLines(landing)
        IN  /\ result.cells = Compacted(landing)
            /\ result.cleared = Cardinality(FullRows(landing))

(* No block is lost or doubled in a whole game: four per locked mino, less the  *)
(* lines that the score has counted.                                         *)
BlocksConserved == Cardinality(board) = 4 * Pieces - Width * lines

(* README.md:14, the 7-bag: counting the minos that were locked, the one in     *)
(* hand and the one on hold, no type is ever more than one ahead of another,   *)
(* so holding neither loses nor repeats a mino of the bag.                   *)
Dealt(t) ==
    locked[t] + (IF cur # NoMino /\ cur.type = t THEN 1 ELSE 0)
              + (IF hold = t THEN 1 ELSE 0)

DealtEvenly == \A s, t \in Type : Dealt(s) <= Dealt(t) + 1

(* Every turn ends, however the player moves, turns and holds, and a game that   *)
(* is over gets to its game over screen.  A turn is told from the next by the  *)
(* parity of the pieces that were locked.                                    *)
TurnsEnd ==
    /\ \A n \in 0 .. 1 : (~over /\ Pieces < MaxPieces /\ Pieces % 2 = n)
                            ~> (over \/ Pieces % 2 # n)
    /\ over ~> shown
=============================================================================
