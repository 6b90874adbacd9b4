------------------------------- MODULE Board -------------------------------
(***************************************************************************)
(* The playing field and the minos on it: Board.cpp and Tetromino.h.  A cell *)
(* is a pair <<x, y>> with y growing downwards; a board is the set of its    *)
(* occupied cells, for nothing but the colours depends on which type fills   *)
(* a cell.  There is no state here: this is what the games are built from.   *)
(***************************************************************************)
EXTENDS Integers, FiniteSets

CONSTANTS
    Width,  \* BOARD_WIDTH
    Height  \* BOARD_HEIGHT, the hidden rows included

ASSUME SizeAssumption == Width \in Nat \ {0} /\ Height \in Nat \ {0}

Columns == 0 .. Width - 1
Rows    == 0 .. Height - 1
Cells   == Columns \X Rows

(* The blocks of each type, by rotation R0, R90, R180, R270.                  *)
Shapes == [
    I |-> << {<<-1, 0>>, <<0, 0>>, <<1, 0>>, <<2, 0>>},
             {<<1, -1>>, <<1, 0>>, <<1, 1>>, <<1, 2>>},
             {<<-1, 1>>, <<0, 1>>, <<1, 1>>, <<2, 1>>},
             {<<0, -1>>, <<0, 0>>, <<0, 1>>, <<0, 2>>} >>,
    O |-> [r \in 1 .. 4 |-> {<<0, 0>>, <<1, 0>>, <<0, 1>>, <<1, 1>>}],
    T |-> << {<<0, 0>>, <<-1, 1>>, <<0, 1>>, <<1, 1>>},
             {<<0, -1>>, <<0, 0>>, <<1, 0>>, <<0, 1>>},
             {<<0, 0>>, <<1, 0>>, <<2, 0>>, <<1, 1>>},
             {<<0, 1>>, <<1, 0>>, <<1, 1>>, <<1, 2>>} >>,
    L |-> << {<<1, 0>>, <<-1, 1>>, <<0, 1>>, <<1, 1>>},
             {<<0, -1>>, <<0, 0>>, <<0, 1>>, <<1, 1>>},
             {<<0, 0>>, <<1, 0>>, <<2, 0>>, <<0, 1>>},
             {<<0, 0>>, <<1, 0>>, <<1, 1>>, <<1, 2>>} >>,
    J |-> << {<<-1, 0>>, <<-1, 1>>, <<0, 1>>, <<1, 1>>},
             {<<0, -1>>, <<1, -1>>, <<0, 0>>, <<0, 1>>},
             {<<0, 0>>, <<1, 0>>, <<2, 0>>, <<2, 1>>},
             {<<1, 0>>, <<1, 1>>, <<0, 2>>, <<1, 2>>} >>,
    S |-> << {<<0, 0>>, <<1, 0>>, <<-1, 1>>, <<0, 1>>},
             {<<0, -1>>, <<0, 0>>, <<1, 0>>, <<1, 1>>},
             {<<1, 0>>, <<2, 0>>, <<0, 1>>, <<1, 1>>},
             {<<0, 0>>, <<0, 1>>, <<1, 1>>, <<1, 2>>} >>,
    Z |-> << {<<-1, 0>>, <<0, 0>>, <<0, 1>>, <<1, 1>>},
             {<<1, -1>>, <<0, 0>>, <<1, 0>>, <<0, 1>>},
             {<<0, 0>>, <<1, 0>>, <<1, 1>>, <<2, 1>>},
             {<<1, 0>>, <<0, 1>>, <<1, 1>>, <<0, 2>>} >> ]

-----------------------------------------------------------------------------
(* Minos.                                                                    *)

Mino(types) == [type : types, rot : 0 .. 3, x : Int, y : Int]

(* A new mino in the middle of the second row, unrotated.                    *)
AtSpawn(t) == [type |-> t, rot |-> 0, x |-> Width \div 2, y |-> 1]

Moved(m, dx, dy) == [m EXCEPT !.x = @ + dx, !.y = @ + dy]
TurnedCW(m)  == [m EXCEPT !.rot = (@ + 1) % 4]
TurnedCCW(m) == [m EXCEPT !.rot = (@ + 3) % 4]

Blocks(m) == {<<m.x + b[1], m.y + b[2]>> : b \in Shapes[m.type][m.rot + 1]}

-----------------------------------------------------------------------------
(* Boards.                                                                   *)

(* Some block of m is out of bounds or on an occupied cell.                  *)
IsCollide(board, m) == ~(Blocks(m) \subseteq Cells \ board)

(* Set ignores what is out of bounds.                                        *)
Lock(board, m) == board \cup (Blocks(m) \cap Cells)

Row(y) == Columns \X {y}
IsFull(board, y) == Row(y) \subseteq board

(* Row y is overwritten by the row above it, and so on to the top, which      *)
(* becomes empty.                                                            *)
PullDown(board, y) ==
    {c \in Cells : IF c[2] > y THEN c \in board
                               ELSE c[2] > 0 /\ <<c[1], c[2] - 1>> \in board}

(* For a mutant: the row that came down is not examined.                      *)
ClearFromSkipping[at \in (SUBSET Cells) \X (Rows \cup {-1})] ==
    LET b == at[1]
        y == at[2]
    IN  IF y < 0 THEN [cells |-> b, cleared |-> 0]
        ELSE IF IsFull(b, y)
        THEN [ClearFromSkipping[<<PullDown(b, y), y - 1>>] EXCEPT !.cleared = @ + 1]
        ELSE ClearFromSkipping[<<b, y - 1>>]

(* Mutant: see ClearFromSkipping.                                             *)
ClearFullLinesSkipping(board) == ClearFromSkipping[<<board, Height - 1>>]

(* The loop of ClearFullLines with a board and the row it has come to, upwards  *)
(* to the top; a row that was pulled down is examined again.                  *)
ClearFrom[at \in (SUBSET Cells) \X (Rows \cup {-1})] ==
    LET b == at[1]
        y == at[2]
    IN  IF y < 0 THEN [cells |-> b, cleared |-> 0]
        ELSE IF IsFull(b, y)
        THEN [ClearFrom[<<PullDown(b, y), y>>] EXCEPT !.cleared = @ + 1]
        ELSE ClearFrom[<<b, y - 1>>]

ClearFullLines(board) == ClearFrom[<<board, Height - 1>>]

(* The ghost: the mino where it comes to rest.                               *)
Landed(board, m) ==
    LET fall == CHOOSE d \in 0 .. Height :
                    /\ IsCollide(board, Moved(m, 0, d + 1))
                    /\ \A e \in 1 .. d : ~IsCollide(board, Moved(m, 0, e))
    IN  Moved(m, 0, fall)

-----------------------------------------------------------------------------
(* What a clear should do: the full rows vanish together and every other row   *)
(* sinks by the number of full rows beneath it.                              *)

FullRows(board) == {y \in Rows : IsFull(board, y)}

Compacted(board) ==
    {<<c[1], c[2] + Cardinality({y \in FullRows(board) : y > c[2]})>> :
        c \in {d \in board : d[2] \notin FullRows(board)}}
=============================================================================
