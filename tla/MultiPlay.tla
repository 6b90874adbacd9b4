----------------------------- MODULE MultiPlay -----------------------------
(***************************************************************************)
(* One player's game in a match and what the opponent sees of it: the Local  *)
(* side of MultiPlayLogic, the packets that SyncToServer makes of it, and the *)
(* Remote side of the opponent's MultiPlayLogic, which the packets update.   *)
(*                                                                          *)
(* A frame is one key or none, then Update: gravity or not, then the packets. *)
(* The relay of RoomMatch keeps the order of the packets and loses none of     *)
(* those that a player sent before it left its match; here it is one stream.  *)
(* Whether the server ends the match is open: this player may be told that it  *)
(* has won; what makes it lose by a message is in RoomMatch.                  *)
(*                                                                          *)
(* Either side may leave the match at any time.  Only the state on top runs   *)
(* (Game::Update), so a player in its GameOverState sends and reads no more.  *)
(***************************************************************************)
EXTENDS Board, BagRandom

CONSTANTS
    NoMino,     \* for the refinement: no mino in hand
    NoType,     \* TetrominoType::None
    MaxPieces,  \* bound: how many minos are locked
    MaxInFlight \* bound: how many packets are under way when a frame ends

ASSUME TypeAssumption == Type \subseteq DOMAIN Shapes /\ NoType \notin Type
ASSUME NoMinoAssumption == NoMino \notin Mino(Type)
ASSUME BoundAssumption == MaxPieces \in Nat /\ MaxInFlight \in Nat
ASSUME SpawnAssumption == \A t \in Type : ~IsCollide({}, AtSpawn(t))

VARIABLES
    board, cur, hold, held, queue, locked, lines,   \* as in SinglePlay
    ended,      \* the sides whose m_bGameOver is set
    pressed,    \* the key of this frame was handled
    sync,       \* what the four m_bSync flags ask to send
    stream,     \* the packets that the opponent has not handled
    mirror,     \* the opponent's Remote side: mino, hold, preview and board
    screen,     \* the state on top for this player, as in RoomMatch
    watched     \* the opponent's MultiPlayState is on top for the opponent

gameVars == <<board, cur, hold, held, queue, locked, lines>>
screenVars == <<screen, watched>>
vars == <<gameVars, ended, pressed, sync, stream, mirror, screenVars>>

Pieces == FoldFunctionOnSet(+, 0, locked, Type)

Parts == {"cur", "hold", "preview", "board"}

(* m_PreviewMinos.                                                           *)
PreviewOf(q) == SubSeq(q, 1, Preview)

IsState(part, s) ==
    CASE part = "cur"     -> s \in Mino(Type)
      [] part = "hold"    -> s \in Type \cup {NoType}
      [] part = "preview" -> s \in Seq(Type) /\ Len(s) = Preview
      [] part = "board"   -> s \subseteq Cells

TypeOK ==
    /\ board \subseteq Cells
    /\ cur \in Mino(Type)
    /\ hold \in Type \cup {NoType}
    /\ held \in BOOLEAN
    /\ queue \in Seq(Type)
    /\ locked \in [Type -> 0 .. MaxPieces]
    /\ lines \in Nat
    /\ ended \subseteq {"Local", "Remote"}
    /\ pressed \in BOOLEAN
    /\ sync \subseteq Parts
    /\ \A i \in DOMAIN stream : stream[i].part \in Parts /\ IsState(stream[i].part, stream[i].state)
    /\ DOMAIN mirror = Parts
    /\ \A part \in Parts : IsState(part, mirror[part])
    /\ screen \in {"play", "over", "gone"}
    /\ watched \in BOOLEAN

(* Init of both sides.  Both bags have the same seed.                         *)
Init ==
    /\ board = {}
    /\ hold = NoType
    /\ held = FALSE
    /\ \E q \in Peeked(<<>>, 0) :
        /\ cur = AtSpawn(Head(q))
        /\ queue \in Peeked(Tail(q), Preview - 1)
    /\ locked = [t \in Type |-> 0]
    /\ lines = 0
    /\ ended = {}
    /\ pressed = FALSE
    /\ sync = {"preview"}
    /\ stream = <<>>
    /\ mirror = [cur |-> cur, hold |-> NoType, preview |-> PreviewOf(queue), board |-> {}]
    /\ screen = "play"
    /\ watched = TRUE

-----------------------------------------------------------------------------
(* The rules.                                                                *)

(* On board b, the mino before being m: it stays when there is no room.        *)
TrySpawnMino(b, m) ==
    \E q \in Peeked(queue, 0) :
        \/ /\ IsCollide(b, AtSpawn(Head(q)))
           /\ queue' = q
           /\ ended' = ended \cup {"Local"}
           /\ cur' = m
        \/ /\ ~IsCollide(b, AtSpawn(Head(q)))
           /\ cur' = AtSpawn(Head(q))
           /\ queue' \in Peeked(Tail(q), Preview - 1)
           /\ UNCHANGED ended

(* The flag that a spawn sets by way of UpdatePreview.                        *)
SpawnFlags == IF "Local" \in ended' THEN {} ELSE {"preview"}

LockAndProceed(m) ==
    LET result == ClearFullLines(Lock(board, m))
    IN  /\ Pieces < MaxPieces
        /\ locked' = [locked EXCEPT ![m.type] = @ + 1]
        /\ board' = result.cells
        /\ lines' = lines + result.cleared
        /\ held' = FALSE
        /\ UNCHANGED hold
        /\ TrySpawnMino(result.cells, m)

Becomes(m) ==
    /\ ~IsCollide(board, m)
    /\ cur' = m
    /\ UNCHANGED <<board, hold, held, queue, locked, lines, ended>>

-----------------------------------------------------------------------------
(* The key of a frame.                                                       *)

Key(flags) ==
    /\ screen = "play"
    /\ ~pressed
    /\ "Local" \notin ended
    /\ pressed' = TRUE
    /\ sync' = sync \cup flags
    /\ UNCHANGED <<stream, mirror, screenVars>>

TryMove(dx, dy) ==
    /\ Key({"cur"})
    /\ Becomes(Moved(cur, dx, dy))

(* Mutant: a rotation sets no flag.                                          *)
TryRotateCWSilently ==
    /\ Key({})
    /\ Becomes(TurnedCW(cur))

TryRotateCW ==
    /\ Key({"cur"})
    /\ Becomes(TurnedCW(cur))

TryRotateCCW ==
    /\ Key({"cur"})
    /\ Becomes(TurnedCCW(cur))

(* Mutant: a hard drop does not set m_bSyncBoard.                             *)
HardDropSilently ==
    /\ LockAndProceed(Landed(board, cur))
    /\ Key({"cur"} \cup SpawnFlags)

HardDrop ==
    LET landed == Landed(board, cur)
    IN  /\ LockAndProceed(landed)
        /\ Key((IF landed # cur THEN {"cur"} ELSE {}) \cup {"board"} \cup SpawnFlags)

HoldFirst ==
    /\ ~held
    /\ hold = NoType
    /\ hold' = cur.type
    /\ held' = TRUE
    /\ TrySpawnMino(board, cur)
    /\ Key({"hold"} \cup SpawnFlags)
    /\ UNCHANGED <<board, locked, lines>>

(* Mutant: a swap may be repeated in the same turn.                           *)
HoldSwapAgain ==
    /\ hold # NoType
    /\ ~IsCollide(board, AtSpawn(hold))
    /\ cur' = AtSpawn(hold)
    /\ hold' = cur.type
    /\ held' = TRUE
    /\ Key({"hold"})
    /\ UNCHANGED <<board, queue, locked, lines, ended>>

HoldSwap ==
    /\ ~held
    /\ hold # NoType
    /\ ~IsCollide(board, AtSpawn(hold))
    /\ cur' = AtSpawn(hold)
    /\ hold' = cur.type
    /\ held' = TRUE
    /\ Key({"hold"})
    /\ UNCHANGED <<board, queue, locked, lines, ended>>

ProcessInputs ==
    \/ TryMove(0, 1)
    \/ TryMove(-1, 0)
    \/ TryMove(1, 0)
    \/ TryRotateCW
    \/ TryRotateCCW
    \/ HardDrop
    \/ HoldFirst
    \/ HoldSwap

-----------------------------------------------------------------------------
(* The rest of the frame.                                                    *)

Packet(part, state, flags) ==
    IF part \in flags THEN <<[part |-> part, state |-> state]>> ELSE <<>>

(* One packet for each flag, in this order, with the state as it now is.      *)
WithPackets(s, flags) ==
    s \o Packet("cur", cur', flags) \o Packet("hold", hold', flags)
      \o Packet("preview", PreviewOf(queue'), flags) \o Packet("board", board', flags)

(* Mutant: nothing is sent any more when the game is over.                    *)
SyncToServerWhilePlaying(flags) ==
    /\ stream' = IF "Local" \in ended' THEN stream ELSE WithPackets(stream, flags)
    /\ sync' = {}

SyncToServer(flags) ==
    /\ stream' = WithPackets(stream, flags)
    /\ sync' = {}

(* MultiPlayState::Update; the logic sets flags only while neither side is over. *)
FrameEnds(flags) ==
    /\ screen = "play"
    /\ Len(stream) <= MaxInFlight
    /\ pressed' = FALSE
    /\ SyncToServer(sync \cup flags)
    /\ UNCHANGED <<mirror, screenVars>>

UpdateFalls ==
    /\ ended = {}
    /\ Becomes(Moved(cur, 0, 1))
    /\ FrameEnds({"cur", "preview"})

UpdateLocks ==
    /\ ended = {}
    /\ IsCollide(board, Moved(cur, 0, 1))
    /\ LockAndProceed(cur)
    /\ FrameEnds({"preview", "board"})

UpdateWaits ==
    /\ UNCHANGED <<gameVars, ended>>
    /\ FrameEnds(IF ended = {} THEN {"preview"} ELSE {})

Update == UpdateFalls \/ UpdateLocks \/ UpdateWaits

(* ProcessPackets, Server_GameOver with this player as the winner.            *)
WinnerIsLocal ==
    /\ screen = "play"
    /\ ended' = ended \cup {"Remote"}
    /\ UNCHANGED <<gameVars, pressed, sync, stream, mirror, screenVars>>

(* ProcessPackets of the opponent: the ApplyEnemy operation of the packet.     *)
ApplyEnemyState ==
    /\ watched
    /\ stream # <<>>
    /\ mirror' = [mirror EXCEPT ![Head(stream).part] = Head(stream).state]
    /\ stream' = Tail(stream)
    /\ UNCHANGED <<gameVars, ended, pressed, sync, screenVars>>

-----------------------------------------------------------------------------
(* The end of the match, for this player and for the opponent.                *)

(* CheckGameOverTransition at the end of an Update, three seconds after it first *)
(* saw a verdict.                                                            *)
PlayToGameOver ==
    /\ screen = "play"
    /\ ended # {}
    /\ ~pressed
    /\ sync = {}
    /\ screen' = "over"
    /\ UNCHANGED <<gameVars, ended, pressed, sync, stream, mirror, watched>>

(* Escape, the end of the process, a lost connection, or the way to the title. *)
Leave ==
    /\ screen # "gone"
    /\ screen' = "gone"
    /\ UNCHANGED <<gameVars, ended, pressed, sync, stream, mirror, watched>>

(* The opponent leaves in one of these ways, its own game over included: from   *)
(* now on its packets stay unread.                                           *)
OpponentLeaves ==
    /\ watched
    /\ watched' = FALSE
    /\ UNCHANGED <<gameVars, ended, pressed, sync, stream, mirror, screen>>

Next ==
    \/ ProcessInputs
    \/ Update
    \/ WinnerIsLocal
    \/ ApplyEnemyState
    \/ PlayToGameOver
    \/ Leave
    \/ OpponentLeaves

Spec == Init /\ [][Next]_vars

(* Each main loop goes on, frame after frame: Update runs as long as this       *)
(* player's match is on top, the opponent's ProcessPackets as long as its own is. *)
LiveSpec == Spec /\ WF_vars(Update) /\ WF_vars(ApplyEnemyState)

-----------------------------------------------------------------------------
(* The rules are written twice in the code, with other flags and another order  *)
(* of the keys; they are the same game: every step is one of SinglePlay.       *)
IsOver == "Local" \in ended

Single == INSTANCE SinglePlay WITH
    cur <- IF IsOver THEN NoMino ELSE cur,
    over <- IsOver, waiting <- IsOver, shown <- FALSE

ImplementsSinglePlay == Single!Spec

-----------------------------------------------------------------------------
(* What the opponent sees.                                                   *)

(* Nothing is under way and every flag was served.                            *)
Settled == stream = <<>> /\ sync = {}

(* Hold, preview and board are sent whenever they change: once nothing is under *)
(* way the opponent sees them as they are.                                   *)
PartsMirrored ==
    Settled => /\ mirror["hold"] = hold
               /\ mirror["preview"] = PreviewOf(queue)
               /\ mirror["board"] = board

(* A spawn and a swap from the hold do not ask to send the mino, so it is seen   *)
(* only once it has moved or turned: what the opponent sees is right unless    *)
(* the mino is where it came into play.                                      *)
MovedMinoMirrored == Settled => mirror["cur"] = cur \/ cur = AtSpawn(cur.type)

(* A player that has lost sends its last board by a frame that comes after the  *)
(* game is over and before its game over screen, and an opponent that stays in  *)
(* its match gets to see it; one that lost three seconds earlier does not stay, *)
(* and then nobody sees it.  A player that ends its session sends nothing.     *)
LastBoardSeen == IsOver ~> (mirror["board"] = board \/ ~watched \/ screen = "gone")

(* README.md:26, the opponent's mino is synchronised in real time: when nothing *)
(* is under way the mino that the opponent sees is the one in play.            *)
MinoMirrored == Settled => mirror["cur"] = cur
=============================================================================
