# TetrisCPPConsole in TLA+

A verification project for the console Tetris and its match server: TLA+ modules of the
server, the connections, the match protocol, the client's main loop with its keyboard and
screens, the game rules, the score and the mirrored multiplayer game. TLC model-checks them on
small instances; what section 6 lists is proved by TLAPS for every value of the constants.
`PROJECT.json` ties each definition to its source lines, each run to its properties, each
property to a mutant of the code that breaks it, and lists the hazards.

To repeat: `tlc -config MCRoomMatch.cfg MCRoomMatch` and likewise for the other configurations;
`tlapm TetrisServer_proofs.tla` and likewise for the other `*_proofs.tla`.

## 1. Inventory

Two programs: `TetrisServer` (console server) and `Tetris` (game client, single and
multiplayer), both on `NetCommon`, a small message library over asio.

| Component | State | Operations | Module |
|---|---|---|---|
| Game server (`TetrisServer.cpp`) | validated clients, players, garbage ids, last pongs, event queue | the three events and every client message, ping, pong timeout | `TetrisServer`, promised by `GameRoom` |
| `server_interface` (`net_server.h`) | deque of connections, id counter, queue of incoming messages | accept, drain, sweep and erase in `Update`, message one or all | `TetrisServer` |
| `connection` (`net_connection.h`) | `m_bAlive`, socket, queue out, message being read, handshake | validate, read, write, `Send`, `Disconnect` | `Connection`, promised by `MessageStream`; a stream in `TetrisServer`, `RoomMatch` |
| `tsqueue` (`net_tsqueue.h`) | a locked deque | push, pop, empty | atomic steps in `TetrisServer`, `Connection` |
| `client_interface`, `TetrisClient` | connection, queue in, player id | connect, send, `IsConnected`, destruction | `RoomMatch`, `Connection`, `GameLoop` |
| `RoomJoinState` | responded, seed, queued transition, timer | the messages of the join, timeout, transition | `RoomMatch` |
| Multiplayer session (`MultiPlayState`, `MultiPlayNetwork`) | whose game is over, waiting for the screen | keys, frame, packets in and out, verdict, exit | `RoomMatch`, `MultiPlay` |
| `MultiPlayLogic` | both sides' board, mino, hold, preview; four sync flags | the rules, `ApplyEnemy*` | `MultiPlay` |
| `SinglePlayState` | board, mino, hold, bag, game over | the keys, gravity, hold, lock, spawn, end | `SinglePlay` |
| `Board`, `Tetromino` | the cells | collision, lock, clear, ghost | `Board` |
| `BagRandom` | the queue of types | `Next`, `Peek`, refill | `BagRandom` |
| `Score` | points, level, lines, combo, back-to-back | lines cleared, drops | `Score` |
| `StateMachine`, `Game` | the stack of screens, the pop that was asked for, `m_bIsRunning` | push, request of a pop, `Run`, `ProcessEvents`, `ProcessInputs`, `Update` | `GameLoop` |
| `TitleState`, `GameOverState`, `Selector` | the cursor | move, select | `GameLoop` |
| `Keyboard`, `Button` | per key: down, just pressed | key down, key up, end of frame | `Keyboard`, used by `GameLoop` |
| `SoundManager` | what plays | play and stop music, effects | the music in `GameLoop`, the missing effect in `RoomMatch` |
| `Timer`, renderers, console, logger, vendored libraries | | | not modelled (section 8) |

How they interact.

* **On the server** the ASIO thread runs callbacks (accept, handshake, read, write) and the
  main thread runs `Update` for ever. They share `m_qMessagesIn` and `m_EventQueue` (locked),
  `m_deqConnections` and `m_bAlive` (not locked). Three kinds of events about a connection
  reach the main thread by three routes: `ClientValidated` directly, messages over
  `m_qMessagesIn`, `ClientDisconnected` from a sweep.
* **Between server and client** there is one byte stream each way per connection. Most answers
  are broadcasts to every connection, whatever screen its client is on.
* **On the client** the main thread alone runs the states. A frame is `ProcessEvents` (console to
  keyboard), `ProcessInputs` and `Update` of the state on top; a state pushes at once and asks for pops that
  take place at the start of the next `Update`. `RoomJoinState` hands its client and its seed to `MultiPlayState`
  and stays below it on the stack. The client's ASIO thread only fills its queue and clears `m_bAlive`.
* **In a match** each side plays its own game, sets sync flags as it changes, sends a packet
  per flag at the end of the frame and applies the packets of the other side to its copy.

What is hard, and what must hold in spite of it:

* *Order of events from two threads*: no table keeps a client that is gone, nobody plays
  unvalidated, a disconnect counts once, every live client is watched by the timeout.
* *Broadcasts against screens*: nobody starts alone, both start with the server's seed, the
  match ends for both, the loser is the one who lost.
* *Failure and silence*: a socket closes, a client stops answering; both must end in a departure.
* *Callbacks of a connection*: a message is two writes and two reads with a queue before and a reused buffer behind;
  every message arrives whole, once and in order, also one that was sent before the handshake ended.
* *Screens and frames*: pops that are late, pushes that are not, a client that was moved away, keys whose events come
  in the wrong frame or never: no pop removes the wrong screen, a press acts in one frame, no screen hangs.
* *Long sequences of keys*: the mino in hand always fits, holds and clears neither lose nor
  invent blocks or minos, a turn ends.
* *Mirroring by flags*: whatever is changed is sent, in order, the last board of a lost game too.

## 2. Modules and the code

`TetrisServer` is the server with both threads. The main thread is a loop over the phases of
`Update`; a step is one iteration of a loop (one message drained, one connection swept, one
event handled), the two broadcasts of a join request are two steps. The ASIO thread accepts,
validates, reads and pushes between any two of them, in two steps where the code is unlocked
between them (`ReadMessage`, `PushMessage`). Clients are the environment: after the handshake
a connection may send every message the server has a case for, at any time, and break at any time.
`m_LastPongTime` is the set of watched ids and those that are overdue.

`GameRoom` is what the server promises: one atomic action per event, no threads, no queues.
`TetrisServer` implements it (`ImplementsGameRoom`).

`RoomMatch` puts sessions on top of `GameRoom`: for each session the two streams, the screen,
the fields of `RoomJoinState` and the game-over part of `MultiPlayLogic`. The server's handlers
are those of `GameRoom` joined with the connection's life; every client frame takes one message or
does one of its pending changes of screen. The server may end at any moment
(`ServerEnds`), which closes every connection: without it no client in a match would ever lose its connection.
Broken assertions (`__debugbreak`) put the session into
`broke` instead of stopping it. `registered` is a history variable: the sessions whose `Client_RegisterWithServer` the server
has handled, which no table of the server remembers once they have left.

`Board` has no state: shapes, collision, locking, the clearing loop as a recursive function of a board and the row the loop has come
to (the row pulled down is examined again), and `Compacted`, a definition
of what clearing should do. `BagRandom` is the bag; a refill is any order of the types.

`SinglePlay` is one game: a step is a key, a fall or lock by gravity, or the change of
screen. `locked` and `lines` count `m_totalPieces` per type and the cleared lines of the score.
`Score` is separate, as nothing in a game depends on it: its calls are recorded in
`log`, against which `ScoreIsWorth` re-computes the points from the whole game.

`MultiPlay` is the local side of `MultiPlayLogic`, its flags, the packets that `SyncToServer` makes,
and the remote side of the opponent's `MultiPlayLogic`. A frame is one key or none (the
`else if` chain), then gravity or not, then one packet per flag in the order of the code. The stream
between the two is the relay of `RoomMatch`, which keeps the order and loses nothing of what was sent before the sender left its match.
Only the state on top is updated, so each side's part in this ends with its match: `screen` is that of this player, which goes to the
game over screen (`PlayToGameOver`) or leaves at any moment (`Leave`); `watched` says that the opponent's match is on top
for the opponent, who may stop reading at any moment (`OpponentLeaves`), by its own game over too.
The rules are written twice in the code; here they are written twice as well, and
`ImplementsSinglePlay` says they are the same game, under a mapping that empties the hand when the
game is over (`MultiPlayLogic` keeps the last mino, `SinglePlayState` drops it).

`GameLoop` is the client's main thread: a frame is `Peek`, one `ProcessEvent` per console event, `Flush`, `ProcessInputs`
and `Update`, and between any two of these steps the console may queue an event (`Press`, `Release`) or the connection may be
lost (`LinkLost`). Events of the mouse and the window are not kept, but `Peek` allows for what they do: they take up room in the buffer and
cause a flush when there is no key at all. `stack` holds the names of the screens, `popDepth` the pop that was asked for, `asked` (a history variable)
the stack at that moment. Of each screen it has what decides about screens: the cursor of a menu, whether the game
is over and its screen is awaited, who holds the client and whether it is connected, and which music plays.
`fingers` are the keys that are really down, `missed` those whose last event went in the flush, `arrived` those pressed by an
event of this frame. `Keyboard` has the operators of `Button` and `Keyboard`.

`Connection` is one connection with both ends from the accept on. At each end there is the queue of posted lambdas, `m_qMessagesOut`,
the write or read whose handler is awaited, and `m_msgTemporaryIn` as the pair of the messages that its header and body
came from, which is how a body left over from the message before is told from the right one. A write is on the wire
when it starts, its handler runs later. A chunk of the wire is a handshake number, a header or a body; headers and handshake numbers have
the same eight bytes, so one may be read as the other. `MessageStream` is what all this promises, without chunks and queues: `sent`
grows, `got` is a prefix of the other end's messages, nothing reaches the server before the client is admitted. `TetrisServer` and
`RoomMatch` take each connection as such a stream.

`MC*.tla` only extend the modules with symmetries; definitions called "Mutant:" in the modules are plausible
bugs of the definition that follows them and are used nowhere.

## 3. Runs

| Run | Instance | Asks |
|---|---|---|
| `server` | 2 connections, queues of 1, fair | `TypeOK`, `NoGhosts`, `PlayersAreValidated`, `LiveAreWatched`, `DepartOnce`, `ImplementsGameRoom`, `DeadAreForgotten`, `SilentDepart` |
| `match` | 2 sessions, 1 relayed state, fair | `TypeOK`, `NobodyStartsAlone`, `PlaySeeded`, `VictoryNeedsDeparture`, `StartsTogether`, `MatchEnds` |
| `single` | 5 x 5, types I O T, 4 minos, fair | `TypeOK`, `NoOverlap`, `NeverEmptyHanded`, `ClearIsCompaction`, `BlocksConserved`, `DealtEvenly`, `TurnsEnd` |
| `score` | 6 calls | `TypeOK`, `LevelFollowsLines`, `ScoreIsWorth` |
| `multi` | 4 x 4, types O T, 4 minos, 1 packet left at a frame's end, fair | `TypeOK`, `PartsMirrored`, `MovedMinoMirrored`, `ImplementsSinglePlay`, `LastBoardSeen` |
| `gameloop` | keys ESC, S and SPACE, 2 console events, a buffer of 1, 1 finger, fair | `TypeOK`, `StacksAreKnown`, `ClientIsOnTop`, `PopsSpareTheNew`, `PressActsOnce`, `HeldAsPressed`, `MusicFollowsGame`, `ScreensMoveOn` |
| `connection` | 2 messages from each end, fair | `TypeOK`, `ImplementsStream`, `EverythingArrives` |
| `seeds`, `packets`, `one_loser`, `victory`, `mirror` | as small as shows it | one claim each, violated (section 5) |

The bounds, and why they are enough:

* `server` has two connections, since safety and liveness are checked in one run. That no property of safety depends on it is
  what the proofs say: they hold for every number of connections and every queue. `MaxQueue` = 1 bounds what a
  read may add while something is under way; events of the main thread itself still queue up behind it. A validation and a
  disconnect meet in every order with each other and with the messages of the other connection, but a connection's message never
  queues behind its own validation: longer queues are out of the reach of a complete run, and that case rests on the proofs
  (`PlayersAreValidatedHolds` and the others are for any `MaxQueue`).
* `match` has two sessions, a match and its end; three sessions are out of the reach of a complete
  run in reasonable time and appear in `victory` only. `MaxRelays` = 1 is enough for a relayed state
  to meet each screen.
* `single`: on a field of 5 x 5 a flat T beside an O, or a flat I beside an upright one, fills a line, so lines are cleared below and
  between other blocks,
  and games end by a lock, a hold or neither; four minos are a bag of three types and the start of the next. `MaxPieces` stops a game
  after that many locks: deadlock is therefore not checked there. `multi` is smaller since every state is multiplied by flags,
  packets and the opponent's copy; it stops when both sides have left.
* `gameloop`: one key moves, one selects and drops, one quits; W is the mirror image of S and, like A, D (which hide a SPACE of the same
  frame) and C, only in the proofs. Two events and a
  buffer of one are an event that is processed, one that is flushed, and one that comes in between. The stack never needs
  a bound.
* `connection`: two messages from each end are a queue with a message being written and one that waits, and a message
  without a body behind one with a body; the proofs are for any number.
* `score`: six calls hold a clear of four, a miss and a second clear of four; three clears of
  four pass the first level.

`CHECK_DEADLOCK FALSE` is said where the system really stops: all sessions gone (`RoomMatch`), the game
over or `MaxPieces` reached (`SinglePlay`), both sides out of
the match (`MultiPlay`), `MaxCalls` reached (`Score`), the loop left by escape (`GameLoop`), an end that has given up (`Connection`).

## 4. Fairness

* Server: `main.cpp` calls `Update(-1, false)` in an endless loop: weak fairness of the main thread's steps, and of a
  push whose callback has begun. A drain ends only when it finds the queue empty, so a main
  thread that is always slower than the network would never sweep: strong fairness of
  `DrainDone` says it catches up again and again. Nothing is asked of clients: no message need be sent.
* `RoomMatch`: weak fairness of the server, as long as it has not ended, and of each client's frames. The user, the clock of the join
  timeout and topping out are free: they may happen or not.
* `SinglePlay`: weak fairness of `Update`, gravity and the change of screen. A soft drop, a hold and a spawn restart the gravity timer, each only
  finitely often in a turn, so the interval passes. Lateral moves and rotations do not restart it.
* `MultiPlay`: weak fairness of `Update` as long as this player's match is on top, and of the opponent's packet handling as long as the
  opponent's is. Nothing keeps either of them there: the three seconds of a finished game, and every other way out of a match, may be over
  before a packet is handled.
* `GameLoop`: weak fairness of the loop, and strong fairness of the three updates that wait for a clock: frames go on and
  the clock with them, so a frame comes in which three seconds of a finished game, or the five of a join without answer, have passed.
  Keys, the server and the end of a game are free.
* `Connection`: weak fairness of each kind of handler. An ASIO thread runs its queue of handlers in order and what was written
  arrives, so none of them waits for ever. That the application sends or gives up is free.

## 5. Where the code differs from what the repository says

Each is a run that TLC ends with a counterexample, and a finding in `PROJECT.json`.

* `seeds`: every join request that finds two players broadcasts a fresh seed. A player that has started
  keeps the first, the other takes the second. README.md:25 promises synchronised bags.
* `packets`: a broadcast reaches a client in `RoomJoinState`, whose default case breaks.
* `one_loser`: nobody reports its own defeat (`SendClientGameOver` has no caller), so both sides may lose.
* `victory`: a connection that never registered departs, and the server declares a victory of
  two players who both still play.
* `mirror`: a spawn and a swap from the hold set no `m_bSyncCurMino`; the opponent sees the old mino
  until the next move. `MovedMinoMirrored` states what is true instead, and is proved.

What the properties leave out on purpose, as the code does not give it:

* `LastBoardSeen` is about an opponent whose match is still on top. Defeats are not reported, so one that lost more than three seconds
  earlier has its own `GameOverState` on top, reads no more packets (`Game.cpp:171`), and never sees the last board of the later loser.
* `VictoryNeedsDeparture` is about a victory that is announced; that a winner who tops out within the three seconds is shown a defeat
  (`MultiPlayState.cpp:39-48` asks for the own defeat first) is not against it.
* `MatchEnds` exempts a client that broke on an assertion, as every winner does (below).
* `HeldAsPressed` exempts a key whose last event was flushed, until its next event: such a key may seem held for as long.
* `ScreensMoveOn` exempts a join that was answered and then dropped by the server, which stays on screen until escape
  (hazard at `RoomJoinState.cpp:117`).
* `PlaySeeded` is about at most two sessions: with a third one it is false (hazard at `TetrisServer.cpp:212`).

Also met, with no sentence of the repository against it: the winner's screen plays a sound that is never
loaded and `PlaySE_Force` breaks on it (hazard at `MultiPlayState.cpp:61`); in `RoomMatch` it is the
`broke` of `PlayVerdict`, which `MatchEnds` allows for. "Exit" does nothing in both menus: it is an empty case in `TitleState.cpp:90`, and
`GameOverState.cpp:92` looks for item 2 of a menu of two. The flush in `Game.cpp:142-143` is meant for "other inputs" and
drops key events as well. A press and its release, or its first repetition, in one frame leave no edge and are never acted on. The title
has no music after a game, and keeps that of the match after a lost connection. `connection::Disconnect` never closes its socket,
since `IsConnected` is false once `m_bAlive` is. A client that sends before the handshake has ended is refused by the server, which
reads its header for the answer; the client's states send only after `Client_Accepted`, so this does not happen to them. `MultiPlayLogic.cpp:51` starts
`m_SoftDropTimer`, which `MultiPlayLogic.h:81-119` does not declare (the member is `MultiPlayState`'s), so the client does not compile
as it was committed; the models take the line as if it were not there, as a timer that nobody in the logic reads changes nothing.

## 6. What is proved

| Module | Theorem | For all |
|---|---|---|
| `TetrisServer_proofs` | `TypeCorrectness`, `Inductive`, `NoGhostsHold`, `PlayersAreValidatedHolds`, `LiveAreWatchedHolds`, `DepartOnceHolds`, `Refinement` | numbers of connections, queue bounds, seeds |
| `Connection_proofs` | `TypeCorrect`, `Implements`, `WholeOnceInOrder` | numbers of messages |
| `RoomMatch_proofs` | `TypeCorrect`, `NobodyStartsAloneHolds`, `PlaySeededHolds`, `VictoryNeedsDepartureHolds`, `ServerIsARoom` | sets of sessions, sets of seeds, relays |
| `GameLoop_proofs` | `StacksKnown`, `ClientOnTop`, `PopsSpare`, `MusicFollows`, `HeldPressed`, `PressOnce`, `TypeCorrect` | sets of keys, console events, buffers, fingers |
| `Rules_proofs` | `ClearFullLinesCompacts` | boards, sizes of board |
| `SinglePlay_proofs` | `TypeOKHolds`, `NoOverlapHolds`, `NeverEmptyHandedHolds`, `ClearIsCompactionHolds`, `BlocksConservedHolds`, `NoFullRowHolds`, `FourLinesAtMost`, `DealtEvenlyHolds` | boards, sets of types, previews, lengths of game |
| `MultiPlay_proofs` | `TypeOKHolds`, `Refinement`, `RulesCarryOver`, `FourLinesAtMost`, `PartsMirroredHolds`, `MovedMinoMirroredHolds` | the same, and packets under way |
| `Score_proofs` | `ScoreTypes`, `LevelFollowsLinesHolds`, `ScoreIsWorthHolds` | numbers of calls, drop lengths |

With these, every safety property of a passing run is a theorem. `Rules_proofs` has what several of the others rest
on: induction, sums, and the minos, boards and bags that the two games share. The assumptions are the
named `ASSUME`s of the modules: the bounds are naturals, the board is not empty, the types
have shapes, a bag is finite, not empty and no smaller than the preview, and a new mino fits on an empty
board. TLC evaluates each of them.

*The server.* None of the properties is inductive. `NoGhosts` fails on a step that handles a message of a
connection that is gone unless such a message is known to be followed by its disconnect; so `IInv` says of every
connection where it is in its life (`Lifecycle`: in the deque, disconnect queued, departed, exclusively), that a
queued disconnect or validation is the only one of its connection (`DisconnectsQueued`, `ValidationsQueued`),
that whoever reads or has a message under way is validated or has a validation in the queue before that message
(`MessagesIntroduced`), and what the tables say of each other (`Tables`). Each action has a lemma; the
refinement maps an event handler to the room's action and everything else to a stutter.

*A connection.* `ImplementsStream` says nothing about the wire, so the invariant must. After any chunk of a stream only one can follow
(`After`): after the header of a message with a body its body, otherwise the next header. `ChainInv` says that the
wire is a chain of such chunks, from the one that the reader awaits to the one that the writer writes next; the
writer's part is that a living end's queue holds consecutive messages of which the front is being written (`WriterInv`), the reader's
that what was handed up is whole (`ReaderInv`). The chain is broken only by a client that sends too early, and
then the server has refused it or will (`Early`).

*The match.* None of the three is inductive, since the decision and its effect are apart by two streams and a screen. `StartInv` follows
the order to start from the handler (`starting`) through the stream and the queued transition to the match: at each place two have registered
by then, which is said with `registered`, since a registration that was handled cannot be undone by whoever leaves. `VerdictInv` does the same for a verdict, and `GoneInv` says that whoever the server gave up has ended its session, so a verdict is
always about such a one. `SeedInv` says that a seed is ahead of every order to start in every stream, as
long as at most two sessions have begun; a third `Start` between the two broadcasts would break it, and makes the
condition false (`BegunInv` keeps its sets finite).

*The main loop.* Two invariants. `StackInv`: who holds the client is a function of the stack's shape (`OwnerOf`), a pop is pending only on the
stack it was asked for and, between frames, only on a join or a match (`PopIsFresh`), and the music is off from the moment
the game is over (`Silence`). `KeyInv`: the last event on its way for a key, or the key itself when there is none, says what the finger does.

*The clearing loop.* The induction theorems of the library take an operator, which the provers cannot instantiate, so induction
is stated over sets: a set of naturals that is not empty has a least element (`LeastNumber`), hence a set of loops that is closed
under a turn of the loop has all of them (`LoopInduction`). The measure is `Left`, the occupied cells and the rows that are
left: a full row that is pulled down takes a row's width of cells, a row that is not full is left behind. That the recursive
equation of `ClearFrom` has a solution is proved, too (`ClearFromDef`), from solutions below a bound; until then `ClearFrom` is a
`CHOOSE` of which nothing is known. Three properties go through the loop: cells are lost only with the rows that are counted
(`ClearFromType`); the result is `Compacted`, provided no row below the loop is full (`ClearFromCompacts`, which needs that a pull shifts
the full rows above by one, `FullRowsPulledDown`); and no full row is left (`ClearFromLeavesNone`).

*The single game.* `GameInv` has five parts. `Inv` adds the types of hand, hold and queue to `NoOverlap` and `NeverEmptyHanded`; nothing is
needed of the clearing loop, since whatever board it leaves, the next mino is checked against it. `BlocksConserved` needs that a
mino has four different blocks (read off the tables, `ShapeCells`), that what is locked fits (`LockOrNot`, and `LandedFits` for the hard drop:
a fall ends above the floor), and the loop. `NoFullRow` gives `FourLinesAtMost`, by which `Score` is
never asked for more than four lines: every row a lock completes has one of the four blocks. `Deals` is what makes `DealtEvenly` inductive:
the queue is what is left of one bag, followed by nothing or by one whole bag, and of the types dealt so far those that are left in the first bag are
one behind (`Splits`). A refill adds a whole bag, a spawn takes the head, a hold moves a mino between two places that are both counted.

*The match's game.* The instance of `SinglePlay` has its own copies of the operators of `Board` and `BagRandom`; the
first lemmas show them equal. `GameSteps` reduces every step to a move, a lock, a first hold, a swap
or no change of the game, from which both the hand's invariant and the refinement follow. For
the mirror, `StreamInv` says of each part: it is flagged, or the last packet about it, or the opponent's
copy if there is none, says what it is now (`Carried`); packets added and taken preserve that
(`AddPacket`, `TakePacket`), and every step flags what it changed (`Flagged`) but for a mino
that has just come into play. `RulesCarryOver` is the theorems of the single game, taken through `Refinement` from an instance of
`SinglePlay_proofs` (`Proved`): what is proved of `SinglePlayState` holds of the copy of its rules.

*The score.* The level's loop, closed by the lines counted before it, stays within the decade of the lines. For `ScoreIsWorth` the
invariant says what the running state means in terms of the calls so far (`Running`): `lines` is the sum of the clears, `combo` the clears
since the last miss, `backToBack` whether the last clear was one of four. A call adds its own worth to the sum and
leaves that of every earlier one as it was. A sum over a set is a fold; `SumIsFold` shows it to be a sum that grows by one
element at a time (`SumAdd`), which the same induction gives.

*The match's server.* Every step of `RoomMatch` is one of `GameRoom` or writes nothing and changes nothing of the room (`ServerIsARoom`), so
`TetrisServer` and `RoomMatch` have the same abstract server.

## 7. Only model-checked

Liveness (`DeadAreForgotten`, `SilentDepart`, `StartsTogether`, `MatchEnds`, `TurnsEnd`, `LastBoardSeen`, `ScreensMoveOn`,
`EverythingArrives`) is out of the prover's reach. The properties of section 5 are refuted by a run and have no theorem.

## 8. Not modelled, and why

* Time: when an interval, a timeout or a ping is due is left open, so every order is allowed that any
  speed of the machine would give, and some that the constants in the code exclude.
* A torn `m_deqConnections` (accept and erase at once without a lock): the model lets the new connection be lost, which is one
  outcome, not every outcome. A callback of a connection that is being released is a push that may or may not happen.
* A fault of the loopback network: a socket breaks only when an end closes it (`RoomMatch`); in `TetrisServer` it may break any time. The end of the server's process is a step of `RoomMatch`.
* The `default` case of the server's `HandleMessage`: no client sends such a message.
* Pings in `RoomMatch`: a client that stays on the game over screen may be timed out, one on another screen answers.
* Colours, layout, T-spins (no caller passes one), the combos' sounds, points in the two games, and the opponent's ghost,
  which is only drawn. The bags of both sides are taken to be the same in `MultiPlay`; `seeds` shows when they are not.
* The lifetime of a connection's memory.
* `SoundManager` beyond the music and the missing effect, `Timer` (its only effect is that an interval has passed or not, which is left open),
  rendering, console and logger, which only put out.
* The vendored libraries: nearly all lines of the repository are asio (three copies) and json (two copies, included by no source
  file of the programs), and FMOD's headers. asio appears as the external half of `Connection`; modelling it or
  json would say nothing about this program. The two programs and NetCommon have about 6500 lines of their own, of
  which the modules map roughly half; the rest is drawing, logging, the console and declarations.

## 9. What could follow

* `RoomMatch` with a third session in a passing run, for joins into a full room: beyond a complete run in reasonable time, so its
  safety rests on the proofs, which are for any number of sessions.
* A composition of `GameLoop` and `RoomMatch`: both have the screens of one client, `GameLoop` with every other screen and
  `RoomMatch` with the other player; their common part is kept in step by hand.
* A composition of `SinglePlay` and `Score`: `FourLinesAtMost` proves that a game asks `Score` for no more than `Score` allows,
  but the calls themselves are joined by hand.
