------------------------------ MODULE GameLoop ------------------------------
(***************************************************************************)
(* The client's main loop: Game::Run, the keyboard it feeds from the console, *)
(* and the state machine of screens with pushes that happen at once and pops  *)
(* that wait for the next StateMachine::Update.                              *)
(*                                                                          *)
(* A frame is ProcessEvents, one console event a step, ProcessInputs of the    *)
(* screen on top, and Update.  Between any two steps the console may queue     *)
(* another event and the ASIO thread may lose the connection.                *)
(*                                                                          *)
(* A screen is its name: the title is made once, and no screen is ever on the  *)
(* stack twice (StacksAreKnown).  A game is only over or not over yet; what    *)
(* happens in it is in SinglePlay, MultiPlay and RoomMatch.                  *)
(***************************************************************************)
EXTENDS Naturals, Sequences, FiniteSets, Keyboard

CONSTANTS
    MaxEvents,  \* bound: how many console events are pending
    BufSize,    \* INPUT_RECORD_BUF_SIZE
    MaxFingers  \* bound: how many keys are pressed at a time

ASSUME BufferAssumption == MaxEvents \in Nat /\ BufSize \in Nat \ {0}
ASSUME MaxFingersAssumption == MaxFingers \in Nat

VARIABLES
    \* Game
    running,    \* m_bIsRunning
    phase,      \* where Run is in its frame
    peeked,     \* what is left to process of m_InRecBuf
    console,    \* the console's events that were not peeked
    \* Keyboard, and the keys themselves
    keys,       \* m_Keys
    fingers,    \* the keys that are really pressed
    missed,     \* the keys whose last event was flushed unseen
    arrived,    \* the keys a press of which was processed in this frame
    \* StateMachine
    stack,      \* m_States
    popDepth,   \* m_PopRequestedDepth
    asked,      \* the stack when the pop was asked for
    \* the screens
    cursor,     \* the index of the two menus
    over,       \* the game is over for one side or both
    waiting,    \* m_bWaitingGameOverTransition
    owner,      \* the screen that holds the TetrisClient
    linked,     \* the client says IsConnected
    responded,  \* m_bServerResponded
    bgm         \* the music that is playing

eventVars  == <<peeked, console, fingers, missed, arrived>>
stackVars  == <<stack, popDepth, asked>>
gameVars   == <<over, waiting, bgm>>
clientVars == <<owner, linked, responded>>
vars == <<running, phase, keys, eventVars, stackVars, cursor, gameVars, clientVars>>

Menus   == {"Title", "GameOver"}
Screens == Menus \cup {"SinglePlay", "RoomJoin", "MultiPlay"}
Event   == [key : Key, down : BOOLEAN]

TypeOK ==
    /\ running \in BOOLEAN
    /\ phase \in {"peek", "process", "inputs", "update"}
    /\ peeked \in Seq(Event) /\ console \in Seq(Event)
    /\ keys \in [Key -> Button]
    /\ fingers \subseteq Key /\ missed \subseteq Key /\ arrived \subseteq Key
    /\ stack \in Seq(Screens) /\ asked \in Seq(Screens)
    /\ popDepth \in 0 .. 1
    /\ cursor \in [Menus -> 0 .. 2] /\ cursor["GameOver"] <= 1
    /\ over \in BOOLEAN /\ waiting \in BOOLEAN
    /\ bgm \in {"none", "title_bgm", "play_bgm"}
    /\ owner \in {"none", "RoomJoin", "MultiPlay"}
    /\ linked \in BOOLEAN /\ responded \in BOOLEAN

(* Game::Init pushes the title.                                               *)
Init ==
    /\ running = TRUE /\ phase = "peek"
    /\ peeked = <<>> /\ console = <<>>
    /\ keys = [k \in Key |-> Untouched]
    /\ fingers = {} /\ missed = {} /\ arrived = {}
    /\ stack = <<"Title">> /\ popDepth = 0 /\ asked = <<>>
    /\ cursor = [m \in Menus |-> 0]
    /\ over = FALSE /\ waiting = FALSE /\ bgm = "title_bgm"
    /\ owner = "none" /\ linked = FALSE /\ responded = FALSE

Top(s) == s[Len(s)]

-----------------------------------------------------------------------------
(* The console: presses, repetitions while a key is held, and releases.       *)

KeyEvent(k, down) ==
    /\ running
    /\ Len(peeked) + Len(console) < MaxEvents
    /\ console' = Append(console, [key |-> k, down |-> down])
    /\ fingers' = IF down THEN fingers \cup {k} ELSE fingers \ {k}
    /\ UNCHANGED <<running, phase, keys, peeked, missed, arrived, stackVars, cursor,
                   gameVars, clientVars>>

Press(k)   == Cardinality(fingers \cup {k}) <= MaxFingers /\ KeyEvent(k, TRUE)
Release(k) == k \in fingers /\ KeyEvent(k, FALSE)

-----------------------------------------------------------------------------
(* ProcessEvents.                                                            *)

(* PeekConsoleInput copies as many events as fit.  Those of the mouse and of the  *)
(* window are read and flushed with the others and take up room, so that fewer *)
(* keys may fit and a flush may follow when no key is there.                  *)
Peek ==
    /\ running
    /\ phase = "peek"
    /\ \E n \in 0 .. BufSize :
           /\ n <= Len(console)
           /\ peeked' = SubSeq(console, 1, n)
           /\ console' = SubSeq(console, n + 1, Len(console))
    /\ arrived' = {}
    /\ phase' \in IF console = <<>> THEN {"inputs", "process"} ELSE {"process"}
    /\ UNCHANGED <<running, keys, fingers, missed, stackVars, cursor, gameVars, clientVars>>

ProcessEvent ==
    /\ phase = "process"
    /\ peeked # <<>>
    /\ LET e == Head(peeked)
       IN  /\ keys' = OnKey(keys, e.key, e.down)
           /\ missed' = missed \ {e.key}
           /\ arrived' = IF e.down THEN arrived \cup {e.key} ELSE arrived
    /\ peeked' = Tail(peeked)
    /\ UNCHANGED <<running, phase, console, fingers, stackVars, cursor, gameVars, clientVars>>

(* FlushConsoleInputBuffer drops what was peeked and whatever came after it.   *)
Flush ==
    /\ phase = "process"
    /\ peeked = <<>>
    /\ console' = <<>>
    /\ missed' = missed \cup {console[i].key : i \in DOMAIN console}
    /\ phase' = "inputs"
    /\ UNCHANGED <<running, keys, peeked, fingers, arrived, stackVars, cursor, gameVars,
                   clientVars>>

-----------------------------------------------------------------------------
(* ProcessInputs of the screen on top.  A push takes place at once.            *)

(* A key that is left out of Key is never pressed.                             *)
JustPressed(k) == k \in Key /\ keys[k].justPressed

Push(s, screen) == stack' = Append(s, screen)

(* Selector::ProcessInputs: W before S, both before A, D and SPACE; no wrapping   *)
(* around.                                                                   *)
MoveCursor(menu, last) ==
    /\ JustPressed("W") \/ JustPressed("S")
    /\ cursor' = [cursor EXCEPT ![menu] =
                     IF JustPressed("W") THEN (IF @ > 0 THEN @ - 1 ELSE 0)
                                         ELSE (IF @ < last THEN @ + 1 ELSE last)]
    /\ UNCHANGED <<stackVars, gameVars, clientVars>>

(* With one column A and D move nowhere, but they hide a SPACE of their frame.  *)
Sideways == JustPressed("A") \/ JustPressed("D")

Selects(menu, index) ==
    /\ Top(stack) = menu
    /\ ~JustPressed("W") /\ ~JustPressed("S") /\ ~Sideways /\ JustPressed("SPACE")
    /\ cursor[menu] = index
    /\ UNCHANGED cursor

TitleMove == Top(stack) = "Title" /\ MoveCursor("Title", 2)

NewGame ==
    /\ over' = FALSE
    /\ waiting' = FALSE
    /\ bgm' = "play_bgm"

TitleSinglePlay ==
    /\ Selects("Title", 0)
    /\ Push(stack, "SinglePlay")
    /\ NewGame
    /\ UNCHANGED <<popDepth, asked, clientVars>>

(* RoomJoinState's constructor makes a TetrisClient, which connects.           *)
TitleMultiPlay ==
    /\ Selects("Title", 1)
    /\ Push(stack, "RoomJoin")
    /\ owner' = "RoomJoin" /\ linked' = TRUE
    /\ responded' = FALSE
    /\ UNCHANGED <<popDepth, asked, gameVars>>

GameOverMove == Top(stack) = "GameOver" /\ MoveCursor("GameOver", 1)

(* Every pop is asked for like this: nobody calls RequestPop.                  *)
RequestPopDepth(s) == popDepth' = 1 /\ asked' = s

(* Mutant: a new title is pushed.                                             *)
GameOverTitlePushes ==
    /\ Selects("GameOver", 0)
    /\ Push(stack, "Title")
    /\ UNCHANGED <<popDepth, asked, gameVars, clientVars>>

GameOverTitle ==
    /\ Selects("GameOver", 0)
    /\ RequestPopDepth(stack)
    /\ UNCHANGED <<stack, gameVars, clientVars>>

(* "Exit" is item 2 of the title, where nothing is done, and item 1 after a     *)
(* game, where only item 2 is looked for.                                    *)
MenuExit ==
    /\ Selects("Title", 2) \/ Selects("GameOver", 1)
    /\ UNCHANGED <<stackVars, gameVars, clientVars>>

(* Mutant: the music plays on.                                                *)
GameEndsNoisily ==
    /\ over' = TRUE
    /\ waiting' = TRUE
    /\ UNCHANGED bgm

(* OnGameOver of a single game.                                               *)
SingleGameEnds ==
    /\ over' = TRUE
    /\ waiting' = TRUE
    /\ bgm' = "none"

(* A hard drop or a first hold finds no room for the next mino; of a match the   *)
(* end is only noted.                                                        *)
KeyEndsGame ==
    /\ JustPressed("SPACE") \/ JustPressed("C")
    /\ ~over
    /\ \/ Top(stack) = "SinglePlay" /\ SingleGameEnds
       \/ Top(stack) = "MultiPlay" /\ over' = TRUE /\ UNCHANGED <<waiting, bgm>>
    /\ UNCHANGED <<stackVars, cursor, clientVars>>

(* No key, a key that decides nothing here, a screen that reads none.          *)
NoKey ==
    /\ Top(stack) \in Menus =>
           ~JustPressed("W") /\ ~JustPressed("S") /\ (Sideways \/ ~JustPressed("SPACE"))
    /\ UNCHANGED <<stackVars, cursor, gameVars, clientVars>>

(* Escape ends the loop after this frame.                                     *)
ProcessInputs ==
    /\ phase = "inputs"
    /\ phase' = "update"
    /\ running' = ~JustPressed("ESC")
    /\ UNCHANGED <<keys, eventVars>>
    /\ \/ TitleMove
       \/ TitleSinglePlay
       \/ TitleMultiPlay
       \/ GameOverMove
       \/ GameOverTitle
       \/ MenuExit
       \/ KeyEndsGame
       \/ NoKey

-----------------------------------------------------------------------------
(* Update: the pops that were asked for, then the screen that is on top now,    *)
(* then the keyboard.                                                        *)

(* Mutant: one screen too few is popped.                                      *)
RemainingAbove ==
    IF popDepth > 0 /\ Len(stack) > popDepth THEN SubSeq(stack, 1, popDepth + 1) ELSE stack

(* StateMachine::Update.                                                     *)
Remaining ==
    IF popDepth > 0 /\ Len(stack) > popDepth THEN SubSeq(stack, 1, popDepth) ELSE stack

(* A screen that is popped unregisters its client, if connected, and destroys it. *)
Owner == IF \E i \in DOMAIN Remaining : Remaining[i] = owner THEN owner ELSE "none"

Link == linked /\ Owner # "none"

Popped ==
    /\ owner' = Owner
    /\ linked' = Link

Stay == stack' = Remaining /\ popDepth' = 0 /\ asked' = <<>>

MenuUpdate ==
    /\ Top(Remaining) \in Menus
    /\ Stay
    /\ Popped
    /\ UNCHANGED <<cursor, gameVars, responded>>

PushGameOver ==
    /\ waiting' = FALSE
    /\ Push(Remaining, "GameOver")
    /\ cursor' = [cursor EXCEPT !["GameOver"] = 0]
    /\ popDepth' = 0 /\ asked' = <<>>
    /\ UNCHANGED <<over, bgm>>

(* Three seconds after the game is over.                                      *)
SingleShowsGameOver ==
    /\ Top(Remaining) = "SinglePlay"
    /\ waiting
    /\ PushGameOver
    /\ Popped
    /\ UNCHANGED responded

SinglePlayUpdate ==
    /\ Top(Remaining) = "SinglePlay"
    /\ Stay
    /\ \/ ~over /\ SingleGameEnds
       \/ UNCHANGED gameVars
    /\ Popped
    /\ UNCHANGED <<cursor, responded>>

(* HandlePackets reads nothing without a connection.  The server's first message  *)
(* is Client_Accepted.                                                       *)
JoinUpdate ==
    /\ Top(Remaining) = "RoomJoin"
    /\ Stay
    /\ Popped
    /\ responded' \in {responded, responded \/ linked}
    /\ UNCHANGED <<cursor, gameVars>>

(* Five seconds without an answer.                                            *)
JoinTimesOut ==
    /\ Top(Remaining) = "RoomJoin"
    /\ ~responded
    /\ stack' = Remaining
    /\ RequestPopDepth(Remaining)
    /\ Popped
    /\ UNCHANGED <<cursor, gameVars, responded>>

(* Server_AllPlayersReady is read: at the end of the same Update the client is    *)
(* moved to the new screen (PerformTransitionToMultiPlay).                   *)
JoinStartsMatch ==
    /\ Top(Remaining) = "RoomJoin"
    /\ linked
    /\ responded' = TRUE
    /\ Push(Remaining, "MultiPlay")
    /\ popDepth' = 0 /\ asked' = <<>>
    /\ owner' = "MultiPlay"
    /\ linked' = Link
    /\ NewGame
    /\ UNCHANGED cursor

(* Mutant: only the match is popped, not the join below it.                    *)
MatchDisconnectedToJoin ==
    /\ Top(Remaining) = "MultiPlay"
    /\ ~Link
    /\ stack' = Remaining
    /\ popDepth' = 2 /\ asked' = Remaining
    /\ Popped
    /\ UNCHANGED <<cursor, gameVars, responded>>

(* Mutant: Update goes on after it has asked for the pop.                      *)
MatchDisconnectedGoesOn ==
    /\ Top(Remaining) = "MultiPlay"
    /\ ~Link
    /\ RequestPopDepth(Remaining)
    /\ IF waiting
       THEN /\ Push(Remaining, "GameOver")
            /\ waiting' = FALSE
            /\ UNCHANGED <<over, bgm>>
       ELSE stack' = Remaining /\ UNCHANGED gameVars
    /\ Popped
    /\ UNCHANGED <<cursor, responded>>

(* Mutant: the lost connection is only logged.                                *)
MatchDisconnectedLogged ==
    /\ Top(Remaining) = "MultiPlay"
    /\ ~Link
    /\ Stay
    /\ Popped
    /\ UNCHANGED <<cursor, gameVars, responded>>

MatchDisconnected ==
    /\ Top(Remaining) = "MultiPlay"
    /\ ~Link
    /\ stack' = Remaining
    /\ RequestPopDepth(Remaining)
    /\ Popped
    /\ UNCHANGED <<cursor, gameVars, responded>>

(* The packets, gravity, and CheckGameOverTransition, which starts its timer    *)
(* in the frame that finds the game over.                                    *)
MatchUpdate ==
    /\ Top(Remaining) = "MultiPlay"
    /\ Link
    /\ Stay
    /\ over' \in {over, TRUE}
    /\ waiting' = over'
    /\ bgm' = IF over' /\ ~waiting THEN "none" ELSE bgm
    /\ Popped
    /\ UNCHANGED <<cursor, responded>>

(* Three seconds later.                                                      *)
MatchShowsGameOver ==
    /\ Top(Remaining) = "MultiPlay"
    /\ Link
    /\ waiting
    /\ PushGameOver
    /\ Popped
    /\ UNCHANGED responded

Update ==
    /\ phase = "update"
    /\ phase' = "peek"
    /\ keys' = EdgesCleared(keys)
    /\ UNCHANGED <<running, eventVars>>
    /\ \/ MenuUpdate
       \/ SingleShowsGameOver
       \/ SinglePlayUpdate
       \/ JoinUpdate
       \/ JoinTimesOut
       \/ JoinStartsMatch
       \/ MatchDisconnected
       \/ MatchUpdate
       \/ MatchShowsGameOver

(* The ASIO thread: the server has closed the connection.                     *)
LinkLost ==
    /\ running
    /\ linked
    /\ linked' = FALSE
    /\ UNCHANGED <<running, phase, keys, eventVars, stackVars, cursor, gameVars,
                   owner, responded>>

Frame == Peek \/ ProcessEvent \/ Flush \/ ProcessInputs \/ Update

Next ==
    \/ Frame
    \/ \E k \in Key : Press(k) \/ Release(k)
    \/ LinkLost

Spec == Init /\ [][Next]_vars

(* The loop goes round, and the clock with it: a frame comes in which three     *)
(* seconds, or the five of the join, have passed.                            *)
LiveSpec ==
    /\ Spec
    /\ WF_vars(Frame)
    /\ SF_vars(Update /\ (SingleShowsGameOver \/ MatchShowsGameOver))
    /\ SF_vars(Update /\ JoinTimesOut)

-----------------------------------------------------------------------------
(* Safety.                                                                   *)

(* Game.cpp:151-180: the stack is never empty, since GetCurrentState would be   *)
(* undefined after the pops of Update, and whatever the user, the clock and    *)
(* the server do it has one of six shapes.                                   *)
StacksAreKnown ==
    stack \in {<<"Title">>,
               <<"Title", "SinglePlay">>,
               <<"Title", "SinglePlay", "GameOver">>,
               <<"Title", "RoomJoin">>,
               <<"Title", "RoomJoin", "MultiPlay">>,
               <<"Title", "RoomJoin", "MultiPlay", "GameOver">>}

(* RoomJoinState gives its client away and dereferences it without a check      *)
(* (RoomJoinState.cpp:117): it is never on top again, and a match is never on   *)
(* top without the client.                                                   *)
ClientIsOnTop ==
    Top(stack) \in {"RoomJoin", "MultiPlay"} => owner = Top(stack)

(* A pop is asked for in one frame and may take place in the next: nothing is   *)
(* pushed in between, so it removes no screen that came after the request.   *)
PopsSpareTheNew == popDepth > 0 => stack = asked

(* The press that selects a menu item, or ends the game, acts once: the screen *)
(* that it opens does not see it, since an edge is as old as the frame.       *)
PressActsOnce ==
    phase \in {"inputs", "update"} => {k \in Key : JustPressed(k)} \subseteq arrived

(* A key is down for the game exactly if it is down, but for keys with events   *)
(* on the way and keys whose last event was flushed: only the flush can leave  *)
(* a key held (Game.cpp:143), and the next event of the key repairs it.      *)
Pending == peeked \o console

HeldAsPressed ==
    \A k \in Key :
        (k \notin missed /\ \A i \in DOMAIN Pending : Pending[i].key # k)
            => (keys[k].down <=> k \in fingers)

(* A game that goes on has its music, and a game over screen is silent, however *)
(* the game ended.                                                           *)
MusicFollowsGame ==
    /\ Top(stack) \in {"SinglePlay", "MultiPlay"} /\ ~over => bgm = "play_bgm"
    /\ Top(stack) = "GameOver" => bgm = "none"

-----------------------------------------------------------------------------
(* Liveness: no screen is left hanging but the join that was answered and then  *)
(* dropped (RoomJoinState.cpp:117), for which no timeout runs.               *)

(* README.md:20: a game that is over gets to its game over screen or, if the    *)
(* match loses its server before, to the title; a match without server ends at *)
(* the title; a join without answer does not last.                           *)
ScreensMoveOn ==
    /\ (over /\ Top(stack) \in {"SinglePlay", "MultiPlay"})
           ~> (Top(stack) \in Menus \/ ~running)
    /\ (Top(stack) = "MultiPlay" /\ ~linked) ~> (stack = <<"Title">> \/ ~running)
    /\ (Top(stack) = "RoomJoin" /\ ~responded)
           ~> (Top(stack) # "RoomJoin" \/ responded \/ ~running)
=============================================================================
