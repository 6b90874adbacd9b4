-------------------------- MODULE GameLoop_proofs --------------------------
(***************************************************************************)
(* Proofs about module GameLoop, for any set of keys, any number of pending   *)
(* console events and a buffer of any size.                                  *)
(*                                                                          *)
(* Two invariants that need nothing of each other.  StackInv: which screen     *)
(* holds the client follows from the shape of the stack, a pop is pending only *)
(* on the stack it was asked for, and the music is off as soon as the three    *)
(* seconds before the game over screen run.  KeyInv: the last event on its way *)
(* for a key, or the key itself when there is none, says what the finger does. *)
(***************************************************************************)
EXTENDS GameLoop, SequenceTheorems, TLAPS

-----------------------------------------------------------------------------
(* The stacks.                                                               *)

T   == <<"Title">>
TS  == <<"Title", "SinglePlay">>
TSG == <<"Title", "SinglePlay", "GameOver">>
TJ  == <<"Title", "RoomJoin">>
TJM == <<"Title", "RoomJoin", "MultiPlay">>
TJMG == <<"Title", "RoomJoin", "MultiPlay", "GameOver">>

Stacks == {T, TS, TSG, TJ, TJM, TJMG}

(* Who holds the client.                                                     *)
OwnerOf(s) ==
    IF s = TJ THEN "RoomJoin" ELSE IF s \in {TJM, TJMG} THEN "MultiPlay" ELSE "none"

StackType ==
    /\ stack \in Stacks
    /\ popDepth \in {0, 1}
    /\ asked \in Stacks \cup {<<>>}
    /\ phase \in {"peek", "process", "inputs", "update"}
    /\ running \in BOOLEAN
    /\ cursor \in [Menus -> 0 .. 2] /\ cursor["GameOver"] <= 1
    /\ over \in BOOLEAN /\ waiting \in BOOLEAN
    /\ bgm \in {"none", "title_bgm", "play_bgm"}
    /\ linked \in BOOLEAN /\ responded \in BOOLEAN

(* The pop of a game over screen takes place in its frame, the others in the    *)
(* next, before which their screens push nothing.                            *)
PopIsFresh ==
    popDepth = 1 =>
        /\ stack = asked
        /\ phase # "update" => stack \in {TJ, TJM}

Silence ==
    /\ waiting => over /\ bgm = "none"
    /\ stack \in {TSG, TJMG} => bgm = "none"
    /\ stack \in {TS, TJM} /\ ~over => bgm = "play_bgm"

StackInv ==
    /\ StackType
    /\ owner = OwnerOf(stack)
    /\ PopIsFresh
    /\ Silence

(* The six shapes, element by element.                                         *)
LEMMA Elements ==
    /\ T \in Seq(Screens) /\ Len(T) = 1
    /\ T[1] = "Title"
    /\ TS \in Seq(Screens) /\ Len(TS) = 2
    /\ TS[1] = "Title" /\ TS[2] = "SinglePlay"
    /\ TSG \in Seq(Screens) /\ Len(TSG) = 3
    /\ TSG[1] = "Title" /\ TSG[2] = "SinglePlay" /\ TSG[3] = "GameOver"
    /\ TJ \in Seq(Screens) /\ Len(TJ) = 2
    /\ TJ[1] = "Title" /\ TJ[2] = "RoomJoin"
    /\ TJM \in Seq(Screens) /\ Len(TJM) = 3
    /\ TJM[1] = "Title" /\ TJM[2] = "RoomJoin" /\ TJM[3] = "MultiPlay"
    /\ TJMG \in Seq(Screens) /\ Len(TJMG) = 4
    /\ TJMG[1] = "Title" /\ TJMG[2] = "RoomJoin" /\ TJMG[3] = "MultiPlay" /\ TJMG[4] = "GameOver"
<1>1. /\ T \in Seq(Screens) /\ Len(T) = 1
      /\ T[1] = "Title"
  BY DEF T, Screens, Menus
<1>2. /\ TS \in Seq(Screens) /\ Len(TS) = 2
      /\ TS[1] = "Title" /\ TS[2] = "SinglePlay"
  BY DEF TS, Screens, Menus
<1>3. /\ TSG \in Seq(Screens) /\ Len(TSG) = 3
      /\ TSG[1] = "Title" /\ TSG[2] = "SinglePlay" /\ TSG[3] = "GameOver"
  BY DEF TSG, Screens, Menus
<1>4. /\ TJ \in Seq(Screens) /\ Len(TJ) = 2
      /\ TJ[1] = "Title" /\ TJ[2] = "RoomJoin"
  BY DEF TJ, Screens, Menus
<1>5. /\ TJM \in Seq(Screens) /\ Len(TJM) = 3
      /\ TJM[1] = "Title" /\ TJM[2] = "RoomJoin" /\ TJM[3] = "MultiPlay"
  BY DEF TJM, Screens, Menus
<1>6. /\ TJMG \in Seq(Screens) /\ Len(TJMG) = 4
      /\ TJMG[1] = "Title" /\ TJMG[2] = "RoomJoin" /\ TJMG[3] = "MultiPlay" /\ TJMG[4] = "GameOver"
  BY DEF TJMG, Screens, Menus
<1> QED
  BY <1>1, <1>2, <1>3, <1>4, <1>5, <1>6

(* What the operators on sequences make of them.                               *)
LEMMA Shapes ==
    /\ Top(T) = "Title" /\ Top(TS) = "SinglePlay" /\ Top(TSG) = "GameOver"
    /\ Top(TJ) = "RoomJoin" /\ Top(TJM) = "MultiPlay" /\ Top(TJMG) = "GameOver"
    /\ Append(T, "SinglePlay") = TS /\ Append(TS, "GameOver") = TSG
    /\ Append(T, "RoomJoin") = TJ /\ Append(TJ, "MultiPlay") = TJM
    /\ Append(TJM, "GameOver") = TJMG
<1>1. ASSUME NEW s \in Seq(Screens), NEW t \in Seq(Screens), NEW e \in Screens,
             Len(t) = Len(s) + 1, t[Len(t)] = e, \A i \in 1 .. Len(s) : s[i] = t[i]
      PROVE  Append(s, e) = t
  <2>1. Append(s, e) \in Seq(Screens) /\ Len(Append(s, e)) = Len(t)
        /\ \A i \in 1 .. Len(t) : Append(s, e)[i] = t[i]
    BY <1>1
  <2> QED
    BY <2>1, <1>1, SeqEqual
<1>2. Append(T, "SinglePlay") = TS
  <2>1. \A i \in 1 .. Len(T) : T[i] = TS[i]
    BY Elements
  <2>2. /\ T \in Seq(Screens) /\ TS \in Seq(Screens) /\ "SinglePlay" \in Screens
        /\ Len(TS) = Len(T) + 1 /\ TS[Len(TS)] = "SinglePlay"
    BY Elements DEF Screens, Menus
  <2> QED
    BY ONLY <1>1, <2>1, <2>2
<1>3. Append(TS, "GameOver") = TSG
  <2>1. \A i \in 1 .. Len(TS) : TS[i] = TSG[i]
    BY Elements
  <2>2. /\ TS \in Seq(Screens) /\ TSG \in Seq(Screens) /\ "GameOver" \in Screens
        /\ Len(TSG) = Len(TS) + 1 /\ TSG[Len(TSG)] = "GameOver"
    BY Elements DEF Screens, Menus
  <2> QED
    BY ONLY <1>1, <2>1, <2>2
<1>4. Append(T, "RoomJoin") = TJ
  <2>1. \A i \in 1 .. Len(T) : T[i] = TJ[i]
    BY Elements
  <2>2. /\ T \in Seq(Screens) /\ TJ \in Seq(Screens) /\ "RoomJoin" \in Screens
        /\ Len(TJ) = Len(T) + 1 /\ TJ[Len(TJ)] = "RoomJoin"
    BY Elements DEF Screens, Menus
  <2> QED
    BY ONLY <1>1, <2>1, <2>2
<1>5. Append(TJ, "MultiPlay") = TJM
  <2>1. \A i \in 1 .. Len(TJ) : TJ[i] = TJM[i]
    BY Elements
  <2>2. /\ TJ \in Seq(Screens) /\ TJM \in Seq(Screens) /\ "MultiPlay" \in Screens
        /\ Len(TJM) = Len(TJ) + 1 /\ TJM[Len(TJM)] = "MultiPlay"
    BY Elements DEF Screens, Menus
  <2> QED
    BY ONLY <1>1, <2>1, <2>2
<1>6. Append(TJM, "GameOver") = TJMG
  <2>1. \A i \in 1 .. Len(TJM) : TJM[i] = TJMG[i]
    BY Elements
  <2>2. /\ TJM \in Seq(Screens) /\ TJMG \in Seq(Screens) /\ "GameOver" \in Screens
        /\ Len(TJMG) = Len(TJM) + 1 /\ TJMG[Len(TJMG)] = "GameOver"
    BY Elements DEF Screens, Menus
  <2> QED
    BY ONLY <1>1, <2>1, <2>2
<1> QED
  BY <1>2, <1>3, <1>4, <1>5, <1>6, Elements DEF Top

LEMMA ShapesDiffer ==
    /\ T \notin {TS, TSG, TJ, TJM, TJMG}
    /\ TS \notin {TSG, TJ, TJM, TJMG}
    /\ TSG \notin {TJ, TJM, TJMG}
    /\ TJ \notin {TJM, TJMG}
    /\ TJM # TJMG
<1>1. /\ Len(T) = 1 /\ Len(TS) = 2 /\ Len(TJ) = 2 /\ Len(TSG) = 3
      /\ Len(TJM) = 3 /\ Len(TJMG) = 4
  BY DEF T, TS, TSG, TJ, TJM, TJMG
<1>2. TS # TJ /\ TSG # TJM
  BY Shapes
<1> QED
  BY <1>1, <1>2

(* After the pops only the title is left.                                     *)
LEMMA Pops ==
    ASSUME StackInv
    PROVE  /\ popDepth = 1 => Remaining = T
           /\ popDepth = 0 => Remaining = stack
           /\ Owner = OwnerOf(Remaining)
           /\ Remaining \in Stacks
<1>1. popDepth = 0 => Remaining = stack
  BY DEF Remaining
<1>2. ASSUME NEW s \in Stacks
      PROVE  /\ Len(s) >= 1 /\ SubSeq(s, 1, 1) = T
             /\ ~(Len(s) > 1) => s = T
  <2>1. s \in Seq(Screens) /\ Len(s) >= 1 /\ s[1] = "Title" /\ (Len(s) = 1 => s = T)
    <3>1. s[1] = "Title" /\ s \in Seq(Screens) /\ Len(s) \in 1 .. 4
      BY Elements DEF Stacks
    <3>2. Len(s) = 1 => s = T
      BY Elements DEF Stacks
    <3> QED
      BY <3>1, <3>2
  <2>2. SubSeq(s, 1, 1) \in Seq(Screens) /\ Len(SubSeq(s, 1, 1)) = 1
        /\ SubSeq(s, 1, 1)[1] = "Title"
    BY <2>1
  <2>3. T \in Seq(Screens) /\ Len(T) = 1 /\ T[1] = "Title"
    BY DEF T, Screens, Menus
  <2>4. SubSeq(s, 1, 1) = T
    BY <2>2, <2>3, SeqEqual
  <2> QED
    BY <2>1, <2>4
<1>3. popDepth = 1 => Remaining = T
  <2>1. CASE popDepth = 1 /\ Len(stack) > 1
    BY <1>2, <2>1 DEF Remaining, StackInv, StackType
  <2>2. CASE popDepth = 1 /\ ~(Len(stack) > 1)
    BY <1>2, <2>2 DEF Remaining, StackInv, StackType
  <2> QED
    BY <2>1, <2>2
<1>4. Remaining \in Stacks
  BY <1>1, <1>3 DEF StackInv, StackType, Stacks
<1>5. Owner = OwnerOf(Remaining)
  <2>1. /\ ~\E i \in DOMAIN T : T[i] \in {"RoomJoin", "MultiPlay", "none"}
        /\ \E i \in DOMAIN TJ : TJ[i] = "RoomJoin"
        /\ \E i \in DOMAIN TJM : TJM[i] = "MultiPlay"
        /\ \E i \in DOMAIN TJMG : TJMG[i] = "MultiPlay"
        /\ ~\E i \in DOMAIN TS : TS[i] = "none"
        /\ ~\E i \in DOMAIN TSG : TSG[i] = "none"
    <3>1. ~\E i \in DOMAIN T : T[i] \in {"RoomJoin", "MultiPlay", "none"}
      BY DEF T
    <3>2. \E i \in DOMAIN TJ : TJ[i] = "RoomJoin"
      <4>1. 2 \in DOMAIN TJ /\ TJ[2] = "RoomJoin"
        BY DEF TJ
      <4> QED
        BY <4>1
    <3>3. \E i \in DOMAIN TJM : TJM[i] = "MultiPlay"
      <4>1. 3 \in DOMAIN TJM /\ TJM[3] = "MultiPlay"
        BY DEF TJM
      <4> QED
        BY <4>1
    <3>4. \E i \in DOMAIN TJMG : TJMG[i] = "MultiPlay"
      <4>1. 3 \in DOMAIN TJMG /\ TJMG[3] = "MultiPlay"
        BY DEF TJMG
      <4> QED
        BY <4>1
    <3>5. ~\E i \in DOMAIN TS : TS[i] = "none"
      BY DEF TS
    <3>6. ~\E i \in DOMAIN TSG : TSG[i] = "none"
      BY DEF TSG
    <3> QED
      BY <3>1, <3>2, <3>3, <3>4, <3>5, <3>6
  <2>2. CASE popDepth = 1
    BY <1>3, <2>1, <2>2, ShapesDiffer DEF Owner, OwnerOf, StackInv
  <2>3. CASE popDepth = 0
    BY <1>1, <2>1, <2>3, ShapesDiffer DEF Owner, OwnerOf, StackInv, StackType, Stacks
  <2> QED
    BY <2>2, <2>3 DEF StackInv, StackType
<1> QED
  BY <1>1, <1>3, <1>4, <1>5

LEMMA TopIs ==
    ASSUME NEW s \in Stacks
    PROVE  /\ Top(s) = "Title" => s = T
           /\ Top(s) = "SinglePlay" => s = TS
           /\ Top(s) = "RoomJoin" => s = TJ
           /\ Top(s) = "MultiPlay" => s = TJM
           /\ Top(s) = "GameOver" => s \in {TSG, TJMG}
  BY Shapes DEF Stacks

LEMMA StackInit == Init => StackInv
<1> SUFFICES ASSUME Init PROVE StackInv
  OBVIOUS
<1>1. stack = T /\ T \in Stacks /\ asked = <<>> /\ popDepth = 0
  BY DEF Init, T, Stacks
<1>2. cursor \in [Menus -> 0 .. 2] /\ cursor["GameOver"] <= 1
  BY DEF Init, Menus
<1>3. StackType
  BY <1>1, <1>2 DEF Init, StackType
<1> QED
  BY <1>1, <1>3, ShapesDiffer DEF Init, StackInv, OwnerOf, PopIsFresh, Silence

LEMMA CursorMoves ==
    ASSUME StackType, NEW m \in Menus, NEW n \in 0 .. 2, m = "GameOver" => n <= 1,
           MoveCursor(m, n)
    PROVE  cursor' \in [Menus -> 0 .. 2] /\ cursor'["GameOver"] <= 1
<1>1. cursor[m] \in 0 .. 2 /\ (m = "GameOver" => cursor[m] <= 1)
  BY DEF StackType
<1>2. PICK i \in 0 .. 2 : cursor' = [cursor EXCEPT ![m] = i] /\ (m = "GameOver" => i <= 1)
  <2> DEFINE i == IF JustPressed("W") THEN (IF cursor[m] > 0 THEN cursor[m] - 1 ELSE 0)
                                      ELSE (IF cursor[m] < n THEN cursor[m] + 1 ELSE n)
  <2>1. i \in 0 .. 2 /\ (m = "GameOver" => i <= 1)
    BY <1>1
  <2>2. cursor' = [cursor EXCEPT ![m] = i]
    BY DEF MoveCursor
  <2> QED
    BY <2>1, <2>2
<1> QED
  BY <1>2 DEF StackType, Menus

LEMMA StackInputs ==
    ASSUME StackInv, ProcessInputs
    PROVE  StackInv'
<1>1. /\ phase = "inputs" /\ phase' = "update" /\ running' \in BOOLEAN
      /\ stack \in Stacks /\ StackType
  BY DEF ProcessInputs, StackInv, StackType
<1>2. Top(stack) \in Menus => popDepth = 0
  BY <1>1, Shapes DEF StackInv, StackType, PopIsFresh, Menus
<1> USE DEF stackVars, gameVars, clientVars, StackInv, StackType, PopIsFresh, Silence
<1>3. CASE TitleMove
  <2>1. cursor' \in [Menus -> 0 .. 2] /\ cursor'["GameOver"] <= 1
    BY <1>1, <1>3, CursorMoves DEF TitleMove, Menus
  <2> QED
    BY <1>1, <1>3, <2>1 DEF TitleMove, MoveCursor
<1>4. CASE TitleSinglePlay
  <2>1. stack = T /\ popDepth = 0 /\ stack' = TS
    BY <1>1, <1>2, <1>4, TopIs, Shapes DEF TitleSinglePlay, Selects, Push, Menus
  <2> QED
    BY <1>1, <1>4, <2>1, ShapesDiffer
    DEF TitleSinglePlay, Selects, NewGame, OwnerOf, Stacks
<1>5. CASE TitleMultiPlay
  <2>1. stack = T /\ popDepth = 0 /\ stack' = TJ
    BY <1>1, <1>2, <1>5, TopIs, Shapes DEF TitleMultiPlay, Selects, Push, Menus
  <2> QED
    BY <1>1, <1>5, <2>1, ShapesDiffer DEF TitleMultiPlay, Selects, OwnerOf, Stacks
<1>6. CASE GameOverMove
  <2>1. cursor' \in [Menus -> 0 .. 2] /\ cursor'["GameOver"] <= 1
    BY <1>1, <1>6, CursorMoves DEF GameOverMove, Menus
  <2> QED
    BY <1>1, <1>6, <2>1 DEF GameOverMove, MoveCursor
<1>7. CASE GameOverTitle
  BY <1>1, <1>7 DEF GameOverTitle, Selects, RequestPopDepth
<1>8. CASE MenuExit
  BY <1>1, <1>8 DEF MenuExit, Selects
<1>9. CASE KeyEndsGame
  <2>1. stack \in {TS, TJM} /\ UNCHANGED <<stackVars, cursor, clientVars>>
    BY <1>1, <1>9, TopIs DEF KeyEndsGame
  <2>2. over' = TRUE /\ waiting' \in BOOLEAN
        /\ ((waiting' = waiting /\ bgm' = bgm) \/ bgm' = "none")
    BY <1>1, <1>9 DEF KeyEndsGame, SingleGameEnds
  <2>3. ~waiting
    BY <1>1, <1>9 DEF KeyEndsGame
  <2>4. waiting' => bgm' = "none"
    BY <2>2, <2>3
  <2> QED
    BY <1>1, <2>1, <2>2, <2>4, ShapesDiffer
<1>10. CASE NoKey
  BY <1>1, <1>10 DEF NoKey
<1> QED
  BY <1>3, <1>4, <1>5, <1>6, <1>7, <1>8, <1>9, <1>10 DEF ProcessInputs

LEMMA StackUpdate ==
    ASSUME StackInv, Update
    PROVE  StackInv'
<1>1. /\ phase' = "peek" /\ running' = running
      /\ Remaining \in Stacks /\ Owner = OwnerOf(Remaining)
      /\ Remaining \in {stack, T} /\ StackType
  BY Pops DEF Update, StackInv, StackType
<1>2. /\ T \in Stacks /\ TS \in Stacks /\ TSG \in Stacks
      /\ TJ \in Stacks /\ TJM \in Stacks /\ TJMG \in Stacks
  BY DEF Stacks
<1>3. Link \in BOOLEAN
  BY DEF Link, StackInv, StackType
<1> USE DEF gameVars, clientVars, stackVars, StackInv, StackType, PopIsFresh, Silence, Popped
<1>4. CASE MenuUpdate
  BY <1>1, <1>3, <1>4, ShapesDiffer DEF MenuUpdate, Stay
<1>5. ASSUME PushGameOver, Popped, Remaining \in {TS, TJM}, waiting, UNCHANGED responded
      PROVE  StackInv'
  <2>1. stack = Remaining /\ stack' \in {TSG, TJMG} /\ OwnerOf(stack') = OwnerOf(stack)
        /\ stack' \in Stacks
    BY <1>1, <1>2, <1>5, Shapes, ShapesDiffer DEF PushGameOver, Push, OwnerOf
  <2>2. cursor' \in [Menus -> 0 .. 2] /\ cursor'["GameOver"] <= 1
    BY <1>5 DEF PushGameOver, Menus
  <2>3. /\ over' = over /\ bgm' = bgm /\ waiting' = FALSE /\ responded' = responded
        /\ popDepth' = 0 /\ asked' = <<>> /\ linked' = Link /\ owner' = Owner
    BY <1>5 DEF PushGameOver
  <2>4. bgm = "none"
    BY <1>5
  <2>5. StackType'
    BY <1>1, <1>3, <2>1, <2>2, <2>3
  <2>6. owner' = OwnerOf(stack')
    BY <1>1, <2>1, <2>3
  <2> QED
    BY <2>1, <2>3, <2>4, <2>5, <2>6, ShapesDiffer
<1>6. CASE SingleShowsGameOver
  BY <1>1, <1>5, <1>6, TopIs DEF SingleShowsGameOver
<1>7. CASE SinglePlayUpdate
  <2>1. Remaining = TS /\ stack = TS /\ stack' = TS /\ popDepth' = 0 /\ asked' = <<>>
    BY <1>1, <1>7, TopIs, ShapesDiffer DEF SinglePlayUpdate, Stay
  <2>2. UNCHANGED <<cursor, responded>> /\ owner' = Owner /\ linked' = Link
    BY <1>7 DEF SinglePlayUpdate
  <2>3. CASE ~over /\ SingleGameEnds
    BY <1>1, <1>2, <1>3, <2>1, <2>2, <2>3, ShapesDiffer DEF SingleGameEnds
  <2>4. CASE UNCHANGED gameVars
    BY <1>1, <1>2, <1>3, <2>1, <2>2, <2>4, ShapesDiffer
  <2> QED
    BY <1>7, <2>3, <2>4 DEF SinglePlayUpdate
<1>8. CASE JoinUpdate
  BY <1>1, <1>3, <1>8, ShapesDiffer DEF JoinUpdate, Stay
<1>9. CASE JoinTimesOut
  <2>1. Remaining = TJ /\ stack = TJ /\ stack' = TJ
    BY <1>1, <1>9, TopIs, ShapesDiffer DEF JoinTimesOut
  <2> QED
    BY <1>1, <1>2, <1>3, <1>9, <2>1, ShapesDiffer DEF JoinTimesOut, RequestPopDepth
<1>10. CASE JoinStartsMatch
  <2>1. stack' = TJM
    BY <1>1, <1>10, TopIs, Shapes DEF JoinStartsMatch, Push
  <2>2. /\ over' = FALSE /\ waiting' = FALSE /\ bgm' = "play_bgm" /\ responded' = TRUE
        /\ popDepth' = 0 /\ asked' = <<>> /\ linked' = Link /\ owner' = "MultiPlay"
        /\ cursor' = cursor
    BY <1>10 DEF JoinStartsMatch, NewGame
  <2>3. StackType'
    BY <1>1, <1>2, <1>3, <2>1, <2>2
  <2>4. owner' = OwnerOf(stack')
    BY <2>1, <2>2, ShapesDiffer DEF OwnerOf
  <2> QED
    BY <2>1, <2>2, <2>3, <2>4, ShapesDiffer
<1>11. CASE MatchDisconnected
  <2>1. Remaining = TJM /\ stack = TJM /\ stack' = TJM
    BY <1>1, <1>11, TopIs, ShapesDiffer DEF MatchDisconnected
  <2> QED
    BY <1>1, <1>2, <1>3, <1>11, <2>1, ShapesDiffer DEF MatchDisconnected, RequestPopDepth
<1>12. CASE MatchUpdate
  <2>1. Remaining = TJM /\ stack = TJM /\ stack' = TJM /\ popDepth' = 0 /\ asked' = <<>>
    BY <1>1, <1>12, TopIs, ShapesDiffer DEF MatchUpdate, Stay
  <2>2. over' \in {over, TRUE} /\ waiting' = over' /\ over' \in BOOLEAN
        /\ (over' /\ ~waiting => bgm' = "none") /\ (~over' \/ waiting => bgm' = bgm)
    BY <1>12 DEF MatchUpdate
  <2>3. UNCHANGED <<cursor, responded>> /\ owner' = Owner /\ linked' = Link
    BY <1>12 DEF MatchUpdate
  <2>4. StackType'
    BY <1>1, <1>2, <1>3, <2>1, <2>2, <2>3
  <2>5. owner' = OwnerOf(stack') /\ PopIsFresh'
    BY <1>1, <2>1, <2>3
  <2>6. waiting' => over' /\ bgm' = "none"
    BY <2>2
  <2>7. ~over' => bgm' = "play_bgm"
    <3>1. ~over => bgm = "play_bgm"
      BY <2>1, Zenon
    <3>2. ~over' => ~over
      BY <2>2
    <3> QED
      BY <2>2, <3>1, <3>2
  <2> QED
    BY <2>1, <2>4, <2>5, <2>6, <2>7, ShapesDiffer
<1>13. CASE MatchShowsGameOver
  BY <1>1, <1>5, <1>13, TopIs DEF MatchShowsGameOver
<1> QED
  BY <1>4, <1>6, <1>7, <1>8, <1>9, <1>10, <1>11, <1>12, <1>13 DEF Update

LEMMA StackStep ==
    ASSUME StackInv, [Next]_vars
    PROVE  StackInv'
<1> USE DEF StackInv, StackType, PopIsFresh, Silence, stackVars, gameVars, clientVars
<1>1. CASE ProcessInputs
  BY <1>1, StackInputs
<1>2. CASE Update
  BY <1>2, StackUpdate
<1>3. CASE Peek \/ ProcessEvent \/ Flush
  BY <1>3 DEF Peek, ProcessEvent, Flush
<1>4. ASSUME NEW k \in Key, Press(k) \/ Release(k)
      PROVE  StackInv'
  BY <1>4 DEF Press, Release, KeyEvent
<1>5. CASE LinkLost
  BY <1>5 DEF LinkLost
<1>6. CASE UNCHANGED vars
  BY <1>6 DEF vars
<1> QED
  BY <1>1, <1>2, <1>3, <1>4, <1>5, <1>6 DEF Next, Frame

LEMMA StackInvariant == Spec => []StackInv
<1> QED
  BY StackInit, StackStep, PTL DEF Spec

(* Game.cpp:151-180: the stack is never empty and has one of six shapes.       *)
THEOREM StacksKnown == Spec => []StacksAreKnown
<1>1. StackInv => StacksAreKnown
  BY DEF StackInv, StackType, Stacks, StacksAreKnown, T, TS, TSG, TJ, TJM, TJMG
<1> QED
  BY <1>1, StackInvariant, PTL

(* RoomJoinState.cpp:109-117: the screen on top that needs the client has it.    *)
THEOREM ClientOnTop == Spec => []ClientIsOnTop
<1>1. StackInv => ClientIsOnTop
  BY TopIs, ShapesDiffer DEF StackInv, StackType, ClientIsOnTop, OwnerOf
<1> QED
  BY <1>1, StackInvariant, PTL

(* StateMachine.cpp:41-49: a deferred pop meets the stack it was asked for.     *)
THEOREM PopsSpare == Spec => []PopsSpareTheNew
<1>1. StackInv => PopsSpareTheNew
  BY DEF StackInv, StackType, PopIsFresh, PopsSpareTheNew
<1> QED
  BY <1>1, StackInvariant, PTL

(* SinglePlayState.cpp:171, MultiPlayState.cpp:51: music while the game goes on, *)
(* silence on its game over screen.                                          *)
THEOREM MusicFollows == Spec => []MusicFollowsGame
<1>1. StackInv => MusicFollowsGame
  BY TopIs DEF StackInv, StackType, Silence, MusicFollowsGame
<1> QED
  BY <1>1, StackInvariant, PTL

-----------------------------------------------------------------------------
(* The keys.                                                                 *)

(* The last event on its way for a key.                                       *)
LastOf(q, k, i) ==
    /\ i \in DOMAIN q
    /\ q[i].key = k
    /\ \A j \in DOMAIN q : j > i => q[j].key # k

Awaited(q, k) == \E i \in DOMAIN q : q[i].key = k

KeyType ==
    /\ phase \in {"peek", "process", "inputs", "update"}
    /\ peeked \in Seq(Event) /\ console \in Seq(Event)
    /\ keys \in [Key -> Button]
    /\ fingers \subseteq Key /\ missed \subseteq Key /\ arrived \subseteq Key

LastIsTrue ==
    \A k \in Key : \A i \in DOMAIN Pending :
        LastOf(Pending, k, i) => (Pending[i].down <=> k \in fingers)

HeldIsTrue ==
    \A k \in Key : k \notin missed /\ ~Awaited(Pending, k) => (keys[k].down <=> k \in fingers)

EdgesAreNew ==
    /\ phase = "peek" => \A k \in Key : ~keys[k].justPressed
    /\ \A k \in Key : keys[k].justPressed => k \in arrived

KeyInv ==
    /\ KeyType
    /\ phase # "process" => peeked = <<>>
    /\ LastIsTrue
    /\ HeldIsTrue
    /\ EdgesAreNew

LEMMA KeyInit == Init => KeyInv
<1> SUFFICES ASSUME Init PROVE KeyInv
  OBVIOUS
<1>1. KeyType /\ EdgesAreNew
  BY DEF Init, KeyType, EdgesAreNew, Untouched, Button
<1>2. Pending = <<>>
  BY DEF Init, Pending
<1>3. HeldIsTrue /\ LastIsTrue
  BY <1>2 DEF Init, HeldIsTrue, LastIsTrue, Untouched
<1> QED
  BY <1>1, <1>3 DEF Init, KeyInv

(* The console appends an event.                                             *)
LEMMA KeyEventStep ==
    ASSUME KeyInv, NEW k \in Key, NEW d \in BOOLEAN, KeyEvent(k, d)
    PROVE  KeyInv'
<1> DEFINE e == [key |-> k, down |-> d]
<1>1. /\ console' = Append(console, e) /\ e \in Event
      /\ fingers' = (IF d THEN fingers \cup {k} ELSE fingers \ {k})
      /\ UNCHANGED <<phase, peeked, keys, missed, arrived>>
  BY DEF KeyEvent, Event
<1>2. KeyType'
  BY <1>1 DEF KeyInv, KeyType
<1>3. /\ Pending \in Seq(Event) /\ Pending' = Append(Pending, e)
      /\ Len(Pending') = Len(Pending) + 1
      /\ Pending'[Len(Pending')] = e
      /\ \A i \in DOMAIN Pending : i \in DOMAIN Pending' /\ Pending'[i] = Pending[i]
  <2>1. peeked \in Seq(Event) /\ console \in Seq(Event)
    BY DEF KeyInv, KeyType
  <2>2. Pending \in Seq(Event) /\ Pending' = Append(Pending, e)
    BY <1>1, <2>1 DEF Pending
  <2> QED
    BY <1>1, <2>2
<1>4. LastIsTrue'
  <2> SUFFICES ASSUME NEW l \in Key, NEW i \in DOMAIN Pending', LastOf(Pending', l, i)
               PROVE  Pending'[i].down <=> l \in fingers'
    BY DEF LastIsTrue, LastOf
  <2>1. CASE i = Len(Pending')
    BY <1>1, <1>3, <2>1 DEF LastOf
  <2>2. CASE i # Len(Pending')
    <3>1. i \in DOMAIN Pending /\ LastOf(Pending, l, i) /\ Pending'[i] = Pending[i]
      BY <1>3, <2>2 DEF LastOf
    <3>2. l # k
      BY <1>3, <2>2 DEF LastOf
    <3>3. l \in fingers' <=> l \in fingers
      BY <1>1, <3>2
    <3> QED
      BY <3>1, <3>3 DEF KeyInv, LastIsTrue
  <2> QED
    BY <2>1, <2>2
<1>5. HeldIsTrue'
  <2> SUFFICES ASSUME NEW l \in Key, l \notin missed', ~Awaited(Pending', l)
               PROVE  keys'[l].down <=> l \in fingers'
    BY DEF HeldIsTrue
  <2>1. l # k /\ ~Awaited(Pending, l)
    BY <1>3 DEF Awaited
  <2>2. l \in fingers' <=> l \in fingers
    BY <1>1, <2>1
  <2> QED
    BY <1>1, <2>1, <2>2 DEF KeyInv, HeldIsTrue
<1> QED
  BY <1>1, <1>2, <1>4, <1>5 DEF KeyInv, EdgesAreNew

(* Steps that leave the events and the fingers alone.                         *)
LEMMA KeySame ==
    ASSUME KeyInv, Pending' = Pending, fingers' = fingers, missed' = missed,
           \A k \in Key : keys'[k].down = keys[k].down
    PROVE  LastIsTrue' /\ HeldIsTrue'
  BY DEF KeyInv, LastIsTrue, HeldIsTrue, LastOf, Awaited

LEMMA PeekStep ==
    ASSUME KeyInv, Peek
    PROVE  KeyInv'
<1>0. PICK n \in 0 .. BufSize :
          n <= Len(console) /\ peeked' = SubSeq(console, 1, n)
          /\ console' = SubSeq(console, n + 1, Len(console))
  BY DEF Peek
<1>1. /\ console \in Seq(Event) /\ peeked = <<>> /\ n \in 0 .. Len(console)
      /\ phase = "peek" /\ (console = <<>> => n = 0)
  BY <1>0, BufferAssumption DEF Peek, KeyInv, KeyType
<1>2. /\ peeked' = SubSeq(console, 1, n) /\ console' = SubSeq(console, n + 1, Len(console))
      /\ arrived' = {} /\ UNCHANGED <<keys, fingers, missed>>
      /\ phase' \in IF console = <<>> THEN {"inputs", "process"} ELSE {"process"}
  BY <1>0 DEF Peek
<1>3. peeked' \in Seq(Event) /\ console' \in Seq(Event)
  BY <1>1, <1>2
<1>4. peeked' \o console' = console
  <2>1. SubSeq(console, 1, n) \o SubSeq(console, n + 1, Len(console))
            = SubSeq(console, 1, Len(console))
    <3>1. 1 \in 1 .. Len(console) + 1 /\ n \in 1 - 1 .. Len(console)
          /\ Len(console) \in n .. Len(console)
      BY <1>1
    <3> QED
      BY <1>1, <3>1, ConcatAdjacentSubSeq
  <2> QED
    BY <1>1, <1>2, <2>1, SubSeqFull
<1>5. Pending' = Pending
  <2>1. <<>> \o console = console
    BY <1>1
  <2> QED
    BY <1>1, <1>4, <2>1 DEF Pending
<1>6. phase' # "process" => peeked' = <<>>
  BY <1>1, <1>2
<1>7. KeyType'
  BY <1>2, <1>3 DEF KeyInv, KeyType
<1>8. EdgesAreNew'
  <2>1. phase' # "peek"
    BY <1>2
  <2>2. \A k \in Key : ~keys[k].justPressed
    BY <1>1 DEF KeyInv, EdgesAreNew
  <2> QED
    BY <1>2, <2>1, <2>2 DEF EdgesAreNew
<1>9. LastIsTrue' /\ HeldIsTrue'
  BY <1>2, <1>5, KeySame
<1> QED
  BY <1>6, <1>7, <1>8, <1>9 DEF KeyInv

LEMMA ButtonType ==
    ASSUME NEW b \in Button, NEW d \in BOOLEAN
    PROVE  /\ ButtonUpdate(b, d) \in Button
           /\ ButtonUpdate(b, d).down = d
           /\ ButtonUpdate(b, d).justPressed => d
  BY DEF ButtonUpdate, Button

LEMMA ProcessEventStep ==
    ASSUME KeyInv, ProcessEvent
    PROVE  KeyInv'
<1> DEFINE e == Head(peeked)
<1>1. /\ peeked \in Seq(Event) /\ peeked # <<>> /\ console \in Seq(Event) /\ e \in Event
      /\ e.key \in Key /\ e.down \in BOOLEAN /\ phase = "process"
  <2>1. peeked \in Seq(Event) /\ peeked # <<>> /\ console \in Seq(Event) /\ phase = "process"
    BY DEF ProcessEvent, KeyInv, KeyType
  <2>2. e \in Event
    BY <2>1
  <2> HIDE DEF e
  <2> QED
    BY <2>1, <2>2 DEF Event
<1>2. /\ keys' = [keys EXCEPT ![e.key] = ButtonUpdate(@, e.down)]
      /\ missed' = missed \ {e.key}
      /\ arrived' = (IF e.down THEN arrived \cup {e.key} ELSE arrived)
      /\ peeked' = Tail(peeked) /\ UNCHANGED <<phase, console, fingers>>
  BY DEF ProcessEvent, OnKey
<1>3. /\ keys \in [Key -> Button] /\ arrived \subseteq Key
  BY DEF KeyInv, KeyType
<1>4. /\ keys' \in [Key -> Button]
      /\ keys'[e.key].down = e.down /\ (keys'[e.key].justPressed => e.down)
      /\ \A k \in Key : k # e.key => keys'[k] = keys[k]
  BY <1>1, <1>2, <1>3, ButtonType
<1>5. KeyType'
  BY <1>1, <1>2, <1>4 DEF KeyInv, KeyType
<1>6. /\ Pending \in Seq(Event) /\ Pending' \in Seq(Event) /\ Pending[1] = e
      /\ Len(Pending) = Len(Pending') + 1
      /\ \A i \in DOMAIN Pending' : i + 1 \in DOMAIN Pending /\ Pending'[i] = Pending[i + 1]
      /\ \A i \in DOMAIN Pending : i # 1 => i - 1 \in DOMAIN Pending' /\ Pending'[i - 1] = Pending[i]
  <2>1. /\ Len(peeked') = Len(peeked) - 1 /\ peeked' \in Seq(Event)
        /\ \A i \in 1 .. Len(peeked') : peeked'[i] = peeked[i + 1]
    BY <1>1, <1>2
  <2>2. /\ Pending \in Seq(Event) /\ Len(Pending) = Len(peeked) + Len(console)
        /\ \A i \in 1 .. Len(Pending) :
               Pending[i] = IF i <= Len(peeked) THEN peeked[i] ELSE console[i - Len(peeked)]
    BY <1>1 DEF Pending
  <2>3. /\ Pending' \in Seq(Event) /\ Len(Pending') = Len(peeked') + Len(console)
        /\ \A i \in 1 .. Len(Pending') :
               Pending'[i] = IF i <= Len(peeked') THEN peeked'[i] ELSE console[i - Len(peeked')]
    BY <1>1, <1>2, <2>1 DEF Pending
  <2>4. Len(peeked) \in Nat \ {0} /\ peeked[1] = e
    BY <1>1
  <2> HIDE DEF e
  <2>5. Len(console) \in Nat /\ Len(Pending) = Len(Pending') + 1 /\ Len(Pending') \in Nat
        /\ Pending[1] = e
    BY <1>1, <2>1, <2>2, <2>3, <2>4
  <2>6. ASSUME NEW i \in 1 .. Len(Pending')
        PROVE  i + 1 \in 1 .. Len(Pending) /\ Pending'[i] = Pending[i + 1]
    <3>1. CASE i <= Len(peeked')
      BY <2>1, <2>2, <2>3, <2>4, <2>5, <3>1
    <3>2. CASE ~(i <= Len(peeked'))
      <4>1. i - Len(peeked') = i + 1 - Len(peeked) /\ ~(i + 1 <= Len(peeked))
            /\ i + 1 \in 1 .. Len(Pending)
        BY <2>1, <2>4, <2>5, <3>2
      <4>2. Pending'[i] = console[i - Len(peeked')]
        BY <2>3, <3>2
      <4>3. Pending[i + 1] = console[i + 1 - Len(peeked)]
        BY <2>2, <4>1
      <4> QED
        BY <4>1, <4>2, <4>3
    <3> QED
      BY <3>1, <3>2
  <2>7. ASSUME NEW i \in 1 .. Len(Pending), i # 1
        PROVE  i - 1 \in 1 .. Len(Pending') /\ Pending'[i - 1] = Pending[i]
    <3>1. i - 1 \in 1 .. Len(Pending') /\ (i - 1) + 1 = i
      BY <2>5, <2>7
    <3> QED
      BY <2>6, <3>1
  <2>8. DOMAIN Pending = 1 .. Len(Pending) /\ DOMAIN Pending' = 1 .. Len(Pending')
    BY <2>2, <2>3
  <2> QED
    BY <2>2, <2>3, <2>5, <2>6, <2>7, <2>8
<1> HIDE DEF e
<1>7. LastIsTrue'
  <2> SUFFICES ASSUME NEW l \in Key, NEW i \in DOMAIN Pending', LastOf(Pending', l, i)
               PROVE  Pending'[i].down <=> l \in fingers'
    BY DEF LastIsTrue, LastOf
  <2>1. LastOf(Pending, l, i + 1)
    <3>1. i + 1 \in DOMAIN Pending /\ Pending[i + 1].key = l
      BY <1>6 DEF LastOf
    <3>2. ASSUME NEW j \in DOMAIN Pending, j > i + 1
          PROVE  Pending[j].key # l
      <4>1. j # 1 /\ j - 1 \in DOMAIN Pending' /\ j - 1 > i
        BY <1>6, <3>2
      <4> QED
        BY <1>6, <4>1 DEF LastOf
    <3> QED
      BY <3>1, <3>2 DEF LastOf
  <2> QED
    BY <1>2, <1>6, <2>1 DEF KeyInv, LastIsTrue
<1>8. HeldIsTrue'
  <2> SUFFICES ASSUME NEW l \in Key, l \notin missed', ~Awaited(Pending', l)
               PROVE  keys'[l].down <=> l \in fingers'
    BY DEF HeldIsTrue
  <2>1. CASE l = e.key
    <3>1. LastOf(Pending, l, 1)
      <4>1. 1 \in DOMAIN Pending /\ Pending[1].key = l
        BY <1>6, <2>1
      <4>2. ASSUME NEW j \in DOMAIN Pending, j > 1
            PROVE  Pending[j].key # l
        <5>1. j - 1 \in DOMAIN Pending' /\ Pending'[j - 1] = Pending[j]
          BY <1>6, <4>2
        <5> QED
          BY <5>1 DEF Awaited
      <4> QED
        BY <4>1, <4>2 DEF LastOf
    <3>2. e.down <=> l \in fingers
      BY <1>6, <3>1 DEF KeyInv, LastIsTrue, LastOf
    <3> QED
      BY <1>2, <1>4, <2>1, <3>2
  <2>2. CASE l # e.key
    <3>1. ~Awaited(Pending, l)
      BY <1>6, <2>2 DEF Awaited
    <3>2. l \notin missed
      BY <1>2, <2>2
    <3> QED
      BY <1>2, <1>4, <2>2, <3>1, <3>2 DEF KeyInv, HeldIsTrue
  <2> QED
    BY <2>1, <2>2
<1>9. EdgesAreNew'
  BY <1>1, <1>2, <1>4 DEF KeyInv, EdgesAreNew
<1> QED
  BY <1>1, <1>2, <1>5, <1>7, <1>8, <1>9 DEF KeyInv

(* What is flushed unseen is missed.                                         *)
LEMMA FlushStep ==
    ASSUME KeyInv, Flush
    PROVE  KeyInv'
<1>1. /\ peeked = <<>> /\ peeked' = <<>> /\ console' = <<>> /\ console \in Seq(Event)
      /\ missed' = missed \cup {console[i].key : i \in DOMAIN console}
      /\ phase' = "inputs" /\ UNCHANGED <<keys, fingers, arrived>> /\ phase = "process"
  BY DEF Flush, KeyInv, KeyType
<1>2. Pending' = <<>> /\ Pending = console
  BY <1>1 DEF Pending
<1>3. KeyType'
  <2>1. \A i \in DOMAIN console : console[i] \in Event
    BY <1>1
  <2>2. \A i \in DOMAIN console : console[i].key \in Key
    BY <2>1 DEF Event
  <2> QED
    BY <1>1, <2>2 DEF KeyInv, KeyType
<1>4. LastIsTrue'
  BY <1>2 DEF LastIsTrue
<1>5. HeldIsTrue'
  <2> SUFFICES ASSUME NEW l \in Key, l \notin missed'
               PROVE  keys'[l].down <=> l \in fingers'
    BY DEF HeldIsTrue
  <2>1. l \notin missed /\ ~Awaited(Pending, l)
    BY <1>1, <1>2 DEF Awaited
  <2> QED
    BY <1>1, <2>1 DEF KeyInv, HeldIsTrue
<1> QED
  BY <1>1, <1>3, <1>4, <1>5 DEF KeyInv, EdgesAreNew

(* The end of a frame.                                                       *)
LEMMA KeyUpdateStep ==
    ASSUME KeyInv, Update
    PROVE  KeyInv'
<1>1. /\ phase' = "peek" /\ keys' = EdgesCleared(keys) /\ keys \in [Key -> Button]
      /\ UNCHANGED <<peeked, console, fingers, missed, arrived>> /\ phase = "update"
  BY DEF Update, eventVars, KeyInv, KeyType
<1>2. /\ keys' \in [Key -> Button]
      /\ \A k \in Key : keys'[k].down = keys[k].down /\ ~keys'[k].justPressed
  <2>1. \A k \in Key : keys'[k] = [keys[k] EXCEPT !.justPressed = FALSE]
    BY <1>1 DEF EdgesCleared
  <2>2. \A k \in Key : keys[k] \in Button
    BY <1>1
  <2>3. \A k \in Key : keys'[k] \in Button /\ keys'[k].down = keys[k].down
                       /\ keys'[k].justPressed = FALSE
    BY <2>1, <2>2 DEF Button
  <2> QED
    BY <1>1, <2>3 DEF EdgesCleared
<1>3. Pending' = Pending
  BY <1>1 DEF Pending
<1>4. KeyType'
  BY <1>1, <1>2 DEF KeyInv, KeyType
<1>5. EdgesAreNew'
  BY <1>2 DEF EdgesAreNew
<1> QED
  BY <1>1, <1>2, <1>3, <1>4, <1>5, KeySame DEF KeyInv

LEMMA KeyStep ==
    ASSUME KeyInv, [Next]_vars
    PROVE  KeyInv'
<1>1. ASSUME NEW k \in Key, Press(k) \/ Release(k)
      PROVE  KeyInv'
  BY <1>1, KeyEventStep DEF Press, Release
<1>2. CASE ProcessInputs
  <2>1. /\ UNCHANGED <<keys, peeked, console, fingers, missed, arrived>>
        /\ phase' = "update" /\ phase = "inputs"
    BY <1>2 DEF ProcessInputs, eventVars
  <2>2. Pending' = Pending
    BY <2>1 DEF Pending
  <2> QED
    BY <2>1, <2>2, KeySame DEF KeyInv, KeyType, EdgesAreNew
<1>3. CASE LinkLost \/ UNCHANGED vars
  <2>1. UNCHANGED <<keys, peeked, console, fingers, missed, arrived, phase>>
    BY <1>3 DEF LinkLost, vars, eventVars
  <2>2. Pending' = Pending
    BY <2>1 DEF Pending
  <2> QED
    BY <2>1, <2>2, KeySame DEF KeyInv, KeyType, EdgesAreNew
<1> QED
  BY <1>1, <1>2, <1>3, PeekStep, ProcessEventStep, FlushStep, KeyUpdateStep DEF Next, Frame

LEMMA KeyInvariant == Spec => []KeyInv
<1> QED
  BY KeyInit, KeyStep, PTL DEF Spec

(* Keyboard.cpp:9-38, Game.cpp:143: a key held for the game is a key pressed, but *)
(* for events on their way and for keys whose last event was flushed.        *)
THEOREM HeldPressed == Spec => []HeldAsPressed
<1>1. KeyInv => HeldAsPressed
  BY DEF KeyInv, HeldIsTrue, HeldAsPressed, Awaited
<1> QED
  BY <1>1, KeyInvariant, PTL

(* Button.h:14-19, Game.cpp:172: no edge is older than its frame.               *)
THEOREM PressOnce == Spec => []PressActsOnce
<1>1. KeyInv => PressActsOnce
  BY DEF KeyInv, EdgesAreNew, PressActsOnce, JustPressed
<1> QED
  BY <1>1, KeyInvariant, PTL

(* Every variable has its type.                                               *)
THEOREM TypeCorrect == Spec => []TypeOK
<1>1. StackInv /\ KeyInv => TypeOK
  <2> SUFFICES ASSUME StackInv, KeyInv PROVE TypeOK
    OBVIOUS
  <2>1. stack \in Seq(Screens) /\ asked \in Seq(Screens)
    <3>1. \A s \in Stacks : s \in Seq(Screens)
      BY Elements DEF Stacks
    <3>2. <<>> \in Seq(Screens)
      OBVIOUS
    <3> QED
      BY <3>1, <3>2 DEF StackInv, StackType
  <2>2. popDepth \in 0 .. 1 /\ owner \in {"none", "RoomJoin", "MultiPlay"}
    BY DEF StackInv, StackType, OwnerOf
  <2> QED
    BY <2>1, <2>2 DEF StackInv, StackType, KeyInv, KeyType, TypeOK
<1> QED
  BY <1>1, StackInvariant, KeyInvariant, PTL
=============================================================================
