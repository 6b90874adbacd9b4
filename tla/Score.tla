------------------------------- MODULE Score -------------------------------
(***************************************************************************)
(* Points, lines, level and combo of one game: Score.cpp.  A game calls      *)
(* OnLinesCleared for every mino it locks, and the two drop operations in    *)
(* between.  T-spins are never recognised (the games pass FALSE), so only a   *)
(* clear of four lines is special.                                          *)
(***************************************************************************)
EXTENDS Integers, Sequences, FiniteSetsExt

CONSTANTS
    MaxCalls,   \* bound: how many calls are made
    MaxDrop     \* bound: how far a hard drop falls, the board's height

ASSUME BoundAssumption == MaxCalls \in Nat /\ MaxDrop \in Nat

VARIABLES
    score,      \* m_Score
    lines,      \* m_Lines
    level,      \* m_Level
    combo,      \* m_Combo
    backToBack, \* m_bBackToBack
    log         \* the calls so far, for the properties only

vars == <<score, lines, level, combo, backToBack, log>>

Locks     == [call : {"lock"}, n : 0 .. 4]
SoftDrops == [call : {"soft"}, n : {1}]
HardDrops == [call : {"hard"}, n : 1 .. MaxDrop]

TypeOK ==
    /\ score \in Nat /\ lines \in Nat /\ level \in Nat \ {0} /\ combo \in Nat
    /\ backToBack \in BOOLEAN
    /\ log \in Seq(Locks \cup SoftDrops \cup HardDrops)

(* Reset, or the initialisers.                                               *)
Init ==
    /\ score = 0 /\ lines = 0 /\ level = 1 /\ combo = 0
    /\ backToBack = FALSE
    /\ log = <<>>

-----------------------------------------------------------------------------

Called(c, n) ==
    /\ Len(log) < MaxCalls
    /\ log' = Append(log, [call |-> c, n |-> n])

AddSoftDrop ==
    /\ Called("soft", 1)
    /\ score' = score + 1
    /\ UNCHANGED <<lines, level, combo, backToBack>>

AddHardDrop(n) ==
    /\ Called("hard", n)
    /\ score' = score + 2 * n
    /\ UNCHANGED <<lines, level, combo, backToBack>>

LineScore(n) == <<100, 300, 500, 800>>[n] * level

(* The bonus of the k-th clear in a row.                                     *)
ComboBonus(k) == IF k <= 1 THEN 0 ELSE 50 * (k - 1)

BackToBackBonus(n) == IF n = 4 /\ backToBack THEN 100 * level ELSE 0

(* Mutant: one level per call.                                               *)
UpdateLevelLate(from, n) == IF n > from * 10 THEN from + 1 ELSE from

(* Mutant: the levels are counted from zero.                                  *)
UpdateLevelFromZero(from, n) == n \div 10

(* The loop raises the level until it has passed the lines.                   *)
UpdateLevel(from, n) ==
    CHOOSE l \in from .. from + n + 1 :
        n < l * 10 /\ \A k \in from .. l - 1 : n >= k * 10

NoLines ==
    /\ Called("lock", 0)
    /\ combo' = 0
    /\ UNCHANGED <<score, lines, level, backToBack>>

(* Mutant: the level rises before the points are counted.                     *)
LinesClearedAtNewLevel(n) ==
    /\ Called("lock", n)
    /\ lines' = lines + n
    /\ level' = UpdateLevel(level, lines')
    /\ combo' = combo + 1
    /\ score' = score + <<100, 300, 500, 800>>[n] * level'
                      + ComboBonus(combo') + BackToBackBonus(n)
    /\ backToBack' = (n = 4)

LinesCleared(n) ==
    /\ Called("lock", n)
    /\ lines' = lines + n
    /\ level' = UpdateLevel(level, lines')
    /\ combo' = combo + 1
    /\ score' = score + LineScore(n) + ComboBonus(combo') + BackToBackBonus(n)
    /\ backToBack' = (n = 4)

OnLinesCleared == NoLines \/ \E n \in 1 .. 4 : LinesCleared(n)

Next ==
    \/ AddSoftDrop
    \/ \E n \in 1 .. MaxDrop : AddHardDrop(n)
    \/ OnLinesCleared

Spec == Init /\ [][Next]_vars

-----------------------------------------------------------------------------

(* The level, raised by a loop, is the one the lines of the whole game ask for. *)
LevelFollowsLines == 10 * (level - 1) <= lines /\ lines < 10 * level

(* What the i-th call of a game l is worth, read off the whole game: a clear    *)
(* counts by the level of the lines before it, by the clears that precede it   *)
(* without a miss, and a clear of four by whether the last clear was one of    *)
(* four, whatever missed in between.                                         *)
ClearsBefore(l, i) == {j \in 1 .. i - 1 : l[j].call = "lock" /\ l[j].n > 0}
MissesBefore(l, i) == {j \in 1 .. i - 1 : l[j].call = "lock" /\ l[j].n = 0}
LinesBefore(l, i)  == MapThenSumSet(LAMBDA j : l[j].n, ClearsBefore(l, i))

Run(l, i) == {j \in ClearsBefore(l, i) : \A k \in MissesBefore(l, i) : k < j}

IsBackToBack(l, i) ==
    /\ ClearsBefore(l, i) # {}
    /\ l[Max(ClearsBefore(l, i))].n = 4

Worth(l, i) ==
    CASE l[i].call = "soft" -> 1
      [] l[i].call = "hard" -> 2 * l[i].n
      [] l[i].call = "lock" /\ l[i].n = 0 -> 0
      [] OTHER ->
            LET lev == LinesBefore(l, i) \div 10 + 1
            IN  <<100, 300, 500, 800>>[l[i].n] * lev
                    + 50 * Cardinality(Run(l, i))
                    + (IF l[i].n = 4 /\ IsBackToBack(l, i) THEN 100 * lev ELSE 0)

TotalWorth(l) == MapThenSumSet(LAMBDA i : Worth(l, i), DOMAIN l)

(* The running score is what the calls of the game are worth, one by one.      *)
ScoreIsWorth == score = TotalWorth(log)
=============================================================================
