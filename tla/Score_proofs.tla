---------------------------- MODULE Score_proofs ----------------------------
(***************************************************************************)
(* Proofs about module Score, for games of any length: its types, that the    *)
(* level follows the lines, and that the points are what the calls are worth.  *)
(*                                                                          *)
(* For the last the invariant says what the running state means: the lines     *)
(* and the combo are a sum and a count over the calls so far, and the flag for *)
(* back to back is what the last clear was (Running).                        *)
(***************************************************************************)
EXTENDS Score, Rules_proofs

(* The loop of UpdateLevel ends, and stops at the level of n lines if it did    *)
(* not start above it.                                                       *)
LEMMA UpdateLevelMeets ==
    ASSUME NEW from \in Nat \ {0}, NEW n \in Nat, 10 * (from - 1) <= n
    PROVE  /\ UpdateLevel(from, n) \in Nat \ {0}
           /\ 10 * (UpdateLevel(from, n) - 1) <= n
           /\ n < 10 * UpdateLevel(from, n)
<1> DEFINE Stops(l) == n < l * 10 /\ \A k \in from .. l - 1 : n >= k * 10
<1>1. n \div 10 + 1 \in from .. from + n + 1
  OBVIOUS
<1>2. Stops(n \div 10 + 1)
  OBVIOUS
<1>3. /\ UpdateLevel(from, n) \in from .. from + n + 1
      /\ Stops(UpdateLevel(from, n))
  <2> HIDE DEF Stops
  <2>1. UpdateLevel(from, n) = CHOOSE l \in from .. from + n + 1 : Stops(l)
    BY DEF UpdateLevel, Stops
  <2>2. \E l \in from .. from + n + 1 : Stops(l)
    BY <1>1, <1>2
  <2> QED
    BY <2>1, <2>2
<1> DEFINE l == UpdateLevel(from, n)
<1> HIDE DEF l
<1>4. l \in from .. from + n + 1 /\ n < l * 10 /\ \A k \in from .. l - 1 : n >= k * 10
  BY <1>3 DEF l
<1>5. 10 * (l - 1) <= n
  <2>1. CASE l = from
    BY <2>1
  <2>2. CASE l > from
    <3>1. l - 1 \in from .. l - 1
      BY <2>2, <1>4
    <3>2. n >= (l - 1) * 10
      BY <3>1, <1>4
    <3> QED
      BY <3>2, <1>4
  <2> QED
    BY <2>1, <2>2, <1>4
<1> QED
  BY <1>4, <1>5 DEF l

Calls == Locks \cup SoftDrops \cup HardDrops

LEMMA CalledType ==
    ASSUME NEW c, NEW n, [call |-> c, n |-> n] \in Calls, log \in Seq(Calls), Called(c, n)
    PROVE  log' \in Seq(Calls)
  BY DEF Called

(* The two invariants strengthen each other: the loop's result needs the old    *)
(* level to be right, the level's type needs the loop to end.                *)
Inv == TypeOK /\ LevelFollowsLines

LEMMA InitInv == Init => Inv
<1> SUFFICES ASSUME Init
             PROVE  Inv
  OBVIOUS
<1>1. log \in Seq(Locks \cup SoftDrops \cup HardDrops)
  BY DEF Init
<1>2. score \in Nat /\ lines \in Nat /\ level \in Nat \ {0} /\ combo \in Nat
  BY DEF Init
<1>3. backToBack \in BOOLEAN
  BY DEF Init
<1>4. LevelFollowsLines
  BY DEF Init, LevelFollowsLines
<1> QED
  BY <1>1, <1>2, <1>3, <1>4 DEF Inv, TypeOK

LEMMA ClearInv ==
    ASSUME Inv, NEW n \in 1 .. 4, LinesCleared(n)
    PROVE  Inv'
<1>1. lines' \in Nat /\ 10 * (level - 1) <= lines' /\ level \in Nat \ {0}
  BY DEF Inv, TypeOK, LevelFollowsLines, LinesCleared
<1>2. /\ level' \in Nat \ {0}
      /\ 10 * (level' - 1) <= lines'
      /\ lines' < 10 * level'
  BY <1>1, UpdateLevelMeets DEF LinesCleared
<1>3. combo' \in Nat /\ backToBack' \in BOOLEAN
  BY DEF Inv, TypeOK, LinesCleared
<1>4. LineScore(n) \in Nat
  BY <1>1 DEF LineScore
<1>5. ComboBonus(combo') \in Nat
  <2>1. \A k \in Nat : ComboBonus(k) \in Nat
    BY DEF ComboBonus
  <2> QED
    BY <1>3, <2>1
<1>6. BackToBackBonus(n) \in Nat
  BY <1>1 DEF BackToBackBonus
<1>7. score' \in Nat
  BY <1>4, <1>5, <1>6 DEF Inv, TypeOK, LinesCleared
<1>8. log' \in Seq(Calls)
  <2>1. [call |-> "lock", n |-> n] \in Calls
    BY DEF Calls, Locks
  <2> QED
    BY <2>1, CalledType DEF Inv, TypeOK, Calls, LinesCleared
<1> QED
  BY <1>1, <1>2, <1>3, <1>7, <1>8 DEF Inv, TypeOK, LevelFollowsLines, Calls

LEMMA StepInv == Inv /\ [Next]_vars => Inv'
<1> SUFFICES ASSUME Inv, [Next]_vars
             PROVE  Inv'
  OBVIOUS
<1>1. CASE AddSoftDrop
  <2>1. log' \in Seq(Calls)
    BY <1>1, CalledType DEF Inv, TypeOK, AddSoftDrop, Calls, SoftDrops
  <2> QED
    BY <1>1, <2>1 DEF Inv, TypeOK, LevelFollowsLines, AddSoftDrop, Calls
<1>2. ASSUME NEW n \in 1 .. MaxDrop, AddHardDrop(n)
      PROVE  Inv'
  <2>1. log' \in Seq(Calls)
    <3>1. [call |-> "hard", n |-> n] \in Calls
      BY DEF Calls, HardDrops
    <3> QED
      BY <1>2, <3>1, CalledType DEF Inv, TypeOK, AddHardDrop, Calls
  <2>2. score' \in Nat
    BY <1>2, BoundAssumption DEF Inv, TypeOK, AddHardDrop
  <2> QED
    BY <1>2, <2>1, <2>2 DEF Inv, TypeOK, LevelFollowsLines, AddHardDrop, Calls
<1>3. CASE NoLines
  <2>1. log' \in Seq(Calls)
    <3>1. [call |-> "lock", n |-> 0] \in Calls
      BY DEF Calls, Locks
    <3> QED
      BY <1>3, <3>1, CalledType DEF Inv, TypeOK, NoLines, Calls
  <2> QED
    BY <1>3, <2>1 DEF Inv, TypeOK, LevelFollowsLines, NoLines, Calls
<1>4. ASSUME NEW n \in 1 .. 4, LinesCleared(n)
      PROVE  Inv'
  BY <1>4, ClearInv
<1>5. CASE UNCHANGED vars
  BY <1>5 DEF Inv, TypeOK, LevelFollowsLines, vars
<1> QED
  BY <1>1, <1>2, <1>3, <1>4, <1>5 DEF Next, OnLinesCleared

-----------------------------------------------------------------------------
(* What a call is worth depends on the calls up to it only.                   *)

LinesOf(l)  == [j \in DOMAIN l |-> l[j].n]
WorthsOf(l) == [i \in DOMAIN l |-> Worth(l, i)]

LEMMA CallFields ==
    ASSUME NEW r \in Calls
    PROVE  /\ r.call \in {"lock", "soft", "hard"}
           /\ r.n \in Nat
           /\ r.call = "lock" => r.n \in 0 .. 4
  BY BoundAssumption DEF Calls, Locks, SoftDrops, HardDrops

LEMMA EarlierCalls ==
    ASSUME NEW l \in Seq(Calls), NEW i \in 1 .. Len(l) + 1
    PROVE  /\ ClearsBefore(l, i) \subseteq DOMAIN l /\ ClearsBefore(l, i) \subseteq 1 .. i - 1
           /\ IsFiniteSet(ClearsBefore(l, i))
           /\ Run(l, i) \subseteq ClearsBefore(l, i) /\ IsFiniteSet(Run(l, i))
           /\ IsFiniteSet(DOMAIN l)
<1>1. DOMAIN l = 1 .. Len(l) /\ Len(l) \in Nat
  OBVIOUS
<1>2. IsFiniteSet(1 .. Len(l))
  BY <1>1, FS_Interval
<1>3. ClearsBefore(l, i) \subseteq 1 .. Len(l) /\ ClearsBefore(l, i) \subseteq 1 .. i - 1
  BY <1>1 DEF ClearsBefore
<1>4. Run(l, i) \subseteq ClearsBefore(l, i)
  BY DEF Run
<1>5. IsFiniteSet(ClearsBefore(l, i))
  BY <1>2, <1>3, FS_Subset
<1>6. IsFiniteSet(Run(l, i))
  BY <1>4, <1>5, FS_Subset
<1> QED
  BY <1>1, <1>2, <1>3, <1>4, <1>5, <1>6

(* The sums of module Score, in the form of module Rules_proofs.               *)
LEMMA LinesAreSum ==
    ASSUME NEW l \in Seq(Calls), NEW i \in 1 .. Len(l) + 1
    PROVE  LinesBefore(l, i) = Sum(LinesOf(l), ClearsBefore(l, i))
<1> DEFINE T == ClearsBefore(l, i)
           Iter(it) == it = [s \in SUBSET T |->
                IF s = {} THEN 0 ELSE l[Some(s)].n + it[s \ {Some(s)}]]
<1>1. LinesBefore(l, i) = (CHOOSE it : Iter(it))[T]
  BY Zenon DEF LinesBefore, MapThenSumSet, MapThenFoldSet, Some
<1>2. T \subseteq DOMAIN l /\ IsFiniteSet(T)
  BY EarlierCalls
<1> HIDE DEF T
<1>3. ASSUME NEW it
      PROVE  Iter(it) <=> IsSum(LinesOf(l), T, it)
  <2>1. \A s \in SUBSET T : s # {} => l[Some(s)].n = LinesOf(l)[Some(s)]
    BY <1>2, SomeIsIn DEF LinesOf
  <2> QED
    BY <2>1 DEF IsSum
<1>4. PICK it : IsSum(LinesOf(l), T, it)
  BY <1>2, SumExists
<1>5. (CHOOSE g : Iter(g))[T] = Sum(LinesOf(l), T)
  BY <1>2, <1>3, <1>4, SumUnique DEF Sum
<1> QED
  BY <1>1, <1>5 DEF T

LEMMA WorthsAreSum ==
    ASSUME NEW l \in Seq(Calls)
    PROVE  TotalWorth(l) = Sum(WorthsOf(l), DOMAIN l)
<1> DEFINE T == DOMAIN l
           Iter(it) == it = [s \in SUBSET T |->
                IF s = {} THEN 0 ELSE Worth(l, Some(s)) + it[s \ {Some(s)}]]
<1>1. TotalWorth(l) = (CHOOSE it : Iter(it))[T]
  BY Zenon DEF TotalWorth, MapThenSumSet, MapThenFoldSet, Some
<1>2. IsFiniteSet(T)
  <2>1. 1 \in 1 .. Len(l) + 1
    OBVIOUS
  <2> QED
    BY <2>1, EarlierCalls
<1>3. ASSUME NEW it
      PROVE  Iter(it) <=> IsSum(WorthsOf(l), T, it)
  <2>1. \A s \in SUBSET T : s # {} => Worth(l, Some(s)) = WorthsOf(l)[Some(s)]
    BY SomeIsIn DEF WorthsOf
  <2> QED
    BY <2>1 DEF IsSum
<1>4. PICK it : IsSum(WorthsOf(l), T, it)
  BY <1>2, SumExists
<1>5. (CHOOSE g : Iter(g))[T] = Sum(WorthsOf(l), T)
  BY <1>2, <1>3, <1>4, SumUnique DEF Sum
<1> QED
  BY <1>1, <1>5

LEMMA WorthType ==
    ASSUME NEW l \in Seq(Calls), NEW i \in DOMAIN l
    PROVE  Worth(l, i) \in Nat /\ LinesBefore(l, i) \in Nat
<1>1. l[i] \in Calls /\ i \in 1 .. Len(l) + 1
  OBVIOUS
<1>2. \A j \in DOMAIN l : LinesOf(l)[j] \in Nat
  <2>1. \A j \in DOMAIN l : l[j] \in Calls
    OBVIOUS
  <2> QED
    BY <2>1, CallFields DEF LinesOf
<1>3. LinesBefore(l, i) \in Nat
  BY <1>1, <1>2, LinesAreSum, EarlierCalls, SumType
<1>4. Cardinality(Run(l, i)) \in Nat
  BY <1>1, EarlierCalls, FS_CardinalityType
<1>5. CASE l[i].call = "lock" /\ l[i].n # 0
  <2> DEFINE points == <<100, 300, 500, 800>>[l[i].n]
             lev    == LinesBefore(l, i) \div 10 + 1
             bonus  == IF l[i].n = 4 /\ IsBackToBack(l, i) THEN 100 * lev ELSE 0
  <2>1. l[i].n \in 1 .. 4
    BY <1>1, <1>5, CallFields
  <2>2. Worth(l, i) = points * lev + 50 * Cardinality(Run(l, i)) + bonus
    BY <1>5 DEF Worth
  <2>3. lev \in Nat
    BY <1>3
  <2>4. points \in Nat
    BY <2>1
  <2> HIDE DEF points, lev
  <2>5. points * lev \in Nat /\ bonus \in Nat
    BY <2>3, <2>4
  <2> HIDE DEF bonus
  <2> QED
    BY <1>3, <1>4, <2>2, <2>5
<1>6. CASE l[i].call # "lock" \/ l[i].n = 0
  BY <1>1, <1>3, <1>6, CallFields DEF Worth
<1> QED
  BY <1>5, <1>6

-----------------------------------------------------------------------------
(* One call more.                                                            *)

LEMMA OneMore ==
    ASSUME NEW l \in Seq(Calls), NEW r \in Calls
    PROVE  /\ Append(l, r) \in Seq(Calls)
           /\ Len(Append(l, r)) = Len(l) + 1
           /\ Append(l, r)[Len(l) + 1] = r
           /\ \A j \in 1 .. Len(l) : Append(l, r)[j] = l[j]
           /\ DOMAIN Append(l, r) = 1 .. Len(l) + 1
           /\ DOMAIN l = 1 .. Len(l)
           /\ Len(l) \in Nat
  OBVIOUS

(* What was before an earlier call is what it was.                            *)
LEMMA BeforeKept ==
    ASSUME NEW l \in Seq(Calls), NEW r \in Calls, NEW i \in 1 .. Len(l) + 1
    PROVE  /\ ClearsBefore(Append(l, r), i) = ClearsBefore(l, i)
           /\ MissesBefore(Append(l, r), i) = MissesBefore(l, i)
           /\ Run(Append(l, r), i) = Run(l, i)
           /\ LinesBefore(Append(l, r), i) = LinesBefore(l, i)
           /\ IsBackToBack(Append(l, r), i) = IsBackToBack(l, i)
<1> DEFINE m == Append(l, r)
<1>1. /\ m \in Seq(Calls) /\ Len(m) = Len(l) + 1 /\ Len(l) \in Nat
      /\ \A j \in 1 .. Len(l) : m[j] = l[j]
      /\ DOMAIN m = 1 .. Len(l) + 1 /\ DOMAIN l = 1 .. Len(l)
  BY OneMore
<1> HIDE DEF m
<1>2. \A j \in 1 .. i - 1 : m[j] = l[j]
  BY <1>1
<1>3. ClearsBefore(m, i) = ClearsBefore(l, i) /\ MissesBefore(m, i) = MissesBefore(l, i)
  BY <1>2 DEF ClearsBefore, MissesBefore
<1>4. Run(m, i) = Run(l, i)
  BY <1>3 DEF Run
<1>5. i \in 1 .. Len(m) + 1
  BY <1>1
<1>6. IsFiniteSet(ClearsBefore(l, i)) /\ ClearsBefore(l, i) \subseteq 1 .. i - 1
  BY EarlierCalls
<1>7. \A j \in ClearsBefore(l, i) : LinesOf(m)[j] = LinesOf(l)[j]
  BY <1>1, <1>6 DEF LinesOf
<1>8. Sum(LinesOf(m), ClearsBefore(l, i)) = Sum(LinesOf(l), ClearsBefore(l, i))
  BY <1>6, <1>7, SumSame
<1>9. LinesBefore(m, i) = LinesBefore(l, i)
  BY <1>1, <1>3, <1>5, <1>8, LinesAreSum
<1>10. IsBackToBack(m, i) = IsBackToBack(l, i)
  <2>1. ASSUME ClearsBefore(l, i) # {}
        PROVE  Max(ClearsBefore(l, i)) \in 1 .. i - 1
    <3>1. ClearsBefore(l, i) \in SUBSET Int
      BY <1>6
    <3>2. Max(ClearsBefore(l, i)) \in ClearsBefore(l, i)
      BY <1>6, <2>1, <3>1, LargestIsIn
    <3> QED
      BY <1>6, <3>2
  <2> QED
    BY <1>2, <1>3, <2>1 DEF IsBackToBack
<1> QED
  BY <1>3, <1>4, <1>9, <1>10 DEF m

LEMMA WorthKept ==
    ASSUME NEW l \in Seq(Calls), NEW r \in Calls, NEW i \in 1 .. Len(l)
    PROVE  Worth(Append(l, r), i) = Worth(l, i)
<1>1. Append(l, r)[i] = l[i] /\ i \in 1 .. Len(l) + 1
  BY OneMore
<1>2. /\ LinesBefore(Append(l, r), i) = LinesBefore(l, i)
      /\ Run(Append(l, r), i) = Run(l, i)
      /\ IsBackToBack(Append(l, r), i) = IsBackToBack(l, i)
  BY <1>1, BeforeKept
<1> QED
  BY <1>1, <1>2 DEF Worth

(* The sum grows by what the new call is worth.                               *)
LEMMA WorthAdded ==
    ASSUME NEW l \in Seq(Calls), NEW r \in Calls, NEW m, m = Append(l, r)
    PROVE  TotalWorth(m) = TotalWorth(l) + Worth(m, Len(l) + 1)
<1>1. /\ m \in Seq(Calls) /\ Len(m) = Len(l) + 1 /\ Len(l) \in Nat
      /\ DOMAIN m = 1 .. Len(l) + 1 /\ DOMAIN l = 1 .. Len(l)
  BY OneMore
<1> DEFINE D == DOMAIN l
           k == Len(l) + 1
<1>2. DOMAIN m = D \cup {k} /\ k \notin D /\ D \subseteq DOMAIN m /\ k \in DOMAIN m
  BY <1>1
<1>3. \A i \in DOMAIN m : WorthsOf(m)[i] = Worth(m, i) /\ WorthsOf(m)[i] \in Nat
  BY <1>1, WorthType DEF WorthsOf
<1>4. \A i \in D : WorthsOf(l)[i] = Worth(l, i) /\ WorthsOf(l)[i] \in Nat
  BY WorthType DEF WorthsOf
<1>5. \A i \in D : WorthsOf(m)[i] = WorthsOf(l)[i]
  BY <1>1, <1>2, <1>3, <1>4, WorthKept
<1>6. IsFiniteSet(D)
  BY <1>1, FS_Interval
<1> HIDE DEF D, k
<1>7. Sum(WorthsOf(m), D \cup {k}) = WorthsOf(m)[k] + Sum(WorthsOf(m), D)
  BY <1>2, <1>3, <1>6, SumAdd
<1>8. Sum(WorthsOf(m), D) = Sum(WorthsOf(l), D)
  BY <1>5, <1>6, SumSame
<1>9. Sum(WorthsOf(l), D) \in Nat
  BY <1>4, <1>6, SumType
<1>10. WorthsOf(m)[k] = Worth(m, k) /\ Worth(m, k) \in Nat
  BY <1>2, <1>3
<1>11. Sum(WorthsOf(m), DOMAIN m) = Sum(WorthsOf(l), DOMAIN l) + Worth(m, k)
  BY <1>2, <1>7, <1>8, <1>9, <1>10 DEF D
<1> QED
  BY <1>1, <1>11, WorthsAreSum DEF k

(* What is before the next call, by what this one is.                         *)
LEMMA AfterNoClear ==
    ASSUME NEW l \in Seq(Calls), NEW r \in Calls, r.call # "lock" \/ r.n = 0,
           NEW m, m = Append(l, r)
    PROVE  /\ LinesBefore(m, Len(m) + 1) = LinesBefore(l, Len(l) + 1)
           /\ IsBackToBack(m, Len(m) + 1) = IsBackToBack(l, Len(l) + 1)
           /\ r.call # "lock" => Run(m, Len(m) + 1) = Run(l, Len(l) + 1)
           /\ r.call = "lock" => Run(m, Len(m) + 1) = {}
<1> DEFINE k == Len(l) + 1
<1>0. k = Len(l) + 1
  OBVIOUS
<1> HIDE DEF k
<1>1. /\ m \in Seq(Calls) /\ Len(m) = Len(l) + 1 /\ Len(l) \in Nat /\ m[k] = r
      /\ \A j \in 1 .. Len(l) : m[j] = l[j]
  BY <1>0, OneMore
<1>2. /\ ClearsBefore(m, k) = ClearsBefore(l, k)
      /\ MissesBefore(m, k) = MissesBefore(l, k)
      /\ Run(m, k) = Run(l, k)
      /\ LinesBefore(m, k) = LinesBefore(l, k)
      /\ IsBackToBack(m, k) = IsBackToBack(l, k)
  <2>1. k \in 1 .. Len(l) + 1
    BY <1>0, <1>1
  <2> QED
    BY <2>1, BeforeKept
<1>3. 1 .. k + 1 - 1 = (1 .. k - 1) \cup {k}
  BY <1>0, <1>1
<1>4. ClearsBefore(m, k + 1) = ClearsBefore(m, k)
  BY <1>0, <1>1, <1>3 DEF ClearsBefore
<1>5. LinesBefore(m, k + 1) = LinesBefore(m, k) /\ IsBackToBack(m, k + 1) = IsBackToBack(m, k)
  BY <1>4 DEF LinesBefore, IsBackToBack
<1>6. CASE r.call # "lock"
  <2>1. MissesBefore(m, k + 1) = MissesBefore(m, k)
    BY <1>0, <1>1, <1>3, <1>6 DEF MissesBefore
  <2>2. Run(m, k + 1) = Run(m, k)
    BY <1>4, <2>1 DEF Run
  <2> QED
    BY <1>0, <1>1, <1>2, <1>4, <1>5, <1>6, <2>2
<1>7. CASE r.call = "lock"
  <2>1. k \in MissesBefore(m, k + 1)
    BY <1>0, <1>1, <1>7 DEF MissesBefore
  <2>2. ClearsBefore(m, k) \subseteq 1 .. k - 1
    BY DEF ClearsBefore
  <2>3. Run(m, k + 1) = {}
    BY <1>0, <1>1, <1>4, <2>1, <2>2 DEF Run
  <2> QED
    BY <1>0, <1>1, <1>2, <1>4, <1>5, <1>7, <2>3
<1> QED
  BY <1>6, <1>7

LEMMA AfterClear ==
    ASSUME NEW l \in Seq(Calls), NEW r \in Calls, r.call = "lock", r.n # 0,
           NEW m, m = Append(l, r)
    PROVE  /\ LinesBefore(m, Len(m) + 1) = LinesBefore(l, Len(l) + 1) + r.n
           /\ IsBackToBack(m, Len(m) + 1) = (r.n = 4)
           /\ Cardinality(Run(m, Len(m) + 1)) = Cardinality(Run(l, Len(l) + 1)) + 1
<1> DEFINE k == Len(l) + 1
<1>0. k = Len(l) + 1
  OBVIOUS
<1> HIDE DEF k
<1>1. /\ m \in Seq(Calls) /\ Len(m) = Len(l) + 1 /\ Len(l) \in Nat /\ m[k] = r
      /\ r.n \in 1 .. 4 /\ k \in 1 .. Len(l) + 1 /\ k \in 1 .. Len(m) + 1
      /\ k + 1 \in 1 .. Len(m) + 1 /\ k \in Nat
  BY <1>0, OneMore, CallFields
<1>2. /\ ClearsBefore(m, k) = ClearsBefore(l, k)
      /\ MissesBefore(m, k) = MissesBefore(l, k)
      /\ Run(m, k) = Run(l, k)
      /\ LinesBefore(m, k) = LinesBefore(l, k)
  BY <1>1, BeforeKept
<1> DEFINE C == ClearsBefore(m, k)
<1>3. C \subseteq 1 .. k - 1 /\ IsFiniteSet(C) /\ IsFiniteSet(Run(m, k)) /\ C \subseteq DOMAIN m
      /\ Run(m, k) \subseteq C
  BY <1>1, EarlierCalls
<1>4. 1 .. k + 1 - 1 = (1 .. k - 1) \cup {k}
  BY <1>0, <1>1
<1>5. ClearsBefore(m, k + 1) = C \cup {k} /\ k \notin C
  BY <1>1, <1>4 DEF ClearsBefore
<1>6. MissesBefore(m, k + 1) = MissesBefore(m, k)
  BY <1>1, <1>4 DEF MissesBefore
<1>7. Run(m, k + 1) = Run(m, k) \cup {k} /\ k \notin Run(m, k)
  <2>1. \A j \in MissesBefore(m, k) : j < k
    BY <1>1 DEF MissesBefore
  <2> QED
    BY <1>3, <1>5, <1>6, <2>1 DEF Run
<1>8. Cardinality(Run(m, k + 1)) = Cardinality(Run(m, k)) + 1
  <2>1. IsFiniteSet(Run(m, k))
    BY <1>3
  <2> QED
    BY <1>7, <2>1, FS_AddElement
<1>9. LinesBefore(m, k + 1) = LinesBefore(m, k) + r.n
  <2>1. \A j \in DOMAIN m : m[j] \in Calls
    BY <1>0, <1>1
  <2>2. \A j \in DOMAIN m : LinesOf(m)[j] = m[j].n /\ LinesOf(m)[j] \in Nat
    BY <2>1, CallFields DEF LinesOf
  <2>3. k \in DOMAIN m
    BY <1>0, <1>1
  <2>4. Sum(LinesOf(m), C \cup {k}) = LinesOf(m)[k] + Sum(LinesOf(m), C)
    BY <1>3, <1>5, <2>2, <2>3, SumAdd
  <2>5. Sum(LinesOf(m), C) \in Nat
    BY <1>3, <2>2, SumType
  <2>6. LinesBefore(m, k + 1) = Sum(LinesOf(m), C \cup {k}) /\ LinesBefore(m, k) = Sum(LinesOf(m), C)
    BY <1>1, <1>5, LinesAreSum
  <2> QED
    BY <1>1, <2>2, <2>3, <2>4, <2>5, <2>6
<1>10. IsBackToBack(m, k + 1) = (r.n = 4)
  <2>1. C \cup {k} \in SUBSET Int /\ IsFiniteSet(C \cup {k})
    <3>1. C \in SUBSET Int /\ k \in Int
      BY <1>1, <1>3
    <3>2. IsFiniteSet(C)
      BY <1>3
    <3> HIDE DEF C
    <3> QED
      BY <3>1, <3>2, FS_AddElement
  <2>2. Max(C \cup {k}) \in C \cup {k} /\ k <= Max(C \cup {k})
    BY <2>1, LargestIsIn
  <2>3. Max(C \cup {k}) = k
    BY <1>1, <1>3, <2>2
  <2>4. ClearsBefore(m, k + 1) # {} /\ m[Max(ClearsBefore(m, k + 1))].n = r.n
    BY <1>1, <1>5, <2>3
  <2> QED
    BY <2>4 DEF IsBackToBack
<1> QED
  BY <1>0, <1>1, <1>2, <1>8, <1>9, <1>10

-----------------------------------------------------------------------------
(* The running state is what the calls so far make of it: that is what every    *)
(* step needs to add the right points, and what ScoreIsWorth alone forgets.    *)

Running ==
    /\ lines = LinesBefore(log, Len(log) + 1)
    /\ combo = Cardinality(Run(log, Len(log) + 1))
    /\ backToBack = IsBackToBack(log, Len(log) + 1)

WorthInv == Inv /\ Running /\ ScoreIsWorth

LEMMA InitWorth == Init => WorthInv
<1> SUFFICES ASSUME Init
             PROVE  WorthInv
  OBVIOUS
<1>1. Inv /\ log = <<>> /\ log \in Seq(Calls) /\ Len(log) = 0 /\ DOMAIN log = {}
  BY InitInv DEF Init
<1>2. ClearsBefore(log, Len(log) + 1) = {} /\ Run(log, Len(log) + 1) = {}
  BY <1>1 DEF ClearsBefore, Run
<1>3. Sum(LinesOf(log), {}) = 0 /\ Sum(WorthsOf(log), {}) = 0
  BY FS_EmptySet, SumStep
<1>4. LinesBefore(log, Len(log) + 1) = 0
  <2>1. Len(log) + 1 \in 1 .. Len(log) + 1
    BY <1>1
  <2> QED
    BY <1>1, <1>2, <1>3, <2>1, LinesAreSum
<1>5. IsBackToBack(log, Len(log) + 1) = FALSE
  BY <1>2 DEF IsBackToBack
<1>6. Running
  BY <1>2, <1>4, <1>5, FS_EmptySet DEF Init, Running
<1>7. ScoreIsWorth
  BY <1>1, <1>3, WorthsAreSum DEF Init, ScoreIsWorth
<1> QED
  BY <1>1, <1>6, <1>7 DEF WorthInv

(* A call is logged, with its points added.                                   *)
LEMMA CalledLogs ==
    ASSUME WorthInv, NEW c, NEW n, [call |-> c, n |-> n] \in Calls, Called(c, n)
    PROVE  /\ log \in Seq(Calls)
           /\ log' = Append(log, [call |-> c, n |-> n])
           /\ Len(log') = Len(log) + 1
           /\ log'[Len(log) + 1] = [call |-> c, n |-> n]
           /\ score' = score + Worth(log', Len(log) + 1) => ScoreIsWorth'
<1>1. log \in Seq(Calls) /\ log' = Append(log, [call |-> c, n |-> n])
  BY DEF WorthInv, Inv, TypeOK, Calls, Called
<1>2. Len(log') = Len(log) + 1 /\ log'[Len(log) + 1] = [call |-> c, n |-> n]
  BY <1>1, OneMore
<1>3. TotalWorth(log') = TotalWorth(log) + Worth(log', Len(log) + 1)
  BY <1>1, WorthAdded
<1> QED
  BY <1>1, <1>2, <1>3 DEF WorthInv, ScoreIsWorth

LEMMA DropWorth ==
    ASSUME WorthInv, NEW c \in {"soft", "hard"}, NEW n, [call |-> c, n |-> n] \in Calls,
           Called(c, n), score' = score + (IF c = "soft" THEN 1 ELSE 2 * n),
           UNCHANGED <<lines, combo, backToBack>>
    PROVE  Running' /\ ScoreIsWorth'
<1> DEFINE r == [call |-> c, n |-> n]
           k == Len(log) + 1
<1>0. k = Len(log) + 1
  OBVIOUS
<1>1. /\ log \in Seq(Calls) /\ log' = Append(log, r) /\ Len(log') = k /\ log'[k] = r
      /\ score' = score + Worth(log', k) => ScoreIsWorth'
  BY CalledLogs
<1>2. r.call = c /\ r.n = n /\ r.call # "lock" /\ r \in Calls
  OBVIOUS
<1>3. Worth(log', k) = IF c = "soft" THEN 1 ELSE 2 * n
  BY <1>1, <1>2 DEF Worth
<1> HIDE DEF r, k
<1>4. /\ LinesBefore(log', Len(log') + 1) = LinesBefore(log, Len(log) + 1)
      /\ IsBackToBack(log', Len(log') + 1) = IsBackToBack(log, Len(log) + 1)
      /\ Run(log', Len(log') + 1) = Run(log, Len(log) + 1)
  BY <1>0, <1>1, <1>2, AfterNoClear
<1> QED
  BY <1>0, <1>1, <1>3, <1>4 DEF WorthInv, Running

LEMMA MissWorth ==
    ASSUME WorthInv, NoLines
    PROVE  Running' /\ ScoreIsWorth'
<1> DEFINE r == [call |-> "lock", n |-> 0]
           k == Len(log) + 1
<1>0. k = Len(log) + 1
  OBVIOUS
<1>1. r.call = "lock" /\ r.n = 0 /\ r \in Calls
  BY DEF Calls, Locks
<1>2. /\ log \in Seq(Calls) /\ log' = Append(log, r) /\ Len(log') = k /\ log'[k] = r
      /\ score' = score + Worth(log', k) => ScoreIsWorth'
  BY <1>1, CalledLogs DEF NoLines
<1>3. Worth(log', k) = 0
  BY <1>1, <1>2 DEF Worth
<1> HIDE DEF r, k
<1>4. /\ LinesBefore(log', Len(log') + 1) = LinesBefore(log, Len(log) + 1)
      /\ IsBackToBack(log', Len(log') + 1) = IsBackToBack(log, Len(log) + 1)
      /\ Run(log', Len(log') + 1) = {}
  BY <1>0, <1>1, <1>2, AfterNoClear
<1>5. Running'
  BY <1>0, <1>2, <1>4, FS_EmptySet DEF NoLines, WorthInv, Running
<1>6. score' = score + 0 /\ score \in Nat
  BY DEF NoLines, WorthInv, Inv, TypeOK
<1> QED
  BY <1>2, <1>3, <1>5, <1>6

LEMMA ClearWorth ==
    ASSUME WorthInv, NEW n \in 1 .. 4, LinesCleared(n)
    PROVE  Running' /\ ScoreIsWorth'
<1> DEFINE r == [call |-> "lock", n |-> n]
           k == Len(log) + 1
<1>0. k = Len(log) + 1
  OBVIOUS
<1>1. r.call = "lock" /\ r.n = n /\ r.n # 0 /\ r \in Calls
  BY DEF Calls, Locks
<1>2. /\ log \in Seq(Calls) /\ log' = Append(log, r) /\ Len(log') = k /\ log'[k] = r
      /\ score' = score + Worth(log', k) => ScoreIsWorth'
  BY <1>1, CalledLogs DEF LinesCleared
<1> HIDE DEF r, k
<1>3. /\ LinesBefore(log', Len(log') + 1) = LinesBefore(log, Len(log) + 1) + n
      /\ IsBackToBack(log', Len(log') + 1) = (n = 4)
      /\ Cardinality(Run(log', Len(log') + 1)) = Cardinality(Run(log, Len(log) + 1)) + 1
  BY <1>0, <1>1, <1>2, AfterClear
<1>4. Running'
  BY <1>0, <1>2, <1>3 DEF LinesCleared, WorthInv, Running
<1>5. /\ LinesBefore(log', k) = lines
      /\ Run(log', k) = Run(log, k)
      /\ IsBackToBack(log', k) = backToBack
  <2>1. k \in 1 .. Len(log) + 1
    BY <1>0, <1>2
  <2> QED
    BY <1>0, <1>1, <1>2, <2>1, BeforeKept DEF WorthInv, Running
<1>6. /\ lines \in Nat /\ level \in Nat \ {0} /\ combo \in Nat /\ score \in Nat
      /\ level = lines \div 10 + 1
  BY DEF WorthInv, Inv, TypeOK, LevelFollowsLines
<1>7. ComboBonus(combo') = 50 * Cardinality(Run(log', k))
  <2>1. \A q \in Nat : ComboBonus(q + 1) = 50 * q
    BY DEF ComboBonus
  <2>2. combo = Cardinality(Run(log', k)) /\ combo' = combo + 1
    BY <1>0, <1>5 DEF LinesCleared, WorthInv, Running
  <2> QED
    BY <1>6, <2>1, <2>2
<1>8. Worth(log', k) = LineScore(n) + 50 * Cardinality(Run(log', k)) + BackToBackBonus(n)
  BY <1>1, <1>2, <1>5, <1>6 DEF Worth, LineScore, BackToBackBonus
<1>9. /\ LineScore(n) \in Nat /\ BackToBackBonus(n) \in Nat
      /\ Cardinality(Run(log', k)) \in Nat
  BY <1>0, <1>5, <1>6 DEF LineScore, BackToBackBonus, WorthInv, Running
<1>10. score' = score + Worth(log', k)
  BY <1>6, <1>7, <1>8, <1>9 DEF LinesCleared
<1> QED
  BY <1>2, <1>4, <1>10

LEMMA StepWorth == WorthInv /\ [Next]_vars => WorthInv'
<1> SUFFICES ASSUME WorthInv, [Next]_vars
             PROVE  WorthInv'
  OBVIOUS
<1>1. Inv'
  BY StepInv DEF WorthInv
<1>2. CASE AddSoftDrop
  <2>1. [call |-> "soft", n |-> 1] \in Calls
    BY DEF Calls, SoftDrops
  <2> QED
    BY <1>1, <1>2, <2>1, DropWorth DEF AddSoftDrop, WorthInv
<1>3. ASSUME NEW n \in 1 .. MaxDrop, AddHardDrop(n)
      PROVE  WorthInv'
  <2>1. [call |-> "hard", n |-> n] \in Calls
    BY DEF Calls, HardDrops
  <2> QED
    BY <1>1, <1>3, <2>1, DropWorth DEF AddHardDrop, WorthInv
<1>4. CASE NoLines
  BY <1>1, <1>4, MissWorth DEF WorthInv
<1>5. ASSUME NEW n \in 1 .. 4, LinesCleared(n)
      PROVE  WorthInv'
  BY <1>1, <1>5, ClearWorth DEF WorthInv
<1>6. CASE UNCHANGED vars
  BY <1>1, <1>6 DEF vars, WorthInv, Running, ScoreIsWorth
<1> QED
  BY <1>2, <1>3, <1>4, <1>5, <1>6 DEF Next, OnLinesCleared

(* Score.cpp keeps its types: no counter becomes negative, no level is zero.    *)
THEOREM ScoreTypes == Spec => []TypeOK
<1>1. Spec => []Inv
  BY InitInv, StepInv, PTL DEF Spec
<1> QED
  BY <1>1, PTL DEF Inv

(* Score::UpdateLevel: whatever the calls, the level is the one of the lines.   *)
THEOREM LevelFollowsLinesHolds == Spec => []LevelFollowsLines
<1>1. Spec => []Inv
  BY InitInv, StepInv, PTL DEF Spec
<1> QED
  BY <1>1, PTL DEF Inv

(* Score.cpp adds every point with a running state; the total is what the       *)
(* calls are worth by the whole game before each.                            *)
THEOREM ScoreIsWorthHolds == Spec => []ScoreIsWorth
<1>1. Spec => []WorthInv
  BY InitWorth, StepWorth, PTL DEF Spec
<1> QED
  BY <1>1, PTL DEF WorthInv
=============================================================================
