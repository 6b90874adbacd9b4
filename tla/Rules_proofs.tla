---------------------------- MODULE Rules_proofs ----------------------------
(***************************************************************************)
(* What the proofs of several modules rest on: induction, sums, and the rules *)
(* of the game that the single and the multiplayer game share, the minos and  *)
(* boards of module Board and the bag of module BagRandom.                  *)
(***************************************************************************)
EXTENDS Board, BagRandom, FiniteSetTheorems, TLAPS

-----------------------------------------------------------------------------
(* Induction.  A property is given as the set of what has it, or of what has    *)
(* not: then the least counterexample is an element of a set.                *)

(* A set of numbers that is not empty has a least one.                       *)
LEMMA LeastNumber ==
    ASSUME NEW T \in SUBSET Nat, T # {}
    PROVE  \E x \in T : \A y \in T : x <= y
<1> DEFINE R == OpToRel(<, Nat)
<1>1. IsWellFoundedOn(R, Nat)
  BY NatLessThanWellFounded
<1>2. \A x, y \in Nat : y < x => <<y, x>> \in R
  BY DEF OpToRel
<1> HIDE DEF R
<1>3. PICK x \in T : \A y \in T : <<y, x>> \notin R
  BY <1>1, WFMin
<1>4. \A y \in T : ~(y < x)
  BY <1>2, <1>3
<1> QED
  BY <1>4

(* What holds of zero and of the successor of each number it holds of.       *)
LEMMA NatInd ==
    ASSUME NEW S, 0 \in S, \A n \in Nat : n \in S => n + 1 \in S
    PROVE  Nat \subseteq S
<1> SUFFICES ASSUME Nat \ S # {}
             PROVE  FALSE
  OBVIOUS
<1>1. PICK x \in Nat \ S : \A y \in Nat \ S : x <= y
  BY LeastNumber
<1>2. x - 1 \in Nat /\ ~(x <= x - 1) /\ x = (x - 1) + 1
  BY <1>1
<1> QED
  BY <1>1, <1>2

(* Among subsets of a finite set there is one with no other inside.          *)
LEMMA SmallestSubset ==
    ASSUME NEW S, IsFiniteSet(S), NEW P \in SUBSET SUBSET S, P # {}
    PROVE  \E m \in P : \A s \in SUBSET m : s # m => s \notin P
<1> DEFINE R == StrictSubsetOrdering(S)
<1>1. IsWellFoundedOn(R, SUBSET S)
  BY FS_StrictSubsetOrderingWellFounded, FS_FiniteSubsetsOfFinite
<1>2. \A s, t \in SUBSET S : s \subseteq t /\ s # t => <<s, t>> \in R
  BY DEF StrictSubsetOrdering
<1> HIDE DEF R
<1>3. PICK m \in P : \A s \in P : <<s, m>> \notin R
  BY <1>1, WFMin
<1> QED
  BY <1>2, <1>3

(* A finite set of integers that is not empty has a greatest one.             *)
LEMMA LargestIsIn ==
    ASSUME NEW T \in SUBSET Int, IsFiniteSet(T), T # {}
    PROVE  Max(T) \in T /\ \A x \in T : x <= Max(T)
<1> DEFINE P == {s \in SUBSET T : s # {} /\ ~\E x \in s : \A y \in s : x >= y}
<1>1. P = {}
  <2> SUFFICES ASSUME P # {}
               PROVE  FALSE
    OBVIOUS
  <2>1. PICK m \in P : \A s \in SUBSET m : s # m => s \notin P
    <3>1. P \in SUBSET SUBSET T
      OBVIOUS
    <3> HIDE DEF P
    <3> QED
      BY <3>1, SmallestSubset
  <2>2. PICK x \in m : TRUE
    BY <2>1
  <2>3. m \ {x} # {}
    BY <2>1, <2>2
  <2>4. PICK z \in m \ {x} : \A y \in m \ {x} : z >= y
    BY <2>1, <2>2, <2>3
  <2> QED
    BY <2>1, <2>2, <2>4
<1>2. \E x \in T : \A y \in T : x >= y
  BY <1>1
<1> QED
  BY <1>2 DEF Max

-----------------------------------------------------------------------------
(* Sums.  The folds of the community modules are the value at T of the function *)
(* that takes one element after the other out of T; such a function exists for *)
(* a finite set, there is one only, and the order does not matter.            *)

Some(s) == CHOOSE x \in s : TRUE

IsSum(f, T, it) ==
    it = [s \in SUBSET T |-> IF s = {} THEN 0 ELSE f[Some(s)] + it[s \ {Some(s)}]]

Sum(f, T) == (CHOOSE it : IsSum(f, T, it))[T]

LEMMA SomeIsIn ==
    ASSUME NEW s, s # {}
    PROVE  Some(s) \in s
  BY DEF Some

(* The sum of the model is this one.                                         *)
LEMMA SumIsFold ==
    ASSUME NEW f, NEW T
    PROVE  FoldFunctionOnSet(+, 0, f, T) = Sum(f, T)
  BY Zenon DEF FoldFunctionOnSet, MapThenFoldSet, Sum, IsSum, Some

(* Two such functions agree where both are defined.                          *)
LEMMA SumUnique ==
    ASSUME NEW f, NEW T, IsFiniteSet(T), NEW U \in SUBSET T,
           NEW g, IsSum(f, T, g), NEW h, IsSum(f, U, h)
    PROVE  \A s \in SUBSET U : g[s] = h[s]
<1> DEFINE P == {s \in SUBSET U : g[s] # h[s]}
<1> SUFFICES ASSUME P # {}
             PROVE  FALSE
  OBVIOUS
<1>1. IsFiniteSet(U)
  BY FS_Subset
<1>2. PICK m \in P : \A s \in SUBSET m : s # m => s \notin P
  <2>1. P \in SUBSET SUBSET U
    OBVIOUS
  <2> HIDE DEF P
  <2> QED
    BY <1>1, <2>1, SmallestSubset
<1>3. m # {}
  BY <1>2 DEF IsSum
<1>4. Some(m) \in m
  BY <1>3, SomeIsIn
<1>5. g[m \ {Some(m)}] = h[m \ {Some(m)}]
  BY <1>2, <1>4
<1>6. g[m] = f[Some(m)] + g[m \ {Some(m)}]
  BY <1>2, <1>3 DEF IsSum
<1>7. h[m] = f[Some(m)] + h[m \ {Some(m)}]
  BY <1>2, <1>3 DEF IsSum
<1> QED
  BY <1>2, <1>5, <1>6, <1>7

(* On the smallest set without one it can be put together from those of the  *)
(* smaller sets.                                                             *)
LEMMA SumExists ==
    ASSUME NEW f, NEW T, IsFiniteSet(T)
    PROVE  \A U \in SUBSET T : \E it : IsSum(f, U, it)
<1> DEFINE P == {U \in SUBSET T : ~\E it : IsSum(f, U, it)}
<1> SUFFICES ASSUME P # {}
             PROVE  FALSE
  OBVIOUS
<1>1. PICK m \in P : \A s \in SUBSET m : s # m => s \notin P
  <2>1. P \in SUBSET SUBSET T
    OBVIOUS
  <2> HIDE DEF P
  <2> QED
    BY <2>1, SmallestSubset
<1> DEFINE it == [s \in SUBSET m |->
                    IF s = {} THEN 0 ELSE f[Some(s)] + Sum(f, s \ {Some(s)})]
<1>2. \A s \in SUBSET m : s # m => IsSum(f, s, CHOOSE g : IsSum(f, s, g))
  BY <1>1
<1>3. ASSUME NEW s \in SUBSET m, s # m
      PROVE  it[s] = Sum(f, s)
  <2> DEFINE g == CHOOSE g : IsSum(f, s, g)
  <2>1. IsSum(f, s, g)
    BY <1>2, <1>3
  <2>2. Sum(f, s) = g[s]
    BY DEF Sum
  <2>3. g[s] = IF s = {} THEN 0 ELSE f[Some(s)] + g[s \ {Some(s)}]
    <3> HIDE DEF g
    <3> QED
      BY <2>1 DEF IsSum
  <2>4. CASE s # {}
    <3> DEFINE r == s \ {Some(s)}
               h == CHOOSE h : IsSum(f, r, h)
    <3>1. r \in SUBSET m /\ r # m /\ r \in SUBSET s
      BY <1>3
    <3>2. IsSum(f, r, h)
      BY <3>1, <1>2
    <3>3. Sum(f, r) = h[r]
      BY DEF Sum
    <3>4. IsFiniteSet(s)
      BY <1>1, FS_Subset
    <3>5. g[r] = h[r]
      <4> HIDE DEF g, h, r
      <4> QED
        BY <2>1, <3>1, <3>2, <3>4, SumUnique
    <3> QED
      BY <2>2, <2>3, <2>4, <3>3, <3>5
  <2> QED
    BY <2>2, <2>3, <2>4
<1>4. IsSum(f, m, it)
  <2>1. ASSUME NEW s \in SUBSET m, s # {}
        PROVE  it[s \ {Some(s)}] = Sum(f, s \ {Some(s)})
    <3>1. Some(s) \in s
      BY <2>1, SomeIsIn
    <3> HIDE DEF it
    <3> QED
      BY <1>3, <3>1
  <2> QED
    BY <2>1 DEF IsSum
<1> QED
  BY <1>1, <1>4

(* The equation that the sum was defined by.                                 *)
LEMMA SumStep ==
    ASSUME NEW f, NEW T, IsFiniteSet(T)
    PROVE  /\ Sum(f, {}) = 0
           /\ T # {} => Sum(f, T) = f[Some(T)] + Sum(f, T \ {Some(T)})
<1> DEFINE c == Some(T)
           g == CHOOSE g : IsSum(f, T, g)
           h == CHOOSE h : IsSum(f, T \ {c}, h)
           e == CHOOSE e : IsSum(f, {}, e)
<1>1. IsSum(f, T, g) /\ IsSum(f, T \ {c}, h) /\ IsSum(f, {}, e)
  <2>1. \E it : IsSum(f, T, it)
    BY SumExists
  <2>2. \E it : IsSum(f, T \ {c}, it)
    BY SumExists
  <2>3. \E it : IsSum(f, {}, it)
    BY SumExists
  <2> QED
    BY <2>1, <2>2, <2>3
<1>2. Sum(f, T) = g[T] /\ Sum(f, T \ {c}) = h[T \ {c}] /\ Sum(f, {}) = e[{}]
  BY DEF Sum
<1> HIDE DEF g, h, e
<1>3. g[T \ {c}] = h[T \ {c}]
  BY <1>1, SumUnique
<1>4. e[{}] = 0
  BY <1>1 DEF IsSum
<1>5. T # {} => g[T] = f[c] + g[T \ {c}]
  BY <1>1 DEF IsSum
<1> QED
  BY <1>2, <1>3, <1>4, <1>5

LEMMA SumType ==
    ASSUME NEW f, NEW T, IsFiniteSet(T), \A x \in T : f[x] \in Nat
    PROVE  \A U \in SUBSET T : Sum(f, U) \in Nat
<1> DEFINE P == {U \in SUBSET T : Sum(f, U) \notin Nat}
<1> SUFFICES ASSUME P # {}
             PROVE  FALSE
  OBVIOUS
<1>1. PICK m \in P : \A s \in SUBSET m : s # m => s \notin P
  <2>1. P \in SUBSET SUBSET T
    OBVIOUS
  <2> HIDE DEF P
  <2> QED
    BY <2>1, SmallestSubset
<1>2. IsFiniteSet(m)
  BY <1>1, FS_Subset
<1>3. m # {}
  <2>1. Sum(f, {}) = 0 /\ Sum(f, m) \notin Nat
    BY <1>1, SumStep
  <2> HIDE DEF P
  <2> QED
    BY <2>1
<1>4. Some(m) \in m /\ f[Some(m)] \in Nat
  BY <1>1, <1>3, SomeIsIn
<1>5. Sum(f, m \ {Some(m)}) \in Nat
  BY <1>1, <1>4
<1>6. Sum(f, m) = f[Some(m)] + Sum(f, m \ {Some(m)})
  BY <1>2, <1>3, SumStep
<1> QED
  BY <1>1, <1>4, <1>5, <1>6

(* Any element may be taken out first.                                       *)
LEMMA SumRemove ==
    ASSUME NEW f, NEW T, IsFiniteSet(T), \A x \in T : f[x] \in Nat
    PROVE  \A x \in T : Sum(f, T) = f[x] + Sum(f, T \ {x})
<1> DEFINE Splits(U, x) == Sum(f, U) = f[x] + Sum(f, U \ {x})
           P == {U \in SUBSET T : \E x \in U : ~Splits(U, x)}
<1> SUFFICES ASSUME P # {}
             PROVE  FALSE
  OBVIOUS
<1>1. PICK m \in P : \A s \in SUBSET m : s # m => s \notin P
  <2>1. P \in SUBSET SUBSET T
    OBVIOUS
  <2> HIDE DEF P
  <2> QED
    BY <2>1, SmallestSubset
<1>2. PICK x \in m : ~Splits(m, x)
  BY <1>1
<1> DEFINE c == Some(m)
<1>3. c \in m
  BY <1>1, SomeIsIn
<1>4. Splits(m, c)
  <2>1. IsFiniteSet(m)
    BY <1>1, FS_Subset
  <2> QED
    BY <1>3, <2>1, SumStep
<1>5. c # x
  BY <1>2, <1>4
<1> HIDE DEF c
<1>6. Splits(m \ {c}, x) /\ Splits(m \ {x}, c)
  <2> HIDE DEF Splits
  <2> QED
    BY <1>1, <1>2, <1>3, <1>5
<1>7. (m \ {c}) \ {x} = (m \ {x}) \ {c} /\ m \in SUBSET T
  BY <1>1
<1>8. Sum(f, (m \ {x}) \ {c}) \in Nat /\ f[x] \in Nat /\ f[c] \in Nat
  BY <1>2, <1>3, <1>7, SumType
<1> HIDE DEF P
<1> QED
  BY <1>2, <1>4, <1>6, <1>7, <1>8

LEMMA SumAdd ==
    ASSUME NEW f, NEW T, IsFiniteSet(T), NEW x, x \notin T, \A y \in T \cup {x} : f[y] \in Nat
    PROVE  Sum(f, T \cup {x}) = f[x] + Sum(f, T)
<1>1. IsFiniteSet(T \cup {x}) /\ (T \cup {x}) \ {x} = T
  BY FS_AddElement
<1> QED
  BY <1>1, SumRemove

(* Only the values on the set matter.                                        *)
LEMMA SumSame ==
    ASSUME NEW f, NEW g, NEW T, IsFiniteSet(T), \A x \in T : f[x] = g[x]
    PROVE  Sum(f, T) = Sum(g, T)
<1> DEFINE P == {U \in SUBSET T : Sum(f, U) # Sum(g, U)}
<1> SUFFICES ASSUME P # {}
             PROVE  FALSE
  OBVIOUS
<1>1. PICK m \in P : \A s \in SUBSET m : s # m => s \notin P
  <2>1. P \in SUBSET SUBSET T
    OBVIOUS
  <2> HIDE DEF P
  <2> QED
    BY <2>1, SmallestSubset
<1>2. IsFiniteSet(m)
  BY <1>1, FS_Subset
<1>3. Sum(f, {}) = 0 /\ Sum(g, {}) = 0
  BY <1>2, SumStep
<1>4. m # {}
  BY <1>1, <1>3
<1>5. Some(m) \in m
  BY <1>4, SomeIsIn
<1>6. Sum(f, m \ {Some(m)}) = Sum(g, m \ {Some(m)}) /\ f[Some(m)] = g[Some(m)]
  BY <1>1, <1>5
<1>7. /\ Sum(f, m) = f[Some(m)] + Sum(f, m \ {Some(m)})
      /\ Sum(g, m) = g[Some(m)] + Sum(g, m \ {Some(m)})
  BY <1>2, <1>4, SumStep
<1> QED
  BY <1>1, <1>6, <1>7

LEMMA SumZero ==
    ASSUME NEW f, NEW T, IsFiniteSet(T), \A x \in T : f[x] = 0
    PROVE  Sum(f, T) = 0
<1> DEFINE P == {U \in SUBSET T : Sum(f, U) # 0}
<1> SUFFICES ASSUME P # {}
             PROVE  FALSE
  OBVIOUS
<1>1. PICK m \in P : \A s \in SUBSET m : s # m => s \notin P
  <2>1. P \in SUBSET SUBSET T
    OBVIOUS
  <2> HIDE DEF P
  <2> QED
    BY <2>1, SmallestSubset
<1>2. IsFiniteSet(m)
  BY <1>1, FS_Subset
<1>3. m # {}
  BY <1>1, <1>2, SumStep
<1>4. Some(m) \in m
  BY <1>3, SomeIsIn
<1>5. Sum(f, m) = f[Some(m)] + Sum(f, m \ {Some(m)})
  BY <1>2, <1>3, SumStep
<1>6. f[Some(m)] = 0 /\ Sum(f, m \ {Some(m)}) = 0
  BY <1>1, <1>4
<1> QED
  BY <1>1, <1>5, <1>6

(* No term is more than the sum.                                             *)
LEMMA SumBound ==
    ASSUME NEW f, NEW T, IsFiniteSet(T), \A x \in T : f[x] \in Nat
    PROVE  Sum(f, T) \in Nat /\ \A x \in T : f[x] <= Sum(f, T)
<1>1. \A U \in SUBSET T : Sum(f, U) \in Nat
  BY SumType
<1>2. \A x \in T : Sum(f, T) = f[x] + Sum(f, T \ {x})
  BY SumRemove
<1>3. ASSUME NEW x \in T
      PROVE  f[x] <= Sum(f, T)
  <2>1. Sum(f, T) = f[x] + Sum(f, T \ {x}) /\ Sum(f, T \ {x}) \in Nat
    BY <1>1, <1>2
  <2> QED
    BY <2>1
<1> QED
  BY <1>1, <1>3

(* One more at one place is one more in the sum.                             *)
LEMMA SumBump ==
    ASSUME NEW T, IsFiniteSet(T), NEW f \in [T -> Nat], NEW x \in T
    PROVE  Sum([f EXCEPT ![x] = @ + 1], T) = Sum(f, T) + 1
<1> DEFINE g == [f EXCEPT ![x] = @ + 1]
<1>1. \A y \in T : g[y] \in Nat
  OBVIOUS
<1>2. g[x] = f[x] + 1 /\ \A y \in T \ {x} : g[y] = f[y]
  OBVIOUS
<1>3. IsFiniteSet(T \ {x})
  BY FS_Subset
<1> HIDE DEF g
<1>4. Sum(g, T \ {x}) = Sum(f, T \ {x})
  BY <1>2, <1>3, SumSame
<1>5. Sum(g, T) = g[x] + Sum(g, T \ {x})
  BY <1>1, SumRemove
<1>6. Sum(f, T) = f[x] + Sum(f, T \ {x})
  BY SumRemove
<1>7. Sum(f, T \ {x}) \in Nat
  BY SumType
<1>8. Sum(g, T) = Sum(f, T) + 1
  BY <1>2, <1>4, <1>5, <1>6, <1>7
<1> QED
  BY <1>8 DEF g

-----------------------------------------------------------------------------
(* Minos.                                                                    *)
LEMMA SpawnIsMino ==
    ASSUME NEW t \in Type
    PROVE  AtSpawn(t) \in Mino(Type)
  BY SizeAssumption DEF AtSpawn, Mino

LEMMA MoveIsMino ==
    ASSUME NEW m \in Mino(Type), NEW dx \in Int, NEW dy \in Int
    PROVE  Moved(m, dx, dy) \in Mino(Type)
<1>1. m.x + dx \in Int /\ m.y + dy \in Int
  BY DEF Mino
<1>2. Moved(m, dx, dy) = [[m EXCEPT !.x = m.x + dx] EXCEPT !.y = m.y + dy]
  BY DEF Moved, Mino
<1> QED
  BY <1>1, <1>2 DEF Mino

LEMMA TurnIsMino ==
    ASSUME NEW m \in Mino(Type)
    PROVE  TurnedCW(m) \in Mino(Type) /\ TurnedCCW(m) \in Mino(Type)
  BY DEF TurnedCW, TurnedCCW, Mino

-----------------------------------------------------------------------------
(* The bag.                                                                  *)

(* A refill appends a sequence of types that is not empty.                    *)
LEMMA BagType ==
    ASSUME NEW b \in Bags(Type)
    PROVE  b \in Seq(Type) /\ Len(b) = Cardinality(Type) /\ Len(b) \in Nat \ {0}
<1>1. Cardinality(Type) \in Nat \ {0}
  BY BagAssumption, FS_CardinalityType, FS_EmptySet
<1>2. b \in [1 .. Cardinality(Type) -> Type]
  BY DEF Bags, SetToSeqs
<1> QED
  BY <1>1, <1>2

(* After Peek(i) there are types only, and enough of them to look at.          *)
LEMMA PeekedType ==
    ASSUME NEW q \in Seq(Type), NEW i \in Nat, i < Cardinality(Type),
           NEW r \in Peeked(q, i)
    PROVE  r \in Seq(Type) /\ Len(r) > i
<1>1. CASE Len(q) > i
  BY <1>1 DEF Peeked
<1>2. CASE ~(Len(q) > i)
  <2>1. PICK b \in Bags(Type) : r = q \o b
    BY <1>2 DEF Peeked
  <2>2. b \in Seq(Type) /\ Len(b) = Cardinality(Type) /\ Len(b) \in Nat \ {0}
    BY BagType
  <2> QED
    BY <2>1, <2>2
<1> QED
  BY <1>1, <1>2

LEMMA SizeOfBag == Cardinality(Type) \in Nat \ {0}
  BY BagAssumption, FS_CardinalityType, FS_EmptySet

LEMMA HeadAndTail ==
    ASSUME NEW q \in Seq(Type), NEW r \in Peeked(q, 0)
    PROVE  /\ r \in Seq(Type)
           /\ Head(r) \in Type
           /\ Tail(r) \in Seq(Type)
           /\ \A s \in Peeked(Tail(r), Preview - 1) : s \in Seq(Type)
<1>1. r \in Seq(Type) /\ Len(r) > 0
  BY PeekedType, SizeOfBag
<1>2. Head(r) \in Type /\ Tail(r) \in Seq(Type)
  BY <1>1
<1>3. Preview - 1 \in Nat /\ Preview - 1 < Cardinality(Type)
  BY PreviewAssumption, SizeOfBag
<1>4. \A s \in Peeked(Tail(r), Preview - 1) : s \in Seq(Type)
  BY <1>2, <1>3, PeekedType
<1> QED
  BY <1>1, <1>2, <1>4

-----------------------------------------------------------------------------
(* Boards: finite sets of cells.                                             *)

LEMMA CellsFinite ==
    /\ IsFiniteSet(Cells)
    /\ IsFiniteSet(Rows)
    /\ \A b \in SUBSET Cells : IsFiniteSet(b) /\ Cardinality(b) \in Nat
<1>1. IsFiniteSet(Columns) /\ IsFiniteSet(Rows)
  BY SizeAssumption, FS_Interval DEF Columns, Rows
<1>2. IsFiniteSet(Cells)
  BY <1>1, FS_Product DEF Cells
<1>3. ASSUME NEW b \in SUBSET Cells
      PROVE  IsFiniteSet(b) /\ Cardinality(b) \in Nat
  BY <1>2, FS_Subset, FS_CardinalityType
<1> QED
  BY <1>1, <1>2, <1>3

(* A cell is a pair of a column and a row.                                    *)
LEMMA CellParts ==
    ASSUME NEW c \in Cells
    PROVE  /\ c = <<c[1], c[2]>>
           /\ c[1] \in Columns /\ c[2] \in Rows
           /\ c[1] \in Int /\ c[2] \in Nat /\ c[2] < Height
  BY SizeAssumption DEF Cells, Columns, Rows

LEMMA RowSize ==
    ASSUME NEW y \in Rows
    PROVE  /\ Row(y) \subseteq Cells /\ IsFiniteSet(Row(y))
           /\ Cardinality(Row(y)) = Width
           /\ \A c \in Cells : c \in Row(y) <=> c[2] = y
<1>1. IsFiniteSet(Columns) /\ Cardinality(Columns) = Width
  BY SizeAssumption, FS_Interval DEF Columns
<1>2. IsFiniteSet({y}) /\ Cardinality({y}) = 1
  BY FS_Singleton
<1>3. IsFiniteSet(Row(y)) /\ Cardinality(Row(y)) = Width * 1
  BY <1>1, <1>2, FS_Product DEF Row
<1>4. Row(y) \subseteq Cells
  BY DEF Row, Cells
<1>5. \A c \in Cells : c \in Row(y) <=> c[2] = y
  BY CellParts DEF Row
<1> QED
  BY <1>3, <1>4, <1>5, SizeAssumption

(* What PullDown leaves: what is below the row, and what was above it, a row    *)
(* further down.                                                             *)
LEMMA PullDownType ==
    ASSUME NEW b, NEW y
    PROVE  PullDown(b, y) \in SUBSET Cells
  BY DEF PullDown

LEMMA PullDownSize ==
    ASSUME NEW b \in SUBSET Cells, NEW y \in Rows, IsFull(b, y)
    PROVE  Cardinality(PullDown(b, y)) = Cardinality(b) - Width
<1> DEFINE S == b \ Row(y)
           T == PullDown(b, y)
           f == [c \in S |-> IF c[2] < y THEN <<c[1], c[2] + 1>> ELSE c]
<1>1. \A c \in S : c \in Cells /\ c[2] # y /\ c \in b
  BY RowSize
<1>2. y \in Nat /\ y < Height
  BY SizeAssumption DEF Rows
<1>3. ASSUME NEW c \in S
      PROVE  f[c] \in T
  <2>1. c = <<c[1], c[2]>> /\ c[1] \in Columns /\ c[2] \in Nat /\ c[2] < Height /\ c[2] # y /\ c \in b
    BY <1>1, CellParts
  <2>2. CASE c[2] < y
    <3>1. <<c[1], c[2] + 1>> \in Cells
      BY <1>2, <2>1, <2>2, SizeAssumption DEF Cells, Rows
    <3> QED
      BY <1>2, <2>1, <2>2, <3>1 DEF PullDown
  <2>3. CASE ~(c[2] < y)
    BY <1>1, <1>2, <2>1, <2>3 DEF PullDown
  <2> QED
    BY <2>2, <2>3
<1>4. ASSUME NEW c \in S, NEW d \in S, f[c] = f[d]
      PROVE  c = d
  <2>1. c = <<c[1], c[2]>> /\ c[2] \in Nat /\ c[2] # y
    BY <1>1, CellParts
  <2>2. d = <<d[1], d[2]>> /\ d[2] \in Nat /\ d[2] # y
    BY <1>1, CellParts
  <2>3. f[c][1] = c[1] /\ f[c][2] = IF c[2] < y THEN c[2] + 1 ELSE c[2]
    BY <2>1
  <2>4. f[d][1] = d[1] /\ f[d][2] = IF d[2] < y THEN d[2] + 1 ELSE d[2]
    BY <2>2
  <2> HIDE DEF f
  <2>5. c[1] = d[1] /\ c[2] = d[2]
    BY <1>2, <1>4, <2>1, <2>2, <2>3, <2>4
  <2> QED
    BY <2>1, <2>2, <2>5
<1>5. ASSUME NEW t \in T
      PROVE  \E c \in S : f[c] = t
  <2>1. t \in Cells /\ (IF t[2] > y THEN t \in b ELSE t[2] > 0 /\ <<t[1], t[2] - 1>> \in b)
    BY DEF PullDown
  <2>2. t = <<t[1], t[2]>> /\ t[2] \in Nat
    BY <2>1, CellParts
  <2>3. CASE t[2] > y
    <3>1. t \in S /\ f[t] = t
      BY <1>2, <2>1, <2>2, <2>3, RowSize
    <3> QED
      BY <3>1
  <2>4. CASE ~(t[2] > y)
    <3> DEFINE c == <<t[1], t[2] - 1>>
    <3>1. c \in b /\ c \in Cells /\ c[2] = t[2] - 1 /\ c[1] = t[1]
      BY <2>1, <2>4
    <3>2. c[2] < y /\ c[2] # y /\ c[2] + 1 = t[2]
      BY <1>2, <2>2, <2>4, <3>1
    <3>3. c \in S
      BY <3>1, <3>2, RowSize
    <3>4. f[c] = t
      BY <2>2, <3>1, <3>2, <3>3
    <3> QED
      BY <3>3, <3>4
  <2> QED
    BY <2>3, <2>4
<1>6. IsFiniteSet(S) /\ Cardinality(S) = Cardinality(b) - Width
  <2>1. IsFiniteSet(b) /\ b \cap Row(y) = Row(y)
    BY CellsFinite DEF IsFull
  <2>2. /\ IsFiniteSet(b \ Row(y))
        /\ Cardinality(b \ Row(y)) = Cardinality(b) - Cardinality(b \cap Row(y))
    BY <2>1, FS_Difference
  <2> QED
    BY <2>1, <2>2, RowSize
<1>7. f \in Bijection(S, T)
  <2>1. f \in [S -> T]
    BY <1>3
  <2> HIDE DEF S, T, f
  <2> QED
    BY <1>4, <1>5, <2>1 DEF Bijection, Injection, IsInjective, Surjection
<1> HIDE DEF S, T, f
<1>8. Cardinality(T) = Cardinality(S)
  BY <1>6, <1>7, FS_Bijection DEF ExistsBijection
<1> QED
  BY <1>6, <1>8 DEF T

-----------------------------------------------------------------------------
(* The loop of ClearFullLines ends: with every step the row or the number of    *)
(* occupied cells becomes less.  So there is a function as ClearFrom asks for. *)

Loops == (SUBSET Cells) \X (Rows \cup {-1})

Left(at) == Cardinality(at[1]) + at[2] + 1

ClearStep(g, b, y) ==
    IF y < 0 THEN [cells |-> b, cleared |-> 0]
    ELSE IF IsFull(b, y)
    THEN [g[<<PullDown(b, y), y>>] EXCEPT !.cleared = @ + 1]
    ELSE g[<<b, y - 1>>]

LEMMA LoopParts ==
    ASSUME NEW at \in Loops
    PROVE  /\ at = <<at[1], at[2]>>
           /\ at[1] \in SUBSET Cells /\ at[2] \in Rows \cup {-1}
           /\ at[2] \in Int /\ at[2] < Height /\ at[2] >= -1
           /\ Left(at) \in Nat
<1>1. at = <<at[1], at[2]>> /\ at[1] \in SUBSET Cells /\ at[2] \in Rows \cup {-1}
  BY DEF Loops
<1>2. at[2] \in Int /\ at[2] < Height /\ at[2] >= -1
  BY <1>1, SizeAssumption DEF Rows
<1>3. Cardinality(at[1]) \in Nat
  BY <1>1, CellsFinite
<1> QED
  BY <1>1, <1>2, <1>3 DEF Left

LEMMA LoopLess ==
    ASSUME NEW b \in SUBSET Cells, NEW y \in Rows
    PROVE  /\ <<b, y>> \in Loops
           /\ <<b, y - 1>> \in Loops /\ Left(<<b, y - 1>>) < Left(<<b, y>>)
           /\ <<PullDown(b, y), y>> \in Loops
           /\ IsFull(b, y) => Left(<<PullDown(b, y), y>>) < Left(<<b, y>>)
<1>1. y - 1 \in Rows \cup {-1} /\ y \in Int
  BY SizeAssumption DEF Rows
<1>2. PullDown(b, y) \in SUBSET Cells
  BY PullDownType
<1>3. Cardinality(b) \in Nat
  BY CellsFinite
<1>4. IsFull(b, y) => Cardinality(PullDown(b, y)) = Cardinality(b) - Width
  BY PullDownSize
<1> QED
  BY <1>1, <1>2, <1>3, <1>4, SizeAssumption DEF Loops, Left

(* A solution of the equation for the loops that have less than n left.        *)
LoopsBelow(n) == {at \in Loops : Left(at) < n}
Solves(g, n)  == g = [at \in LoopsBelow(n) |-> ClearStep(g, at[1], at[2])]

LEMMA SolutionBelow ==
    \A n \in Nat : \E g : Solves(g, n)
<1> DEFINE S == {n \in Nat : \E g : Solves(g, n)}
<1>1. 0 \in S
  <2>1. LoopsBelow(0) = {}
    BY LoopParts DEF LoopsBelow
  <2>2. Solves([at \in {} |-> 0], 0)
    BY <2>1 DEF Solves
  <2> QED
    BY <2>2
<1>2. ASSUME NEW n \in Nat, n \in S
      PROVE  n + 1 \in S
  <2>1. PICK g : Solves(g, n)
    BY <1>2
  <2> DEFINE h == [at \in LoopsBelow(n + 1) |-> ClearStep(g, at[1], at[2])]
  <2>2. ASSUME NEW at \in LoopsBelow(n)
        PROVE  h[at] = g[at]
    <3>1. at \in LoopsBelow(n + 1)
      BY LoopParts DEF LoopsBelow
    <3>2. g[at] = ClearStep(g, at[1], at[2])
      BY <2>1 DEF Solves
    <3> QED
      BY <3>1, <3>2
  <2>3. ASSUME NEW at \in LoopsBelow(n + 1)
        PROVE  ClearStep(g, at[1], at[2]) = ClearStep(h, at[1], at[2])
    <3> DEFINE b == at[1]
               y == at[2]
    <3>1. at \in Loops /\ at = <<b, y>> /\ Left(at) < n + 1
      BY LoopParts DEF LoopsBelow
    <3>2. b \in SUBSET Cells /\ y \in Rows \cup {-1} /\ Left(at) \in Nat
      BY <3>1, LoopParts
    <3> HIDE DEF b, y, h
    <3>3. CASE y \in Rows
      <4>1. /\ <<b, y - 1>> \in Loops /\ Left(<<b, y - 1>>) < Left(at)
            /\ <<PullDown(b, y), y>> \in Loops
            /\ IsFull(b, y) => Left(<<PullDown(b, y), y>>) < Left(at)
        BY <3>1, <3>2, <3>3, LoopLess
      <4>2. /\ <<b, y - 1>> \in LoopsBelow(n)
            /\ IsFull(b, y) => <<PullDown(b, y), y>> \in LoopsBelow(n)
        BY <3>1, <3>2, <4>1, LoopParts DEF LoopsBelow
      <4> QED
        BY <2>2, <4>2 DEF ClearStep, b, y
    <3>4. CASE y = -1
      BY <3>4 DEF ClearStep, b, y
    <3> QED
      BY <3>2, <3>3, <3>4
  <2>4. Solves(h, n + 1)
    BY <2>3 DEF Solves
  <2> HIDE DEF h
  <2> QED
    BY <2>4
<1> HIDE DEF S
<1>3. Nat \subseteq S
  BY <1>1, <1>2, NatInd
<1> QED
  BY <1>3 DEF S

LEMMA ClearFromDef ==
    \A at \in Loops : ClearFrom[at] = ClearStep(ClearFrom, at[1], at[2])
<1> DEFINE N == Cardinality(Cells) + Height + 1
           E(g) == g = [at \in Loops |-> ClearStep(g, at[1], at[2])]
<1>1. N \in Nat
  BY CellsFinite, SizeAssumption
<1>2. LoopsBelow(N) = Loops
  <2>1. ASSUME NEW at \in Loops
        PROVE  Left(at) < N
    <3>1. Cardinality(at[1]) <= Cardinality(Cells) /\ at[2] \in Int /\ at[2] < Height
      BY LoopParts, CellsFinite, FS_Subset
    <3>2. Cardinality(at[1]) \in Nat /\ Cardinality(Cells) \in Nat
      BY LoopParts, CellsFinite
    <3> QED
      BY <3>1, <3>2, SizeAssumption DEF Left
  <2> QED
    BY <2>1 DEF LoopsBelow
<1> HIDE DEF N
<1>3. \E g : E(g)
  BY <1>1, <1>2, SolutionBelow DEF Solves
<1>4. ClearFrom = CHOOSE g : E(g)
  BY DEF ClearFrom, ClearStep, Loops
<1>5. E(ClearFrom)
  BY <1>3, <1>4
<1> HIDE DEF E
<1>6. ClearFrom = [at \in Loops |-> ClearStep(ClearFrom, at[1], at[2])]
  BY <1>5 DEF E
<1> QED
  BY <1>6

LEMMA ClearFromStep ==
    ASSUME NEW b, NEW y, <<b, y>> \in Loops
    PROVE  ClearFrom[<<b, y>>] = ClearStep(ClearFrom, b, y)
<1>1. <<b, y>>[1] = b /\ <<b, y>>[2] = y
  OBVIOUS
<1> QED
  BY <1>1, ClearFromDef

(* A property of the loops holds of all when it is carried from the next loop   *)
(* to this one; S is the set of the loops that have it.                        *)
LEMMA LoopInduction ==
    ASSUME NEW S,
           \A b \in SUBSET Cells : <<b, -1>> \in S,
           \A b \in SUBSET Cells, y \in Rows :
                IF IsFull(b, y) THEN <<PullDown(b, y), y>> \in S => <<b, y>> \in S
                                ELSE <<b, y - 1>> \in S => <<b, y>> \in S
    PROVE  Loops \subseteq S
<1> SUFFICES ASSUME Loops \ S # {}
             PROVE  FALSE
  OBVIOUS
<1> DEFINE N == {n \in Nat : \E at \in Loops \ S : Left(at) = n}
<1>1. N \in SUBSET Nat /\ N # {}
  BY LoopParts
<1>2. PICK n \in N : \A k \in N : n <= k
  <2> HIDE DEF N
  <2> QED
    BY <1>1, LeastNumber
<1>3. PICK at \in Loops \ S : Left(at) = n
  BY <1>2
<1>4. \A s \in Loops \ S : Left(at) <= Left(s)
  BY <1>2, <1>3, LoopParts
<1> DEFINE b == at[1]
           y == at[2]
<1>5. at = <<b, y>> /\ b \in SUBSET Cells /\ y \in Rows \cup {-1}
  BY LoopParts
<1> HIDE DEF b, y
<1>6. y \in Rows
  BY <1>3, <1>5
<1>7. /\ <<b, y - 1>> \in Loops /\ Left(<<b, y - 1>>) < Left(at)
      /\ <<PullDown(b, y), y>> \in Loops
      /\ IsFull(b, y) => Left(<<PullDown(b, y), y>>) < Left(at)
  BY <1>5, <1>6, LoopLess
<1>8. Left(at) \in Nat /\ Left(<<b, y - 1>>) \in Nat /\ Left(<<PullDown(b, y), y>>) \in Nat
  BY <1>7, LoopParts
<1>9. <<b, y - 1>> \in S /\ (IsFull(b, y) => <<PullDown(b, y), y>> \in S)
  BY <1>4, <1>7, <1>8
<1> QED
  BY <1>3, <1>5, <1>6, <1>9

(* What the loop returns, and that it loses nothing but the rows it counts.     *)
LEMMA ClearFromType ==
    \A at \in Loops :
        /\ ClearFrom[at] \in [cells : SUBSET Cells, cleared : Nat]
        /\ Cardinality(ClearFrom[at].cells) = Cardinality(at[1]) - Width * ClearFrom[at].cleared
<1> DEFINE Fine(at) ==
        /\ ClearFrom[at] \in [cells : SUBSET Cells, cleared : Nat]
        /\ Cardinality(ClearFrom[at].cells) = Cardinality(at[1]) - Width * ClearFrom[at].cleared
           S == {at \in Loops : Fine(at)}
<1>1. ASSUME NEW b \in SUBSET Cells
      PROVE  <<b, -1>> \in S
  <2>1. <<b, -1>> \in Loops
    BY DEF Loops
  <2>2. ClearFrom[<<b, -1>>] = [cells |-> b, cleared |-> 0]
    <3>1. ClearFrom[<<b, -1>>] = ClearStep(ClearFrom, b, -1)
      BY <2>1, ClearFromStep
    <3> QED
      BY <3>1 DEF ClearStep
  <2>3. Cardinality(b) \in Nat /\ Width * 0 = 0
    BY CellsFinite, SizeAssumption
  <2>4. <<b, -1>>[1] = b
    OBVIOUS
  <2> QED
    BY <2>1, <2>2, <2>3, <2>4
<1>2. ASSUME NEW b \in SUBSET Cells, NEW y \in Rows
      PROVE  IF IsFull(b, y) THEN <<PullDown(b, y), y>> \in S => <<b, y>> \in S
                             ELSE <<b, y - 1>> \in S => <<b, y>> \in S
  <2>1. <<b, y>> \in Loops /\ ~(y < 0) /\ <<b, y>>[1] = b
    <3>1. <<b, y>> \in Loops
      BY LoopLess
    <3>2. ~(y < 0)
      BY SizeAssumption DEF Rows
    <3> QED
      BY <3>1, <3>2
  <2>2. CASE ~IsFull(b, y) /\ <<b, y - 1>> \in S
    <3>1. ClearFrom[<<b, y>>] = ClearFrom[<<b, y - 1>>]
      BY <2>1, <2>2, ClearFromStep DEF ClearStep
    <3> QED
      BY <2>1, <2>2, <3>1
  <2>3. CASE IsFull(b, y) /\ <<PullDown(b, y), y>> \in S
    <3> DEFINE r == ClearFrom[<<PullDown(b, y), y>>]
    <3>1. ClearFrom[<<b, y>>] = [r EXCEPT !.cleared = @ + 1]
      BY <2>1, <2>3, ClearFromStep DEF ClearStep
    <3>2. /\ r \in [cells : SUBSET Cells, cleared : Nat]
          /\ Cardinality(r.cells) = Cardinality(PullDown(b, y)) - Width * r.cleared
      BY <2>3
    <3>3. /\ Cardinality(PullDown(b, y)) = Cardinality(b) - Width
          /\ Cardinality(b) \in Nat
      BY <2>3, PullDownSize, CellsFinite
    <3> HIDE DEF r
    <3>4. /\ ClearFrom[<<b, y>>] \in [cells : SUBSET Cells, cleared : Nat]
          /\ ClearFrom[<<b, y>>].cells = r.cells
          /\ ClearFrom[<<b, y>>].cleared = r.cleared + 1
      BY <3>1, <3>2
    <3>5. Width * (r.cleared + 1) = Width * r.cleared + Width
      BY <3>2, SizeAssumption
    <3>6. Width * r.cleared \in Nat
      BY <3>2, SizeAssumption
    <3>7. Cardinality(r.cells) = Cardinality(b) - Width * (r.cleared + 1)
      BY <3>2, <3>3, <3>5, <3>6, SizeAssumption
    <3> QED
      BY <2>1, <3>4, <3>7
  <2> QED
    BY <2>2, <2>3
<1> HIDE DEF S
<1>3. Loops \subseteq S
  BY <1>1, <1>2, LoopInduction
<1> QED
  BY <1>3 DEF S

LEMMA ClearFullLinesType ==
    ASSUME NEW b \in SUBSET Cells
    PROVE  /\ ClearFullLines(b) \in [cells : SUBSET Cells, cleared : Nat]
           /\ Cardinality(ClearFullLines(b).cells)
                = Cardinality(b) - Width * ClearFullLines(b).cleared
<1>1. <<b, Height - 1>> \in Loops
  BY SizeAssumption DEF Loops, Rows
<1> QED
  BY <1>1, ClearFromType DEF ClearFullLines

-----------------------------------------------------------------------------
(* The loop gives what removing all full rows together gives.                 *)

Beneath(b, r) == {y \in FullRows(b) : y > r}

LEMMA FullRow ==
    ASSUME NEW b, NEW r \in Rows
    PROVE  r \in FullRows(b) <=> \A x \in Columns : <<x, r>> \in b
  BY DEF FullRows, IsFull, Row

LEMMA PullDownCell ==
    ASSUME NEW b \in SUBSET Cells, NEW y \in Rows, NEW x \in Columns, NEW r \in Rows
    PROVE  <<x, r>> \in PullDown(b, y) <=>
                IF r > y THEN <<x, r>> \in b ELSE r > 0 /\ <<x, r - 1>> \in b
  BY DEF PullDown, Cells

(* The last full row was pulled down: the full rows above it are one further    *)
(* down.                                                                     *)
LEMMA FullRowsPulledDown ==
    ASSUME NEW b \in SUBSET Cells, NEW y \in Rows, IsFull(b, y),
           \A r \in Rows : r > y => r \notin FullRows(b)
    PROVE  /\ y \in FullRows(b)
           /\ \A r \in Rows : r \in FullRows(PullDown(b, y)) <=>
                                r > 0 /\ r <= y /\ r - 1 \in FullRows(b)
<1>1. ASSUME NEW r \in Rows
      PROVE  r \in FullRows(PullDown(b, y)) <=> r > 0 /\ r <= y /\ r - 1 \in FullRows(b)
  <2>1. r \in Nat /\ y \in Nat
    BY SizeAssumption DEF Rows
  <2>2. CASE r > y
    <3>1. \A x \in Columns : <<x, r>> \in PullDown(b, y) <=> <<x, r>> \in b
      BY <2>2, PullDownCell
    <3> QED
      BY <2>1, <2>2, <3>1, FullRow
  <2>3. CASE r <= y /\ r > 0
    <3>1. \A x \in Columns : <<x, r>> \in PullDown(b, y) <=> <<x, r - 1>> \in b
      BY <2>1, <2>3, PullDownCell
    <3>2. r - 1 \in Rows
      BY <2>3, SizeAssumption DEF Rows
    <3> QED
      BY <2>3, <3>1, <3>2, FullRow
  <2>4. CASE r = 0
    <3>1. 0 \in Columns
      BY SizeAssumption DEF Columns
    <3>2. ~(r > y) /\ ~(r > 0)
      BY <2>1, <2>4
    <3>3. <<0, r>> \notin PullDown(b, y)
      BY <3>1, <3>2, PullDownCell
    <3> QED
      BY <3>1, <3>2, <3>3, FullRow
  <2> QED
    BY <2>1, <2>2, <2>3, <2>4
<1> QED
  BY <1>1 DEF FullRows

LEMMA BeneathFinite ==
    ASSUME NEW b, NEW r
    PROVE  /\ IsFiniteSet(Beneath(b, r)) /\ Cardinality(Beneath(b, r)) \in Nat
           /\ IsFiniteSet(FullRows(b)) /\ Cardinality(FullRows(b)) \in Nat
<1>1. Beneath(b, r) \subseteq Rows /\ FullRows(b) \subseteq Rows
  BY DEF Beneath, FullRows
<1> QED
  BY <1>1, CellsFinite, FS_Subset, FS_CardinalityType

LEMMA OneFewerBeneath ==
    ASSUME NEW b \in SUBSET Cells, NEW y \in Rows, IsFull(b, y),
           \A r \in Rows : r > y => r \notin FullRows(b),
           NEW r \in 0 .. y
    PROVE  Cardinality(Beneath(b, r - 1)) = Cardinality(Beneath(PullDown(b, y), r)) + 1
<1> DEFINE S == Beneath(PullDown(b, y), r)
           T == Beneath(b, r - 1) \ {y}
           f == [k \in S |-> k - 1]
<1>1. y \in Nat /\ y < Height /\ r \in Nat /\ r <= y
  BY SizeAssumption DEF Rows
<1>2. y \in FullRows(b) /\ \A k \in Rows : k \in FullRows(PullDown(b, y)) <=>
                                k > 0 /\ k <= y /\ k - 1 \in FullRows(b)
  BY FullRowsPulledDown
<1>3. \A k \in FullRows(b) : k \in Nat /\ k <= y /\ k \in Rows
  BY <1>1, SizeAssumption DEF FullRows, Rows
<1>4. \A k \in FullRows(PullDown(b, y)) : k \in Rows /\ k \in Nat
  BY SizeAssumption DEF FullRows, Rows
<1>5. ASSUME NEW k \in S
      PROVE  k - 1 \in T /\ k \in Nat
  <2>1. k \in FullRows(PullDown(b, y)) /\ k > r /\ k \in Rows /\ k \in Nat
    BY <1>4 DEF Beneath
  <2>2. k <= y /\ k - 1 \in FullRows(b)
    BY <1>2, <2>1
  <2>3. k - 1 > r - 1 /\ k - 1 # y
    BY <1>1, <2>1, <2>2
  <2> QED
    BY <2>1, <2>2, <2>3 DEF Beneath
<1>6. ASSUME NEW t \in T
      PROVE  t + 1 \in S /\ (t + 1) - 1 = t
  <2>1. t \in FullRows(b) /\ t > r - 1 /\ t # y /\ t \in Nat /\ t <= y
    BY <1>3 DEF Beneath
  <2>2. t + 1 \in Rows /\ t + 1 > 0 /\ t + 1 <= y /\ (t + 1) - 1 = t /\ t + 1 > r
    BY <1>1, <2>1, SizeAssumption DEF Rows
  <2>3. t + 1 \in FullRows(PullDown(b, y))
    BY <1>2, <2>1, <2>2
  <2> QED
    BY <2>2, <2>3 DEF Beneath
<1>7. f \in Bijection(S, T)
  <2> HIDE DEF S, T
  <2>1. f \in [S -> T] /\ \A k \in S : f[k] = k - 1
    BY <1>5
  <2>2. \A k, l \in S : f[k] = f[l] => k = l
    BY <1>5, <2>1
  <2>3. \A t \in T : \E k \in S : f[k] = t
    BY <1>6, <2>1
  <2> HIDE DEF f
  <2> QED
    BY <2>1, <2>2, <2>3 DEF Bijection, Injection, IsInjective, Surjection
<1>8. y \in Beneath(b, r - 1)
  BY <1>1, <1>2 DEF Beneath
<1>9. IsFiniteSet(S) /\ Cardinality(S) \in Nat
  BY BeneathFinite
<1> HIDE DEF f
<1>10. Cardinality(T) = Cardinality(S)
  <2> HIDE DEF S, T
  <2> QED
    BY <1>7, <1>9, FS_Bijection DEF ExistsBijection
<1>11. Cardinality(T) = Cardinality(Beneath(b, r - 1)) - 1 /\ Cardinality(Beneath(b, r - 1)) \in Nat
  <2> DEFINE B == Beneath(b, r - 1)
  <2>1. IsFiniteSet(B) /\ Cardinality(B) \in Nat
    BY BeneathFinite
  <2> HIDE DEF B
  <2>2. Cardinality(B \ {y}) = IF y \in B THEN Cardinality(B) - 1 ELSE Cardinality(B)
    BY <2>1, FS_RemoveElement
  <2> QED
    BY <1>8, <2>1, <2>2 DEF B
<1> QED
  BY <1>9, <1>10, <1>11

LEMMA CompactedPulledDown ==
    ASSUME NEW b \in SUBSET Cells, NEW y \in Rows, IsFull(b, y),
           \A r \in Rows : r > y => r \notin FullRows(b)
    PROVE  /\ Compacted(PullDown(b, y)) = Compacted(b)
           /\ Cardinality(FullRows(b)) = Cardinality(FullRows(PullDown(b, y))) + 1
<1> DEFINE p == PullDown(b, y)
           Place(a, c) == <<c[1], c[2] + Cardinality(Beneath(a, c[2]))>>
<1>1. y \in Nat /\ y < Height
  BY SizeAssumption DEF Rows
<1>2. /\ p \in SUBSET Cells
      /\ y \in FullRows(b)
      /\ \A r \in Rows : r \in FullRows(p) <=> r > 0 /\ r <= y /\ r - 1 \in FullRows(b)
  BY PullDownType, FullRowsPulledDown
<1>3. \A a : Compacted(a) = {Place(a, c) : c \in {d \in a : d[2] \notin FullRows(a)}}
  BY DEF Compacted, Beneath
<1>4. \A r \in 0 .. y : Cardinality(Beneath(b, r - 1)) = Cardinality(Beneath(p, r)) + 1
  BY OneFewerBeneath
<1>5. \A r \in Rows : r > y => Beneath(b, r) = {} /\ Beneath(p, r) = {}
  <2>1. \A r \in Rows : r \in Nat
    BY SizeAssumption DEF Rows
  <2>2. \A k \in FullRows(b) : k \in Nat /\ ~(k > y)
    BY <1>1, <2>1 DEF FullRows
  <2>3. \A k \in FullRows(p) : k \in Nat /\ ~(k > y)
    <3>1. FullRows(p) \subseteq Rows
      BY DEF FullRows
    <3> QED
      BY <1>1, <1>2, <2>1, <3>1
  <2> QED
    BY <1>1, <2>1, <2>2, <2>3 DEF Beneath
<1> DEFINE Cell(c) == <<c[1], c[2]>>
<1>6. \A c \in Cells : c = <<c[1], c[2]>> /\ c[1] \in Columns /\ c[2] \in Rows /\ c[2] \in Nat
  BY CellParts
<1>7. \A x \in Columns, r \in Rows : <<x, r>> \in p <=>
            IF r > y THEN <<x, r>> \in b ELSE r > 0 /\ <<x, r - 1>> \in b
  BY PullDownCell
<1> HIDE DEF p
<1>8. ASSUME NEW c \in p, c[2] \notin FullRows(p)
      PROVE  \E d \in b : d[2] \notin FullRows(b) /\ Place(b, d) = Place(p, c)
  <2>1. c = <<c[1], c[2]>> /\ c[1] \in Columns /\ c[2] \in Rows /\ c[2] \in Nat
    BY <1>2, <1>6
  <2>2. CASE c[2] > y
    <3>1. c \in b /\ c[2] \notin FullRows(b)
      BY <1>7, <2>1, <2>2
    <3>2. Place(b, c) = Place(p, c)
      BY <1>5, <2>1, <2>2
    <3> QED
      BY <3>1, <3>2
  <2>3. CASE ~(c[2] > y)
    <3> DEFINE d == <<c[1], c[2] - 1>>
    <3>1. c[2] > 0 /\ d \in b /\ d[1] = c[1] /\ d[2] = c[2] - 1
      BY <1>7, <2>1, <2>3
    <3>2. d[2] \notin FullRows(b)
      BY <1>1, <1>2, <1>8, <2>1, <2>3, <3>1
    <3>3. Cardinality(Beneath(b, c[2] - 1)) = Cardinality(Beneath(p, c[2])) + 1
      BY <1>1, <1>4, <2>1, <2>3
    <3>4. Cardinality(Beneath(p, c[2])) \in Nat
      BY BeneathFinite
    <3>5. Place(b, d) = Place(p, c)
      BY <2>1, <3>1, <3>3, <3>4
    <3> QED
      BY <3>1, <3>2, <3>5
  <2> QED
    BY <2>2, <2>3
<1>9. ASSUME NEW d \in b, d[2] \notin FullRows(b)
      PROVE  \E c \in p : c[2] \notin FullRows(p) /\ Place(b, d) = Place(p, c)
  <2>1. d = <<d[1], d[2]>> /\ d[1] \in Columns /\ d[2] \in Rows /\ d[2] \in Nat /\ d[2] # y
    BY <1>2, <1>6, <1>9
  <2>2. CASE d[2] > y
    <3>1. d \in p /\ d[2] \notin FullRows(p)
      <4>1. <<d[1], d[2]>> \in p
        BY <1>7, <1>9, <2>1, <2>2
      <4>2. d[2] \notin FullRows(p)
        BY <1>1, <1>2, <2>1, <2>2
      <4> QED
        BY <2>1, <4>1, <4>2
    <3>2. Place(b, d) = Place(p, d)
      BY <1>5, <2>1, <2>2
    <3> QED
      BY <3>1, <3>2
  <2>3. CASE d[2] < y
    <3> DEFINE c == <<d[1], d[2] + 1>>
    <3>1. /\ c[1] = d[1] /\ c[2] = d[2] + 1 /\ c[2] - 1 = d[2]
          /\ c[2] \in Rows /\ c[2] \in Nat /\ c[2] > 0 /\ c[2] <= y
      BY <1>1, <2>1, <2>3, SizeAssumption DEF Rows
    <3>2. c \in p /\ c[2] \notin FullRows(p)
      BY <1>1, <1>2, <1>7, <1>9, <2>1, <3>1
    <3>3. Cardinality(Beneath(b, d[2])) = Cardinality(Beneath(p, c[2])) + 1
      BY <1>1, <1>4, <3>1
    <3>4. Cardinality(Beneath(p, c[2])) \in Nat
      BY BeneathFinite
    <3>5. Place(b, d) = Place(p, c)
      BY <2>1, <3>1, <3>3, <3>4
    <3> QED
      BY <3>2, <3>5
  <2> QED
    BY <1>1, <2>1, <2>2, <2>3
<1>10. Compacted(p) = Compacted(b)
  <2> HIDE DEF Place
  <2>1. Compacted(p) = {Place(p, c) : c \in {d \in p : d[2] \notin FullRows(p)}}
    BY <1>3
  <2>2. Compacted(b) = {Place(b, c) : c \in {d \in b : d[2] \notin FullRows(b)}}
    BY <1>3
  <2>3. ASSUME NEW t \in Compacted(p)
        PROVE  t \in Compacted(b)
    BY <1>8, <2>1, <2>2
  <2>4. ASSUME NEW t \in Compacted(b)
        PROVE  t \in Compacted(p)
    BY <1>9, <2>1, <2>2
  <2> QED
    BY <2>3, <2>4
<1>11. Cardinality(FullRows(b)) = Cardinality(FullRows(p)) + 1
  <2>1. \A r \in FullRows(b) : r \in Nat
    BY SizeAssumption DEF FullRows, Rows
  <2>2. Beneath(b, 0 - 1) = FullRows(b)
    BY <2>1 DEF Beneath
  <2>3. \A r \in FullRows(p) : r \in Nat /\ r > 0
    BY <1>2, SizeAssumption DEF FullRows, Rows
  <2>4. Beneath(p, 0) = FullRows(p)
    BY <2>3 DEF Beneath
  <2>5. 0 \in 0 .. y
    BY <1>1
  <2> QED
    BY <1>4, <2>2, <2>4, <2>5
<1> QED
  BY <1>10, <1>11 DEF p

LEMMA CompactedWithoutFull ==
    ASSUME NEW b \in SUBSET Cells, FullRows(b) = {}
    PROVE  Compacted(b) = b
<1>1. \A c \in b : c = <<c[1], c[2] + 0>>
  BY CellParts
<1>2. \A r : {y \in FullRows(b) : y > r} = {}
  OBVIOUS
<1>3. Cardinality({}) = 0
  BY FS_EmptySet
<1>4. Compacted(b) = {<<c[1], c[2] + 0>> : c \in b}
  BY <1>2, <1>3 DEF Compacted
<1> QED
  BY <1>1, <1>4

LEMMA ClearFromCompacts ==
    \A at \in Loops :
        (\A r \in Rows : r > at[2] => r \notin FullRows(at[1]))
            => ClearFrom[at] = [cells   |-> Compacted(at[1]),
                                cleared |-> Cardinality(FullRows(at[1]))]
<1> DEFINE Done(b, y) == \A r \in Rows : r > y => r \notin FullRows(b)
           Result(b)  == [cells |-> Compacted(b), cleared |-> Cardinality(FullRows(b))]
           S == {at \in Loops : Done(at[1], at[2]) => ClearFrom[at] = Result(at[1])}
<1>1. ASSUME NEW b \in SUBSET Cells
      PROVE  <<b, -1>> \in S
  <2>1. <<b, -1>> \in Loops
    BY DEF Loops
  <2>2. ClearFrom[<<b, -1>>] = [cells |-> b, cleared |-> 0]
    <3>1. ClearFrom[<<b, -1>>] = ClearStep(ClearFrom, b, -1)
      BY <2>1, ClearFromStep
    <3> QED
      BY <3>1 DEF ClearStep
  <2>3. ASSUME Done(b, -1)
        PROVE  ClearFrom[<<b, -1>>] = Result(b)
    <3>1. FullRows(b) = {}
      BY <2>3, SizeAssumption DEF FullRows, Rows
    <3> QED
      BY <2>2, <3>1, CompactedWithoutFull, FS_EmptySet
  <2> QED
    BY <2>1, <2>3
<1>2. ASSUME NEW b \in SUBSET Cells, NEW y \in Rows
      PROVE  IF IsFull(b, y) THEN <<PullDown(b, y), y>> \in S => <<b, y>> \in S
                             ELSE <<b, y - 1>> \in S => <<b, y>> \in S
  <2>1. <<b, y>> \in Loops
    BY LoopLess
  <2>2. ~(y < 0) /\ y \in Int
    BY SizeAssumption DEF Rows
  <2>3. \A r \in Rows : r \in Int
    BY SizeAssumption DEF Rows
  <2>4. CASE ~IsFull(b, y) /\ <<b, y - 1>> \in S
    <3>1. ClearFrom[<<b, y>>] = ClearFrom[<<b, y - 1>>]
      BY <2>1, <2>2, <2>4, ClearFromStep DEF ClearStep
    <3>2. Done(b, y) => Done(b, y - 1)
      BY <2>2, <2>3, <2>4 DEF FullRows
    <3>3. Done(b, y - 1) => ClearFrom[<<b, y - 1>>] = Result(b)
      BY <2>4
    <3> HIDE DEF Done, Result
    <3> QED
      BY <2>1, <3>1, <3>2, <3>3
  <2>5. CASE IsFull(b, y) /\ <<PullDown(b, y), y>> \in S
    <3> DEFINE p == PullDown(b, y)
    <3>1. ClearFrom[<<b, y>>] = [ClearFrom[<<p, y>>] EXCEPT !.cleared = @ + 1]
      BY <2>1, <2>2, <2>5, ClearFromStep DEF ClearStep
    <3>2. ASSUME Done(b, y)
          PROVE  ClearFrom[<<b, y>>] = Result(b)
      <4>1. Compacted(p) = Compacted(b) /\ Cardinality(FullRows(b)) = Cardinality(FullRows(p)) + 1
        BY <2>5, <3>2, CompactedPulledDown
      <4>2. Done(p, y)
        BY <2>2, <2>3, <2>5, <3>2, FullRowsPulledDown
      <4> HIDE DEF p, Done
      <4>3. ClearFrom[<<p, y>>] = Result(p)
        BY <2>5, <4>2 DEF p
      <4> QED
        BY <3>1, <4>1, <4>3
    <3> QED
      BY <2>1, <3>2
  <2> QED
    BY <2>4, <2>5
<1> HIDE DEF S
<1>3. Loops \subseteq S
  BY <1>1, <1>2, LoopInduction
<1> QED
  BY <1>3 DEF S

(* Board::ClearFullLines: for any board, of any size, the loop that overwrites  *)
(* row after row is the compaction, and counts the full rows.                 *)
THEOREM ClearFullLinesCompacts ==
    ASSUME NEW b \in SUBSET Cells
    PROVE  /\ ClearFullLines(b).cells = Compacted(b)
           /\ ClearFullLines(b).cleared = Cardinality(FullRows(b))
<1> DEFINE at == <<b, Height - 1>>
<1>1. at \in Loops /\ at[1] = b /\ at[2] = Height - 1
  BY SizeAssumption DEF Loops, Rows
<1>2. ClearFullLines(b) = ClearFrom[at]
  BY DEF ClearFullLines
<1> HIDE DEF at
<1>3. \A r \in Rows : r > at[2] => r \notin FullRows(at[1])
  BY <1>1, SizeAssumption DEF Rows
<1>4. ClearFrom[at] = [cells |-> Compacted(b), cleared |-> Cardinality(FullRows(b))]
  BY <1>1, <1>3, ClearFromCompacts
<1> QED
  BY <1>2, <1>4

(* No row is left full, whatever rows were pulled down on the way up: the loop  *)
(* looks again at a row that has come down.                                  *)
LEMMA ClearFromLeavesNone ==
    \A at \in Loops :
        (\A r \in Rows : r > at[2] => r \notin FullRows(at[1]))
            => FullRows(ClearFrom[at].cells) = {}
<1> DEFINE Done(b, y) == \A r \in Rows : r > y => r \notin FullRows(b)
           S == {at \in Loops : Done(at[1], at[2]) => FullRows(ClearFrom[at].cells) = {}}
<1>1. ASSUME NEW b \in SUBSET Cells
      PROVE  <<b, -1>> \in S
  <2>1. <<b, -1>> \in Loops
    BY DEF Loops
  <2>2. ClearFrom[<<b, -1>>] = [cells |-> b, cleared |-> 0]
    <3>1. ClearFrom[<<b, -1>>] = ClearStep(ClearFrom, b, -1)
      BY <2>1, ClearFromStep
    <3> QED
      BY <3>1 DEF ClearStep
  <2>3. Done(b, -1) => FullRows(b) = {}
    BY SizeAssumption DEF FullRows, Rows
  <2> QED
    BY <2>1, <2>2, <2>3
<1>2. ASSUME NEW b \in SUBSET Cells, NEW y \in Rows
      PROVE  IF IsFull(b, y) THEN <<PullDown(b, y), y>> \in S => <<b, y>> \in S
                             ELSE <<b, y - 1>> \in S => <<b, y>> \in S
  <2>1. <<b, y>> \in Loops
    BY LoopLess
  <2>2. ~(y < 0) /\ y \in Int
    BY SizeAssumption DEF Rows
  <2>3. \A r \in Rows : r \in Int
    BY SizeAssumption DEF Rows
  <2>4. CASE ~IsFull(b, y) /\ <<b, y - 1>> \in S
    <3>1. ClearFrom[<<b, y>>] = ClearFrom[<<b, y - 1>>]
      BY <2>1, <2>2, <2>4, ClearFromStep DEF ClearStep
    <3>2. Done(b, y) => Done(b, y - 1)
      BY <2>2, <2>3, <2>4 DEF FullRows
    <3>3. Done(b, y - 1) => FullRows(ClearFrom[<<b, y - 1>>].cells) = {}
      BY <2>4
    <3> HIDE DEF Done
    <3> QED
      BY <2>1, <3>1, <3>2, <3>3
  <2>5. CASE IsFull(b, y) /\ <<PullDown(b, y), y>> \in S
    <3> DEFINE p == PullDown(b, y)
    <3>1. ClearFrom[<<b, y>>].cells = ClearFrom[<<p, y>>].cells
      <4>1. ClearFrom[<<b, y>>] = [ClearFrom[<<p, y>>] EXCEPT !.cleared = @ + 1]
        BY <2>1, <2>2, <2>5, ClearFromStep DEF ClearStep
      <4>2. ClearFrom[<<p, y>>] \in [cells : SUBSET Cells, cleared : Nat]
        BY LoopLess, ClearFromType
      <4> QED
        BY <4>1, <4>2
    <3>2. Done(b, y) => Done(p, y)
      BY <2>2, <2>3, <2>5, FullRowsPulledDown
    <3>3. Done(p, y) => FullRows(ClearFrom[<<p, y>>].cells) = {}
      BY <2>5
    <3> HIDE DEF Done, p
    <3> QED
      BY <2>1, <3>1, <3>2, <3>3
  <2> QED
    BY <2>4, <2>5
<1> HIDE DEF S
<1>3. Loops \subseteq S
  BY <1>1, <1>2, LoopInduction
<1> QED
  BY <1>3 DEF S

LEMMA ClearFullLinesLeavesNone ==
    ASSUME NEW b \in SUBSET Cells
    PROVE  FullRows(ClearFullLines(b).cells) = {}
<1> DEFINE at == <<b, Height - 1>>
<1>1. at \in Loops /\ at[1] = b /\ at[2] = Height - 1
  BY SizeAssumption DEF Loops, Rows
<1>2. ClearFullLines(b) = ClearFrom[at]
  BY DEF ClearFullLines
<1> HIDE DEF at
<1>3. \A r \in Rows : r > at[2] => r \notin FullRows(at[1])
  BY <1>1, SizeAssumption DEF Rows
<1> QED
  BY <1>1, <1>2, <1>3, ClearFromLeavesNone

-----------------------------------------------------------------------------
(* Every mino has four blocks.                                               *)

LEMMA FourElements ==
    ASSUME NEW a, NEW b, NEW c, NEW d, a # b, a # c, a # d, b # c, b # d, c # d
    PROVE  IsFiniteSet({a, b, c, d}) /\ Cardinality({a, b, c, d}) = 4
<1>1. IsFiniteSet({a}) /\ Cardinality({a}) = 1
  BY FS_Singleton
<1>2. IsFiniteSet({a} \cup {b}) /\ Cardinality({a} \cup {b}) = 2
  BY <1>1, FS_AddElement
<1>3. IsFiniteSet({a, b} \cup {c}) /\ Cardinality({a, b} \cup {c}) = 3
  <2>1. {a} \cup {b} = {a, b}
    OBVIOUS
  <2> QED
    BY <1>2, <2>1, FS_AddElement
<1>4. IsFiniteSet({a, b, c} \cup {d}) /\ Cardinality({a, b, c} \cup {d}) = 4
  <2>1. {a, b} \cup {c} = {a, b, c}
    OBVIOUS
  <2> QED
    BY <1>3, <2>1, FS_AddElement
<1>5. {a, b, c} \cup {d} = {a, b, c, d}
  OBVIOUS
<1> QED
  BY <1>4, <1>5

IsCell(c) == c = <<c[1], c[2]>> /\ c[1] \in Int /\ c[2] \in Int

FourCells(s, a, b, c, d) ==
    /\ s = {a, b, c, d}
    /\ a # b /\ a # c /\ a # d /\ b # c /\ b # d /\ c # d
    /\ IsCell(a) /\ IsCell(b) /\ IsCell(c) /\ IsCell(d)

(* The tables of Tetromino.h, read once more: in each the four cells differ.    *)
LEMMA ShapeCells ==
    \A t \in DOMAIN Shapes, r \in 1 .. 4 : \E a, b, c, d : FourCells(Shapes[t][r], a, b, c, d)
<1>1. /\ FourCells(Shapes.I[1], <<-1, 0>>, <<0, 0>>, <<1, 0>>, <<2, 0>>)
      /\ FourCells(Shapes.I[2], <<1, -1>>, <<1, 0>>, <<1, 1>>, <<1, 2>>)
      /\ FourCells(Shapes.I[3], <<-1, 1>>, <<0, 1>>, <<1, 1>>, <<2, 1>>)
      /\ FourCells(Shapes.I[4], <<0, -1>>, <<0, 0>>, <<0, 1>>, <<0, 2>>)
  BY DEF Shapes, FourCells, IsCell
<1>2. /\ FourCells(Shapes.O[1], <<0, 0>>, <<1, 0>>, <<0, 1>>, <<1, 1>>)
      /\ FourCells(Shapes.O[2], <<0, 0>>, <<1, 0>>, <<0, 1>>, <<1, 1>>)
      /\ FourCells(Shapes.O[3], <<0, 0>>, <<1, 0>>, <<0, 1>>, <<1, 1>>)
      /\ FourCells(Shapes.O[4], <<0, 0>>, <<1, 0>>, <<0, 1>>, <<1, 1>>)
  BY DEF Shapes, FourCells, IsCell
<1>3. /\ FourCells(Shapes.T[1], <<0, 0>>, <<-1, 1>>, <<0, 1>>, <<1, 1>>)
      /\ FourCells(Shapes.T[2], <<0, -1>>, <<0, 0>>, <<1, 0>>, <<0, 1>>)
      /\ FourCells(Shapes.T[3], <<0, 0>>, <<1, 0>>, <<2, 0>>, <<1, 1>>)
      /\ FourCells(Shapes.T[4], <<0, 1>>, <<1, 0>>, <<1, 1>>, <<1, 2>>)
  BY DEF Shapes, FourCells, IsCell
<1>4. /\ FourCells(Shapes.L[1], <<1, 0>>, <<-1, 1>>, <<0, 1>>, <<1, 1>>)
      /\ FourCells(Shapes.L[2], <<0, -1>>, <<0, 0>>, <<0, 1>>, <<1, 1>>)
      /\ FourCells(Shapes.L[3], <<0, 0>>, <<1, 0>>, <<2, 0>>, <<0, 1>>)
      /\ FourCells(Shapes.L[4], <<0, 0>>, <<1, 0>>, <<1, 1>>, <<1, 2>>)
  BY DEF Shapes, FourCells, IsCell
<1>5. /\ FourCells(Shapes.J[1], <<-1, 0>>, <<-1, 1>>, <<0, 1>>, <<1, 1>>)
      /\ FourCells(Shapes.J[2], <<0, -1>>, <<1, -1>>, <<0, 0>>, <<0, 1>>)
      /\ FourCells(Shapes.J[3], <<0, 0>>, <<1, 0>>, <<2, 0>>, <<2, 1>>)
      /\ FourCells(Shapes.J[4], <<1, 0>>, <<1, 1>>, <<0, 2>>, <<1, 2>>)
  BY DEF Shapes, FourCells, IsCell
<1>6. /\ FourCells(Shapes.S[1], <<0, 0>>, <<1, 0>>, <<-1, 1>>, <<0, 1>>)
      /\ FourCells(Shapes.S[2], <<0, -1>>, <<0, 0>>, <<1, 0>>, <<1, 1>>)
      /\ FourCells(Shapes.S[3], <<1, 0>>, <<2, 0>>, <<0, 1>>, <<1, 1>>)
      /\ FourCells(Shapes.S[4], <<0, 0>>, <<0, 1>>, <<1, 1>>, <<1, 2>>)
  BY DEF Shapes, FourCells, IsCell
<1>7. /\ FourCells(Shapes.Z[1], <<-1, 0>>, <<0, 0>>, <<0, 1>>, <<1, 1>>)
      /\ FourCells(Shapes.Z[2], <<1, -1>>, <<0, 0>>, <<1, 0>>, <<0, 1>>)
      /\ FourCells(Shapes.Z[3], <<0, 0>>, <<1, 0>>, <<1, 1>>, <<2, 1>>)
      /\ FourCells(Shapes.Z[4], <<1, 0>>, <<0, 1>>, <<1, 1>>, <<0, 2>>)
  BY DEF Shapes, FourCells, IsCell
<1>8. DOMAIN Shapes = {"I", "O", "T", "L", "J", "S", "Z"}
  BY DEF Shapes
<1>9. \A r \in 1 .. 4 : r = 1 \/ r = 2 \/ r = 3 \/ r = 4
  OBVIOUS
<1> QED
  BY <1>1, <1>2, <1>3, <1>4, <1>5, <1>6, <1>7, <1>8, <1>9

LEMMA BlocksSize ==
    ASSUME NEW m \in Mino(DOMAIN Shapes)
    PROVE  /\ IsFiniteSet(Blocks(m)) /\ Cardinality(Blocks(m)) = 4
           /\ \A c \in Blocks(m) : c[1] \in Int /\ c[2] \in Int /\ c = <<c[1], c[2]>>
<1> DEFINE s == Shapes[m.type][m.rot + 1]
           f == [b \in s |-> <<m.x + b[1], m.y + b[2]>>]
<1>1. m.type \in DOMAIN Shapes /\ m.rot + 1 \in 1 .. 4 /\ m.x \in Int /\ m.y \in Int
  BY DEF Mino
<1>2. PICK a, b, c, d : FourCells(s, a, b, c, d)
  BY <1>1, ShapeCells
<1>3. Blocks(m) = {<<m.x + e[1], m.y + e[2]>> : e \in s}
  BY DEF Blocks
<1> HIDE DEF s
<1>4. IsFiniteSet(s) /\ Cardinality(s) = 4 /\ \A e \in s : IsCell(e)
  <2>1. IsFiniteSet({a, b, c, d}) /\ Cardinality({a, b, c, d}) = 4
    BY <1>2, FourElements DEF FourCells
  <2>2. s = {a, b, c, d}
    BY <1>2 DEF FourCells
  <2>3. \A e \in s : IsCell(e)
    <3> HIDE DEF IsCell
    <3> QED
      BY <1>2, <2>2 DEF FourCells
  <2> QED
    BY <2>1, <2>2, <2>3
<1>5. f \in Bijection(s, Blocks(m))
  <2>1. f \in [s -> Blocks(m)]
    BY <1>3
  <2>2. \A t \in Blocks(m) : \E e \in s : f[e] = t
    BY <1>3
  <2>3. ASSUME NEW e \in s, NEW g \in s, f[e] = f[g]
        PROVE  e = g
    <3>1. IsCell(e) /\ IsCell(g)
      BY <1>4
    <3>2. m.x + e[1] = m.x + g[1] /\ m.y + e[2] = m.y + g[2]
      BY <2>3
    <3>3. e[1] \in Int /\ e[2] \in Int /\ g[1] \in Int /\ g[2] \in Int
      BY <3>1 DEF IsCell
    <3>4. e[1] = g[1] /\ e[2] = g[2]
      <4>1. \A i, j, k \in Int : k + i = k + j => i = j
        OBVIOUS
      <4>2. m.x \in Int /\ m.y \in Int
        BY <1>1
      <4> HIDE DEF f
      <4>3. e[1] = g[1]
        BY <3>2, <3>3, <4>1, <4>2
      <4>4. e[2] = g[2]
        BY <3>2, <3>3, <4>1, <4>2
      <4> QED
        BY <4>3, <4>4
    <3>5. e = <<e[1], e[2]>> /\ g = <<g[1], g[2]>>
      BY <3>1 DEF IsCell
    <3> QED
      BY <3>4, <3>5
  <2> HIDE DEF f
  <2> QED
    BY <2>1, <2>2, <2>3 DEF Bijection, Injection, IsInjective, Surjection
<1>6. ASSUME NEW p \in Blocks(m)
      PROVE  p[1] \in Int /\ p[2] \in Int /\ p = <<p[1], p[2]>>
  <2>1. PICK e \in s : p = <<m.x + e[1], m.y + e[2]>>
    BY <1>3
  <2>2. e[1] \in Int /\ e[2] \in Int
    BY <1>4 DEF IsCell
  <2>3. m.x + e[1] \in Int /\ m.y + e[2] \in Int
    BY <1>1, <2>2
  <2> QED
    BY <2>1, <2>3
<1> HIDE DEF f
<1>7. IsFiniteSet(Blocks(m)) /\ Cardinality(Blocks(m)) = Cardinality(s)
  BY <1>4, <1>5, FS_Bijection DEF ExistsBijection
<1> QED
  BY <1>4, <1>6, <1>7

-----------------------------------------------------------------------------
(* Falling and locking.                                                      *)

LEMMA MinoTypes ==
    ASSUME NEW T, NEW m \in Mino(T)
    PROVE  /\ m.type \in T /\ m.rot \in 0 .. 3 /\ m.x \in Int /\ m.y \in Int
           /\ T \subseteq DOMAIN Shapes => m \in Mino(DOMAIN Shapes)
  BY DEF Mino

(* A mino moved by nothing is the same.                                      *)
LEMMA MovedNowhere ==
    ASSUME NEW T, NEW m \in Mino(T)
    PROVE  Moved(m, 0, 0) = m
<1>1. m.x + 0 = m.x /\ m.y + 0 = m.y
  BY DEF Mino
<1> QED
  BY <1>1 DEF Moved, Mino

(* So many rows down there is only the floor.                                *)
LEMMA Grounded ==
    ASSUME NEW b, NEW m \in Mino(DOMAIN Shapes), ~IsCollide(b, m)
    PROVE  IsCollide(b, Moved(m, 0, Height))
<1> DEFINE s == Shapes[m.type][m.rot + 1]
           n == Moved(m, 0, Height)
<1>1. Height \in Nat /\ m.x \in Int /\ m.y \in Int
  BY SizeAssumption DEF Mino
<1>2. n.type = m.type /\ n.rot = m.rot /\ n.x = m.x + 0 /\ n.y = m.y + Height
  BY DEF Moved, Mino
<1>3. /\ Blocks(m) = {<<m.x + e[1], m.y + e[2]>> : e \in s}
      /\ Blocks(n) = {<<n.x + e[1], n.y + e[2]>> : e \in s}
  BY <1>2 DEF Blocks
<1>4. PICK e \in s : e[2] \in Int
  <2>1. m.type \in DOMAIN Shapes /\ m.rot + 1 \in 1 .. 4
    BY DEF Mino
  <2>2. \E c1, c2, c3, c4 : FourCells(s, c1, c2, c3, c4)
    BY <2>1, ShapeCells
  <2> QED
    BY <2>2 DEF FourCells, IsCell
<1> HIDE DEF s, n
<1>5. <<m.x + e[1], m.y + e[2]>> \in Cells
  BY <1>3 DEF IsCollide
<1>6. m.y + e[2] >= 0
  BY <1>5 DEF Cells, Rows
<1>7. ~(n.y + e[2] <= Height - 1)
  BY <1>1, <1>2, <1>4, <1>6
<1>8. <<n.x + e[1], n.y + e[2]>> \notin Cells
  BY <1>7 DEF Cells, Rows
<1>9. IsCollide(b, n)
  BY <1>3, <1>8 DEF IsCollide
<1> QED
  BY <1>9 DEF n

(* Where a mino comes to rest it does not collide, one further down it does.   *)
LEMMA LandedFits ==
    ASSUME NEW T, T \subseteq DOMAIN Shapes, NEW b, NEW m \in Mino(T), ~IsCollide(b, m)
    PROVE  \E d \in 0 .. Height :
             /\ Landed(b, m) = Moved(m, 0, d)
             /\ ~IsCollide(b, Moved(m, 0, d))
             /\ IsCollide(b, Moved(m, 0, d + 1))
<1> DEFINE Hits == {d \in Nat : d >= 1 /\ IsCollide(b, Moved(m, 0, d))}
           Rests(d) == /\ IsCollide(b, Moved(m, 0, d + 1))
                       /\ \A e \in 1 .. d : ~IsCollide(b, Moved(m, 0, e))
           fall == CHOOSE d \in 0 .. Height : Rests(d)
<1>1. Height \in Nat /\ Height >= 1 /\ IsCollide(b, Moved(m, 0, Height))
  BY SizeAssumption, MinoTypes, Grounded
<1>2. PICK k \in Hits : \A d \in Hits : k <= d
  <2>1. Height \in Hits /\ Hits \in SUBSET Nat
    BY <1>1
  <2> HIDE DEF Hits
  <2> QED
    BY <2>1, LeastNumber
<1>3. k - 1 \in 0 .. Height /\ (k - 1) + 1 = k
  BY <1>1, <1>2
<1>4. \A e \in 1 .. k - 1 : ~IsCollide(b, Moved(m, 0, e))
  BY <1>2
<1>5. Rests(k - 1)
  BY <1>2, <1>3, <1>4
<1>6. fall \in 0 .. Height /\ Rests(fall)
  <2> HIDE DEF Rests
  <2> QED
    BY <1>3, <1>5
<1>7. Landed(b, m) = Moved(m, 0, fall)
  BY DEF Landed
<1> HIDE DEF fall
<1>8. ~IsCollide(b, Moved(m, 0, fall))
  <2>1. CASE fall = 0
    BY <2>1, MovedNowhere
  <2>2. CASE fall # 0
    <3>1. fall \in 1 .. fall
      BY <1>1, <1>6, <2>2
    <3> QED
      BY <1>6, <3>1
  <2> QED
    BY <2>1, <2>2
<1> QED
  BY <1>6, <1>7, <1>8

(* Locking a mino that does not collide adds its four blocks to the board.      *)
LEMMA LockAddsFour ==
    ASSUME NEW T, T \subseteq DOMAIN Shapes, NEW b \in SUBSET Cells, NEW m \in Mino(T),
           ~IsCollide(b, m)
    PROVE  /\ Lock(b, m) \in SUBSET Cells
           /\ Cardinality(Lock(b, m)) = Cardinality(b) + 4
<1> DEFINE B == Blocks(m)
<1>1. IsFiniteSet(B) /\ Cardinality(B) = 4
  BY MinoTypes, BlocksSize
<1>2. B \subseteq Cells \ b
  BY DEF IsCollide
<1>3. Lock(b, m) = b \cup B
  BY <1>2 DEF Lock
<1> HIDE DEF B
<1>4. IsFiniteSet(b) /\ Cardinality(b) \in Nat
  BY CellsFinite
<1>5. b \cap B = {}
  BY <1>2
<1>6. Cardinality(b \cup B) = Cardinality(b) + Cardinality(B) - Cardinality(b \cap B)
  BY <1>1, <1>4, FS_Union
<1>7. Cardinality(b \cap B) = 0
  BY <1>5, FS_EmptySet
<1>8. Cardinality(b \cup B) = Cardinality(b) + 4
  BY <1>1, <1>4, <1>6, <1>7
<1>9. b \cup B \in SUBSET Cells
  BY <1>2
<1> QED
  BY <1>3, <1>8, <1>9

(* A mino on a board without full rows fills four at most: each row it fills    *)
(* has one of its blocks.                                                    *)
LEMMA LockFillsFour ==
    ASSUME NEW b \in SUBSET Cells, FullRows(b) = {}, NEW m \in Mino(DOMAIN Shapes)
    PROVE  Cardinality(FullRows(Lock(b, m))) \in 0 .. 4
<1> DEFINE F == FullRows(Lock(b, m))
           S == {c[2] : c \in Blocks(m)}
           f == [c \in Blocks(m) |-> c[2]]
<1>1. ASSUME NEW y \in F
      PROVE  y \in S
  <2>1. y \in Rows /\ ~IsFull(b, y) /\ IsFull(Lock(b, m), y)
    BY DEF FullRows
  <2>2. PICK c \in Row(y) : c \notin b
    BY <2>1 DEF IsFull
  <2>3. c \in Blocks(m) /\ c[2] = y
    BY <2>1, <2>2 DEF IsFull, Lock, Row
  <2> QED
    BY <2>3
<1>2. IsFiniteSet(Blocks(m)) /\ Cardinality(Blocks(m)) = 4
  BY BlocksSize
<1>3. f \in Surjection(Blocks(m), S)
  BY DEF Surjection
<1>4. F \subseteq S
  BY <1>1
<1> HIDE DEF F, S, f
<1>5. IsFiniteSet(S) /\ Cardinality(S) <= 4
  BY <1>2, <1>3, FS_Surjection
<1>6. Cardinality(F) <= Cardinality(S) /\ Cardinality(F) \in Nat /\ Cardinality(S) \in Nat
  BY <1>4, <1>5, FS_Subset, FS_CardinalityType
<1>7. Cardinality(F) \in 0 .. 4
  BY <1>5, <1>6
<1> QED
  BY <1>7 DEF F

-----------------------------------------------------------------------------
(* What was dealt, and what the bag still holds.                             *)

AllDiffer(q, i, j) == \A k, l \in i .. j : q[k] = q[l] => k = l
Waits(q, i, j, t)  == \E k \in i .. j : q[k] = t

(* The first j of the queue are what is left of one bag, and behind them is    *)
(* nothing or the whole of the next one.  Each type was dealt n times, or once *)
(* less and it is among the first j.                                         *)
Splits(q, d, n, j) ==
    /\ AllDiffer(q, 1, j)
    /\ \/ Len(q) = j
       \/ /\ Len(q) = j + Cardinality(Type)
          /\ AllDiffer(q, j + 1, Len(q))
          /\ \A t \in Type : Waits(q, j + 1, Len(q), t)
    /\ \A t \in Type : d[t] + (IF Waits(q, 1, j, t) THEN 1 ELSE 0) = n

Deals(q, d) == \E n \in Nat, j \in 0 .. Len(q) : Splits(q, d, n, j)

(* A refill holds every type once.                                           *)
LEMMA BagIsWhole ==
    ASSUME NEW b \in Bags(Type)
    PROVE  /\ b \in Seq(Type) /\ Len(b) = Cardinality(Type)
           /\ AllDiffer(b, 1, Len(b))
           /\ \A t \in Type : Waits(b, 1, Len(b), t)
<1> DEFINE N == Cardinality(Type)
<1>1. N \in Nat \ {0} /\ IsFiniteSet(Type)
  BY SizeOfBag, BagAssumption
<1>2. b \in [1 .. N -> Type] /\ \A i, j \in 1 .. N : i # j => b[i] # b[j]
  BY DEF Bags, SetToSeqs
<1>3. b \in Seq(Type) /\ Len(b) = N
  BY BagType
<1>4. IsFiniteSet(1 .. N) /\ Cardinality(1 .. N) = N
  BY <1>1, FS_Interval
<1>5. b \in Injection(1 .. N, Type)
  BY <1>2 DEF Injection, IsInjective
<1>6. b \in Surjection(1 .. N, Type)
  <2> HIDE DEF N
  <2>1. Cardinality(1 .. N) = Cardinality(Type)
    BY <1>4 DEF N
  <2> QED
    BY <1>1, <1>5, <2>1, FS_Injection
<1>7. \A t \in Type : \E i \in 1 .. N : b[i] = t
  BY <1>6 DEF Surjection
<1> HIDE DEF N
<1> QED
  BY <1>2, <1>3, <1>7 DEF AllDiffer, Waits, N

(* No type is more than one ahead of another.                                *)
LEMMA DealtEven ==
    ASSUME NEW q, NEW d \in [Type -> Nat], Deals(q, d)
    PROVE  \A s, t \in Type : d[s] <= d[t] + 1
<1>1. PICK n \in Nat, j \in 0 .. Len(q) : Splits(q, d, n, j)
  BY DEF Deals
<1>2. \A t \in Type : d[t] \in Nat /\ (d[t] = n \/ d[t] + 1 = n)
  BY <1>1 DEF Splits
<1> QED
  BY <1>2

(* Looking ahead refills an exhausted bag and deals nothing.                  *)
LEMMA PeekDeals ==
    ASSUME NEW q \in Seq(Type), NEW d, Deals(q, d),
           NEW i \in Nat, i < Cardinality(Type), NEW r \in Peeked(q, i)
    PROVE  Deals(r, d)
<1>1. CASE r = q
  BY <1>1
<1>2. CASE r # q
  <2>1. PICK b \in Bags(Type) : r = q \o b
    BY <1>2 DEF Peeked
  <2>2. Len(q) <= i /\ Len(q) \in Nat /\ Cardinality(Type) \in Nat
    BY <1>2, SizeOfBag DEF Peeked
  <2>3. PICK n \in Nat, j \in 0 .. Len(q) : Splits(q, d, n, j)
    BY DEF Deals
  <2>4. j = Len(q)
    BY <2>2, <2>3 DEF Splits
  <2>5. /\ b \in Seq(Type) /\ Len(b) = Cardinality(Type)
        /\ AllDiffer(b, 1, Len(b))
        /\ \A t \in Type : Waits(b, 1, Len(b), t)
    BY BagIsWhole
  <2>6. /\ r \in Seq(Type) /\ Len(r) = j + Cardinality(Type)
        /\ \A k \in 1 .. j : r[k] = q[k]
        /\ \A k \in 1 .. Len(b) : r[j + k] = b[k]
    <3>0. b \in Seq(Type)
      BY <2>5
    <3>1. r \in Seq(Type) /\ Len(r) = Len(q) + Len(b)
      BY <2>1, <3>0
    <3>2. \A k \in 1 .. Len(q) : r[k] = q[k]
      BY <2>1, <2>5
    <3>3. \A k \in 1 .. Len(b) : r[Len(q) + k] = b[k]
      BY <2>1, <2>2, <2>5
    <3>4. Len(r) = j + Cardinality(Type)
      BY <2>4, <2>5, <3>1
    <3> QED
      BY <2>4, <3>1, <3>2, <3>3, <3>4
  <2>7. j \in Nat /\ j \in 0 .. Len(r) /\ Len(b) \in Nat
    BY <2>2, <2>4, <2>5, <2>6
  <2>8. AllDiffer(r, 1, j)
    BY <2>3, <2>6 DEF Splits, AllDiffer
  <2>9. AllDiffer(r, j + 1, Len(r))
    <3> SUFFICES ASSUME NEW k \in j + 1 .. Len(r), NEW l \in j + 1 .. Len(r), r[k] = r[l]
                 PROVE  k = l
      BY DEF AllDiffer
    <3>1. /\ k - j \in 1 .. Len(b) /\ l - j \in 1 .. Len(b)
          /\ j + (k - j) = k /\ j + (l - j) = l
      BY <2>5, <2>6, <2>7
    <3>2. b[k - j] = r[k] /\ b[l - j] = r[l]
      BY <2>6, <3>1
    <3>3. k - j = l - j
      BY <2>5, <3>1, <3>2 DEF AllDiffer
    <3> QED
      BY <2>7, <3>3
  <2>10. ASSUME NEW t \in Type
         PROVE  Waits(r, j + 1, Len(r), t)
    <3>1. PICK k \in 1 .. Len(b) : b[k] = t
      BY <2>5 DEF Waits
    <3>2. r[j + k] = t
      BY <2>6, <3>1
    <3>3. j + k \in j + 1 .. Len(r)
      BY <2>2, <2>5, <2>6, <2>7
    <3> QED
      BY <3>2, <3>3 DEF Waits
  <2>11. \A t \in Type : Waits(r, 1, j, t) <=> Waits(q, 1, j, t)
    BY <2>6 DEF Waits
  <2>12. \A t \in Type : d[t] + (IF Waits(r, 1, j, t) THEN 1 ELSE 0) = n
    BY <2>3, <2>11 DEF Splits
  <2>13. Splits(r, d, n, j)
    BY <2>6, <2>8, <2>9, <2>10, <2>12 DEF Splits
  <2> QED
    BY <2>7, <2>13 DEF Deals
<1> QED
  BY <1>1, <1>2

(* When one bag is used up the next one is begun.                             *)
LEMMA DealsNonempty ==
    ASSUME NEW q \in Seq(Type), NEW d \in [Type -> Nat], Deals(q, d), q # <<>>
    PROVE  \E n \in Nat, j \in 1 .. Len(q) : Splits(q, d, n, j)
<1>1. PICK n \in Nat, j \in 0 .. Len(q) : Splits(q, d, n, j)
  BY DEF Deals
<1>2. Len(q) \in Nat \ {0}
  OBVIOUS
<1>3. CASE j # 0
  BY <1>1, <1>2, <1>3
<1>4. CASE j = 0
  <2>1. AllDiffer(q, 1, Len(q)) /\ \A t \in Type : Waits(q, 1, Len(q), t)
    BY <1>1, <1>2, <1>4 DEF Splits
  <2>2. \A t \in Type : ~Waits(q, 1, 0, t)
    BY DEF Waits
  <2>3. \A t \in Type : d[t] + 0 = n
    BY <1>1, <1>4, <2>2 DEF Splits
  <2>4. \A t \in Type : d[t] + 0 = n => d[t] + 1 = n + 1
    OBVIOUS
  <2>5. Splits(q, d, n + 1, Len(q))
    BY <2>1, <2>3, <2>4 DEF Splits
  <2>6. n + 1 \in Nat /\ Len(q) \in 1 .. Len(q)
    BY <1>2
  <2> QED
    BY <2>5, <2>6
<1> QED
  BY <1>3, <1>4

(* The mino at the head of the queue is dealt.                               *)
LEMMA TakeDeals ==
    ASSUME NEW q \in Seq(Type), q # <<>>, NEW d \in [Type -> Nat], Deals(q, d)
    PROVE  Deals(Tail(q), [d EXCEPT ![Head(q)] = @ + 1])
<1> DEFINE r == Tail(q)
           e == [d EXCEPT ![Head(q)] = @ + 1]
<1>1. PICK n \in Nat, j \in 1 .. Len(q) : Splits(q, d, n, j)
  BY DealsNonempty
<1>2. /\ Len(q) \in Nat \ {0} /\ r \in Seq(Type) /\ Len(r) = Len(q) - 1
      /\ Head(q) = q[1] /\ q[1] \in Type
      /\ \A k \in 1 .. Len(r) : r[k] = q[k + 1]
  OBVIOUS
<1>3. j - 1 \in 0 .. Len(r)
  BY <1>2
<1>4. AllDiffer(q, 1, j) /\ \A t \in Type : d[t] + (IF Waits(q, 1, j, t) THEN 1 ELSE 0) = n
  BY <1>1 DEF Splits
<1>5. AllDiffer(r, 1, j - 1)
  <2> SUFFICES ASSUME NEW k \in 1 .. j - 1, NEW l \in 1 .. j - 1, r[k] = r[l]
               PROVE  k = l
    BY DEF AllDiffer
  <2>1. /\ k \in 1 .. Len(r) /\ l \in 1 .. Len(r)
        /\ k + 1 \in 1 .. j /\ l + 1 \in 1 .. j /\ k \in Int /\ l \in Int
    BY <1>2, <1>3
  <2>2. q[k + 1] = q[l + 1]
    BY <1>2, <2>1
  <2>3. k + 1 = l + 1
    BY <1>4, <2>1, <2>2 DEF AllDiffer
  <2> QED
    BY <2>1, <2>3
<1>6. ASSUME NEW t \in Type
      PROVE  Waits(r, 1, j - 1, t) <=> Waits(q, 1, j, t) /\ t # q[1]
  <2>1. ASSUME Waits(r, 1, j - 1, t)
        PROVE  Waits(q, 1, j, t) /\ t # q[1]
    <3>1. PICK k \in 1 .. j - 1 : r[k] = t
      BY <2>1 DEF Waits
    <3>2. k + 1 \in 1 .. j /\ 1 \in 1 .. j /\ k + 1 # 1 /\ q[k + 1] = t
      BY <1>2, <1>3, <3>1
    <3>3. q[k + 1] # q[1]
      BY <1>4, <3>2 DEF AllDiffer
    <3> QED
      BY <3>2, <3>3 DEF Waits
  <2>2. ASSUME Waits(q, 1, j, t), t # q[1]
        PROVE  Waits(r, 1, j - 1, t)
    <3>1. PICK k \in 1 .. j : q[k] = t
      BY <2>2 DEF Waits
    <3>2. k # 1
      BY <2>2, <3>1
    <3>3. k - 1 \in 1 .. j - 1 /\ k - 1 \in 1 .. Len(r) /\ (k - 1) + 1 = k
      BY <1>2, <1>3, <3>2
    <3>4. r[k - 1] = t
      BY <1>2, <3>1, <3>3
    <3> QED
      BY <3>3, <3>4 DEF Waits
  <2> QED
    BY <2>1, <2>2
<1>7. Waits(q, 1, j, q[1])
  <2>1. 1 \in 1 .. j
    OBVIOUS
  <2> QED
    BY <2>1 DEF Waits
<1>8. ASSUME NEW t \in Type
      PROVE  e[t] + (IF Waits(r, 1, j - 1, t) THEN 1 ELSE 0) = n
  <2>1. d[t] \in Nat /\ d[t] + (IF Waits(q, 1, j, t) THEN 1 ELSE 0) = n
    BY <1>4
  <2>2. CASE t = q[1]
    <3>1. e[t] = d[t] + 1 /\ ~Waits(r, 1, j - 1, t) /\ Waits(q, 1, j, t)
      BY <1>2, <1>6, <1>7, <2>2
    <3> QED
      BY <2>1, <3>1
  <2>3. CASE t # q[1]
    <3>1. e[t] = d[t] /\ (Waits(r, 1, j - 1, t) <=> Waits(q, 1, j, t))
      BY <1>2, <1>6, <2>3
    <3> QED
      BY <2>1, <3>1
  <2> QED
    BY <2>2, <2>3
<1>9. \/ Len(r) = j - 1
      \/ /\ Len(r) = (j - 1) + Cardinality(Type)
         /\ AllDiffer(r, (j - 1) + 1, Len(r))
         /\ \A t \in Type : Waits(r, (j - 1) + 1, Len(r), t)
  <2>1. CASE Len(q) = j
    BY <1>2, <2>1
  <2>2. CASE /\ Len(q) = j + Cardinality(Type)
             /\ AllDiffer(q, j + 1, Len(q))
             /\ \A t \in Type : Waits(q, j + 1, Len(q), t)
    <3>1. Len(r) = (j - 1) + Cardinality(Type) /\ (j - 1) + 1 = j
      BY <1>2, <2>2, SizeOfBag
    <3>2. AllDiffer(r, j, Len(r))
      <4> SUFFICES ASSUME NEW k \in j .. Len(r), NEW l \in j .. Len(r), r[k] = r[l]
                   PROVE  k = l
        BY DEF AllDiffer
      <4>1. /\ k \in 1 .. Len(r) /\ l \in 1 .. Len(r) /\ k \in Int /\ l \in Int
            /\ k + 1 \in j + 1 .. Len(q) /\ l + 1 \in j + 1 .. Len(q)
        BY <1>2
      <4>2. q[k + 1] = q[l + 1]
        BY <1>2, <4>1
      <4>3. k + 1 = l + 1
        BY <2>2, <4>1, <4>2 DEF AllDiffer
      <4> QED
        BY <4>1, <4>3
    <3>3. ASSUME NEW t \in Type
          PROVE  Waits(r, j, Len(r), t)
      <4>1. PICK k \in j + 1 .. Len(q) : q[k] = t
        BY <2>2 DEF Waits
      <4>2. k - 1 \in j .. Len(r) /\ k - 1 \in 1 .. Len(r) /\ (k - 1) + 1 = k
        BY <1>2
      <4>3. r[k - 1] = t
        BY <1>2, <4>1, <4>2
      <4> QED
        BY <4>2, <4>3 DEF Waits
    <3> QED
      BY <3>1, <3>2, <3>3
  <2> QED
    BY <1>1, <2>1, <2>2 DEF Splits
<1> HIDE DEF r, e
<1>10. Splits(r, e, n, j - 1)
  BY <1>5, <1>8, <1>9 DEF Splits
<1>11. Deals(r, e)
  BY <1>3, <1>10 DEF Deals
<1> QED
  BY <1>11 DEF r, e

(* Before anything was dealt.                                                *)
LEMMA NothingDealt == Deals(<<>>, [t \in Type |-> 0])
<1> DEFINE d == [t \in Type |-> 0]
<1>1. \A t \in Type : ~Waits(<<>>, 1, 0, t) /\ d[t] + 0 = 0
  BY DEF Waits
<1>2. AllDiffer(<<>>, 1, 0) /\ Len(<<>>) = 0
  BY DEF AllDiffer
<1>3. Splits(<<>>, d, 0, 0)
  BY <1>1, <1>2 DEF Splits
<1> HIDE DEF d
<1>4. Deals(<<>>, d)
  BY <1>2, <1>3 DEF Deals
<1> QED
  BY <1>4 DEF d
=============================================================================
