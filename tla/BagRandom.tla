----------------------------- MODULE BagRandom -----------------------------
(***************************************************************************)
(* The bag that deals the minos: BagRandom.cpp.  A refill is any order of    *)
(* the types; the seeded generator behind it is left out.                   *)
(***************************************************************************)
EXTENDS Naturals, Sequences, FiniteSets, SequencesExt

CONSTANTS
    Type,       \* the types in a bag, all seven in the program
    Preview     \* MINO_PREVIEW_COUNT: how far the bag is looked into

ASSUME BagAssumption == Type # {} /\ IsFiniteSet(Type)
ASSUME PreviewAssumption == Preview \in 1 .. Cardinality(Type)

(* Mutant: the enumeration is counted from None.                              *)
BagsFromNone(s) == SetToSeqs(s \cup {"None"})

(* Refill appends the types in some order.                                   *)
Bags(s) == SetToSeqs(s)

(* The queues that Peek(i) may leave behind.  Its loop refills at most once, a   *)
(* bag being no smaller than the preview.                                    *)
Peeked(q, i) == IF Len(q) > i THEN {q} ELSE {q \o b : b \in Bags(Type)}
=============================================================================
