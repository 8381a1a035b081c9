-------------------------- MODULE BloomFilterProofs --------------------------
(***************************************************************************)
(* A filter never forgets an id, whatever its size and its hashes, and the *)
(* bits it sets and tests are inside of its words.                         *)
(***************************************************************************)
EXTENDS BloomFilter, TLAPS

LEMMA DivMod ==
  ASSUME NEW p \in Nat
  PROVE  p \div 64 \in Nat /\ p % 64 \in 0..63 /\ 64 * (p \div 64) + (p % 64) = p
OBVIOUS

LEMMA ModIsBelow ==
  ASSUME NEW n \in Nat \ {0}, NEW m \in Nat
  PROVE  m % n \in 0..(n - 1)
OBVIOUS

\* Positions are positions of bits, also where the arithmetic wraps around
\* (BloomFilter.h bitIndex).
LEMMA PositionInRange ==
  ASSUME BloomConstants, NEW x \in Ids, NEW i \in Nat
  PROVE  Position(x, i) \in 0..(Bits - 1)
<1> DEFINE h == Hash1[x] + i * Stride(x)
<1>1. Hash1[x] \in Nat /\ Stride(x) \in Nat
  BY DEF BloomConstants, Stride
<1>2. i * Stride(x) \in Nat
  BY <1>1
<1>3. h \in Nat
  BY <1>1, <1>2
<1> HIDE DEF h
<1>4. h % Word \in Nat
  BY <1>3, ModIsBelow DEF BloomConstants
<1>5. (h % Word) % Bits \in 0..(Bits - 1)
  BY <1>4, ModIsBelow DEF BloomConstants
<1> QED
  BY <1>5 DEF Position, h

\* words_ has the word of every bit that is set or tested (testBit, setBit).
THEOREM WordsAreThere ==
  ASSUME BloomConstants, NEW x \in Ids, NEW p \in Positions(x)
  PROVE  p \in 0..(Bits - 1) /\ p \div 64 \in 0..(Words - 1)
<1>1. p \in 0..(Bits - 1)
  BY PositionInRange DEF Positions, BloomConstants
<1> QED
  BY <1>1 DEF Words, BloomConstants

\* What was added is contained (the class comment: no false negatives).
THEOREM NoFalseNegatives ==
  ASSUME BloomConstants, NEW ids \in SUBSET Ids, NEW x \in ids
  PROVE  MaybeContains(Build(ids), x)
<1> SUFFICES ASSUME NEW p \in Positions(x) PROVE TestBit(Build(ids), p)
  BY DEF MaybeContains
<1>1. p \in Nat /\ p \div 64 \in 0..(Words - 1)
  BY WordsAreThere
<1>2. p % 64 \in 0..63 /\ 64 * (p \div 64) + (p % 64) \in Positions(x)
  BY <1>1, DivMod
<1> QED
  BY <1>1, <1>2 DEF Build, TestBit

\* A later add never makes the filter forget.
THEOREM MoreIdsMoreBits ==
  ASSUME NEW ids \in SUBSET Ids, NEW more \in SUBSET Ids, ids \subseteq more,
         NEW w \in 0..(Words - 1)
  PROVE  Build(ids)[w] \subseteq Build(more)[w]
BY DEF Build
=============================================================================
