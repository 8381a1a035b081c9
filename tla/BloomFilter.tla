----------------------------- MODULE BloomFilter -----------------------------
(***************************************************************************)
(* BloomFilter: a bit vector in words of 64 bits and Hashes positions per  *)
(* id, taken from two hashes of it (double hashing, in unsigned arithmetic *)
(* that wraps around).  A filter is a function from words to the bits set  *)
(* in them.  splitmix64 is any function; 2^64 is Word.                     *)
(***************************************************************************)
EXTENDS Integers

CONSTANTS
  Ids,
  Bits,   \* bitsCount_, at least 1 as create() computes it
  Hashes, \* hashes_, likewise
  Word,   \* bound: 2^64 in the code
  Hash1,  \* splitmix64(x)
  Hash2   \* splitmix64(x ^ 0x94d049bb133111eb)

\* What SkuReads assumes of them.
BloomConstants ==
  /\ Bits \in Nat \ {0} /\ Hashes \in Nat \ {0} /\ Word \in Nat \ {0}
  /\ Hash1 \in [Ids -> 0..(Word - 1)] /\ Hash2 \in [Ids -> 0..(Word - 1)]

Words == (Bits + 63) \div 64

\* A step of 0 would put all positions in one place.
Stride(x) == IF Hash2[x] = 0 THEN 1 ELSE Hash2[x]
Position(x, i) == ((Hash1[x] + i * Stride(x)) % Word) % Bits
Positions(x) == {Position(x, i) : i \in 0..(Hashes - 1)}

\* The filter after an add() of every id, in whatever order: bits are only set.
Build(ids) ==
  [w \in 0..(Words - 1) |->
     {b \in 0..63 : \E x \in ids : 64 * w + b \in Positions(x)}]

TestBit(filter, i) == i % 64 \in filter[i \div 64]
MaybeContains(filter, x) == \A i \in Positions(x) : TestBit(filter, i)
=============================================================================
