--------------------------- MODULE SkuReadsProofs ---------------------------
(***************************************************************************)
(* Proofs about SkuReads, for every number of skus, requests and orders,   *)
(* every capacity of L1, every limit and filter, with failed commands,     *)
(* lost commit answers, spoiled keys and a crash.                          *)
(***************************************************************************)
EXTENDS SkuReads, FiniteSetTheorems, SequenceTheorems, TLAPS

-----------------------------------------------------------------------------
(* The operators L1 is built from *)

\* The ranks of a finite set of numbers are 1, 2 and so on, each once.
LEMMA RankIsBijective ==
  ASSUME NEW S \in SUBSET Nat, IsFiniteSet(S)
  PROVE  /\ Cardinality(S) \in Nat
         /\ \A i \in S : Rank(S, i) \in 1..Cardinality(S)
         /\ \A i, j \in S : Rank(S, i) = Rank(S, j) => i = j
         /\ \A j \in 1..Cardinality(S) : \E i \in S : Rank(S, i) = j
<1> DEFINE n == Cardinality(S)
           Below(i) == {k \in S : k <= i}
           f == [i \in S |-> Rank(S, i)]
<1>1. n \in Nat
  BY FS_CardinalityType
<1>2. ASSUME NEW i \in S PROVE IsFiniteSet(Below(i)) /\ Rank(S, i) \in 1..n
  <2>1. Below(i) \in SUBSET S /\ i \in Below(i)
    OBVIOUS
  <2>2. IsFiniteSet(Below(i)) /\ Cardinality(Below(i)) <= n
    BY <2>1, FS_Subset
  <2>3. Cardinality(Below(i)) \in Nat /\ Cardinality(Below(i)) # 0
    BY <2>1, <2>2, FS_CardinalityType, FS_EmptySet
  <2> QED
    BY <1>1, <2>2, <2>3 DEF Rank
<1>3. ASSUME NEW i \in S, NEW j \in S, i < j PROVE Rank(S, i) # Rank(S, j)
  <2>1. i \in Nat /\ j \in Nat /\ \A k \in S : k \in Nat /\ (k <= i => k <= j)
    BY <1>3
  <2>2. Below(i) \in SUBSET Below(j) /\ j \in Below(j) /\ j \notin Below(i)
    <3>1. Below(i) \subseteq Below(j)
      BY <2>1
    <3>2. j <= j /\ ~(j <= i)
      BY <1>3, <2>1
    <3> QED
      BY <3>1, <3>2
  <2>3. IsFiniteSet(Below(j)) /\ Rank(S, i) = Cardinality(Below(i))
        /\ Rank(S, j) = Cardinality(Below(j))
    BY <1>2 DEF Rank
  <2> HIDE DEF Below
  <2>4. Cardinality(Below(j)) = Cardinality(Below(i)) => Below(j) = Below(i)
    BY <2>2, <2>3, FS_Subset
  <2> QED
    BY <2>2, <2>3, <2>4
<1>4. \A i, j \in S : Rank(S, i) = Rank(S, j) => i = j
  BY <1>3
<1>5. f \in Injection(S, 1..n)
  BY <1>2, <1>4 DEF Injection, IsInjective
<1>6. IsFiniteSet(1..n) /\ Cardinality(1..n) = n
  BY <1>1, FS_Interval
<1>7. f \in Surjection(S, 1..n)
  BY <1>5, <1>6, FS_Injection
<1>8. \A j \in 1..n : \E i \in S : f[i] = j
  BY <1>7 DEF Surjection
<1> QED
  BY <1>1, <1>2, <1>4, <1>8

\* Nth counts the members of the set in order.
LEMMA NthCounts ==
  ASSUME NEW S \in SUBSET Nat, IsFiniteSet(S)
  PROVE  /\ Cardinality(S) \in Nat
         /\ \A j \in 1..Cardinality(S) : Nth(S, j) \in S /\ Rank(S, Nth(S, j)) = j
<1>1. ASSUME NEW j \in 1..Cardinality(S)
      PROVE  Nth(S, j) \in S /\ Rank(S, Nth(S, j)) = j
  BY RankIsBijective DEF Nth
<1> QED
  BY <1>1, RankIsBijective

\* Pick keeps entries.
LEMMA PickFacts ==
  ASSUME NEW T, NEW l \in Seq(T), NEW is \in SUBSET (1..Len(l))
  PROVE  /\ Pick(l, is) \in Seq(T)
         /\ Len(Pick(l, is)) = Cardinality(is)
         /\ \A j \in 1..Cardinality(is) :
              Nth(is, j) \in is /\ Pick(l, is)[j] = l[Nth(is, j)]
<1>1. Len(l) \in Nat /\ \A i \in 1..Len(l) : l[i] \in T
  BY LenProperties, ElementOfSeq
<1>2. IsFiniteSet(1..Len(l)) /\ is \in SUBSET Nat
  BY <1>1, FS_Interval
<1>3. IsFiniteSet(is)
  BY <1>2, FS_Subset
<1> DEFINE n == Cardinality(is)
<1>4. n \in Nat /\ \A j \in 1..n : Nth(is, j) \in is
  BY <1>2, <1>3, NthCounts
<1>5. Pick(l, is) = [j \in 1..n |-> l[Nth(is, j)]]
  BY DEF Pick
<1>6. \A j \in 1..n : l[Nth(is, j)] \in T
  BY <1>1, <1>4
<1> HIDE DEF n
<1>7. Pick(l, is) \in Seq(T) /\ Len(Pick(l, is)) = n
  BY <1>4, <1>5, <1>6
<1> QED
  BY <1>4, <1>5, <1>7 DEF n

\* Drop removes the entries of the keys and keeps others.
LEMMA DropFacts ==
  ASSUME NEW T, NEW l \in Seq(T), NEW ks
  PROVE  /\ Drop(l, ks) \in Seq(T)
         /\ \A i \in 1..Len(Drop(l, ks)) :
              \E j \in 1..Len(l) : Drop(l, ks)[i] = l[j] /\ l[j].key \notin ks
<1> DEFINE is == {i \in DOMAIN l : l[i].key \notin ks}
<1>1. DOMAIN l = 1..Len(l)
  BY LenProperties
<1>2. is \in SUBSET (1..Len(l)) /\ Drop(l, ks) = Pick(l, is)
  BY <1>1 DEF Drop
<1>3. \A i \in is : i \in 1..Len(l) /\ l[i].key \notin ks
  BY <1>2
<1> DEFINE d == Drop(l, ks)
<1>4. /\ d \in Seq(T) /\ Len(d) = Cardinality(is)
      /\ \A j \in 1..Cardinality(is) : Nth(is, j) \in is /\ d[j] = l[Nth(is, j)]
  <2> HIDE DEF is
  <2> QED
    BY <1>2, PickFacts
<1> HIDE DEF is, d
<1>5. ASSUME NEW i \in 1..Len(d)
      PROVE  \E j \in 1..Len(l) : d[i] = l[j] /\ l[j].key \notin ks
  BY <1>3, <1>4
<1> QED
  BY <1>4, <1>5 DEF d

\* Touch moves the entry of a key to the front, or removes it.
LEMMA TouchFacts ==
  ASSUME NEW T, NEW l \in Seq(T), NEW k
  PROVE  /\ Touch(l, k) \in Seq(T)
         /\ \A i \in 1..Len(Touch(l, k)) : \E j \in 1..Len(l) : Touch(l, k)[i] = l[j]
<1> DEFINE live == {i \in DOMAIN l : l[i].key = k /\ l[i].live}
           a == Pick(l, live)
           b == Drop(l, {k})
<1>1. DOMAIN l = 1..Len(l)
  BY LenProperties
<1>2. live \in SUBSET (1..Len(l))
  BY <1>1
<1>3. Touch(l, k) = a \o b
  BY DEF Touch
<1> HIDE DEF live
<1>4. /\ a \in Seq(T) /\ Len(a) = Cardinality(live)
      /\ \A j \in 1..Len(a) : Nth(live, j) \in live /\ a[j] = l[Nth(live, j)]
  BY <1>2, PickFacts
<1>5. /\ b \in Seq(T)
      /\ \A i \in 1..Len(b) : \E j \in 1..Len(l) : b[i] = l[j] /\ l[j].key \notin {k}
  BY DropFacts
<1> HIDE DEF a, b
<1>6. Len(a) \in Nat /\ Len(b) \in Nat
  BY <1>4, <1>5, LenProperties
<1>7. /\ a \o b \in Seq(T) /\ Len(a \o b) = Len(a) + Len(b)
      /\ \A i \in 1..(Len(a) + Len(b)) :
           (a \o b)[i] = IF i <= Len(a) THEN a[i] ELSE b[i - Len(a)]
  BY <1>4, <1>5, ConcatProperties
<1>8. ASSUME NEW i \in 1..Len(a \o b) PROVE \E j \in 1..Len(l) : (a \o b)[i] = l[j]
  <2>1. CASE i <= Len(a)
    <3>1. i \in 1..Len(a) /\ (a \o b)[i] = a[i]
      BY <1>6, <1>7, <1>8, <2>1
    <3> QED
      BY <1>2, <1>4, <3>1
  <2>2. CASE ~(i <= Len(a))
    <3>1. i - Len(a) \in 1..Len(b) /\ (a \o b)[i] = b[i - Len(a)]
      BY <1>6, <1>7, <1>8, <2>2
    <3> QED
      BY <1>5, <3>1
  <2> QED
    BY <2>1, <2>2
<1> QED
  BY <1>3, <1>7, <1>8

\* Put writes the new entries in front and keeps older ones.
LEMMA PutFacts ==
  ASSUME NEW T, NEW l \in Seq(T), NEW es \in Seq(T), LocalCapacity \in Nat
  PROVE  /\ Put(l, es) \in Seq(T)
         /\ \A i \in 1..Len(Put(l, es)) :
              \/ \E j \in 1..Len(es) : Put(l, es)[i] = es[j]
              \/ \E j \in 1..Len(l) : Put(l, es)[i] = l[j]
<1> DEFINE ks == {es[i].key : i \in DOMAIN es}
           d == Drop(l, ks)
           kept == es \o d
<1>1. /\ d \in Seq(T)
      /\ \A i \in 1..Len(d) : \E j \in 1..Len(l) : d[i] = l[j] /\ l[j].key \notin ks
  <2> HIDE DEF ks
  <2> QED
    BY DropFacts
<1>2. Put(l, es) = IF Len(kept) > LocalCapacity THEN SubSeq(kept, 1, LocalCapacity) ELSE kept
  BY DEF Put
<1> HIDE DEF ks, d
<1>3. Len(d) \in Nat /\ Len(es) \in Nat
  BY <1>1, LenProperties
<1>4. /\ kept \in Seq(T) /\ Len(kept) = Len(es) + Len(d)
      /\ \A i \in 1..(Len(es) + Len(d)) :
           kept[i] = IF i <= Len(es) THEN es[i] ELSE d[i - Len(es)]
  BY <1>1, ConcatProperties
<1>5. ASSUME NEW i \in 1..Len(kept)
      PROVE  \/ \E j \in 1..Len(es) : kept[i] = es[j]
             \/ \E j \in 1..Len(l) : kept[i] = l[j]
  <2>1. CASE i <= Len(es)
    BY <1>3, <1>4, <1>5, <2>1
  <2>2. CASE ~(i <= Len(es))
    <3>1. i - Len(es) \in 1..Len(d) /\ kept[i] = d[i - Len(es)]
      BY <1>3, <1>4, <1>5, <2>2
    <3> QED
      BY <1>1, <3>1
  <2> QED
    BY <2>1, <2>2
<1> HIDE DEF kept
<1>6. Len(kept) \in Nat /\ \A i \in 1..Len(kept) : kept[i] \in T
  BY <1>4, LenProperties, ElementOfSeq
<1>7. /\ Put(l, es) \in Seq(T)
      /\ \A i \in 1..Len(Put(l, es)) : i \in 1..Len(kept) /\ Put(l, es)[i] = kept[i]
  <2>1. CASE Len(kept) > LocalCapacity
    <3>1. \A i \in 1..LocalCapacity : i \in 1..Len(kept) /\ kept[i] \in T
      BY <1>6, <2>1
    <3>2. /\ SubSeq(kept, 1, LocalCapacity) \in Seq(T)
          /\ Len(SubSeq(kept, 1, LocalCapacity)) = IF 1 <= LocalCapacity THEN LocalCapacity - 1 + 1 ELSE 0
          /\ \A i \in 1..(LocalCapacity - 1 + 1) :
               SubSeq(kept, 1, LocalCapacity)[i] = kept[1 + i - 1]
      BY <3>1, SubSeqProperties
    <3>3. Len(SubSeq(kept, 1, LocalCapacity)) = LocalCapacity
      BY <3>2
    <3>4. \A i \in 1..LocalCapacity : SubSeq(kept, 1, LocalCapacity)[i] = kept[i]
      BY <3>2
    <3> QED
      BY <1>2, <2>1, <3>1, <3>2, <3>3, <3>4
  <2>2. CASE ~(Len(kept) > LocalCapacity)
    BY <1>2, <1>4, <2>2
  <2> QED
    BY <2>1, <2>2
<1> DEFINE p == Put(l, es)
<1> HIDE DEF p
<1>8. ASSUME NEW i \in 1..Len(p)
      PROVE \/ \E j \in 1..Len(es) : p[i] = es[j]
            \/ \E j \in 1..Len(l) : p[i] = l[j]
  BY <1>5, <1>7 DEF p
<1> QED
  BY <1>7, <1>8 DEF p

-----------------------------------------------------------------------------
(* What a request writes *)

\* The entries of L1 and the tasks of the delayed deleter.
Entries ==
  {e \in [key : Keys, value : UNION {Values(k) : k \in Keys}, live : BOOLEAN] :
     e.value \in Values(e.key)}
Tasks == [keys : SUBSET Keys, from : Reqs \cup Orders, window : SUBSET Reqs]

LEMMA EntryType ==
  ASSUME NEW k \in Keys, NEW v \in Values(k)
  PROVE  Entry(k, v) \in Entries
BY DEF Entry, Entries

\* A request with rows writes v under k: it shows what the request read, and
\* an item is written as missing by a detail request for it only.
Writes(r, k, v) ==
  /\ pc[r] = "rows" /\ got[r] # Error
  /\ k \in Keys /\ v \in Values(k)
  /\ \A s \in DOMAIN v : v[s] # 0 => s \in DOMAIN got[r] /\ v[s] = got[r][s]
  /\ k # List => v[k] # 0 \/ (k = KeyOf(r) /\ v = got[r])

LEMMA ListIsNoSku == List \notin Skus /\ List \in Keys /\ \A s \in Skus : s # List
BY SkusAssumption DEF List, Keys

LEMMA ValuesOfSku == \A s \in Skus : s \in Keys /\ Values(s) = [{s} -> Nat]
BY ListIsNoSku DEF Values, Keys

LEMMA ValuesOfList == Values(List) = [Skus -> Nat]
BY DEF Values

LEMMA FoundFacts ==
  ASSUME NEW rows \in [Skus -> Nat]
  PROVE  /\ Found(rows) \in SUBSET Skus /\ Found(rows) \in SUBSET Nat
         /\ IsFiniteSet(Found(rows))
         /\ \A s \in Found(rows) : rows[s] \in Nat /\ rows[s] # 0
<1>1. Found(rows) \in SUBSET Skus
  BY DEF Found
<1>2. IsFiniteSet(Found(rows))
  BY <1>1, SkusAssumption, FS_Subset
<1>3. Found(rows) \in SUBSET Nat
  BY <1>1, SkusAssumption
<1> QED
  BY <1>1, <1>2, <1>3 DEF Found

\* The warm-up writes the items of the rows it read, as they were read, and
\* the list.
LEMMA WarmEntriesFacts ==
  ASSUME NEW rows \in [Skus -> Nat]
  PROVE  LET es == WarmEntries(rows)
         IN  /\ es \in Seq(Entries)
             /\ \A i \in 1..Len(es) :
                  /\ \A s \in DOMAIN es[i].value : es[i].value[s] # 0 =>
                       s \in Skus /\ es[i].value[s] = rows[s]
                  /\ es[i].key # List => es[i].value[es[i].key] # 0
<1> DEFINE ids == Found(rows)
           n == Cardinality(ids)
           lv == [s \in Skus |-> IF Rank(ids, s) <= ListLimit THEN rows[s] ELSE 0]
           first == <<Entry(List, lv)>>
           iv(s) == [t \in {s} |-> rows[s]]
           rest == [i \in 1..n |-> LET s == Nth(ids, n + 1 - i) IN Entry(s, iv(s))]
<1>1. WarmEntries(rows) = IF n = 0 THEN <<>> ELSE first \o rest
  BY DEF WarmEntries
<1>2. /\ ids \in SUBSET Skus /\ ids \in SUBSET Nat /\ IsFiniteSet(ids)
      /\ \A s \in ids : rows[s] \in Nat /\ rows[s] # 0
  BY FoundFacts
<1> HIDE DEF ids
<1>3. /\ n \in Nat
      /\ \A j \in 1..n : Nth(ids, j) \in ids
  BY <1>2, NthCounts
<1>4. lv \in Values(List) /\ List \in Keys
  BY ValuesOfList, ListIsNoSku
<1>5. /\ first \in Seq(Entries) /\ Len(first) = 1 /\ DOMAIN first = 1..1
      /\ first[1] = Entry(List, lv)
  BY <1>4, EntryType
<1>6. ASSUME NEW s \in ids
      PROVE  /\ s \in Keys /\ iv(s) \in Values(s) /\ s # List
             /\ iv(s)[s] = rows[s] /\ DOMAIN iv(s) = {s} /\ s \in Skus
  BY <1>2, ValuesOfSku, ListIsNoSku
<1> HIDE DEF n, iv
<1>7. \A i \in 1..n : n + 1 - i \in 1..n
  BY <1>3
<1>8. ASSUME NEW i \in 1..n
      PROVE  /\ Nth(ids, n + 1 - i) \in ids
             /\ rest[i] = Entry(Nth(ids, n + 1 - i), iv(Nth(ids, n + 1 - i)))
             /\ rest[i] \in Entries
             /\ rest[i].key = Nth(ids, n + 1 - i)
             /\ rest[i].value = iv(Nth(ids, n + 1 - i))
  <2>1. Nth(ids, n + 1 - i) \in ids
    BY <1>3, <1>7
  <2>2. rest[i] = Entry(Nth(ids, n + 1 - i), iv(Nth(ids, n + 1 - i)))
    OBVIOUS
  <2> QED
    BY <1>6, <2>1, <2>2, EntryType DEF Entry
<1>9. rest \in Seq(Entries) /\ Len(rest) = n /\ DOMAIN rest = 1..n
  BY <1>3, <1>8
<1> HIDE DEF rest
<1>11. first[1].key = List /\ first[1].value = lv
  BY <1>5 DEF Entry
<1> HIDE DEF first
<1>15. /\ first \o rest \in Seq(Entries) /\ Len(first \o rest) = 1 + n
       /\ \A i \in 1..(1 + n) :
            (first \o rest)[i] = IF i <= 1 THEN first[i] ELSE rest[i - 1]
  <2>1. /\ first \o rest \in Seq(Entries)
        /\ Len(first \o rest) = Len(first) + Len(rest)
        /\ \A i \in 1..(Len(first) + Len(rest)) :
             (first \o rest)[i] = IF i <= Len(first) THEN first[i] ELSE rest[i - Len(first)]
    BY <1>5, <1>9, ConcatProperties
  <2> QED
    BY <1>5, <1>9, <2>1
<1> DEFINE Good(e) == /\ \A s \in DOMAIN e.value : e.value[s] # 0 =>
                           s \in Skus /\ e.value[s] = rows[s]
                      /\ e.key # List => e.value[e.key] # 0
<1>16. Good(first[1])
  <2>1. \A s \in DOMAIN lv : lv[s] # 0 => s \in Skus /\ lv[s] = rows[s]
    OBVIOUS
  <2> HIDE DEF lv
  <2> QED
    BY <1>11, <2>1
<1>17. ASSUME NEW i \in 1..n PROVE Good(rest[i])
  <2> DEFINE s == Nth(ids, n + 1 - i)
  <2>1. s \in ids /\ rest[i].key = s /\ rest[i].value = iv(s)
    BY <1>8
  <2> HIDE DEF s
  <2>2. /\ s # List /\ s \in Skus /\ DOMAIN iv(s) = {s}
        /\ iv(s)[s] = rows[s] /\ rows[s] # 0
    BY <1>2, <1>6, <2>1
  <2>3. \A t \in DOMAIN rest[i].value : t = s
    BY <2>1, <2>2
  <2>4. rest[i].value[s] = rows[s]
    BY <2>1, <2>2
  <2> QED
    BY <2>1, <2>2, <2>3, <2>4
<1> HIDE DEF Good
<1>18. ASSUME NEW i \in 1..(1 + n) PROVE Good((first \o rest)[i])
  <2>1. CASE i = 1
    BY <1>3, <1>15, <1>16, <2>1
  <2>2. CASE i # 1
    <3>1. i - 1 \in 1..n /\ (first \o rest)[i] = rest[i - 1]
      BY <1>3, <1>15, <2>2
    <3> QED
      BY <1>17, <3>1
  <2> QED
    BY <2>1, <2>2
<1>19. ASSUME n # 0 PROVE WarmEntries(rows) = first \o rest
  BY <1>1, <1>19
<1>20. CASE n = 0
  <2>1. WarmEntries(rows) = <<>>
    BY <1>1, <1>20
  <2>2. Len(<<>>) = 0 /\ <<>> \in Seq(Entries)
    BY EmptySeq
  <2> QED
    BY <2>1, <2>2
<1>21. CASE n # 0
  <2> DEFINE es == WarmEntries(rows)
  <2>1. es = first \o rest
    BY <1>19, <1>21
  <2> HIDE DEF es
  <2>2. es \in Seq(Entries) /\ \A i \in 1..Len(es) : Good(es[i])
    BY <1>15, <1>18, <2>1
  <2> QED
    BY <2>2 DEF es, Good
<1> QED
  BY <1>20, <1>21

\* The callback of a query writes nothing, or entries the request may write.
LEMMA OnRowsWrites ==
  ASSUME TypeOK, RequestsOK, NEW r \in Reqs, OnRows(r)
  PROVE  \/ UNCHANGED <<wire, local>>
         \/ \E es \in Seq(Entries) :
              /\ Setex(r, es)
              /\ \A i \in 1..Len(es) : Writes(r, es[i].key, es[i].value)
<1>1. /\ pc[r] = "rows"
      /\ UNCHANGED <<wire, local>> \/ got[r] # Error
  BY DEF OnRows
<1>2. Kind[r] \in {"detail", "list", "warm", "rebuild"} /\ Wants[r] \in Skus
  BY RequestsAssumption
<1> SUFFICES ASSUME got[r] # Error, OnDetail(r) \/ OnList(r) \/ OnWarm(r)
             PROVE  \E es \in Seq(Entries) :
                      /\ Setex(r, es)
                      /\ \A i \in 1..Len(es) : Writes(r, es[i].key, es[i].value)
  BY <1>1 DEF OnRows
<1>3. got[r] \in Values(KeyOf(r))
  BY <1>1 DEF RequestsOK
<1>4. ASSUME NEW k \in Keys, k = KeyOf(r), Setex(r, <<Entry(k, got[r])>>)
      PROVE  \E es \in Seq(Entries) :
                /\ Setex(r, es)
                /\ \A i \in 1..Len(es) : Writes(r, es[i].key, es[i].value)
  <2> DEFINE es == <<Entry(k, got[r])>>
  <2>1. es \in Seq(Entries) /\ Len(es) = 1 /\ DOMAIN es = 1..1 /\ es[1] = Entry(k, got[r])
    BY <1>3, <1>4, EntryType
  <2>2. es[1].key = k /\ es[1].value = got[r]
    BY <2>1 DEF Entry
  <2> HIDE DEF es
  <2>4. Writes(r, k, got[r])
    BY <1>1, <1>3, <1>4 DEF Writes
  <2>5. \A i \in 1..Len(es) : Writes(r, es[i].key, es[i].value)
    BY <2>1, <2>2, <2>4
  <2>6. Setex(r, es)
    BY <1>4 DEF es
  <2> QED
    BY <2>1, <2>5, <2>6
<1>5. CASE OnDetail(r)
  <2>1. KeyOf(r) = Wants[r] /\ Wants[r] \in Keys
    BY <1>2, <1>5, ValuesOfSku DEF OnDetail, KeyOf
  <2> QED
    BY <1>4, <1>5, <2>1 DEF OnDetail
<1>6. CASE OnList(r)
  <2>1. KeyOf(r) = List /\ List \in Keys
    BY <1>6, ListIsNoSku DEF OnList, KeyOf
  <2> QED
    BY <1>4, <1>6, <2>1 DEF OnList
<1>7. CASE OnWarm(r)
  <2>1. KeyOf(r) = List /\ got[r] \in [Skus -> Nat]
    BY <1>3, <1>7, ValuesOfList DEF OnWarm, KeyOf
  <2> DEFINE es == WarmEntries(got[r])
  <2>2. /\ es \in Seq(Entries)
        /\ \A i \in 1..Len(es) :
             /\ \A s \in DOMAIN es[i].value : es[i].value[s] # 0 =>
                  s \in Skus /\ es[i].value[s] = got[r][s]
             /\ es[i].key # List => es[i].value[es[i].key] # 0
    BY <2>1, WarmEntriesFacts
  <2>3. Setex(r, es)
    BY <1>7 DEF OnWarm
  <2> HIDE DEF es
  <2>4. ASSUME NEW i \in 1..Len(es) PROVE Writes(r, es[i].key, es[i].value)
    <3>1. es[i] \in Entries
      BY <2>2, ElementOfSeq
    <3>2. es[i].key \in Keys /\ es[i].value \in Values(es[i].key)
      BY <3>1 DEF Entries
    <3>3. DOMAIN got[r] = Skus
      BY <2>1
    <3> QED
      BY <1>1, <2>2, <3>2, <3>3 DEF Writes
  <2> QED
    BY <2>2, <2>3, <2>4
<1> QED
  BY <1>5, <1>6, <1>7

-----------------------------------------------------------------------------
(* What a step can do to L1, to Redis and to the commands on their way *)

CacheOK ==
  /\ local \in Seq(Entries)
  /\ delayed \in Seq(Tasks)
  /\ \A c \in wire : /\ c.op \in {"SETEX", "DEL"}
                     /\ c.op = "SETEX" => c.from \in Reqs

TypeInv == TypeOK /\ CacheOK /\ RequestsOK

LEMMA WritersAreRequests ==
  ASSUME CacheOK
  PROVE  WritingBack \in SUBSET Reqs
BY DEF CacheOK, WritingBack

Deletes == \E ks \in SUBSET Keys, from \in Reqs \cup Orders :
  Invalidate(ks, from, WritingBack) /\ UNCHANGED redis
Executes == \E c \in wire :
  /\ wire' = wire \ {c} /\ redis' \in {redis, Effect(c)}
  /\ UNCHANGED <<local, delayed>>
Overwrites == \E k \in Keys, v \in {Nil, Garbage} :
  redis' = [redis EXCEPT ![k] = v] /\ UNCHANGED <<wire, local, delayed>>
Dies == local' = <<>> /\ delayed' = <<>> /\ UNCHANGED <<redis, wire>>

LEMMA KeysOfOrders == \A s \in Skus : OrderKeys(s) \in SUBSET Keys
BY ListIsNoSku, CacheAssumption DEF OrderKeys, Keys

\* The steps, as the cache sees them.
LEMMA CacheMoves ==
  ASSUME [Next]_vars
  PROVE  \/ UNCHANGED <<redis, wire, local, delayed>>
         \/ \E k \in Keys : local' = Touch(local, k) /\ UNCHANGED <<redis, wire, delayed>>
         \/ Deletes
         \/ \E r \in Reqs : OnRows(r) /\ UNCHANGED <<redis, delayed>>
         \/ FireDelayed
         \/ Executes
         \/ Overwrites
         \/ \E i \in DOMAIN local : LocalExpire(i)
         \/ Dies
<1>0. \A r \in Reqs : KeyOf(r) \in Keys /\ List \in Keys
  BY RequestsAssumption, ValuesOfSku, ListIsNoSku DEF KeyOf
<1>1. ASSUME NEW r \in Reqs, Ask(r)
      PROVE  \E k \in Keys : \/ UNCHANGED <<redis, wire, local, delayed>>
                             \/ local' = Touch(local, k) /\ UNCHANGED <<redis, wire, delayed>>
  BY <1>0, <1>1 DEF Ask, Finish
<1>2. ASSUME NEW r \in Reqs,
             Operate(r) \/ RedisGet(r) \/ DbSelectIds(r) \/ OnIds(r) \/ DbSelect(r)
      PROVE  UNCHANGED <<redis, wire, local, delayed>>
  BY <1>2 DEF Operate, RedisGet, DbSelectIds, OnIds, DbSelect, cacheVars
<1>3. ASSUME NEW r \in Reqs, OnGot(r)
      PROVE  UNCHANGED <<redis, wire, local, delayed>> \/ Deletes
  <2>1. {KeyOf(r), List} \in SUBSET Keys /\ r \in Reqs \cup Orders
    BY <1>0
  <2> QED
    BY <1>3, <2>1 DEF OnGot, Deletes
<1>4. ASSUME NEW r \in Reqs, OnRows(r) PROVE UNCHANGED <<redis, delayed>>
  BY <1>4 DEF OnRows
<1>5. ASSUME Redis
      PROVE  Executes \/ Overwrites \/ \E i \in DOMAIN local : LocalExpire(i)
  <2>1. ASSUME NEW c \in wire, RedisExecutes(c) \/ RedisFails(c) PROVE Executes
    BY <2>1 DEF RedisExecutes, RedisFails, Executes
  <2>2. ASSUME NEW k \in Keys, Expire(k) \/ Spoil(k) PROVE Overwrites
    BY <2>2 DEF Expire, Spoil, Overwrites
  <2>3. Spoilable \subseteq Keys
    BY CacheAssumption
  <2> QED
    BY <1>5, <2>1, <2>2, <2>3 DEF Redis
<1>6. ASSUME NEW o \in Orders, Commit(o) \/ LoseCommit(o)
      PROVE  UNCHANGED <<redis, wire, local, delayed>>
  BY <1>6 DEF Commit, LoseCommit, cacheVars
<1>7. ASSUME NEW o \in Orders, OnCommitted(o)
      PROVE  UNCHANGED <<redis, wire, local, delayed>> \/ Deletes
  <2>1. OrderKeys(Buys[o]) \in SUBSET Keys /\ o \in Reqs \cup Orders
    BY KeysOfOrders, RequestsAssumption
  <2> QED
    BY <1>7, <2>1 DEF OnCommitted, Deletes
<1>8. ASSUME NEW s \in Skus, AddSku(s)
      PROVE  UNCHANGED <<redis, wire, local, delayed>>
  BY <1>8 DEF AddSku, cacheVars
<1>9. CASE SecondDelete
  BY <1>9 DEF SecondDelete
<1>10. CASE Crash
  BY <1>10 DEF Crash, Dies
<1>11. CASE UNCHANGED vars
  BY <1>11 DEF vars, cacheVars
<1>12. ASSUME NEW r \in Reqs, Request(r)
       PROVE  \/ UNCHANGED <<redis, wire, local, delayed>>
              \/ \E k \in Keys : local' = Touch(local, k) /\ UNCHANGED <<redis, wire, delayed>>
              \/ Deletes
              \/ OnRows(r) /\ UNCHANGED <<redis, delayed>>
  BY <1>1, <1>2, <1>3, <1>4, <1>12 DEF Request
<1> QED
  BY <1>5, <1>6, <1>7, <1>8, <1>9, <1>10, <1>11, <1>12 DEF Next

\* An L1 in which every entry is an older one or one a request may write.
Follows(l) ==
  /\ l \in Seq(Entries)
  /\ \A i \in 1..Len(l) :
       \/ \E j \in 1..Len(local) : l[i].key = local[j].key /\ l[i].value = local[j].value
       \/ \E r \in Reqs : Writes(r, l[i].key, l[i].value)

LEMMA DropFollows ==
  ASSUME CacheOK, NEW ks
  PROVE  Follows(Drop(local, ks))
<1> DEFINE d == Drop(local, ks)
<1>1. d \in Seq(Entries)
  BY DropFacts DEF CacheOK
<1>2. \A i \in 1..Len(d) : \E j \in 1..Len(local) : d[i] = local[j]
  BY DropFacts DEF CacheOK
<1> HIDE DEF d
<1> QED
  BY <1>1, <1>2 DEF Follows, d

LEMMA TouchFollows ==
  ASSUME CacheOK, NEW k
  PROVE  Follows(Touch(local, k))
<1> DEFINE d == Touch(local, k)
<1>1. d \in Seq(Entries)
  BY TouchFacts DEF CacheOK
<1>2. \A i \in 1..Len(d) : \E j \in 1..Len(local) : d[i] = local[j]
  BY TouchFacts DEF CacheOK
<1> HIDE DEF d
<1> QED
  BY <1>1, <1>2 DEF Follows, d

LEMMA PutFollows ==
  ASSUME CacheOK, NEW r \in Reqs, NEW es \in Seq(Entries),
         \A i \in 1..Len(es) : Writes(r, es[i].key, es[i].value)
  PROVE  Follows(Put(local, es))
<1> DEFINE d == Put(local, es)
<1>1. local \in Seq(Entries) /\ LocalCapacity \in Nat
  BY CacheAssumption DEF CacheOK
<1>2. d \in Seq(Entries)
  BY <1>1, PutFacts
<1>3. \A i \in 1..Len(d) : \/ \E j \in 1..Len(es) : d[i] = es[j]
                           \/ \E j \in 1..Len(local) : d[i] = local[j]
  BY <1>1, PutFacts
<1> HIDE DEF d
<1> QED
  BY <1>2, <1>3 DEF Follows, d

LEMMA ExpiryFollows ==
  ASSUME CacheOK, NEW i \in DOMAIN local, LocalExpire(i)
  PROVE  Follows(local')
<1>1. Len(local) \in Nat /\ DOMAIN local = 1..Len(local)
  BY LenProperties DEF CacheOK
<1> DEFINE e == [local[i] EXCEPT !.live = FALSE]
<1>2. local[i] \in Entries
  BY <1>1, ElementOfSeq DEF CacheOK
<1>3. e \in Entries /\ e.key = local[i].key /\ e.value = local[i].value
  BY <1>2 DEF Entries
<1>4. local' = [local EXCEPT ![i] = e]
  BY DEF LocalExpire
<1> HIDE DEF e
<1>5. /\ local' \in Seq(Entries) /\ Len(local') = Len(local)
      /\ \A j \in 1..Len(local) : local'[j] = IF j = i THEN e ELSE local[j]
  BY <1>1, <1>3, <1>4, ExceptSeq DEF CacheOK
<1>6. \A j \in 1..Len(local) :
        local'[j].key = local[j].key /\ local'[j].value = local[j].value
  BY <1>3, <1>5
<1> QED
  BY <1>5, <1>6 DEF Follows, CacheOK

\* L1 keeps its shape, and shows nothing new but what a request writes.
LEMMA LocalStep == TypeInv /\ [Next]_vars => Follows(local')
<1> SUFFICES ASSUME TypeInv, [Next]_vars PROVE Follows(local')
  OBVIOUS
<1> USE DEF TypeInv
<1>1. Follows(local)
  BY DEF Follows, CacheOK
<1>2. Follows(<<>>)
  BY EmptySeq DEF Follows
<1>3. CASE UNCHANGED <<redis, wire, local, delayed>> \/ Executes \/ Overwrites \/ Dies
  BY <1>1, <1>2, <1>3 DEF Executes, Overwrites, Dies
<1>4. CASE \E k \in Keys : local' = Touch(local, k)
  BY <1>4, TouchFollows
<1>5. CASE Deletes \/ FireDelayed
  BY <1>1, <1>5, DropFollows DEF Deletes, FireDelayed, Invalidate
<1>6. ASSUME NEW r \in Reqs, OnRows(r) PROVE Follows(local')
  <2>1. CASE UNCHANGED <<wire, local>>
    BY <1>1, <2>1
  <2>2. ASSUME NEW es \in Seq(Entries), Setex(r, es),
               \A i \in 1..Len(es) : Writes(r, es[i].key, es[i].value)
        PROVE  Follows(local')
    BY <1>1, <2>2, PutFollows DEF Setex
  <2> QED
    BY <1>6, <2>1, <2>2, OnRowsWrites
<1>7. ASSUME NEW i \in DOMAIN local, LocalExpire(i) PROVE Follows(local')
  BY <1>7, ExpiryFollows
<1> QED
  BY <1>3, <1>4, <1>5, <1>6, <1>7, CacheMoves

\* A command on its way is well formed; a SETEX was there before, or its
\* request writes it now.
LEMMA WireStep ==
  TypeInv /\ [Next]_vars =>
    \A c \in wire' :
      /\ c.op \in {"SETEX", "DEL"}
      /\ c.op = "DEL" => c.keys \subseteq Keys
      /\ c.op = "SETEX" =>
           /\ c.from \in Reqs /\ c.key \in Keys /\ c.value \in Values(c.key)
           /\ c \in wire \/ Writes(c.from, c.key, c.value)
<1> SUFFICES ASSUME TypeInv, [Next]_vars, NEW c \in wire'
             PROVE  /\ c.op \in {"SETEX", "DEL"}
                    /\ c.op = "DEL" => c.keys \subseteq Keys
                    /\ c.op = "SETEX" =>
                         /\ c.from \in Reqs /\ c.key \in Keys /\ c.value \in Values(c.key)
                         /\ c \in wire \/ Writes(c.from, c.key, c.value)
  OBVIOUS
<1> DEFINE Goal == /\ c.op \in {"SETEX", "DEL"}
                   /\ c.op = "DEL" => c.keys \subseteq Keys
                   /\ c.op = "SETEX" =>
                        /\ c.from \in Reqs /\ c.key \in Keys /\ c.value \in Values(c.key)
                        /\ c \in wire \/ Writes(c.from, c.key, c.value)
<1>1. CASE c \in wire
  BY <1>1 DEF TypeInv, TypeOK, CacheOK
<1>2. ASSUME NEW ks \in SUBSET Keys, NEW from, NEW again, c = Delete(ks, from, again)
      PROVE  Goal
  BY <1>2 DEF Delete
<1>3. CASE wire' \subseteq wire
  BY <1>1, <1>3
<1>4. CASE Deletes
  BY <1>1, <1>2, <1>4 DEF Deletes, Invalidate
<1>5. CASE FireDelayed
  <2>1. Head(delayed) \in Tasks
    BY <1>5, HeadTailProperties DEF TypeInv, CacheOK, FireDelayed
  <2>2. \A k \in Head(delayed).keys : {k} \in SUBSET Keys
    BY <2>1 DEF Tasks
  <2>3. c \in wire \/ \E k \in Head(delayed).keys : c = Delete({k}, Head(delayed).from, TRUE)
    BY <1>5 DEF FireDelayed
  <2> QED
    BY <1>1, <1>2, <2>2, <2>3
<1>6. ASSUME NEW r \in Reqs, OnRows(r) PROVE Goal
  <2>1. CASE UNCHANGED <<wire, local>>
    BY <1>3, <2>1
  <2>2. ASSUME NEW es \in Seq(Entries), Setex(r, es),
               \A i \in 1..Len(es) : Writes(r, es[i].key, es[i].value)
        PROVE  Goal
    <3>1. DOMAIN es = 1..Len(es)
      BY LenProperties
    <3>2. CASE c \notin wire
      <4>1. PICK i \in 1..Len(es) :
              c = [op |-> "SETEX", key |-> es[i].key, value |-> es[i].value, from |-> r]
        BY <2>2, <3>1, <3>2 DEF Setex
      <4>2. Writes(r, es[i].key, es[i].value)
        BY <2>2
      <4>3. es[i].key \in Keys /\ es[i].value \in Values(es[i].key)
        BY <4>2 DEF Writes
      <4>4. c.op = "SETEX" /\ c.key = es[i].key /\ c.value = es[i].value /\ c.from = r
        BY <4>1
      <4> QED
        BY <4>2, <4>3, <4>4
    <3> QED
      BY <1>1, <3>2
  <2> QED
    BY <1>6, <2>1, <2>2, OnRowsWrites DEF TypeInv
<1>7. CASE \/ UNCHANGED <<redis, wire, local, delayed>> \/ Executes \/ Overwrites \/ Dies
           \/ \E k \in Keys : local' = Touch(local, k) /\ UNCHANGED <<redis, wire, delayed>>
           \/ \E i \in DOMAIN local : LocalExpire(i)
  BY <1>3, <1>7 DEF Executes, Overwrites, Dies, LocalExpire
<1> QED
  BY <1>4, <1>5, <1>6, <1>7, CacheMoves

\* A key of Redis keeps its value, loses it, or gets that of a SETEX.
LEMMA RedisStep ==
  TypeInv /\ [Next]_vars =>
    /\ DOMAIN redis' = Keys
    /\ \A k \in Keys :
         \/ redis'[k] = redis[k]
         \/ redis'[k] \in {Nil, Garbage}
         \/ \E c \in wire : c.op = "SETEX" /\ c.key = k /\ c.value = redis'[k]
<1> SUFFICES ASSUME TypeInv, [Next]_vars
             PROVE  /\ DOMAIN redis' = Keys
                    /\ \A k \in Keys :
                         \/ redis'[k] = redis[k]
                         \/ redis'[k] \in {Nil, Garbage}
                         \/ \E c \in wire : c.op = "SETEX" /\ c.key = k /\ c.value = redis'[k]
  OBVIOUS
<1>1. DOMAIN redis = Keys
  BY DEF TypeInv, TypeOK
<1>2. CASE UNCHANGED redis
  BY <1>1, <1>2
<1>3. CASE Executes
  <2>1. PICK c \in wire : redis' \in {redis, Effect(c)}
    BY <1>3 DEF Executes
  <2>2. redis' = redis \/ redis' = Effect(c)
    BY <2>1
  <2>3. CASE c.op = "SETEX" /\ redis' = Effect(c)
    <3>1. redis' = [redis EXCEPT ![c.key] = c.value]
      BY <2>3 DEF Effect
    <3>2. \A k \in Keys : redis'[k] = IF k = c.key THEN c.value ELSE redis[k]
      BY <1>1, <3>1
    <3> QED
      BY <1>1, <2>3, <3>1, <3>2
  <2>4. CASE c.op # "SETEX" /\ redis' = Effect(c)
    BY <2>4 DEF Effect
  <2> QED
    BY <1>2, <2>2, <2>3, <2>4
<1>4. CASE Overwrites
  <2>1. PICK k \in Keys, v \in {Nil, Garbage} : redis' = [redis EXCEPT ![k] = v]
    BY <1>4 DEF Overwrites
  <2> QED
    BY <1>1, <2>1
<1>5. CASE \/ UNCHANGED <<redis, wire, local, delayed>> \/ Dies \/ Deletes \/ FireDelayed
           \/ \E k \in Keys : local' = Touch(local, k) /\ UNCHANGED <<redis, wire, delayed>>
           \/ \E i \in DOMAIN local : LocalExpire(i)
           \/ \E r \in Reqs : OnRows(r) /\ UNCHANGED <<redis, delayed>>
  BY <1>2, <1>5 DEF Dies, Deletes, FireDelayed, LocalExpire
<1> QED
  BY <1>3, <1>4, <1>5, CacheMoves

\* The queue of the delayed deleter keeps its type.
LEMMA DelayedStep == TypeInv /\ [Next]_vars => delayed' \in Seq(Tasks)
<1> SUFFICES ASSUME TypeInv, [Next]_vars PROVE delayed' \in Seq(Tasks)
  OBVIOUS
<1>1. delayed \in Seq(Tasks)
  BY DEF TypeInv, CacheOK
<1>2. <<>> \in Seq(Tasks)
  BY EmptySeq
<1>3. CASE Deletes
  <2>1. PICK ks \in SUBSET Keys, from \in Reqs \cup Orders : Invalidate(ks, from, WritingBack)
    BY <1>3 DEF Deletes
  <2> DEFINE t == [keys |-> ks, from |-> from, window |-> WritingBack]
  <2>2. t \in Tasks
    BY WritersAreRequests DEF Tasks, TypeInv
  <2>3. delayed' = delayed \/ delayed' = Append(delayed, t)
    BY <2>1 DEF Invalidate
  <2> HIDE DEF t
  <2> QED
    BY <1>1, <2>2, <2>3, AppendProperties
<1>4. CASE FireDelayed
  BY <1>1, <1>4, HeadTailProperties DEF FireDelayed
<1>5. CASE Dies
  BY <1>2, <1>5 DEF Dies
<1> QED
  BY <1>1, <1>3, <1>4, <1>5, CacheMoves DEF Executes, Overwrites, LocalExpire

-----------------------------------------------------------------------------
(* Requests *)

LEMMA RequestSteps ==
  ASSUME [Next]_vars
  PROVE  \/ \E r \in Reqs : Request(r)
         \/ UNCHANGED <<pc, got, answer, bloom, reads, turn, owner, assured>>
<1>1. ASSUME (Redis /\ UNCHANGED readVars) \/ UNCHANGED vars
      PROVE  UNCHANGED <<pc, got, answer, bloom, reads, turn, owner, assured>>
  BY <1>1 DEF vars, readVars, ghosts
<1>2. ASSUME NEW o \in Orders, Commit(o) \/ OnCommitted(o) \/ LoseCommit(o)
      PROVE  UNCHANGED <<pc, got, answer, bloom, reads, turn, owner, assured>>
  BY <1>2 DEF Commit, OnCommitted, LoseCommit, ghosts
<1>3. ASSUME NEW s \in Skus, AddSku(s)
      PROVE  UNCHANGED <<pc, got, answer, bloom, reads, turn, owner, assured>>
  BY <1>3 DEF AddSku, ghosts
<1>4. CASE SecondDelete \/ Crash
  BY <1>4 DEF SecondDelete, Crash, readVars, ghosts
<1> QED
  BY <1>1, <1>2, <1>3, <1>4 DEF Next

\* A row keeps its version, gets the next one, or is added.
LEMMA VersionStep ==
  ASSUME TypeOK, [Next]_vars
  PROVE  /\ version' \in [Skus -> Nat]
         /\ \A s \in Skus : version[s] <= version'[s]
<1> USE DEF TypeOK
<1>1. ASSUME NEW o \in Orders, Commit(o)
      PROVE  /\ version' \in [Skus -> Nat]
             /\ \A s \in Skus : version[s] <= version'[s]
  <2>1. version' = [version EXCEPT ![Buys[o]] = version[Buys[o]] + 1] /\ Buys[o] \in Skus
    BY <1>1, RequestsAssumption DEF Commit
  <2> QED
    BY <2>1
<1>2. ASSUME NEW s \in Skus, AddSku(s)
      PROVE  /\ version' \in [Skus -> Nat]
             /\ \A t \in Skus : version[t] <= version'[t]
  BY <1>2 DEF AddSku
<1>3. CASE UNCHANGED version
  BY <1>3
<1>4. ASSUME NEW r \in Reqs, Request(r) PROVE UNCHANGED version
  BY <1>4 DEF Request, Ask, RedisGet, OnGot, Operate, DbSelectIds, OnIds, DbSelect, OnRows
<1>5. ASSUME NEW o \in Orders, OnCommitted(o) \/ LoseCommit(o) PROVE UNCHANGED version
  BY <1>5 DEF OnCommitted, LoseCommit
<1>6. CASE (Redis /\ UNCHANGED readVars) \/ UNCHANGED vars \/ SecondDelete \/ Crash
  BY <1>3, <1>6 DEF SecondDelete, Crash, readVars, vars
<1> QED
  BY <1>1, <1>2, <1>3, <1>4, <1>5, <1>6 DEF Next

\* What the queries return.
LEMMA SelectedFacts ==
  ASSUME TypeOK, NEW r \in Reqs
  PROVE  /\ Selected(r) \in Values(KeyOf(r))
         /\ \A s \in DOMAIN Selected(r) :
              s \in Skus /\ Selected(r)[s] \in {0, version[s]}
         /\ Kind[r] = "detail" => Selected(r) = [s \in {Wants[r]} |-> version[s]]
<1>1. Wants[r] \in Skus /\ version \in [Skus -> Nat]
  BY RequestsAssumption DEF TypeOK
<1>2. ASSUME NEW n
      PROVE  /\ Rows(n) \in [Skus -> Nat]
             /\ \A s \in Skus : Rows(n)[s] \in {0, version[s]}
  BY <1>1 DEF Rows
<1>3. CASE Kind[r] = "detail"
  <2>1. Selected(r) = [s \in {Wants[r]} |-> version[s]] /\ KeyOf(r) = Wants[r]
    BY <1>3 DEF Selected, KeyOf
  <2>2. Values(KeyOf(r)) = [{Wants[r]} -> Nat]
    BY <1>1, <2>1, ValuesOfSku
  <2> QED
    BY <1>1, <2>1, <2>2
<1>4. CASE Kind[r] # "detail"
  <2>1. KeyOf(r) = List /\ (Selected(r) = Rows(ListLimit) \/ Selected(r) = Rows(WarmLimit))
    BY <1>4 DEF Selected, KeyOf
  <2>2. Selected(r) \in [Skus -> Nat] /\ \A s \in Skus : Selected(r)[s] \in {0, version[s]}
    BY <1>2, <2>1
  <2> QED
    BY <1>4, <2>1, <2>2, ValuesOfList
<1> QED
  BY <1>3, <1>4

LEMMA LocalHitFacts ==
  ASSUME CacheOK, NEW k, LocalHit(k)
  PROVE  /\ LocalAt(k) \in 1..Len(local) /\ local[LocalAt(k)].key = k
         /\ local[LocalAt(k)].value \in Values(k)
<1>1. DOMAIN local = 1..Len(local)
  BY LenProperties DEF CacheOK
<1>2. \E i \in DOMAIN local : local[i].key = k
  BY DEF LocalHit, LocalKeys
<1>3. LocalAt(k) \in DOMAIN local /\ local[LocalAt(k)].key = k
  BY <1>2 DEF LocalAt
<1>4. local[LocalAt(k)] \in Entries
  BY <1>1, <1>3, ElementOfSeq DEF CacheOK
<1> QED
  BY <1>1, <1>3, <1>4 DEF Entries

Places == {"new", "get", "got", "ids", "gotIds", "select", "rows", "done"}

\* A request goes to one place, keeping or replacing what it got and what it
\* answered.
LEMMA RequestMoves ==
  ASSUME TypeInv, NEW r \in Reqs, Request(r)
  PROVE  \E p \in Places : \E g, a :
           /\ pc' = [pc EXCEPT ![r] = p] /\ got' = [got EXCEPT ![r] = g]
           /\ answer' = [answer EXCEPT ![r] = a]
           /\ p \in {"get", "got"} => Kind[r] \in {"detail", "list"}
           /\ p \in {"ids", "gotIds"} => Kind[r] = "rebuild"
           /\ p = "got" => g \in Values(KeyOf(r)) \cup {Nil, Garbage}
           /\ p = "gotIds" => g = Error \/ g \subseteq Skus
           /\ p = "rows" => g \in Values(KeyOf(r)) \cup {Error}
           /\ a # Nil => p = "done"
<1> DEFINE Moves(p, g, a) ==
      /\ pc' = [pc EXCEPT ![r] = p] /\ got' = [got EXCEPT ![r] = g]
      /\ answer' = [answer EXCEPT ![r] = a]
      /\ p \in {"get", "got"} => Kind[r] \in {"detail", "list"}
      /\ p \in {"ids", "gotIds"} => Kind[r] = "rebuild"
      /\ p = "got" => g \in Values(KeyOf(r)) \cup {Nil, Garbage}
      /\ p = "gotIds" => g = Error \/ g \subseteq Skus
      /\ p = "rows" => g \in Values(KeyOf(r)) \cup {Error}
      /\ a # Nil => p = "done"
<1> SUFFICES \E p \in Places : \E g, a : Moves(p, g, a)
  OBVIOUS
<1>1. /\ DOMAIN got = Reqs /\ DOMAIN answer = Reqs
      /\ got = [got EXCEPT ![r] = got[r]] /\ answer = [answer EXCEPT ![r] = answer[r]]
      /\ answer[r] # Nil => pc[r] = "done"
      /\ KeyOf(r) \in Keys /\ version \in [Skus -> Nat]
  BY RequestsAssumption, ValuesOfSku, ListIsNoSku DEF TypeInv, TypeOK, RequestsOK, KeyOf
<1>2. ASSUME NEW p \in Places, got' = got, answer' = answer, Goto(r, p), pc[r] # "done",
             p \in {"get", "select"}, p = "get" => Kind[r] \in {"detail", "list"}
      PROVE  \E q \in Places : \E g, a : Moves(q, g, a)
  <2>1. Moves(p, got[r], answer[r])
    BY <1>1, <1>2 DEF Goto
  <2> QED
    BY <2>1
<1>3. ASSUME NEW a, got' = got, Finish(r, a)
      PROVE  \E q \in Places : \E g, b : Moves(q, g, b)
  <2>1. Moves("done", got[r], a)
    BY <1>1, <1>3 DEF Goto, Finish
  <2> QED
    BY <2>1 DEF Places
<1>4. ASSUME NEW p \in Places, NEW g, Goto(r, p), Receive(r, g), answer' = answer, pc[r] # "done",
             \/ p = "got" /\ Kind[r] \in {"detail", "list"}
                          /\ g \in Values(KeyOf(r)) \cup {Nil, Garbage}
             \/ p = "gotIds" /\ Kind[r] = "rebuild" /\ (g = Error \/ g \subseteq Skus)
             \/ p = "rows" /\ g \in Values(KeyOf(r)) \cup {Error}
      PROVE  \E q \in Places : \E h, a : Moves(q, h, a)
  <2>1. Moves(p, g, answer[r])
    BY <1>1, <1>4 DEF Goto, Receive
  <2> QED
    BY <2>1
<1>5. CASE Ask(r)
  <2>1. CASE LocalHit(KeyOf(r)) /\ Goto(r, "got") /\ Receive(r, local[LocalAt(KeyOf(r))].value)
             /\ UNCHANGED answer
    <3>1. local[LocalAt(KeyOf(r))].value \in Values(KeyOf(r))
      BY <2>1, LocalHitFacts DEF TypeInv
    <3> QED
      BY <1>4, <1>5, <2>1, <3>1 DEF Ask, Places
  <2>2. CASE Goto(r, "get") /\ UNCHANGED <<got, answer>>
    BY <1>2, <1>5, <2>2 DEF Ask, Places
  <2>3. CASE Goto(r, "select") /\ UNCHANGED <<got, answer>>
    BY <1>2, <1>5, <2>3 DEF Ask, Places
  <2>4. CASE Finish(r, NotFound) /\ UNCHANGED got
    BY <1>3, <2>4
  <2> QED
    BY <1>5, <2>1, <2>2, <2>3, <2>4 DEF Ask
<1>6. CASE Operate(r)
  <2>1. CASE Kind[r] = "rebuild" /\ BloomEnabled
    <3>1. Goto(r, "ids") /\ got' = got /\ answer' = answer /\ pc[r] = "new"
      BY <1>6, <2>1 DEF Operate
    <3>2. Moves("ids", got[r], answer[r])
      BY <1>1, <2>1, <3>1 DEF Goto
    <3> QED
      BY <3>2 DEF Places
  <2>2. CASE ~(Kind[r] = "rebuild" /\ BloomEnabled)
    BY <1>2, <1>6, <2>2 DEF Operate, Places
  <2> QED
    BY <2>1, <2>2
<1>7. CASE RedisGet(r)
  <2>1. redis[KeyOf(r)] \in Values(KeyOf(r)) \cup {Nil, Garbage}
    BY <1>1 DEF TypeInv, TypeOK
  <2>2. Kind[r] \in {"detail", "list"} /\ pc[r] # "done" /\ answer' = answer /\ Goto(r, "got")
    BY <1>7 DEF RedisGet, TypeInv, RequestsOK
  <2>3. Receive(r, redis[KeyOf(r)]) \/ Receive(r, Nil)
    BY <1>7 DEF RedisGet
  <2> QED
    BY <1>4, <2>1, <2>2, <2>3 DEF Places
<1>8. CASE OnGot(r)
  <2>1. CASE Hit(r, got[r])
    BY <1>3, <1>8, <2>1 DEF OnGot, Hit
  <2>2. CASE Goto(r, "select") /\ UNCHANGED answer
    BY <1>2, <1>8, <2>2 DEF OnGot, Places
  <2> QED
    BY <1>8, <2>1, <2>2 DEF OnGot
<1>9. CASE DbSelectIds(r)
  <2>1. Found(version) \subseteq Skus
    BY <1>1 DEF Found
  <2>2. Kind[r] = "rebuild" /\ pc[r] # "done" /\ answer' = answer /\ Goto(r, "gotIds")
    BY <1>9 DEF DbSelectIds, TypeInv, RequestsOK
  <2>3. Receive(r, Found(version)) \/ Receive(r, Error)
    BY <1>9 DEF DbSelectIds
  <2> QED
    BY <1>4, <2>1, <2>2, <2>3 DEF Places
<1>10. CASE OnIds(r)
  BY <1>2, <1>10 DEF OnIds, Places
<1>11. CASE DbSelect(r)
  <2>1. Selected(r) \in Values(KeyOf(r))
    BY SelectedFacts DEF TypeInv
  <2>2. pc[r] # "done" /\ answer' = answer /\ Goto(r, "rows")
    BY <1>11 DEF DbSelect
  <2>3. Receive(r, Selected(r)) \/ Receive(r, Error)
    BY <1>11 DEF DbSelect
  <2> QED
    BY <1>4, <2>1, <2>2, <2>3 DEF Places
<1>12. CASE OnRows(r)
  <2>1. got' = got /\ \E a : Finish(r, a)
    BY <1>12 DEF OnRows, OnDetail, OnList, OnWarm
  <2> QED
    BY <1>3, <2>1
<1> QED
  BY <1>5, <1>6, <1>7, <1>8, <1>9, <1>10, <1>11, <1>12 DEF Request

\* Where a request goes and what it holds there.
LEMMA RequestsStep == TypeInv /\ [Next]_vars => RequestsOK' /\ pc' \in [Reqs -> Places]
<1> SUFFICES ASSUME TypeInv, [Next]_vars PROVE RequestsOK' /\ pc' \in [Reqs -> Places]
  OBVIOUS
<1>1. pc \in [Reqs -> Places] /\ RequestsOK
  BY DEF TypeInv, TypeOK, Places
<1>2. CASE UNCHANGED <<pc, got, answer>>
  BY <1>1, <1>2 DEF RequestsOK, KeyOf
<1>3. ASSUME NEW r \in Reqs, Request(r) PROVE RequestsOK' /\ pc' \in [Reqs -> Places]
  <2>1. PICK p, g, a :
           /\ p \in Places
           /\ pc' = [pc EXCEPT ![r] = p] /\ got' = [got EXCEPT ![r] = g]
           /\ answer' = [answer EXCEPT ![r] = a]
           /\ p \in {"get", "got"} => Kind[r] \in {"detail", "list"}
           /\ p \in {"ids", "gotIds"} => Kind[r] = "rebuild"
           /\ p = "got" => g \in Values(KeyOf(r)) \cup {Nil, Garbage}
           /\ p = "gotIds" => g = Error \/ g \subseteq Skus
           /\ p = "rows" => g \in Values(KeyOf(r)) \cup {Error}
           /\ a # Nil => p = "done"
    BY <1>3, RequestMoves
  <2>2. /\ pc'[r] = p /\ got'[r] = g /\ answer'[r] = a
        /\ \A q \in Reqs \ {r} : pc'[q] = pc[q] /\ got'[q] = got[q] /\ answer'[q] = answer[q]
        /\ DOMAIN got' = Reqs /\ DOMAIN answer' = Reqs
        /\ pc' \in [Reqs -> Places]
    BY <1>1, <2>1 DEF RequestsOK
  <2> QED
    BY <1>1, <2>1, <2>2 DEF RequestsOK, KeyOf
<1> QED
  BY <1>2, <1>3, RequestSteps

-----------------------------------------------------------------------------
(* Type correctness *)

LEMMA FlagsStep ==
  ASSUME TypeOK, [Next]_vars
  PROVE  /\ undone' \in BOOLEAN /\ up' \in BOOLEAN
         /\ order' \in [Orders -> {"new", "committed", "invalidated", "lost"}]
<1> USE DEF TypeOK
<1>1. ASSUME NEW r \in Reqs, Request(r)
      PROVE  UNCHANGED <<up, order>> /\ undone' \in BOOLEAN
  BY <1>1 DEF Request, Ask, RedisGet, OnGot, Operate, DbSelectIds, OnIds, DbSelect, OnRows, cacheVars
<1>2. CASE (Redis /\ UNCHANGED readVars) \/ UNCHANGED vars
  BY <1>2 DEF Redis, RedisExecutes, RedisFails, Expire, Spoil, LocalExpire, readVars, vars, cacheVars
<1>3. ASSUME NEW o \in Orders, Commit(o) \/ OnCommitted(o) \/ LoseCommit(o)
      PROVE  /\ UNCHANGED <<up, undone>>
             /\ order' \in [Orders -> {"new", "committed", "invalidated", "lost"}]
  BY <1>3 DEF Commit, OnCommitted, LoseCommit, cacheVars
<1>4. ASSUME NEW s \in Skus, AddSku(s) PROVE UNCHANGED <<up, order, undone>>
  BY <1>4 DEF AddSku, cacheVars
<1>5. CASE SecondDelete
  BY <1>5 DEF SecondDelete, FireDelayed, readVars
<1>6. CASE Crash
  BY <1>6 DEF Crash
<1> QED
  BY <1>1, <1>2, <1>3, <1>4, <1>5, <1>6 DEF Next

\* What the properties remember keeps its type.
LEMMA GhostsStep ==
  ASSUME TypeInv, [Next]_vars
  PROVE  /\ reads' \in Seq(SUBSET Skus) /\ turn' \in [Reqs -> Nat] /\ owner' \in Nat
         /\ assured' \subseteq Reqs
<1> USE DEF TypeInv, TypeOK
<1>1. ASSUME NEW r \in Reqs, Ask(r)
      PROVE  UNCHANGED <<reads, turn, owner>> /\ assured' \subseteq Reqs
  BY <1>1 DEF Ask
<1>2. ASSUME NEW r \in Reqs, DbSelectIds(r)
      PROVE  /\ reads' \in Seq(SUBSET Skus) /\ turn' \in [Reqs -> Nat]
             /\ UNCHANGED <<owner, assured>>
  <2>1. Found(version) \in SUBSET Skus /\ Len(reads) + 1 \in Nat
    BY LenProperties DEF Found
  <2>2. UNCHANGED <<owner, assured>>
    BY <1>2 DEF DbSelectIds
  <2>3. CASE UNCHANGED <<reads, turn>>
    BY <2>2, <2>3
  <2>4. CASE reads' = Append(reads, Found(version)) /\ turn' = [turn EXCEPT ![r] = Len(reads) + 1]
    <3>1. reads' \in Seq(SUBSET Skus)
      BY <2>1, <2>4, AppendProperties
    <3> QED
      BY <2>1, <2>2, <2>4, <3>1
  <2> QED
    BY <1>2, <2>3, <2>4 DEF DbSelectIds
<1>3. ASSUME NEW r \in Reqs, OnIds(r)
      PROVE  UNCHANGED <<reads, turn, assured>> /\ owner' \in Nat
  BY <1>3 DEF OnIds, Publish
<1>4. ASSUME NEW r \in Reqs, Request(r), ~Ask(r), ~DbSelectIds(r), ~OnIds(r)
      PROVE  UNCHANGED <<reads, turn, owner, assured>>
  BY <1>4 DEF Request, RedisGet, OnGot, Operate, DbSelect, OnRows, ghosts
<1> QED
  BY <1>1, <1>2, <1>3, <1>4, RequestSteps

LEMMA TypeInit == Init => TypeInv
<1> SUFFICES ASSUME Init PROVE TypeInv
  OBVIOUS
<1>1. TypeOK
  <2>1. /\ version \in [Skus -> Nat]
        /\ order \in [Orders -> {"new", "committed", "invalidated", "lost"}]
        /\ pc \in [Reqs -> {"new", "get", "got", "ids", "gotIds", "select", "rows", "done"}]
        /\ reads = <<>> /\ turn \in [Reqs -> Nat] /\ owner \in Nat /\ assured \subseteq Reqs
    BY DEF Init
  <2>5. <<>> \in Seq(SUBSET Skus)
    BY EmptySeq
  <2>2. wire = {} /\ DOMAIN local = {} /\ DOMAIN delayed = {}
    BY DEF Init, CacheInit
  <2>3. undone \in BOOLEAN /\ up \in BOOLEAN
    BY DEF Init, CacheInit
  <2>4. DOMAIN redis = Keys /\ \A k \in Keys : redis[k] = Nil
    BY DEF Init, CacheInit
  <2> QED
    BY <2>1, <2>2, <2>3, <2>4, <2>5 DEF TypeOK
<1>2. CacheOK
  BY EmptySeq DEF Init, CacheInit, CacheOK
<1>3. RequestsOK
  BY DEF Init, RequestsOK
<1> QED
  BY <1>1, <1>2, <1>3 DEF TypeInv

LEMMA TypeStep == TypeInv /\ [Next]_vars => TypeInv'
<1> SUFFICES ASSUME TypeInv, [Next]_vars PROVE TypeInv'
  OBVIOUS
<1>1. Follows(local')
  BY LocalStep
<1>2. /\ local' \in Seq(Entries)
      /\ DOMAIN local' = 1..Len(local')
  BY <1>1, LenProperties DEF Follows
<1>3. delayed' \in Seq(Tasks) /\ DOMAIN delayed' = 1..Len(delayed')
  BY DelayedStep, LenProperties
<1>4. CacheOK'
  BY <1>2, <1>3, WireStep DEF CacheOK
<1>5. RequestsOK' /\ pc' \in [Reqs -> Places]
  BY RequestsStep
<1>6. TypeOK'
  <2>1. /\ DOMAIN redis' = Keys
        /\ \A k \in Keys : redis'[k] \in Values(k) \cup {Nil, Garbage}
    <3>1. TypeOK
      BY DEF TypeInv
    <3> QED
      BY <3>1, RedisStep DEF TypeOK
  <2>2. \A c \in wire' : /\ c.op = "SETEX" => c.key \in Keys /\ c.value \in Values(c.key)
                         /\ c.op = "DEL" => c.keys \subseteq Keys
    BY WireStep
  <2>3. \A i \in DOMAIN local' :
          local'[i].key \in Keys /\ local'[i].value \in Values(local'[i].key)
    <3>1. \A i \in 1..Len(local') : local'[i] \in Entries
      BY <1>2, ElementOfSeq
    <3> QED
      BY <1>2, <3>1 DEF Entries
  <2>4. \A i \in DOMAIN delayed' : delayed'[i].keys \subseteq Keys
    <3>1. \A i \in 1..Len(delayed') : delayed'[i] \in Tasks
      BY <1>3, ElementOfSeq
    <3> QED
      BY <1>3, <3>1 DEF Tasks
  <2>5. version' \in [Skus -> Nat]
    BY VersionStep DEF TypeInv
  <2>6. /\ undone' \in BOOLEAN /\ up' \in BOOLEAN
        /\ order' \in [Orders -> {"new", "committed", "invalidated", "lost"}]
    BY FlagsStep DEF TypeInv
  <2>7. /\ reads' \in Seq(SUBSET Skus) /\ turn' \in [Reqs -> Nat] /\ owner' \in Nat
        /\ assured' \subseteq Reqs
    BY GhostsStep
  <2> QED
    BY <1>5, <2>1, <2>2, <2>3, <2>4, <2>5, <2>6, <2>7 DEF TypeOK, Places
<1> QED
  BY <1>4, <1>5, <1>6 DEF TypeInv

\* The values in Redis, on their way and in L1 are of the shape their key
\* promises the readers, or a foreign value; every variable has its type.
THEOREM TypeCorrect == Spec => []TypeOK
<1>1. TypeInv => TypeOK
  BY DEF TypeInv
<1> QED
  BY <1>1, TypeInit, TypeStep, PTL DEF Spec

LEMMA TypeInvariant == Spec => []TypeInv
BY TypeInit, TypeStep, PTL DEF Spec

-----------------------------------------------------------------------------
(* Where the answers come from *)

\* What a request holds is what Redis, L1 or the database had when it got it.
LEMMA GotStep ==
  ASSUME TypeInv, [Next]_vars, NEW q \in Reqs
  PROVE  \/ pc'[q] = pc[q] /\ got'[q] = got[q]
         \/ pc'[q] \notin {"got", "gotIds", "rows"}
         \/ /\ pc'[q] = "got"
            /\ \/ got'[q] \in {Nil, redis[KeyOf(q)]}
               \/ \E i \in 1..Len(local) :
                    local[i].key = KeyOf(q) /\ local[i].value = got'[q]
         \/ pc'[q] = "gotIds" /\ got'[q] \in {Found(version), Error} /\ UNCHANGED version
         \/ /\ pc'[q] = "rows" /\ got'[q] \in {Selected(q), Error}
            /\ UNCHANGED <<cacheVars, version, order, up>>
<1> DEFINE Goal ==
         \/ pc'[q] = pc[q] /\ got'[q] = got[q]
         \/ pc'[q] \notin {"got", "gotIds", "rows"}
         \/ /\ pc'[q] = "got"
            /\ \/ got'[q] \in {Nil, redis[KeyOf(q)]}
               \/ \E i \in 1..Len(local) :
                    local[i].key = KeyOf(q) /\ local[i].value = got'[q]
         \/ pc'[q] = "gotIds" /\ got'[q] \in {Found(version), Error} /\ UNCHANGED version
         \/ /\ pc'[q] = "rows" /\ got'[q] \in {Selected(q), Error}
            /\ UNCHANGED <<cacheVars, version, order, up>>
<1> SUFFICES Goal
  OBVIOUS
<1>1. DOMAIN pc = Reqs /\ DOMAIN got = Reqs
  BY DEF TypeInv, TypeOK, RequestsOK
<1>2. CASE UNCHANGED <<pc, got>>
  BY <1>2
<1>3. ASSUME NEW r \in Reqs, Request(r) PROVE Goal
  <2>1. CASE r # q
    <3>1. \E p \in Places : \E g, a : pc' = [pc EXCEPT ![r] = p] /\ got' = [got EXCEPT ![r] = g]
      BY <1>3, RequestMoves
    <3> QED
      BY <1>1, <2>1, <3>1
  <2>2. CASE r = q
    <3>1. ASSUME NEW p, Goto(q, p) PROVE pc'[q] = p
      BY <1>1, <3>1 DEF Goto
    <3>2. ASSUME NEW g, Receive(q, g) PROVE got'[q] = g
      BY <1>1, <3>2 DEF Receive
    <3>3. CASE Ask(q)
      <4>1. CASE LocalHit(KeyOf(q)) /\ Goto(q, "got")
                   /\ Receive(q, local[LocalAt(KeyOf(q))].value)
        BY <3>1, <3>2, <4>1, LocalHitFacts DEF TypeInv
      <4>2. CASE Goto(q, "get") \/ Goto(q, "select") \/ Finish(q, NotFound)
        BY <3>1, <4>2 DEF Finish
      <4> QED
        BY <3>3, <4>1, <4>2 DEF Ask
    <3>4. CASE Operate(q) \/ OnIds(q)
      <4>1. pc'[q] = "ids" \/ pc'[q] = "select"
        BY <3>1, <3>4 DEF Operate, OnIds
      <4> QED
        BY <4>1
    <3>5. CASE RedisGet(q)
      BY <3>1, <3>2, <3>5 DEF RedisGet
    <3>6. CASE OnGot(q) \/ OnRows(q)
      <4>1. pc'[q] = "select" \/ pc'[q] = "done"
        BY <3>1, <3>6 DEF OnGot, OnRows, OnDetail, OnList, OnWarm, Hit, Finish
      <4> QED
        BY <4>1
    <3>7. CASE DbSelectIds(q)
      BY <3>1, <3>2, <3>7 DEF DbSelectIds
    <3>8. CASE DbSelect(q)
      <4>1. pc'[q] = "rows" /\ got'[q] \in {Selected(q), Error}
        BY <3>1, <3>2, <3>8 DEF DbSelect
      <4> QED
        BY <3>8, <4>1 DEF DbSelect
    <3> QED
      BY <1>3, <2>2, <3>3, <3>4, <3>5, <3>6, <3>7, <3>8 DEF Request
  <2> QED
    BY <2>1, <2>2
<1> QED
  BY <1>2, <1>3, RequestSteps

\* A text that denies its sku is one of its values.
LEMMA DenialIsValue ==
  ASSUME NEW s \in Skus, NEW v, Denies(s, v)
  PROVE  /\ v \in Values(s) /\ v \notin {Nil, Garbage, NotFound}
         /\ v[s] = 0
<1>1. s \in Keys /\ Values(s) = [{s} -> Nat]
  BY ValuesOfSku
<1> QED
  BY <1>1, ValuesAssumption DEF Denies

LEMMA HonestWrite ==
  ASSUME NEW s \in Skus, Known(s), NEW r \in Reqs, NEW v, Writes(r, s, v)
  PROVE  ~Denies(s, v)
<1>1. s # List
  BY ListIsNoSku
<1>2. CASE v[s] # 0
  BY <1>2, DenialIsValue
<1>3. CASE s = KeyOf(r) /\ v = got[r]
  BY <1>3 DEF Writes, Known
<1> QED
  BY <1>1, <1>2, <1>3 DEF Writes

\* The filter changes when a rebuild publishes what it read, and only then.
LEMMA BloomStep ==
  ASSUME TypeInv, [Next]_vars
  PROVE  \/ UNCHANGED <<bloom, owner>>
         \/ \E r \in Reqs :
              /\ pc[r] = "gotIds" /\ got[r] # Error /\ got[r] \in SUBSET Skus
              /\ bloom' = Filter!Build(got[r]) /\ owner' = turn[r]
              /\ pc'[r] = "select" /\ UNCHANGED <<version, reads, turn>>
<1>1. ASSUME NEW r \in Reqs, Request(r), ~OnIds(r) PROVE UNCHANGED <<bloom, owner>>
  BY <1>1 DEF Request, Ask, RedisGet, OnGot, Operate, DbSelectIds, DbSelect, OnRows, ghosts
<1>2. ASSUME NEW r \in Reqs, OnIds(r), ~UNCHANGED <<bloom, owner>>
      PROVE  /\ pc[r] = "gotIds" /\ got[r] # Error /\ got[r] \in SUBSET Skus
             /\ bloom' = Filter!Build(got[r]) /\ owner' = turn[r]
             /\ pc'[r] = "select" /\ UNCHANGED <<version, reads, turn>>
  BY <1>2 DEF OnIds, Publish, Goto, TypeInv, TypeOK, RequestsOK
<1> QED
  BY <1>1, <1>2, RequestSteps

\* The log of the queries grows at a successful query, and only then.
LEMMA ReadsStep ==
  ASSUME TypeInv, [Next]_vars
  PROVE  \/ /\ UNCHANGED <<reads, turn>>
            /\ \A q \in Reqs : pc'[q] = "gotIds" /\ got'[q] # Error =>
                 pc[q] = "gotIds" /\ got'[q] = got[q]
         \/ \E r \in Reqs :
              /\ reads' = Append(reads, Found(version))
              /\ turn' = [turn EXCEPT ![r] = Len(reads) + 1]
              /\ got'[r] = Found(version)
              /\ \A q \in Reqs \ {r} : pc'[q] = pc[q] /\ got'[q] = got[q]
              /\ UNCHANGED <<version, bloom, owner>>
<1> DEFINE Goal ==
         \/ /\ UNCHANGED <<reads, turn>>
            /\ \A q \in Reqs : pc'[q] = "gotIds" /\ got'[q] # Error =>
                 pc[q] = "gotIds" /\ got'[q] = got[q]
         \/ \E r \in Reqs :
              /\ reads' = Append(reads, Found(version))
              /\ turn' = [turn EXCEPT ![r] = Len(reads) + 1]
              /\ got'[r] = Found(version)
              /\ \A q \in Reqs \ {r} : pc'[q] = pc[q] /\ got'[q] = got[q]
              /\ UNCHANGED <<version, bloom, owner>>
<1>1. DOMAIN pc = Reqs /\ DOMAIN got = Reqs
  BY DEF TypeInv, TypeOK, RequestsOK
<1>2. ASSUME NEW r \in Reqs, DbSelectIds(r) PROVE Goal
  <2>1. \A q \in Reqs \ {r} : pc'[q] = pc[q] /\ got'[q] = got[q]
    BY <1>1, <1>2 DEF DbSelectIds, Goto, Receive
  <2>2. CASE Receive(r, Error) /\ UNCHANGED <<reads, turn>>
    <3>1. got'[r] = Error
      BY <1>1, <2>2 DEF Receive
    <3> QED
      BY <2>1, <2>2, <3>1
  <2>3. CASE /\ Receive(r, Found(version))
             /\ reads' = Append(reads, Found(version))
             /\ turn' = [turn EXCEPT ![r] = Len(reads) + 1]
    <3>1. got'[r] = Found(version) /\ UNCHANGED <<version, bloom, owner>>
      BY <1>1, <1>2, <2>3 DEF Receive, DbSelectIds
    <3> QED
      BY <2>1, <2>3, <3>1
  <2> QED
    BY <1>2, <2>2, <2>3 DEF DbSelectIds
<1>3. ASSUME NEW r \in Reqs, Request(r), ~DbSelectIds(r) PROVE Goal
  <2>1. UNCHANGED <<reads, turn>>
    BY <1>3 DEF Request, Ask, RedisGet, OnGot, Operate, OnIds, DbSelect, OnRows, ghosts
  <2>2. ASSUME NEW q \in Reqs \ {r} PROVE pc'[q] = pc[q] /\ got'[q] = got[q]
    <3>1. \E p \in Places : \E g, a : pc' = [pc EXCEPT ![r] = p] /\ got' = [got EXCEPT ![r] = g]
      BY <1>3, RequestMoves
    <3> QED
      BY <1>1, <3>1
  <2>3. pc'[r] # "gotIds"
    BY <1>1, <1>3 DEF Request, Ask, RedisGet, OnGot, Operate, OnIds, DbSelect, OnRows,
                      OnDetail, OnList, OnWarm, Hit, Finish, Goto
  <2> QED
    BY <2>1, <2>2, <2>3
<1>4. CASE UNCHANGED <<pc, got, answer, bloom, reads, turn, owner, assured>>
  BY <1>4
<1> QED
  BY <1>2, <1>3, <1>4, RequestSteps

P == INSTANCE BloomFilterProofs WITH Ids <- Skus

\* What was published is contained.
LEMMA Published ==
  ASSUME NEW ids \in SUBSET Skus, NEW s \in ids
  PROVE  Filter!MaybeContains(Filter!Build(ids), s)
<1>1. P!BloomConstants
  BY RequestsAssumption DEF P!BloomConstants, Filter!BloomConstants
<1>2. P!MaybeContains(P!Build(ids), s)
  BY <1>1, P!NoFalseNegatives
<1> QED
  BY <1>2 DEF P!MaybeContains, P!Build, P!Positions, P!Position, P!Stride, P!TestBit, P!Words,
              Filter!MaybeContains, Filter!Build, Filter!Positions, Filter!Position,
              Filter!Stride, Filter!TestBit, Filter!Words

-----------------------------------------------------------------------------
(* Rebuilds count *)

LEMMA RebuildsGrowStep == TypeInv /\ RebuildsGrow /\ [Next]_vars => RebuildsGrow'
<1> SUFFICES ASSUME TypeInv, RebuildsGrow, [Next]_vars PROVE RebuildsGrow'
  OBVIOUS
<1> DEFINE n == Len(reads)
<1>1. Found(version) \subseteq Found(version') /\ Found(version) \in SUBSET Skus
  <2>1. TypeOK
    BY DEF TypeInv
  <2> QED
    BY <2>1, VersionStep DEF Found, TypeOK
<1>2. reads \in Seq(SUBSET Skus) /\ n \in Nat /\ turn \in [Reqs -> Nat] /\ owner \in 0..n
  BY LenProperties DEF TypeInv, TypeOK, RebuildsGrow
<1>3. \/ UNCHANGED <<bloom, owner>>
      \/ \E r \in Reqs :
           /\ pc[r] = "gotIds" /\ got[r] # Error /\ got[r] \in SUBSET Skus
           /\ bloom' = Filter!Build(got[r]) /\ owner' = turn[r]
           /\ UNCHANGED reads
  BY BloomStep
<1>4. CASE UNCHANGED <<reads, turn>> /\ \A q \in Reqs :
             pc'[q] = "gotIds" /\ got'[q] # Error => pc[q] = "gotIds" /\ got'[q] = got[q]
  <2>1. /\ \A i, j \in 1..Len(reads') : i <= j => reads'[i] \subseteq reads'[j]
        /\ \A i \in 1..Len(reads') : reads'[i] \subseteq Found(version')
        /\ \A r \in Reqs : pc'[r] = "gotIds" /\ got'[r] # Error =>
             turn'[r] \in 1..Len(reads') /\ got'[r] = reads'[turn'[r]]
    BY <1>1, <1>4 DEF RebuildsGrow
  <2>2. owner' \in 0..Len(reads')
        /\ (owner' # 0 => \A s \in reads'[owner'] : Filter!MaybeContains(bloom', s))
    <3>1. CASE UNCHANGED <<bloom, owner>>
      BY <1>4, <3>1 DEF RebuildsGrow, Filter!MaybeContains, Filter!TestBit
    <3>2. ASSUME NEW r \in Reqs, pc[r] = "gotIds", got[r] # Error, got[r] \in SUBSET Skus,
                 bloom' = Filter!Build(got[r]), owner' = turn[r]
          PROVE  /\ owner' \in 0..Len(reads')
                 /\ \A s \in reads'[owner'] : Filter!MaybeContains(bloom', s)
      <4>1. turn[r] \in 1..n /\ got[r] = reads[turn[r]]
        BY <3>2 DEF RebuildsGrow
      <4> QED
        BY <1>2, <1>4, <3>2, <4>1, Published
    <3> QED
      BY <1>3, <3>1, <3>2
  <2> QED
    BY <2>1, <2>2 DEF RebuildsGrow
<1>5. ASSUME NEW r \in Reqs,
             reads' = Append(reads, Found(version)), turn' = [turn EXCEPT ![r] = n + 1],
             got'[r] = Found(version),
             \A q \in Reqs \ {r} : pc'[q] = pc[q] /\ got'[q] = got[q],
             UNCHANGED <<version, bloom, owner>>
      PROVE  RebuildsGrow'
  <2>1. /\ Len(reads') = n + 1 /\ reads'[n + 1] = Found(version')
        /\ \A i \in 1..n : reads'[i] = reads[i]
    BY <1>1, <1>2, <1>5, AppendProperties
  <2>2. \A i \in 1..Len(reads') : reads'[i] \subseteq Found(version')
    BY <1>2, <1>5, <2>1 DEF RebuildsGrow
  <2>3. \A i, j \in 1..Len(reads') : i <= j => reads'[i] \subseteq reads'[j]
    <3> SUFFICES ASSUME NEW i \in 1..(n + 1), NEW j \in 1..(n + 1), i <= j
                 PROVE  reads'[i] \subseteq reads'[j]
      BY <2>1
    <3>1. CASE j = n + 1
      BY <2>1, <2>2, <3>1
    <3>2. CASE j # n + 1
      <4>1. i \in 1..n /\ j \in 1..n
        BY <1>2, <3>2
      <4> QED
        BY <2>1, <4>1 DEF RebuildsGrow
    <3> QED
      BY <3>1, <3>2
  <2>4. ASSUME NEW q \in Reqs, pc'[q] = "gotIds", got'[q] # Error
        PROVE  turn'[q] \in 1..Len(reads') /\ got'[q] = reads'[turn'[q]]
    <3>1. CASE q = r
      BY <1>2, <1>5, <2>1, <3>1
    <3>2. CASE q # r
      <4>1. turn'[q] = turn[q] /\ turn[q] \in 1..n /\ got'[q] = reads[turn[q]]
        BY <1>2, <1>5, <2>4, <3>2 DEF RebuildsGrow
      <4> QED
        BY <1>2, <2>1, <4>1
    <3> QED
      BY <3>1, <3>2
  <2>5. owner' \in 0..Len(reads')
        /\ (owner' # 0 => \A s \in reads'[owner'] : Filter!MaybeContains(bloom', s))
    <3>1. owner' = owner /\ bloom' = bloom
      BY <1>5
    <3> QED
      BY <1>2, <2>1, <3>1 DEF RebuildsGrow, Filter!MaybeContains, Filter!TestBit
  <2> QED
    BY <2>2, <2>3, <2>4, <2>5 DEF RebuildsGrow
<1> QED
  BY <1>4, <1>5, ReadsStep

\* What had a row when a rebuild queried the ids passes the filter from its
\* publication on, however many rebuilds run, overlap and fail and whatever
\* rows are added, until a rebuild that queried earlier publishes later
\* (rebuildBloom).
THEOREM RebuildsCount == Spec => []RebuildCounts
<1>1. Init => RebuildsGrow
  BY EmptySeq DEF Init, RebuildsGrow
<1>2. TypeInv /\ RebuildsGrow => RebuildCounts
  <2> SUFFICES ASSUME TypeInv, RebuildsGrow, NEW i \in 1..owner, NEW s \in reads[i]
               PROVE  Filter!MaybeContains(bloom, s)
    BY DEF RebuildCounts
  <2>1. Len(reads) \in Nat /\ owner \in 0..Len(reads)
    BY LenProperties DEF TypeInv, TypeOK, RebuildsGrow
  <2>2. i \in 1..Len(reads) /\ owner \in 1..Len(reads) /\ i <= owner /\ owner # 0
    BY <2>1
  <2> QED
    BY <2>2 DEF RebuildsGrow
<1> QED
  BY <1>1, <1>2, RebuildsGrowStep, TypeInvariant, PTL DEF Spec

-----------------------------------------------------------------------------
(* What is known stays known *)

\* Once no text and no filter denies a sku, none does again.
LEMMA KnownStep ==
  ASSUME TypeInv, [Next]_vars, NEW s \in Skus, Known(s)
  PROVE  Known(s)'
<1>0. TypeOK /\ DOMAIN local = 1..Len(local) /\ s \in Keys
  BY LenProperties, ValuesOfSku DEF TypeInv, CacheOK
<1>1. version'[s] # 0
  BY <1>0, VersionStep DEF Known, TypeOK
<1>2. ~Denies(s, redis'[s])
  BY <1>0, RedisStep, DenialIsValue DEF Known
<1>3. ASSUME NEW c \in wire', c.op = "SETEX", c.key = s PROVE ~Denies(s, c.value)
  BY <1>3, WireStep, HonestWrite DEF Known
<1>4. ASSUME NEW i \in DOMAIN local', local'[i].key = s PROVE ~Denies(s, local'[i].value)
  <2>1. Follows(local')
    BY LocalStep
  <2>2. DOMAIN local' = 1..Len(local')
    BY <2>1, LenProperties DEF Follows
  <2> QED
    BY <1>0, <1>4, <2>1, <2>2, HonestWrite DEF Known, Follows
<1>5. ASSUME bloom' # Nil PROVE Filter!MaybeContains(bloom', s)
  <2>1. CASE UNCHANGED bloom
    BY <1>5, <2>1 DEF Known, Filter!MaybeContains, Filter!TestBit
  <2>2. ASSUME NEW r \in Reqs, pc[r] = "gotIds", got[r] # Error, got[r] \in SUBSET Skus,
               bloom' = Filter!Build(got[r])
        PROVE  Filter!MaybeContains(bloom', s)
    BY <2>2, Published DEF Known
  <2> QED
    BY <2>1, <2>2, BloomStep
<1>6. ASSUME NEW r \in Reqs, pc'[r] \in {"got", "rows"}, KeyOf(r) = s, got'[r] # Error
      PROVE  ~Denies(s, got'[r])
  <2>1. Kind[r] = "detail" /\ Wants[r] = s
    BY <1>6, ListIsNoSku DEF KeyOf
  <2>2. CASE pc'[r] = pc[r] /\ got'[r] = got[r]
    BY <1>6, <2>2 DEF Known
  <2>3. CASE got'[r] \in {Nil, redis[KeyOf(r)]}
    BY <1>6, <2>3, DenialIsValue DEF Known
  <2>4. CASE \E i \in 1..Len(local) : local[i].key = KeyOf(r) /\ local[i].value = got'[r]
    BY <1>0, <1>6, <2>4 DEF Known
  <2>5. CASE got'[r] = Selected(r)
    <3>1. Selected(r) = [t \in {Wants[r]} |-> version[t]]
      BY <1>0, <2>1, SelectedFacts
    <3>2. got'[r][s] = version[s]
      BY <2>1, <2>5, <3>1
    <3> QED
      BY <3>2, DenialIsValue DEF Known
  <2> QED
    BY <1>6, <2>2, <2>3, <2>4, <2>5, GotStep
<1>7. ASSUME NEW r \in Reqs, pc'[r] = "gotIds", got'[r] # Error PROVE s \in got'[r]
  <2>1. CASE pc'[r] = pc[r] /\ got'[r] = got[r]
    BY <1>7, <2>1 DEF Known
  <2>2. CASE got'[r] = Found(version)
    BY <1>0, <2>2 DEF Known, Found, TypeOK
  <2> QED
    BY <1>7, <2>1, <2>2, GotStep
<1>8. Known(s)' <=> /\ version'[s] # 0
                    /\ ~Denies(s, redis'[s])
                    /\ \A c \in wire' : c.op = "SETEX" /\ c.key = s => ~Denies(s, c.value)
                    /\ \A i \in DOMAIN local' : local'[i].key = s => ~Denies(s, local'[i].value)
                    /\ bloom' # Nil => Filter!MaybeContains(bloom', s)
                    /\ \A r \in Reqs :
                         /\ pc'[r] \in {"got", "rows"} /\ KeyOf(r) = s /\ got'[r] # Error =>
                              ~Denies(s, got'[r])
                         /\ pc'[r] = "gotIds" /\ got'[r] # Error => s \in got'[r]
  BY DEF Known, KeyOf, Denies
<1> QED
  BY <1>1, <1>2, <1>3, <1>4, <1>5, <1>6, <1>7, <1>8

\* What is on sale is known from the start.
LEMMA OnSaleInit ==
  ASSUME Init, NEW s \in OnSale
  PROVE  s \in Skus /\ Known(s)
<1>1. s \in Skus /\ s \in Keys
  BY RequestsAssumption, ValuesOfSku
<1>2. version[s] # 0 /\ ~Denies(s, redis[s])
  BY <1>1, DenialIsValue DEF Init, CacheInit
<1>3. wire = {} /\ DOMAIN local = {} /\ bloom = Nil /\ \A r \in Reqs : pc[r] = "new"
  BY DEF Init, CacheInit
<1> QED
  BY <1>1, <1>2, <1>3 DEF Known

\* A request that is assured was so before, or is asked now of a known sku.
LEMMA AssuredGrows ==
  ASSUME TypeInv, [Next]_vars, NEW r \in assured'
  PROVE  r \in assured \/ (Kind[r] = "detail" /\ Known(Wants[r]))
<1>1. ASSUME NEW q \in Reqs, Request(q), ~Ask(q) PROVE UNCHANGED assured
  BY <1>1 DEF Request, RedisGet, OnGot, Operate, DbSelectIds, OnIds, DbSelect, OnRows, ghosts
<1>2. ASSUME NEW q \in Reqs, Ask(q)
      PROVE  assured' = assured \cup {t \in {q} : Kind[t] = "detail" /\ Known(Wants[t])}
  BY <1>2 DEF Ask
<1> QED
  BY <1>1, <1>2, RequestSteps

LEMMA AssuredStep == TypeInv /\ AssuredAreKnown /\ [Next]_vars => AssuredAreKnown'
<1> SUFFICES ASSUME TypeInv, AssuredAreKnown, [Next]_vars PROVE AssuredAreKnown'
  OBVIOUS
<1>1. ASSUME NEW s \in OnSale PROVE Known(s)'
  BY RequestsAssumption, KnownStep DEF AssuredAreKnown
<1>2. ASSUME NEW r \in assured' PROVE Kind[r] = "detail" /\ Known(Wants[r])'
  <2>1. r \in Reqs /\ Wants[r] \in Skus
    BY GhostsStep, RequestsAssumption
  <2>2. Kind[r] = "detail" /\ Known(Wants[r])
    BY AssuredGrows DEF AssuredAreKnown
  <2> QED
    BY <2>1, <2>2, KnownStep
<1> QED
  BY <1>1, <1>2 DEF AssuredAreKnown

LEMMA OnSaleAssuredStep ==
  TypeInv /\ AssuredAreKnown /\ OnSaleIsAssured /\ [Next]_vars => OnSaleIsAssured'
<1> SUFFICES ASSUME TypeInv, AssuredAreKnown, OnSaleIsAssured, [Next]_vars,
                    NEW r \in Reqs, Kind[r] = "detail", Wants[r] \in OnSale, pc'[r] # "new"
             PROVE  r \in assured'
  BY DEF OnSaleIsAssured
<1>1. CASE UNCHANGED <<pc, got, answer, bloom, reads, turn, owner, assured>>
  BY <1>1 DEF OnSaleIsAssured
<1>2. ASSUME NEW q \in Reqs, Request(q) PROVE r \in assured'
  <2>1. assured \subseteq assured'
    BY <1>2 DEF Request, Ask, RedisGet, OnGot, Operate, DbSelectIds, OnIds, DbSelect, OnRows, ghosts
  <2>2. CASE pc[r] # "new"
    BY <2>1, <2>2 DEF OnSaleIsAssured
  <2>3. CASE pc[r] = "new"
    <3>1. r = q
      <4>1. DOMAIN pc = Reqs
        BY DEF TypeInv, TypeOK
      <4>2. \E p \in Places : pc' = [pc EXCEPT ![q] = p]
        BY <1>2, RequestMoves
      <4> QED
        BY <2>3, <4>1, <4>2
    <3>2. Ask(r)
      BY <1>2, <2>3, <3>1 DEF Request, RedisGet, OnGot, Operate, DbSelectIds, OnIds, DbSelect, OnRows
    <3>3. Known(Wants[r])
      BY DEF AssuredAreKnown
    <3> QED
      BY <3>2, <3>3 DEF Ask
  <2> QED
    BY <2>2, <2>3
<1> QED
  BY <1>1, <1>2, RequestSteps

\* An answer stays, and comes from what the request got.
LEMMA AnswerStep ==
  ASSUME TypeInv, [Next]_vars, NEW q \in Reqs
  PROVE  \/ answer'[q] = answer[q] /\ (answer[q] # Nil => got'[q] = got[q])
         \/ answer'[q] = NotFound /\ Kind[q] = "detail" /\ BloomRejects(Wants[q])
         \/ /\ pc[q] = "got" /\ got[q] \notin {Nil, Garbage} /\ got'[q] = got[q]
            /\ answer'[q] = IF IsNull(q, got[q]) THEN NotFound ELSE got[q]
         \/ /\ pc[q] = "rows" /\ got'[q] = got[q] /\ got[q] = Error
            /\ answer'[q] = NotFound
         \/ /\ pc[q] = "rows" /\ got'[q] = got[q] /\ got[q] # Error
            /\ Kind[q] = "detail" =>
                 answer'[q] = IF Found(got[q]) = {} THEN NotFound ELSE got[q]
            /\ Kind[q] = "list" => answer'[q] = got[q]
<1> DEFINE Goal ==
         \/ answer'[q] = answer[q] /\ (answer[q] # Nil => got'[q] = got[q])
         \/ answer'[q] = NotFound /\ Kind[q] = "detail" /\ BloomRejects(Wants[q])
         \/ /\ pc[q] = "got" /\ got[q] \notin {Nil, Garbage} /\ got'[q] = got[q]
            /\ answer'[q] = IF IsNull(q, got[q]) THEN NotFound ELSE got[q]
         \/ /\ pc[q] = "rows" /\ got'[q] = got[q] /\ got[q] = Error
            /\ answer'[q] = NotFound
         \/ /\ pc[q] = "rows" /\ got'[q] = got[q] /\ got[q] # Error
            /\ Kind[q] = "detail" =>
                 answer'[q] = IF Found(got[q]) = {} THEN NotFound ELSE got[q]
            /\ Kind[q] = "list" => answer'[q] = got[q]
<1> SUFFICES Goal
  OBVIOUS
<1>1. DOMAIN answer = Reqs /\ DOMAIN got = Reqs /\ (answer[q] # Nil => pc[q] = "done")
  BY DEF TypeInv, RequestsOK
<1>2. CASE UNCHANGED <<got, answer>>
  BY <1>2
<1>3. ASSUME NEW r \in Reqs, Request(r) PROVE Goal
  <2>1. CASE r # q
    <3>1. \E p \in Places : \E g, a : answer' = [answer EXCEPT ![r] = a] /\ got' = [got EXCEPT ![r] = g]
      BY <1>3, RequestMoves
    <3> QED
      BY <1>1, <2>1, <3>1
  <2>2. CASE r = q
    <3>1. ASSUME NEW a, Finish(q, a) PROVE answer'[q] = a
      BY <1>1, <3>1 DEF Finish
    <3>2. pc[q] # "done"
      BY <1>3, <2>2 DEF Request, Ask, RedisGet, OnGot, Operate, DbSelectIds, OnIds,
                        DbSelect, OnRows
    <3>3. CASE UNCHANGED answer
      BY <1>1, <3>2, <3>3
    <3>4. CASE Ask(q)
      BY <3>1, <3>3, <3>4 DEF Ask
    <3>5. CASE OnGot(q)
      BY <3>1, <3>3, <3>5 DEF OnGot, Hit
    <3>6. CASE OnRows(q)
      <4>1. CASE got[q] = Error
        BY <3>1, <3>6, <4>1 DEF OnRows
      <4>2. CASE OnDetail(q) /\ got[q] # Error
        BY <3>1, <3>6, <4>2 DEF OnRows, OnDetail
      <4>3. CASE (OnList(q) \/ OnWarm(q)) /\ got[q] # Error
        BY <3>1, <3>6, <4>3 DEF OnRows, OnList, OnWarm
      <4> QED
        BY <3>6, <4>1, <4>2, <4>3 DEF OnRows
    <3>7. CASE RedisGet(q) \/ Operate(q) \/ DbSelectIds(q) \/ OnIds(q) \/ DbSelect(q)
      BY <3>3, <3>7 DEF RedisGet, Operate, DbSelectIds, OnIds, DbSelect
    <3> QED
      BY <1>3, <2>2, <3>4, <3>5, <3>6, <3>7 DEF Request
  <2> QED
    BY <2>1, <2>2
<1> QED
  BY <1>2, <1>3, RequestSteps

LEMMA HonestStep ==
  TypeInv /\ AssuredAreKnown /\ NotFoundIsHonest /\ [Next]_vars => NotFoundIsHonest'
<1> SUFFICES ASSUME TypeInv, AssuredAreKnown, NotFoundIsHonest, [Next]_vars,
                    NEW r \in assured', answer'[r] = NotFound
             PROVE  got'[r] = Error
  BY DEF NotFoundIsHonest
<1>0. r \in Reqs /\ Kind[r] = "detail" /\ Known(Wants[r])
  BY AssuredGrows, GhostsStep DEF AssuredAreKnown
<1>1. KeyOf(r) = Wants[r] /\ Wants[r] \in Skus /\ Values(Wants[r]) = [{Wants[r]} -> Nat]
  BY <1>0, RequestsAssumption, ValuesOfSku DEF KeyOf
<1>2. CASE answer'[r] = answer[r] /\ (answer[r] # Nil => got'[r] = got[r])
  <2>1. answer[r] = NotFound /\ got'[r] = got[r]
    BY <1>2, ValuesAssumption
  <2>2. pc[r] # "new"
    BY <1>0, <2>1, ValuesAssumption DEF TypeInv, RequestsOK
  <2>3. r \in assured
    <3>1. ASSUME NEW q \in Reqs, Ask(q) PROVE assured' \subseteq assured \cup {q} /\ pc[q] = "new"
      BY <3>1 DEF Ask
    <3>2. ASSUME NEW q \in Reqs, Request(q), ~Ask(q) PROVE UNCHANGED assured
      BY <3>2 DEF Request, RedisGet, OnGot, Operate, DbSelectIds, OnIds, DbSelect, OnRows, ghosts
    <3> QED
      BY <2>2, <3>1, <3>2, RequestSteps
  <2> QED
    BY <2>1, <2>3 DEF NotFoundIsHonest
<1>3. CASE BloomRejects(Wants[r])
  BY <1>0, <1>3 DEF BloomRejects, Known
<1>4. CASE /\ pc[r] = "got" /\ got[r] \notin {Nil, Garbage} /\ got'[r] = got[r]
           /\ answer'[r] = IF IsNull(r, got[r]) THEN NotFound ELSE got[r]
  <2>1. got[r] \in Values(Wants[r])
    BY <1>0, <1>1, <1>4 DEF TypeInv, RequestsOK
  <2>2. got[r] # NotFound
    BY <1>1, <2>1, ValuesAssumption, ValuesOfSku
  <2>3. IsNull(r, got[r])
    BY <1>4, <2>2
  <2>4. Denies(Wants[r], got[r])
    BY <2>3 DEF IsNull, Denies
  <2> QED
    BY <1>0, <1>1, <1>4, <2>4 DEF Known
<1>5. CASE pc[r] = "rows" /\ got'[r] = got[r] /\ got[r] = Error
  BY <1>5
<1>6. CASE /\ pc[r] = "rows" /\ got'[r] = got[r] /\ got[r] # Error
           /\ answer'[r] = IF Found(got[r]) = {} THEN NotFound ELSE got[r]
  <2>1. got[r] \in [{Wants[r]} -> Nat] /\ got[r] \in Values(Wants[r])
    BY <1>0, <1>1, <1>6 DEF TypeInv, RequestsOK
  <2>2. got[r] # NotFound
    BY <1>1, <2>1, ValuesAssumption, ValuesOfSku
  <2>3. Found(got[r]) = {}
    BY <1>6, <2>2
  <2>4. got[r] = [s \in {Wants[r]} |-> 0]
    BY <2>1, <2>3 DEF Found
  <2>5. Denies(Wants[r], got[r])
    BY <2>4 DEF Denies
  <2> QED
    BY <1>0, <1>1, <1>6, <2>5 DEF Known
<1> QED
  BY <1>0, <1>2, <1>3, <1>4, <1>5, <1>6, AnswerStep

\* A request asked when nothing denied its sku is not told that it is missing,
\* neither by a cached null, nor by a filter however often it is rebuilt, nor
\* by L1, unless its query failed; and every request for a sku that was on
\* sale from the start is one of those.
THEOREM NotFoundHonest == Spec => [](NotFoundIsHonest /\ OnSaleIsAssured)
<1>1. Init => NotFoundIsHonest /\ OnSaleIsAssured
  BY DEF Init, NotFoundIsHonest, OnSaleIsAssured
<1>2. Init => AssuredAreKnown
  <2> SUFFICES ASSUME Init PROVE AssuredAreKnown
    OBVIOUS
  <2>1. assured = {}
    BY DEF Init
  <2> QED
    BY <2>1, OnSaleInit DEF AssuredAreKnown
<1> QED
  BY <1>1, <1>2, AssuredStep, OnSaleAssuredStep, HonestStep, TypeInvariant, PTL DEF Spec

-----------------------------------------------------------------------------
(* Commit, then delete twice *)

\* What goes wrong stays wrong.
LEMMA UndisturbedBefore ==
  ASSUME TypeOK, [Next]_vars, Undisturbed'
  PROVE  Undisturbed
<1> USE DEF TypeOK, Undisturbed
<1>1. ASSUME NEW r \in Reqs, Request(r) PROVE Undisturbed
  BY <1>1 DEF Request, Ask, RedisGet, OnGot, Operate, DbSelectIds, OnIds, DbSelect, OnRows, cacheVars
<1>2. CASE (Redis /\ UNCHANGED readVars) \/ UNCHANGED vars
  BY <1>2 DEF Redis, RedisExecutes, RedisFails, Expire, Spoil, LocalExpire, readVars, vars, cacheVars
<1>3. ASSUME NEW o \in Orders, Commit(o) \/ OnCommitted(o) \/ LoseCommit(o) PROVE Undisturbed
  BY <1>3 DEF Commit, OnCommitted, LoseCommit, cacheVars
<1>4. ASSUME NEW s \in Skus, AddSku(s) PROVE Undisturbed
  BY <1>4 DEF AddSku, cacheVars
<1>5. CASE SecondDelete \/ Crash
  BY <1>5 DEF SecondDelete, FireDelayed, Crash, readVars
<1> QED
  BY <1>1, <1>2, <1>3, <1>4, <1>5 DEF Next

\* A second delete that is gone was executed, unless one has failed.
LEMMA GoneIsExecuted ==
  ASSUME TypeInv, [Next]_vars, Undisturbed', NEW c \in wire, c \notin wire',
         c.op = "DEL", c.again
  PROVE  redis' = Effect(c)
<1>1. CASE wire \subseteq wire'
  BY <1>1
<1>2. CASE Redis
  <2>1. ASSUME NEW d \in wire, RedisExecutes(d) PROVE redis' = Effect(c)
    BY <2>1 DEF RedisExecutes
  <2>2. ASSUME NEW d \in wire, RedisFails(d) PROVE FALSE
    <3>1. d = c
      BY <2>2 DEF RedisFails
    <3> QED
      BY <2>2, <3>1 DEF RedisFails, Undisturbed
  <2>3. CASE UNCHANGED wire
    BY <1>1, <2>3
  <2> QED
    BY <1>2, <2>1, <2>2, <2>3 DEF Redis, Expire, Spoil, LocalExpire
<1>3. ASSUME NEW r \in Reqs, Request(r) PROVE wire \subseteq wire'
  BY <1>3 DEF Request, Ask, RedisGet, OnGot, Invalidate, Operate, DbSelectIds, OnIds, DbSelect,
              OnRows, OnDetail, OnList, OnWarm, Setex, cacheVars
<1>4. ASSUME NEW o \in Orders, Commit(o) \/ OnCommitted(o) \/ LoseCommit(o)
      PROVE  wire \subseteq wire'
  BY <1>4 DEF Commit, OnCommitted, LoseCommit, Invalidate, cacheVars
<1>5. CASE \/ UNCHANGED vars \/ SecondDelete \/ Crash
           \/ \E s \in Skus : AddSku(s)
  BY <1>1, <1>5 DEF AddSku, SecondDelete, FireDelayed, Crash, vars, cacheVars
<1> QED
  BY <1>1, <1>2, <1>3, <1>4, <1>5 DEF Next

\* A row a text shows turns old by a commit whose callback is to come.
LEMMA StaleSince ==
  ASSUME TypeInv, [Next]_vars, NEW s \in Skus, NEW n \in Nat, n \notin {0, version'[s]}
  PROVE  n # version[s] \/ Awaited(s)'
<1>1. CASE UNCHANGED version
  BY <1>1
<1>2. ASSUME NEW r \in Reqs, Request(r) PROVE UNCHANGED version
  BY <1>2 DEF Request, Ask, RedisGet, OnGot, Operate, DbSelectIds, OnIds, DbSelect, OnRows
<1>3. ASSUME NEW o \in Orders, Commit(o) PROVE n # version[s] \/ Awaited(s)'
  <2>1. Buys[o] \in Skus /\ DOMAIN version = Skus /\ DOMAIN order = Orders
    BY RequestsAssumption DEF TypeInv, TypeOK
  <2>2. CASE Buys[o] = s
    <3>1. order'[o] = "committed"
      BY <1>3, <2>1 DEF Commit
    <3> QED
      BY <2>2, <3>1 DEF Awaited
  <2>3. CASE Buys[o] # s
    <3>1. version'[s] = version[s]
      BY <1>3, <2>1, <2>3 DEF Commit
    <3> QED
      BY <3>1
  <2> QED
    BY <2>2, <2>3
<1>4. ASSUME NEW o \in Orders, OnCommitted(o) \/ LoseCommit(o) PROVE UNCHANGED version
  BY <1>4 DEF OnCommitted, LoseCommit
<1>5. ASSUME NEW t \in Skus, AddSku(t) PROVE n # version[s]
  <2>1. version[t] = 0 /\ version' = [version EXCEPT ![t] = 1] /\ DOMAIN version = Skus
    BY <1>5 DEF AddSku, TypeInv, TypeOK
  <2> QED
    BY <2>1
<1>6. CASE (Redis /\ UNCHANGED readVars) \/ UNCHANGED vars \/ SecondDelete \/ Crash
  BY <1>1, <1>6 DEF SecondDelete, Crash, readVars, vars
<1> QED
  BY <1>1, <1>2, <1>3, <1>4, <1>5, <1>6 DEF Next

\* A task stays in the queue until its second delete.
LEMMA TaskStays ==
  ASSUME TypeInv, [Next]_vars, Undisturbed', NEW i \in DOMAIN delayed
  PROVE  \/ i = 1 /\ SecondDelete
         \/ \E j \in DOMAIN delayed' : delayed'[j] = delayed[i]
<1>1. CASE UNCHANGED delayed
  BY <1>1
<1>2. delayed \in Seq(Tasks) /\ DOMAIN delayed = 1..Len(delayed) /\ Len(delayed) \in Nat
  BY LenProperties DEF TypeInv, CacheOK
<1>3. ASSUME NEW ks \in SUBSET Keys, NEW from \in Reqs \cup Orders,
             Invalidate(ks, from, WritingBack)
      PROVE  \E j \in DOMAIN delayed' : delayed'[j] = delayed[i]
  <2> DEFINE t == [keys |-> ks, from |-> from, window |-> WritingBack]
  <2>1. t \in Tasks
    BY WritersAreRequests DEF TypeInv, Tasks
  <2>2. delayed' = delayed \/ delayed' = Append(delayed, t)
    BY <1>3 DEF Invalidate
  <2> HIDE DEF t
  <2>3. CASE delayed' = Append(delayed, t)
    <3>1. Len(delayed') = Len(delayed) + 1 /\ delayed' \in Seq(Tasks)
          /\ \A j \in 1..Len(delayed) : delayed'[j] = delayed[j]
      BY <1>2, <2>1, <2>3, AppendProperties
    <3>2. DOMAIN delayed' = 1..(Len(delayed) + 1)
      BY <3>1, LenProperties
    <3> QED
      BY <1>2, <3>1, <3>2
  <2> QED
    BY <1>1, <2>2, <2>3
<1>4. CASE SecondDelete
  <2>1. delayed # <<>> /\ delayed' = Tail(delayed)
    BY <1>4 DEF SecondDelete, FireDelayed
  <2>2. /\ Len(delayed') = Len(delayed) - 1 /\ delayed' \in Seq(Tasks)
        /\ \A j \in 1..Len(Tail(delayed)) : Tail(delayed)[j] = delayed[j + 1]
    BY <1>2, <2>1, HeadTailProperties
  <2>3. DOMAIN delayed' = 1..Len(delayed')
    BY <2>2, LenProperties
  <2>4. CASE i # 1
    <3>1. i - 1 \in 1..Len(delayed') /\ delayed'[i - 1] = delayed[(i - 1) + 1]
      BY <1>2, <2>1, <2>2, <2>4
    <3>2. (i - 1) + 1 = i
      BY <1>2
    <3> QED
      BY <2>3, <3>1, <3>2
  <2> QED
    BY <1>4, <2>4
<1>5. CASE Deletes
  BY <1>3, <1>5 DEF Deletes
<1>6. CASE Crash
  BY <1>6 DEF Crash, Undisturbed
<1>7. ASSUME ~SecondDelete, ~Crash, ~Deletes PROVE UNCHANGED delayed
  <2>1. ASSUME NEW r \in Reqs, Request(r) PROVE UNCHANGED delayed
    <3>1. CASE OnGot(r)
      <4>1. {KeyOf(r), List} \in SUBSET Keys /\ r \in Reqs \cup Orders
        BY RequestsAssumption, ValuesOfSku, ListIsNoSku DEF KeyOf
      <4> QED
        BY <1>7, <3>1, <4>1 DEF OnGot, Deletes
    <3>2. CASE ~OnGot(r)
      BY <2>1, <3>2 DEF Request, Ask, RedisGet, Operate, DbSelectIds, OnIds, DbSelect, OnRows,
                        cacheVars
    <3> QED
      BY <3>1, <3>2
  <2>2. ASSUME NEW o \in Orders, Commit(o) \/ OnCommitted(o) \/ LoseCommit(o)
        PROVE  UNCHANGED delayed
    <3>1. OrderKeys(Buys[o]) \in SUBSET Keys /\ o \in Reqs \cup Orders
      BY KeysOfOrders, RequestsAssumption
    <3> QED
      BY <1>7, <2>2, <3>1 DEF Commit, OnCommitted, LoseCommit, Deletes, cacheVars
  <2>3. CASE Redis \/ UNCHANGED vars \/ \E s \in Skus : AddSku(s)
    BY <2>3 DEF Redis, RedisExecutes, RedisFails, Expire, Spoil, LocalExpire, AddSku, vars, cacheVars
  <2> QED
    BY <1>7, <2>1, <2>2, <2>3 DEF Next
<1> QED
  BY <1>1, <1>4, <1>5, <1>3, <1>6, <1>7 DEF Deletes

\* The commit callback leaves a task that waits for all who may write back.
LEMMA AwaitedStep ==
  ASSUME TypeInv, [Next]_vars, Undisturbed', CacheEnabled, DoubleDelete,
         InvalidateOnOrder # "none", NEW s \in Skus, Awaited(s)
  PROVE  \/ Awaited(s)'
         \/ \E j \in DOMAIN delayed' :
              delayed'[j].keys = OrderKeys(s) /\ delayed'[j].window = WritingBack
<1>1. PICK o \in Orders : order[o] = "committed" /\ Buys[o] = s
  BY DEF Awaited
<1>2. CASE order'[o] = order[o]
  BY <1>1, <1>2 DEF Awaited
<1>3. CASE OnCommitted(o)
  <2> DEFINE t == [keys |-> OrderKeys(s), from |-> o, window |-> WritingBack]
  <2>1. delayed' = Append(delayed, t) /\ delayed \in Seq(Tasks)
    BY <1>1, <1>3 DEF OnCommitted, Invalidate, TypeInv, CacheOK
  <2>2. t \in Tasks /\ t.keys = OrderKeys(s) /\ t.window = WritingBack
    BY WritersAreRequests, KeysOfOrders DEF TypeInv, Tasks
  <2> HIDE DEF t
  <2>3. Len(delayed') = Len(delayed) + 1 /\ delayed' \in Seq(Tasks)
        /\ delayed'[Len(delayed) + 1] = t /\ Len(delayed) \in Nat
    BY <2>1, <2>2, AppendProperties, LenProperties
  <2>4. DOMAIN delayed' = 1..(Len(delayed) + 1)
    BY <2>3, LenProperties
  <2>5. Len(delayed) + 1 \in DOMAIN delayed'
    BY <2>3, <2>4
  <2> QED
    BY <2>2, <2>3, <2>5
<1>4. ASSUME ~OnCommitted(o) PROVE order'[o] = order[o]
  <2>1. DOMAIN order = Orders
    BY DEF TypeInv, TypeOK
  <2>2. ASSUME NEW r \in Reqs, Request(r) PROVE UNCHANGED order
    BY <2>2 DEF Request, Ask, RedisGet, OnGot, Operate, DbSelectIds, OnIds, DbSelect, OnRows
  <2>3. ASSUME NEW p \in Orders, Commit(p) PROVE order'[o] = order[o]
    BY <1>1, <2>1, <2>3 DEF Commit
  <2>4. ASSUME NEW p \in Orders, OnCommitted(p) PROVE order'[o] = order[o]
    BY <1>4, <2>1, <2>4 DEF OnCommitted
  <2>5. ASSUME NEW p \in Orders, LoseCommit(p) PROVE FALSE
    BY <2>1, <2>5 DEF LoseCommit, Undisturbed
  <2>6. CASE \/ (Redis /\ UNCHANGED readVars) \/ UNCHANGED vars
             \/ SecondDelete \/ Crash \/ \E t \in Skus : AddSku(t)
    BY <2>6 DEF AddSku, SecondDelete, Crash, readVars, vars
  <2> QED
    BY <2>2, <2>3, <2>4, <2>5, <2>6 DEF Next
<1> QED
  BY <1>2, <1>3, <1>4

\* A request that holds rows or has sent them keeps the delete ahead of it:
\* that delete waits for it.
LEMMA DeleteAfterStays ==
  ASSUME TypeInv, [Next]_vars, Undisturbed', CacheEnabled, DoubleDelete, Prompt,
         InvalidateOnOrder # "none",
         NEW s \in Skus, NEW r \in WritingBack, DeleteAfter(r, s)
  PROVE  DeleteAfter(r, s)'
<1>1. CASE Awaited(s)
  <2>1. CASE Awaited(s)'
    BY <2>1 DEF DeleteAfter
  <2>2. ASSUME NEW j \in DOMAIN delayed', delayed'[j].keys = OrderKeys(s),
               delayed'[j].window = WritingBack
        PROVE  DeleteAfter(r, s)'
    BY <2>2 DEF DeleteAfter, OrderKeys
  <2> QED
    BY <1>1, <2>1, <2>2, AwaitedStep
<1>2. ASSUME NEW i \in DOMAIN delayed, r \in delayed[i].window,
             OrderKeys(s) \subseteq delayed[i].keys
      PROVE  DeleteAfter(r, s)'
  <2>1. ~(i = 1 /\ SecondDelete)
    <3>1. ASSUME i = 1, SecondDelete PROVE FALSE
      <4>1. delayed[1] = Head(delayed)
        BY HeadTailProperties, <3>1 DEF SecondDelete, TypeInv, CacheOK
      <4> QED
        BY <1>2, <3>1, <4>1 DEF SecondDelete
    <3> QED
      BY <3>1
  <2>2. PICK j \in DOMAIN delayed' : delayed'[j] = delayed[i]
    BY <2>1, TaskStays
  <2> QED
    BY <1>2, <2>2 DEF DeleteAfter, OrderKeys
<1> QED
  BY <1>1, <1>2 DEF DeleteAfter

LEMMA DeleteAfterComes ==
  ASSUME NEW s \in Skus, NEW r, NEW k \in OrderKeys(s), DeleteAfter(r, s)'
  PROVE  DeleteToCome(k, s)'
BY DEF DeleteAfter, DeleteToCome, OrderKeys

\* The delete of a key comes, unless it is just sent a second time.
LEMMA DeleteToComeStays ==
  ASSUME TypeInv, [Next]_vars, Undisturbed', CacheEnabled, DoubleDelete,
         InvalidateOnOrder # "none",
         NEW s \in Skus, NEW k \in OrderKeys(s), DeleteToCome(k, s)
  PROVE  \/ DeleteToCome(k, s)'
         \/ /\ local' = Drop(local, Head(delayed).keys) /\ k \in Head(delayed).keys
            /\ \E c \in wire' : c.op = "DEL" /\ c.again /\ k \in c.keys
<1>1. CASE Awaited(s)
  BY <1>1, AwaitedStep DEF DeleteToCome, OrderKeys
<1>2. ASSUME NEW i \in DOMAIN delayed, k \in delayed[i].keys
      PROVE  \/ DeleteToCome(k, s)'
             \/ /\ local' = Drop(local, Head(delayed).keys) /\ k \in Head(delayed).keys
                /\ \E c \in wire' : c.op = "DEL" /\ c.again /\ k \in c.keys
  <2>1. CASE i = 1 /\ SecondDelete
    <3>1. delayed[1] = Head(delayed)
      BY HeadTailProperties, <2>1 DEF SecondDelete, TypeInv, CacheOK
    <3>2. k \in Head(delayed).keys
      BY <1>2, <2>1, <3>1
    <3> DEFINE c == Delete({k}, Head(delayed).from, TRUE)
    <3>3. c \in wire' /\ local' = Drop(local, Head(delayed).keys)
      BY <2>1, <3>2 DEF SecondDelete, FireDelayed
    <3>4. c.op = "DEL" /\ c.again /\ k \in c.keys
      BY DEF Delete
    <3> QED
      BY <3>2, <3>3, <3>4
  <2>2. CASE \E j \in DOMAIN delayed' : delayed'[j] = delayed[i]
    BY <1>2, <2>2 DEF DeleteToCome
  <2> QED
    BY <2>1, <2>2, TaskStays
<1> QED
  BY <1>1, <1>2 DEF DeleteToCome

\* What a request writes is as old as what it read.
LEMMA StaleWrite ==
  ASSUME TypeInv, StaleIsDoomed, Undisturbed, NEW s \in Skus, NEW r \in Reqs, NEW k, NEW v,
         Writes(r, k, v), s \in DOMAIN v, v[s] \notin {0, version[s]}
  PROVE  DeleteAfter(r, s) /\ r \in WritingBack
<1>1. /\ pc[r] = "rows" /\ got[r] # Error
      /\ s \in DOMAIN got[r] /\ got[r][s] \notin {0, version[s]}
  BY DEF Writes
<1>2. got[r] \in Values(KeyOf(r)) /\ KeyOf(r) \in Keys
  BY <1>1, RequestsAssumption, ValuesOfSku, ListIsNoSku DEF TypeInv, RequestsOK, KeyOf
<1>3. StaleOn(s, got[r])
  BY <1>1, <1>2, ValuesAssumption DEF StaleOn
<1> QED
  BY <1>1, <1>3 DEF StaleIsDoomed, WritingBack

LEMMA StaleSent ==
  ASSUME TypeInv, StaleIsDoomed, Undisturbed, NEW s \in Skus, NEW c \in wire,
         c.op = "SETEX", s \in DOMAIN c.value, c.value[s] \notin {0, version[s]}
  PROVE  DeleteAfter(c.from, s) /\ c.from \in WritingBack
<1>1. c.key \in Keys /\ c.value \in Values(c.key)
  BY DEF TypeInv, TypeOK
<1>2. StaleOn(s, c.value)
  BY <1>1, ValuesAssumption DEF StaleOn
<1> QED
  BY <1>2 DEF StaleIsDoomed, WritingBack

\* What shows a row shows its version.
LEMMA RowsAreNumbers ==
  \A k \in Keys : \A v \in Values(k) : \A s \in DOMAIN v :
    s \in Skus /\ v[s] \in Nat /\ (k # List => s = k)
BY DEF Values, Keys

LEMMA DoomedStep ==
  ASSUME Prompt, CacheEnabled, DoubleDelete, InvalidateOnOrder # "none"
  PROVE  TypeInv /\ StaleIsDoomed /\ [Next]_vars => StaleIsDoomed'
<1> SUFFICES ASSUME TypeInv, StaleIsDoomed, [Next]_vars, Undisturbed', NEW s \in Skus
             PROVE
      /\ \A k \in OrderKeys(s) : StaleOn(s, redis[k])' =>
           DeleteToCome(k, s)' \/ \E c \in wire' : c.op = "DEL" /\ c.again /\ k \in c.keys
      /\ \A i \in DOMAIN local' :
           local'[i].key \in OrderKeys(s) /\ StaleOn(s, local[i].value)' =>
             DeleteToCome(local[i].key, s)'
      /\ \A c \in wire' : c.op = "SETEX" /\ StaleOn(s, c.value)' => DeleteAfter(c.from, s)'
      /\ \A r \in Reqs :
           pc'[r] = "rows" /\ got'[r] # Error /\ StaleOn(s, got[r])' => DeleteAfter(r, s)'
  BY DEF StaleIsDoomed, OrderKeys
<1>1. TypeOK /\ Undisturbed
  BY UndisturbedBefore DEF TypeInv
<1>2. OrderKeys(s) \in SUBSET Keys
  BY KeysOfOrders
<1>3. ASSUME Awaited(s)'
      PROVE  /\ \A k : DeleteToCome(k, s)'
             /\ \A r : DeleteAfter(r, s)'
  BY <1>3 DEF DeleteToCome, DeleteAfter
<1>4. ASSUME NEW k \in OrderKeys(s), StaleOn(s, redis[k])'
      PROVE  DeleteToCome(k, s)' \/ \E c \in wire' : c.op = "DEL" /\ c.again /\ k \in c.keys
  <2> DEFINE v == redis'[k]
  <2>1. v \notin {Nil, Garbage} /\ s \in DOMAIN v /\ v[s] \notin {0, version'[s]}
    BY <1>4 DEF StaleOn
  <2>2. k \in Keys /\ redis[k] \in Values(k) \cup {Nil, Garbage}
    BY <1>1, <1>2 DEF TypeOK
  <2>3. ASSUME NEW c \in wire, c.op = "SETEX", c.key = k, c.value = v PROVE DeleteToCome(k, s)'
    <3>1. v[s] \in Nat
      BY <1>1, <2>1, <2>3, RowsAreNumbers DEF TypeOK
    <3>2. v[s] # version[s] \/ Awaited(s)'
      BY <2>1, <3>1, StaleSince
    <3>3. CASE v[s] # version[s]
      <4>1. DeleteAfter(c.from, s) /\ c.from \in WritingBack
        BY <1>1, <2>1, <2>3, <3>3, StaleSent
      <4> QED
        BY <4>1, DeleteAfterStays, DeleteAfterComes
    <3> QED
      BY <1>3, <3>2, <3>3
  <2>4. CASE redis'[k] = redis[k]
    <3>1. v \in Values(k) /\ v[s] \in Nat
      BY <2>1, <2>2, <2>4, RowsAreNumbers
    <3>2. v[s] # version[s] \/ Awaited(s)'
      BY <2>1, <3>1, StaleSince
    <3>3. CASE v[s] # version[s]
      <4>1. StaleOn(s, redis[k])
        BY <2>1, <2>4, <3>3 DEF StaleOn
      <4>2. CASE DeleteToCome(k, s)
        BY <4>2, DeleteToComeStays
      <4>3. ASSUME NEW c \in wire, c.op = "DEL", c.again, k \in c.keys, c \notin wire' PROVE FALSE
        <5>1. redis' = Effect(c)
          BY <4>3, GoneIsExecuted
        <5>2. redis'[k] = Nil
          BY <2>2, <4>3, <5>1 DEF Effect
        <5> QED
          BY <2>1, <5>2
      <4> QED
        BY <1>1, <4>1, <4>2, <4>3 DEF StaleIsDoomed
    <3> QED
      BY <1>3, <3>2, <3>3
  <2> QED
    BY <2>1, <2>2, <2>3, <2>4, RedisStep
<1>5. ASSUME NEW i \in DOMAIN local', NEW k \in OrderKeys(s), NEW v,
             local'[i].key = k, local'[i].value = v,
             s \in DOMAIN v, v[s] \notin {0, version'[s]}
      PROVE  DeleteToCome(k, s)'
  <2>1. Follows(local')
    BY LocalStep
  <2>2. DOMAIN local' = 1..Len(local') /\ local'[i] \in Entries
    BY <1>5, <2>1, LenProperties, ElementOfSeq DEF Follows
  <2>3. v[s] \in Nat
    BY <1>5, <2>2, RowsAreNumbers DEF Entries
  <2>4. v[s] # version[s] \/ Awaited(s)'
    BY <1>5, <2>3, StaleSince
  <2>5. ASSUME v[s] # version[s], NEW r \in Reqs, Writes(r, k, v)
        PROVE  DeleteToCome(k, s)'
    <3>1. DeleteAfter(r, s) /\ r \in WritingBack
      BY <1>1, <1>5, <2>5, StaleWrite
    <3>2. DeleteAfter(r, s)'
      BY <3>1, DeleteAfterStays
    <3> QED
      BY <3>2, DeleteAfterComes
  <2>6. ASSUME v[s] # version[s], NEW j \in 1..Len(local), k = local[j].key, v = local[j].value
        PROVE  DeleteToCome(k, s)'
    <3>1. local[j] \in Entries /\ j \in DOMAIN local
      BY ElementOfSeq, LenProperties DEF TypeInv, CacheOK
    <3>2. StaleOn(s, local[j].value)
      BY <1>5, <2>6, <3>1, ValuesAssumption DEF StaleOn, Entries
    <3>3. DeleteToCome(k, s)
      BY <1>1, <1>5, <2>6, <3>1, <3>2 DEF StaleIsDoomed
    <3>4. ASSUME local' = Drop(local, Head(delayed).keys) PROVE k \notin Head(delayed).keys
      BY <1>5, <2>2, <3>4, DropFacts DEF TypeInv, CacheOK
    <3> QED
      BY <3>3, <3>4, DeleteToComeStays
  <2>7. CASE v[s] = version[s]
    BY <1>3, <2>4, <2>7
  <2>8. CASE v[s] # version[s]
    BY <1>5, <2>1, <2>2, <2>5, <2>6, <2>8 DEF Follows
  <2> QED
    BY <2>7, <2>8
<1>8. ASSUME NEW i \in DOMAIN local', local'[i].key \in OrderKeys(s), StaleOn(s, local[i].value)'
      PROVE  DeleteToCome(local[i].key, s)'
  <2>1. s \in DOMAIN local'[i].value /\ local'[i].value[s] \notin {0, version'[s]}
    BY <1>8 DEF StaleOn
  <2>2. \A k \in OrderKeys(s) : \A v :
          /\ local'[i].key = k /\ local'[i].value = v
          /\ s \in DOMAIN v /\ v[s] \notin {0, version'[s]}
          => DeleteToCome(k, s)'
    BY <1>5
  <2> QED
    BY <1>8, <2>1, <2>2 DEF DeleteToCome
<1>6. ASSUME NEW c \in wire', c.op = "SETEX", StaleOn(s, c.value)'
      PROVE  DeleteAfter(c.from, s)'
  <2>1. s \in DOMAIN c.value /\ c.value[s] \notin {0, version'[s]}
    BY <1>6 DEF StaleOn
  <2>2. /\ c.from \in Reqs /\ c.key \in Keys /\ c.value \in Values(c.key)
        /\ c \in wire \/ Writes(c.from, c.key, c.value)
    BY <1>6, WireStep
  <2>3. c.value[s] \in Nat
    BY <2>1, <2>2, RowsAreNumbers
  <2>4. c.value[s] # version[s] \/ Awaited(s)'
    BY <2>1, <2>3, StaleSince
  <2>5. CASE c.value[s] # version[s]
    <3>1. DeleteAfter(c.from, s) /\ c.from \in WritingBack
      BY <1>1, <1>6, <2>1, <2>2, <2>5, StaleWrite, StaleSent
    <3> QED
      BY <3>1, DeleteAfterStays
  <2> QED
    BY <1>3, <2>4, <2>5
<1>7. ASSUME NEW r \in Reqs, pc'[r] = "rows", got'[r] # Error, StaleOn(s, got[r])'
      PROVE  DeleteAfter(r, s)'
  <2>1. s \in DOMAIN got'[r] /\ got'[r][s] \notin {0, version'[s]}
    BY <1>7 DEF StaleOn
  <2>2. CASE got'[r] = Selected(r) /\ UNCHANGED version
    BY <1>1, <2>1, <2>2, SelectedFacts
  <2>3. CASE pc'[r] = pc[r] /\ got'[r] = got[r]
    <3>1. got[r] \in Values(KeyOf(r)) /\ KeyOf(r) \in Keys
      BY <1>7, <2>3, RequestsAssumption, ValuesOfSku, ListIsNoSku DEF TypeInv, RequestsOK, KeyOf
    <3>2. got[r][s] \in Nat
      BY <2>1, <2>3, <3>1, RowsAreNumbers
    <3>3. got[r][s] # version[s] \/ Awaited(s)'
      BY <2>1, <2>3, <3>2, StaleSince
    <3>4. CASE got[r][s] # version[s]
      <4>1. StaleOn(s, got[r])
        BY <2>1, <2>3, <3>1, <3>4, ValuesAssumption DEF StaleOn
      <4>2. DeleteAfter(r, s) /\ r \in WritingBack
        BY <1>1, <1>7, <2>3, <4>1 DEF StaleIsDoomed, WritingBack
      <4> QED
        BY <4>2, DeleteAfterStays
    <3> QED
      BY <1>3, <3>3, <3>4
  <2> QED
    BY <1>7, <2>2, <2>3, GotStep
<1> QED
  BY <1>4, <1>6, <1>7, <1>8

\* Without a cache nothing is written to Redis or to L1.
Uncached ==
  /\ local = <<>> /\ wire = {} /\ delayed = <<>>
  /\ \A k \in Keys : redis[k] \in {Nil, Garbage}

LEMMA UncachedStep ==
  ASSUME ~CacheEnabled
  PROVE  TypeInv /\ Uncached /\ [Next]_vars => Uncached'
<1> SUFFICES ASSUME TypeInv, Uncached, [Next]_vars PROVE Uncached'
  OBVIOUS
<1>1. ASSUME NEW r \in Reqs, Request(r) PROVE UNCHANGED <<redis, wire, local, delayed>>
  BY <1>1 DEF Request, Ask, RedisGet, OnGot, Invalidate, Operate, DbSelectIds, OnIds, DbSelect,
              OnRows, OnDetail, OnList, OnWarm, Setex, cacheVars
<1>2. CASE Redis
  <2>1. CASE Overwrites
    <3>1. PICK k \in Keys, v \in {Nil, Garbage} :
            redis' = [redis EXCEPT ![k] = v] /\ UNCHANGED <<wire, local, delayed>>
      BY <2>1 DEF Overwrites
    <3> QED
      BY <3>1 DEF Uncached, TypeInv, TypeOK
  <2>2. \A c \in wire : FALSE
    BY DEF Uncached
  <2>3. \A i \in DOMAIN local : FALSE
    BY DEF Uncached
  <2>4. ASSUME NEW k \in Keys, Expire(k) \/ Spoil(k) PROVE Overwrites
    BY <2>4 DEF Expire, Spoil, Overwrites
  <2> QED
    BY <1>2, <2>1, <2>2, <2>3, <2>4, CacheAssumption DEF Redis
<1>3. ASSUME NEW o \in Orders, Commit(o) \/ OnCommitted(o) \/ LoseCommit(o)
      PROVE  UNCHANGED <<redis, wire, local, delayed>>
  BY <1>3 DEF Commit, OnCommitted, LoseCommit, Invalidate, cacheVars
<1>4. ASSUME NEW s \in Skus, AddSku(s) PROVE UNCHANGED <<redis, wire, local, delayed>>
  BY <1>4 DEF AddSku, cacheVars
<1>5. CASE SecondDelete \/ Crash \/ UNCHANGED vars
  BY <1>5 DEF SecondDelete, FireDelayed, Crash, Uncached, vars, cacheVars
<1> QED
  BY <1>1, <1>2, <1>3, <1>4, <1>5 DEF Next, Uncached

\* What the properties say of quiet states follows.
LEMMA QuietIsFresh ==
  ASSUME TypeInv,
         CacheEnabled /\ InvalidateOnOrder # "none" => StaleIsDoomed,
         ~CacheEnabled => Uncached
  PROVE  FreshWhenQuiet
<1> SUFFICES ASSUME Quiet, NEW k \in Watched, NEW v, Stale(v),
                    v = redis[k] \/ \E i \in DOMAIN local : local[i].key = k /\ local[i].value = v
             PROVE  FALSE
  BY DEF FreshWhenQuiet
<1>1. PICK t \in Skus : k \in OrderKeys(t)
  BY DEF Watched
<1>2. k \in Keys /\ InvalidateOnOrder # "none"
  BY <1>1, KeysOfOrders DEF OrderKeys
<1>3. PICK s \in DOMAIN v : v[s] \notin {0, version[s]}
  BY DEF Stale
<1>4. v \in Values(k)
  BY <1>2 DEF Stale, TypeInv, TypeOK
<1>5. s \in Skus /\ (k # List => s = k)
  BY <1>2, <1>4, RowsAreNumbers
<1>6. k \in OrderKeys(s)
  BY <1>1, <1>2, <1>5, ListIsNoSku, CacheAssumption DEF OrderKeys
<1>7. StaleOn(s, v)
  BY <1>3 DEF StaleOn, Stale
<1>8. CASE CacheEnabled
  <2>1. Undisturbed /\ ~Awaited(s) /\ DOMAIN delayed = {} /\ wire = {}
    BY DEF Quiet, Undisturbed, Awaited
  <2>2. ~DeleteToCome(k, s)
    BY <2>1 DEF DeleteToCome
  <2> QED
    BY <1>2, <1>5, <1>6, <1>7, <1>8, <2>1, <2>2 DEF StaleIsDoomed
<1>9. CASE ~CacheEnabled
  BY <1>2, <1>7, <1>9 DEF Uncached, StaleOn
<1> QED
  BY <1>8, <1>9

\* Once every order's commit callback and every second delete are over, and
\* no command failed, no key an order invalidates shows a row from before an
\* order, in Redis or in L1: however reads, write-backs and deletes were
\* interleaved and reordered, if no read-to-write-back takes longer than
\* double_delete_ms (SkuCache.h 105-115).
THEOREM FreshAfterDeletes ==
  ASSUME Prompt, DoubleDelete
  PROVE  Spec => []FreshWhenQuiet
<1> DEFINE Doomed == CacheEnabled /\ InvalidateOnOrder # "none" => StaleIsDoomed
           Plain == ~CacheEnabled => Uncached
<1>1. Init => Doomed /\ Plain
  <2> SUFFICES ASSUME Init PROVE StaleIsDoomed /\ Uncached
    OBVIOUS
  <2> QED
    BY KeysOfOrders DEF Init, CacheInit, StaleIsDoomed, StaleOn, Uncached
<1>2. TypeInv /\ Doomed /\ Plain /\ [Next]_vars => Doomed' /\ Plain'
  BY DoomedStep, UncachedStep
<1>3. TypeInv /\ Doomed /\ Plain => FreshWhenQuiet
  BY QuietIsFresh
<1> QED
  BY <1>1, <1>2, <1>3, TypeInvariant, PTL DEF Spec

-----------------------------------------------------------------------------
(* Nothing is invented *)

\* A text shows rows as they are or once were.
Shows(v) == v \notin {Nil, Garbage} => \A s \in DOMAIN v : v[s] <= version[s]

\* Whatever is cached, on its way, read or answered was committed before.
NothingInvented ==
  /\ \A k \in Keys : Shows(redis[k])
  /\ \A c \in wire : c.op = "SETEX" => Shows(c.value)
  /\ \A i \in DOMAIN local : Shows(local[i].value)
  /\ \A r \in Reqs :
       /\ pc[r] = "got" => Shows(got[r])
       /\ pc[r] = "rows" /\ got[r] # Error => Shows(got[r])
       /\ Kind[r] \in {"detail", "list"} /\ answer[r] \notin {Nil, NotFound} =>
            answer[r] \in Values(KeyOf(r)) /\ Shows(answer[r])

LEMMA KeyOfRequest == \A r \in Reqs : KeyOf(r) \in Keys
BY RequestsAssumption, ValuesOfSku, ListIsNoSku DEF KeyOf

\* What shows committed rows goes on to.
LEMMA ShowsStep ==
  ASSUME TypeOK, [Next]_vars, NEW k \in Keys, NEW v \in Values(k), Shows(v)
  PROVE  \A s \in DOMAIN v : v[s] <= version'[s]
<1> SUFFICES ASSUME NEW s \in DOMAIN v PROVE v[s] <= version'[s]
  OBVIOUS
<1>1. s \in Skus /\ v[s] \in Nat
  BY RowsAreNumbers
<1>2. v[s] <= version[s]
  BY ValuesAssumption DEF Shows
<1>3. version[s] \in Nat /\ version'[s] \in Nat /\ version[s] <= version'[s]
  BY <1>1, VersionStep DEF TypeOK
<1> QED
  BY <1>1, <1>2, <1>3

LEMMA WritesShow ==
  ASSUME TypeInv, NothingInvented, NEW r \in Reqs, NEW k, NEW v, Writes(r, k, v)
  PROVE  Shows(v)
<1> SUFFICES ASSUME NEW s \in DOMAIN v PROVE v[s] <= version[s]
  BY DEF Shows
<1>1. s \in Skus /\ v[s] \in Nat /\ version[s] \in Nat
  BY RowsAreNumbers DEF Writes, TypeInv, TypeOK
<1>2. CASE v[s] = 0
  BY <1>1, <1>2
<1>3. CASE v[s] # 0
  <2>1. pc[r] = "rows" /\ got[r] # Error /\ s \in DOMAIN got[r] /\ v[s] = got[r][s]
    BY <1>3 DEF Writes
  <2>2. got[r] \notin {Nil, Garbage}
    BY <2>1, KeyOfRequest, ValuesAssumption DEF TypeInv, RequestsOK
  <2> QED
    BY <2>1, <2>2 DEF NothingInvented, Shows
<1> QED
  BY <1>2, <1>3

LEMMA InventedStep == TypeInv /\ NothingInvented /\ [Next]_vars => NothingInvented'
<1> SUFFICES ASSUME TypeInv, NothingInvented, [Next]_vars PROVE NothingInvented'
  OBVIOUS
<1>0. TypeOK /\ RequestsOK /\ DOMAIN local = 1..Len(local)
  BY LenProperties DEF TypeInv, CacheOK
<1>1. ASSUME NEW k \in Keys PROVE Shows(redis[k])'
  <2>1. ASSUME redis'[k] \in Values(k), Shows(redis'[k]) PROVE Shows(redis[k])'
    <3>1. \A v \in Values(k) : Shows(v) => \A s \in DOMAIN v : v[s] <= version'[s]
      BY <1>0, ShowsStep
    <3> QED
      BY <2>1, <3>1 DEF Shows
  <2>2. CASE redis'[k] = redis[k]
    BY <1>0, <2>1, <2>2 DEF TypeOK, NothingInvented, Shows
  <2>3. CASE redis'[k] \in {Nil, Garbage}
    BY <2>3 DEF Shows
  <2>4. ASSUME NEW c \in wire, c.op = "SETEX", c.key = k, c.value = redis'[k]
        PROVE  Shows(redis[k])'
    BY <1>0, <2>1, <2>4 DEF TypeOK, NothingInvented
  <2> QED
    BY <2>2, <2>3, <2>4, RedisStep
<1>2. ASSUME NEW c \in wire', c.op = "SETEX" PROVE Shows(c.value)'
  <2>1. /\ c.from \in Reqs /\ c.key \in Keys /\ c.value \in Values(c.key)
        /\ c \in wire \/ Writes(c.from, c.key, c.value)
    BY <1>2, WireStep
  <2>2. Shows(c.value)
    BY <1>2, <2>1, WritesShow DEF NothingInvented
  <2> QED
    BY <1>0, <2>1, <2>2, ShowsStep DEF Shows
<1>3. ASSUME NEW i \in DOMAIN local' PROVE Shows(local[i].value)'
  <2>1. Follows(local')
    BY LocalStep
  <2>2. DOMAIN local' = 1..Len(local') /\ local'[i] \in Entries
    BY <1>3, <2>1, LenProperties, ElementOfSeq DEF Follows
  <2>3. local'[i].key \in Keys /\ local'[i].value \in Values(local'[i].key)
    BY <2>2 DEF Entries
  <2>4. ASSUME NEW k \in Keys, NEW v \in Values(k), local'[i].key = k, local'[i].value = v
        PROVE  \A s \in DOMAIN v : v[s] <= version'[s]
    <3>1. Shows(v)
      <4>1. CASE \E j \in 1..Len(local) : v = local[j].value
        BY <1>0, <4>1 DEF NothingInvented
      <4>2. CASE \E r \in Reqs : Writes(r, k, v)
        BY <4>2, WritesShow
      <4> QED
        BY <2>1, <2>2, <2>4, <4>1, <4>2 DEF Follows
    <3> QED
      BY <1>0, <3>1, ShowsStep
  <2> QED
    BY <2>3, <2>4 DEF Shows
<1>4. ASSUME NEW r \in Reqs, pc'[r] \in {"got", "rows"}, pc'[r] = "rows" => got'[r] # Error
      PROVE  Shows(got[r])'
  <2>1. KeyOf(r) \in Keys
    BY KeyOfRequest
  <2>2. ASSUME got'[r] \in Values(KeyOf(r)) \cup {Nil, Garbage}, Shows(got'[r])
        PROVE  Shows(got[r])'
    <3>1. \A v \in Values(KeyOf(r)) : Shows(v) => \A s \in DOMAIN v : v[s] <= version'[s]
      BY <1>0, <2>1, ShowsStep
    <3> QED
      BY <2>2, <3>1 DEF Shows
  <2>3. CASE pc'[r] = pc[r] /\ got'[r] = got[r]
    BY <1>0, <1>4, <2>2, <2>3 DEF NothingInvented, RequestsOK
  <2>4. CASE got'[r] \in {Nil, redis[KeyOf(r)]}
    BY <1>0, <2>1, <2>2, <2>4 DEF NothingInvented, TypeOK, Shows
  <2>5. CASE \E i \in 1..Len(local) : local[i].key = KeyOf(r) /\ local[i].value = got'[r]
    BY <1>0, <2>2, <2>5 DEF NothingInvented, TypeOK
  <2>6. CASE got'[r] = Selected(r)
    <3>1. Selected(r) \in Values(KeyOf(r))
      BY <1>0, SelectedFacts
    <3>2. Shows(Selected(r))
      <4>1. \A s \in DOMAIN Selected(r) : s \in Skus /\ Selected(r)[s] \in {0, version[s]}
        BY <1>0, SelectedFacts
      <4> QED
        BY <1>0, <4>1 DEF Shows, TypeOK
    <3> QED
      BY <2>2, <2>6, <3>1, <3>2
  <2> QED
    BY <1>4, <2>3, <2>4, <2>5, <2>6, GotStep
<1>5. ASSUME NEW r \in Reqs, Kind[r] \in {"detail", "list"}, answer'[r] \notin {Nil, NotFound}
      PROVE  (answer[r] \in Values(KeyOf(r)) /\ Shows(answer[r]))'
  <2>1. KeyOf(r) \in Keys
    BY KeyOfRequest
  <2>2. ASSUME answer'[r] \in Values(KeyOf(r)), Shows(answer'[r])
        PROVE  (answer[r] \in Values(KeyOf(r)) /\ Shows(answer[r]))'
    <3>1. \A v \in Values(KeyOf(r)) : Shows(v) => \A s \in DOMAIN v : v[s] <= version'[s]
      BY <1>0, <2>1, ShowsStep
    <3> QED
      BY <2>2, <3>1 DEF Shows, KeyOf
  <2>3. CASE answer'[r] = answer[r]
    BY <1>5, <2>2, <2>3 DEF NothingInvented
  <2>4. CASE answer'[r] = got[r] /\ pc[r] = "got" /\ got[r] \notin {Nil, Garbage}
    <3>1. Shows(got[r])
      BY <2>4 DEF NothingInvented
    <3>2. got[r] \in Values(KeyOf(r))
      BY <1>0, <2>4 DEF RequestsOK
    <3> QED
      BY <2>2, <2>4, <3>1, <3>2
  <2>5. CASE answer'[r] = got[r] /\ pc[r] = "rows" /\ got[r] # Error
    BY <1>0, <2>2, <2>5 DEF NothingInvented, RequestsOK
  <2> QED
    BY <1>5, <2>3, <2>4, <2>5, AnswerStep
<1> QED
  BY <1>1, <1>2, <1>3, <1>4, <1>5 DEF NothingInvented

\* No read is answered, and nothing is cached, with a row that was not
\* committed before: the cache can be late, never ahead, and each value stays
\* under the key it belongs to (SkuCache.h 46).
THEOREM NothingIsInvented == Spec => []NothingInvented
<1>1. Init => NothingInvented
  <2> SUFFICES ASSUME Init PROVE NothingInvented
    OBVIOUS
  <2>1. /\ wire = {} /\ DOMAIN local = {} /\ \A k \in Keys : redis[k] = Nil
        /\ \A r \in Reqs : pc[r] = "new" /\ answer[r] = Nil
    BY DEF Init, CacheInit
  <2> QED
    BY <2>1 DEF NothingInvented, Shows
<1> QED
  BY <1>1, InventedStep, TypeInvariant, PTL DEF Spec
=============================================================================
