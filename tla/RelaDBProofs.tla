--------------------------- MODULE RelaDBProofs ---------------------------
(***************************************************************************)
(* Theorems about RelaDB, for any clients, fields, indexes and values, any *)
(* number of ids, calls and failures: the indexes name the rows, ids are   *)
(* not given again, and what is searched is found.  FindOr, FindAnd and    *)
(* the two loops over slices are recursive functions: that they have the   *)
(* values their definitions say, and what these values are, is shown by    *)
(* taking the least number for which it would not be so.                   *)
(***************************************************************************)
EXTENDS RelaDB, SequenceTheorems, FiniteSetTheorems, WellFoundedInduction, TLAPS

\* An index has an id in the gather of a value.
Names(index, v, id) == v \in DOMAIN index /\ Contains(index[v], id)

----------------------------------------------------------------------------
(* Gathers.                                                                *)

\* What a gather is.
LEMMA GatherType ==
    ASSUME NEW g \in Gathers
    PROVE  /\ g \in Seq(Ids) /\ Len(g) \in Nat /\ DOMAIN g = 1 .. Len(g)
           /\ \A i \in 1 .. Len(g) : g[i] \in Ids
           /\ \A i, j \in 1 .. Len(g) : g[i] = g[j] => i = j
<1>1. g \in Seq(Ids) /\ IsInjective(g)
  BY DEF Gathers
<1>2. Len(g) \in Nat /\ DOMAIN g = 1 .. Len(g) /\ \A i \in 1 .. Len(g) : g[i] \in Ids
  BY <1>1, LenProperties, ElementOfSeq
<1>3. \A i, j \in DOMAIN g : g[i] = g[j] => i = j
  BY <1>1 DEF IsInjective
<1> QED
  BY <1>1, <1>2, <1>3

\* A sequence of ids without an id twice is a gather.
LEMMA GatherRule ==
    ASSUME NEW g \in Seq(Ids), \A i, j \in 1 .. Len(g) : g[i] = g[j] => i = j
    PROVE  g \in Gathers
<1>1. DOMAIN g = 1 .. Len(g)
  BY LenProperties
<1>2. IsInjective(g)
  BY <1>1 DEF IsInjective
<1> QED
  BY <1>2 DEF Gathers

\* The gather of no row, and of one.
LEMMA EmptyGather == << >> \in Gathers /\ \A id \in Ids : ~Contains(<< >>, id)
<1> DEFINE e == << >>
<1>1. e \in Seq(Ids) /\ Len(e) = 0
  OBVIOUS
<1>2. \A i, j \in 1 .. Len(e) : e[i] = e[j] => i = j
  BY <1>1
<1> HIDE DEF e
<1>3. e \in Gathers
  BY <1>1, <1>2, GatherRule
<1>4. \A id \in Ids : ~Contains(e, id)
  BY <1>1 DEF Contains
<1> QED
  BY <1>3, <1>4 DEF e

\* The set of the ids that a gather has.
LEMMA GatherSet ==
    ASSUME NEW g \in Gathers
    PROVE  IsInjective(g) /\ ToSet(g) = {id \in Ids : Contains(g, id)}
<1>1. /\ DOMAIN g = 1 .. Len(g) /\ \A i \in 1 .. Len(g) : g[i] \in Ids
  BY GatherType
<1>2. IsInjective(g)
  BY DEF Gathers
<1>3. ToSet(g) = {g[i] : i \in 1 .. Len(g)}
  BY <1>1 DEF ToSet
<1>4. \A id : id \in ToSet(g) <=> id \in Ids /\ Contains(g, id)
  BY <1>1, <1>3 DEF Contains
<1> QED
  BY <1>2, <1>4

LEMMA OneGather ==
    ASSUME NEW id \in Ids
    PROVE  <<id>> \in Gathers /\ \A i \in Ids : Contains(<<id>>, i) <=> i = id
<1>1. <<id>> \in Seq(Ids) /\ Len(<<id>>) = 1 /\ <<id>>[1] = id
  OBVIOUS
<1>2. \A i, j \in 1 .. Len(<<id>>) : <<id>>[i] = <<id>>[j] => i = j
  BY <1>1
<1>3. <<id>> \in Gathers
  BY <1>1, <1>2, GatherRule
<1> QED
  BY <1>1, <1>3 DEF Contains

\* An id that a gather does not have is put at its end.
LEMMA AppendGather ==
    ASSUME NEW g \in Gathers, NEW id \in Ids, ~Contains(g, id)
    PROVE  /\ Append(g, id) \in Gathers
           /\ \A i \in Ids : Contains(Append(g, id), i) <=> Contains(g, i) \/ i = id
<1> DEFINE h == Append(g, id)
<1>1. g \in Seq(Ids) /\ Len(g) \in Nat /\ \A i, j \in 1 .. Len(g) : g[i] = g[j] => i = j
  BY GatherType
<1>2. /\ h \in Seq(Ids) /\ Len(h) = Len(g) + 1
      /\ \A i \in 1 .. Len(g) : h[i] = g[i]
      /\ h[Len(g) + 1] = id
  BY <1>1, AppendProperties
<1>3. \A i \in 1 .. Len(g) : g[i] # id
  BY DEF Contains
<1>4. \A i \in 1 .. Len(h) : i = Len(g) + 1 \/ i \in 1 .. Len(g)
  BY <1>1, <1>2
<1>5. \A i, j \in 1 .. Len(h) : h[i] = h[j] => i = j
  BY <1>1, <1>2, <1>3, <1>4
<1>6. h \in Gathers
  BY <1>2, <1>5, GatherRule
<1>7. ASSUME NEW i \in Ids
      PROVE  Contains(h, i) <=> Contains(g, i) \/ i = id
  <2>1. Contains(h, i) => Contains(g, i) \/ i = id
    BY <1>2, <1>4 DEF Contains
  <2>2. Len(g) + 1 \in 1 .. Len(h) /\ \A n \in 1 .. Len(g) : n \in 1 .. Len(h)
    BY <1>1, <1>2
  <2> HIDE DEF h
  <2>3. Contains(g, i) \/ i = id => Contains(h, i)
    BY <1>2, <2>2 DEF Contains
  <2> QED
    BY <2>1, <2>3
<1> QED
  BY <1>6, <1>7

\* An id that a gather has is taken out of it, and no other.
LEMMA WithoutGather ==
    ASSUME NEW g \in Gathers, NEW id \in Ids, Contains(g, id)
    PROVE  /\ WithoutId(g, id) \in Gathers
           /\ \A i \in Ids : Contains(WithoutId(g, id), i) <=> Contains(g, i) /\ i # id
<1>1. /\ g \in Seq(Ids) /\ Len(g) \in Nat /\ \A i \in 1 .. Len(g) : g[i] \in Ids
      /\ \A i, j \in 1 .. Len(g) : g[i] = g[j] => i = j
  BY GatherType
<1> DEFINE n == CHOOSE m \in 1 .. Len(g) : g[m] = id \/ (m = 1 /\ ~Contains(g, id))
<1>2. n \in 1 .. Len(g) /\ g[n] = id
  <2>1. \E m \in 1 .. Len(g) : g[m] = id \/ (m = 1 /\ ~Contains(g, id))
    BY DEF Contains
  <2>2. n \in 1 .. Len(g) /\ (g[n] = id \/ (n = 1 /\ ~Contains(g, id)))
    BY <2>1, Zenon
  <2> QED
    BY <2>2
<1> DEFINE h == RemoveAt(g, n)
<1>3. WithoutId(g, id) = h
  BY Zenon DEF WithoutId
<1> HIDE DEF n
<1> DEFINE a == SubSeq(g, 1, n - 1)
           b == SubSeq(g, n + 1, Len(g))
<1>4. a \in Seq(Ids) /\ Len(a) = n - 1 /\ \A i \in 1 .. n - 1 : a[i] = g[i]
  <2>1. 1 \in Int /\ n - 1 \in Int /\ \A i \in 1 .. n - 1 : g[i] \in Ids
    BY <1>1, <1>2
  <2>2. /\ a \in Seq(Ids) /\ Len(a) = IF 1 <= n - 1 THEN n - 1 - 1 + 1 ELSE 0
        /\ \A i \in 1 .. n - 1 - 1 + 1 : a[i] = g[1 + i - 1]
    BY <2>1, SubSeqProperties
  <2> HIDE DEF a
  <2> QED
    BY <1>1, <1>2, <2>2
<1>5. b \in Seq(Ids) /\ Len(b) = Len(g) - n /\ \A i \in 1 .. Len(g) - n : b[i] = g[n + i]
  <2>1. n + 1 \in Int /\ Len(g) \in Int /\ \A i \in n + 1 .. Len(g) : g[i] \in Ids
    BY <1>1, <1>2
  <2>2. /\ b \in Seq(Ids) /\ Len(b) = IF n + 1 <= Len(g) THEN Len(g) - (n + 1) + 1 ELSE 0
        /\ \A i \in 1 .. Len(g) - (n + 1) + 1 : b[i] = g[n + 1 + i - 1]
    BY <2>1, SubSeqProperties
  <2> HIDE DEF b
  <2> QED
    BY <1>1, <1>2, <2>2
<1>6. /\ h \in Seq(Ids) /\ Len(h) = Len(g) - 1
      /\ \A i \in 1 .. Len(h) : h[i] = IF i < n THEN g[i] ELSE g[i + 1]
  <2>1. h = a \o b
    BY DEF RemoveAt
  <2> HIDE DEF a, b, h
  <2>2. /\ h \in Seq(Ids) /\ Len(h) = Len(a) + Len(b)
        /\ \A i \in 1 .. Len(a) + Len(b) : h[i] = IF i <= Len(a) THEN a[i] ELSE b[i - Len(a)]
    BY <1>4, <1>5, <2>1, ConcatProperties
  <2> HIDE DEF n
  <2>3. Len(h) = Len(g) - 1
    BY <1>1, <1>2, <1>4, <1>5, <2>2
  <2>4. ASSUME NEW i \in 1 .. Len(h)
        PROVE  h[i] = IF i < n THEN g[i] ELSE g[i + 1]
    <3>1. h[i] = IF i <= n - 1 THEN a[i] ELSE b[i - (n - 1)]
      BY <1>1, <1>2, <1>4, <1>5, <2>2, <2>3
    <3>2. CASE i < n
      BY <1>1, <1>2, <1>4, <3>1, <3>2
    <3>3. CASE ~(i < n)
      <4>1. i - (n - 1) \in 1 .. Len(g) - n /\ n + (i - (n - 1)) = i + 1
        BY <1>1, <1>2, <2>3, <3>3
      <4> QED
        BY <1>1, <1>2, <1>5, <3>1, <3>3, <4>1
    <3> QED
      BY <3>2, <3>3
  <2> QED
    BY <2>2, <2>3, <2>4
<1> HIDE DEF h
<1>7. \A i, j \in 1 .. Len(h) : h[i] = h[j] => i = j
  <2> SUFFICES ASSUME NEW i \in 1 .. Len(h), NEW j \in 1 .. Len(h), h[i] = h[j]
               PROVE  i = j
    OBVIOUS
  <2> DEFINE at(k) == IF k < n THEN k ELSE k + 1
  <2>1. /\ at(i) \in 1 .. Len(g) /\ at(j) \in 1 .. Len(g)
        /\ h[i] = g[at(i)] /\ h[j] = g[at(j)]
    BY <1>1, <1>2, <1>6
  <2>2. at(i) = at(j)
    BY <1>1, <2>1
  <2> QED
    BY <1>1, <1>2, <1>6, <2>2
<1>8. h \in Gathers
  BY <1>6, <1>7, GatherRule
<1>9. ASSUME NEW i \in Ids
      PROVE  Contains(h, i) <=> Contains(g, i) /\ i # id
  <2>1. ASSUME NEW m \in 1 .. Len(h), h[m] = i
        PROVE  Contains(g, i) /\ i # id
    <3>1. PICK k \in 1 .. Len(g) : k # n /\ g[k] = i
      BY <1>1, <1>2, <1>6, <2>1
    <3> QED
      BY <1>1, <1>2, <3>1 DEF Contains
  <2>2. ASSUME NEW m \in 1 .. Len(g), g[m] = i, i # id
        PROVE  Contains(h, i)
    <3>1. m # n
      BY <1>2, <2>2
    <3>2. \E k \in 1 .. Len(h) : h[k] = i
      <4>1. CASE m < n
        BY <1>1, <1>2, <1>6, <2>2, <4>1
      <4>2. CASE m > n
        <5>1. m - 1 \in 1 .. Len(h) /\ h[m - 1] = i
          BY <1>1, <1>2, <1>6, <2>2, <4>2
        <5> QED
          BY <5>1
      <4> QED
        BY <1>2, <3>1, <4>1, <4>2
    <3> QED
      BY <3>2 DEF Contains
  <2> QED
    BY <2>1, <2>2 DEF Contains
<1> QED
  BY <1>3, <1>8, <1>9

----------------------------------------------------------------------------
(* Functions by recursion over numbers, and the loops over two gathers.    *)

\* A set of numbers has a least one.
LEMMA LeastOf ==
    ASSUME NEW T, T \subseteq Nat, T # {}
    PROVE  \E m \in T : \A n \in T : m <= n
<1> DEFINE R == OpToRel(<, Nat)
<1>1. IsWellFoundedOn(R, Nat)
  BY NatLessThanWellFounded
<1>3. \A x, y \in Nat : x < y => <<x, y>> \in R
  BY DEF OpToRel
<1> HIDE DEF R
<1>2. PICK m \in T : \A n \in T : ~ (<<n, m>> \in R)
  BY <1>1, WFMin
<1>4. ASSUME NEW n \in T
      PROVE  m <= n
  <2>1. m \in Nat /\ n \in Nat
    OBVIOUS
  <2>2. ~(n < m)
    BY <1>2, <1>3, <2>1
  <2> QED
    BY <2>1, <2>2
<1> QED
  BY <1>4

\* Induction over the numbers up to one of them: of a set that has 0 and with each number
\* the next.
LEMMA UpTo ==
    ASSUME NEW N \in Nat, NEW P, 0 \in P, \A n \in 0 .. N - 1 : n \in P => n + 1 \in P
    PROVE  \A n \in 0 .. N : n \in P
<1> SUFFICES ASSUME (0 .. N) \ P # {}
             PROVE  FALSE
  OBVIOUS
<1>1. (0 .. N) \ P \subseteq Nat
  OBVIOUS
<1>2. PICK m \in (0 .. N) \ P : \A n \in (0 .. N) \ P : m <= n
  BY <1>1, LeastOf
<1>3. m # 0 /\ m - 1 \in 0 .. N - 1
  BY <1>2
<1>4. m - 1 \in P
  BY <1>2, <1>3
<1> QED
  BY <1>2, <1>3, <1>4

\* A function has a first value, and each value from the one before it: `step' has the next
\* value for each number and value.
Steps(f, N, A, a, step) ==
    f \in [0 .. N -> A] /\ f[0] = a /\ \A n \in 1 .. N : f[n] = step[n][f[n - 1]]

\* There is such a function.
LEMMA Recursion ==
    ASSUME NEW N \in Nat, NEW A, NEW a \in A, NEW step \in [1 .. N -> [A -> A]]
    PROVE  \E f : Steps(f, N, A, a, step)
<1> DEFINE Follows(f, m) == /\ f[0] = a
                          /\ \A n \in 1 .. m : f[n] = step[n][f[n - 1]]
           P == {m \in 0 .. N : \E f \in [0 .. m -> A] : Follows(f, m)}
<1>1. 0 \in P
  <2> DEFINE f == [n \in 0 .. 0 |-> a]
  <2>1. f \in [0 .. 0 -> A] /\ f[0] = a /\ 0 \in 0 .. N
    OBVIOUS
  <2> HIDE DEF f
  <2>2. \A n \in 1 .. 0 : f[n] = step[n][f[n - 1]]
    OBVIOUS
  <2> QED
    BY <2>1, <2>2
<1>2. ASSUME NEW m \in 0 .. N - 1, m \in P
      PROVE  m + 1 \in P
  <2>1. PICK f \in [0 .. m -> A] : Follows(f, m)
    BY <1>2
  <2>2. m \in 0 .. m /\ m + 1 \in 1 .. N /\ m + 1 \in 0 .. N
    OBVIOUS
  <2>3. f[m] \in A
    BY <2>2
  <2>4. step[m + 1] \in [A -> A]
    BY <2>2
  <2> DEFINE b == step[m + 1][f[m]]
             g == [n \in 0 .. m + 1 |-> IF n = m + 1 THEN b ELSE f[n]]
  <2>5. b \in A
    BY <2>3, <2>4
  <2>6. g \in [0 .. m + 1 -> A]
    <3> HIDE DEF b
    <3> QED
      BY <2>5
  <2>7. g[m + 1] = b /\ \A n \in 0 .. m : g[n] = f[n]
    <3> HIDE DEF b
    <3> QED
      OBVIOUS
  <2> HIDE DEF g
  <2>8. g[0] = a
    BY <2>1, <2>7
  <2>9. ASSUME NEW n \in 1 .. m + 1
        PROVE  g[n] = step[n][g[n - 1]]
    <3>1. CASE n = m + 1
      <4>1. n - 1 = m /\ m \in 0 .. m
        BY <3>1
      <4> QED
        BY <2>7, <3>1, <4>1
    <3>2. CASE n # m + 1
      <4>1. n \in 1 .. m /\ n - 1 \in 0 .. m /\ n \in 0 .. m
        BY <3>2
      <4>2. f[n] = step[n][f[n - 1]]
        BY <2>1, <4>1
      <4> QED
        BY <2>7, <4>1, <4>2
    <3> QED
      BY <3>1, <3>2
  <2> QED
    BY <2>2, <2>6, <2>8, <2>9
<1>3. N \in P
  <2> HIDE DEF P
  <2>1. \A n \in 0 .. N - 1 : n \in P => n + 1 \in P
    BY <1>2
  <2>2. \A n \in 0 .. N : n \in P
    BY <1>1, <2>1, UpTo
  <2> QED
    BY <2>2
<1> QED
  BY <1>3 DEF Steps

\* slicesCollection has the ids of either gather, each once.
LEMMA CollectionOf ==
    ASSUME NEW g1 \in Gathers, NEW g2 \in Gathers
    PROVE  /\ slicesCollection(g1, g2) \in Gathers
           /\ \A id \in Ids : Contains(slicesCollection(g1, g2), id)
                                  <=> Contains(g1, id) \/ Contains(g2, id)
<1> DEFINE N == Len(g2)
           Added(n, x) == IF Contains(x, g2[n]) THEN x ELSE Append(x, g2[n])
           step == [n \in 1 .. N |-> [x \in Gathers |-> Added(n, x)]]
           got == CHOOSE f : f = [n \in 0 .. N |->
                      IF n = 0 THEN g1
                      ELSE IF Contains(f[n - 1], g2[n]) THEN f[n - 1]
                      ELSE Append(f[n - 1], g2[n])]
<1>1. N \in Nat /\ \A n \in 1 .. N : g2[n] \in Ids
  BY GatherType
<1>2. \A n \in 1 .. N, x \in Gathers : Added(n, x) \in Gathers
  BY <1>1, AppendGather
<1>3. step \in [1 .. N -> [Gathers -> Gathers]]
  <2> HIDE DEF Added
  <2> QED
    BY <1>2
<1>4. \A n \in 1 .. N, x \in Gathers : step[n][x] = Added(n, x)
  <2> HIDE DEF Added
  <2> QED
    OBVIOUS
<1> HIDE DEF step, N
<1>5. PICK f : /\ f \in [0 .. N -> Gathers] /\ f[0] = g1
               /\ \A n \in 1 .. N : f[n] = step[n][f[n - 1]]
  <2>1. g1 \in Gathers /\ N \in Nat
    BY <1>1
  <2>2. \E f : Steps(f, N, Gathers, g1, step)
    BY <1>3, <2>1, Recursion
  <2> QED
    BY <2>2 DEF Steps
<1>6. \A n \in 1 .. N : f[n - 1] \in Gathers /\ f[n] = Added(n, f[n - 1])
  <2> HIDE DEF Added
  <2>1. \A n \in 1 .. N : n - 1 \in 0 .. N
    BY <1>1
  <2> QED
    BY <1>4, <1>5, <2>1
<1>7. f = [n \in 0 .. N |->
              IF n = 0 THEN g1
              ELSE IF Contains(f[n - 1], g2[n]) THEN f[n - 1]
              ELSE Append(f[n - 1], g2[n])]
  <2>1. \A n \in 0 .. N : n = 0 \/ n \in 1 .. N
    BY <1>1
  <2>2. \A n \in 0 .. N :
            f[n] = IF n = 0 THEN g1
                   ELSE IF Contains(f[n - 1], g2[n]) THEN f[n - 1]
                   ELSE Append(f[n - 1], g2[n])
    BY <1>5, <1>6, <2>1
  <2> QED
    BY <1>5, <2>2, Zenon
<1>8. got = [n \in 0 .. N |->
              IF n = 0 THEN g1
              ELSE IF Contains(got[n - 1], g2[n]) THEN got[n - 1]
              ELSE Append(got[n - 1], g2[n])]
  BY <1>7, Zenon
<1> HIDE DEF got
<1>9. got[0] = g1
  BY <1>1, <1>8
<1>10. \A n \in 1 .. N : got[n] = Added(n, got[n - 1])
  <2>1. \A n \in 1 .. N : n \in 0 .. N /\ n # 0
    BY <1>1
  <2> QED
    BY <1>8, <2>1, Zenon
<1> DEFINE Has(n, id) == Contains(g1, id) \/ \E m \in 1 .. n : g2[m] = id
           P == {n \in 0 .. N : /\ got[n] \in Gathers
                                /\ \A id \in Ids : Contains(got[n], id) <=> Has(n, id)}
<1>11. 0 \in P
  BY <1>1, <1>9
<1>12. ASSUME NEW n \in 0 .. N - 1, n \in P
       PROVE  n + 1 \in P
  <2>1. n + 1 \in 1 .. N /\ (n + 1) - 1 = n /\ n + 1 \in 0 .. N
    BY <1>1
  <2>2. got[n + 1] = Added(n + 1, got[n]) /\ got[n] \in Gathers /\ g2[n + 1] \in Ids
    BY <1>1, <1>10, <1>12, <2>1
  <2>3. \A id \in Ids : Has(n + 1, id) <=> Has(n, id) \/ g2[n + 1] = id
    <3>1. \A m \in 1 .. n + 1 : m = n + 1 \/ m \in 1 .. n
      BY <1>1
    <3>2. n + 1 \in 1 .. n + 1 /\ \A m \in 1 .. n : m \in 1 .. n + 1
      BY <1>1
    <3> QED
      BY <3>1, <3>2
  <2>4. \A id \in Ids : Contains(got[n], id) <=> Has(n, id)
    BY <1>12
  <2> HIDE DEF Has
  <2>5. \A id \in Ids : Contains(got[n + 1], id) <=> Contains(got[n], id) \/ g2[n + 1] = id
    <3>1. CASE Contains(got[n], g2[n + 1])
      <4>1. got[n + 1] = got[n]
        BY <2>2, <3>1
      <4> QED
        BY <3>1, <4>1
    <3>2. CASE ~Contains(got[n], g2[n + 1])
      <4>1. got[n + 1] = Append(got[n], g2[n + 1])
        BY <2>2, <3>2
      <4> QED
        BY <2>2, <3>2, <4>1, AppendGather
    <3> QED
      BY <3>1, <3>2
  <2>6. got[n + 1] \in Gathers
    BY <1>2, <2>1, <2>2
  <2> QED
    BY <2>1, <2>3, <2>4, <2>5, <2>6
<1>13. N \in P
  <2> HIDE DEF P
  <2>1. \A n \in 0 .. N - 1 : n \in P => n + 1 \in P
    BY <1>12
  <2>2. \A n \in 0 .. N : n \in P
    BY <1>1, <1>11, <2>1, UpTo
  <2> QED
    BY <1>1, <2>2
<1>14. slicesCollection(g1, g2) = got[N]
  BY Zenon DEF slicesCollection, got, N
<1> QED
  BY <1>13, <1>14 DEF Contains, N

\* A gather has an id once or not.
LEMMA FoundOnce ==
    ASSUME NEW g \in Gathers, NEW id \in Ids
    PROVE  [m \in 1 .. Cardinality({k \in DOMAIN g : g[k] = id}) |-> id]
               = IF Contains(g, id) THEN <<id>> ELSE << >>
<1> DEFINE K == {k \in DOMAIN g : g[k] = id}
<1>1. Len(g) \in Nat /\ DOMAIN g = 1 .. Len(g) /\ \A i, j \in 1 .. Len(g) : g[i] = g[j] => i = j
  BY GatherType
<1>2. CASE Contains(g, id)
  <2>1. PICK k \in 1 .. Len(g) : g[k] = id
    BY <1>2 DEF Contains
  <2>2. K = {k}
    BY <1>1, <2>1
  <2>3. Cardinality(K) = 1
    BY <2>2, FS_Singleton
  <2> HIDE DEF K
  <2>4. [m \in 1 .. Cardinality(K) |-> id] = <<id>>
    BY <2>3
  <2> QED
    BY <1>2, <2>4 DEF K
<1>3. CASE ~Contains(g, id)
  <2>1. K = {}
    BY <1>1, <1>3 DEF Contains
  <2>2. Cardinality(K) = 0
    BY <2>1, FS_EmptySet
  <2> HIDE DEF K
  <2>3. [m \in 1 .. Cardinality(K) |-> id] = << >>
    BY <2>2
  <2> QED
    BY <1>3, <2>3 DEF K
<1> QED
  BY <1>2, <1>3

\* slicesIntersection has the ids of both gathers, each once.
LEMMA IntersectionOf ==
    ASSUME NEW g1 \in Gathers, NEW g2 \in Gathers
    PROVE  /\ slicesIntersection(g1, g2) \in Gathers
           /\ \A id \in Ids : Contains(slicesIntersection(g1, g2), id)
                                  <=> Contains(g1, id) /\ Contains(g2, id)
<1> DEFINE N == Len(g2)
           Found(id) == [m \in 1 .. Cardinality({k \in DOMAIN g1 : g1[k] = id}) |-> id]
           step == [n \in 1 .. N |-> [x \in Seq(Ids) |-> x \o Found(g2[n])]]
           got == CHOOSE f : f = [n \in 0 .. N |->
                      IF n = 0 THEN << >> ELSE f[n - 1] \o Found(g2[n])]
<1>1. N \in Nat /\ \A n \in 1 .. N : g2[n] \in Ids
  BY GatherType
<1>2. ASSUME NEW n \in 1 .. N, NEW x \in Seq(Ids)
      PROVE  /\ x \o Found(g2[n]) = IF Contains(g1, g2[n]) THEN Append(x, g2[n]) ELSE x
             /\ x \o Found(g2[n]) \in Seq(Ids)
  <2>1. g2[n] \in Ids
    BY <1>1
  <2>2. Found(g2[n]) = IF Contains(g1, g2[n]) THEN <<g2[n]>> ELSE << >>
    BY <2>1, FoundOnce
  <2> HIDE DEF Found
  <2>3. Append(x, g2[n]) = x \o <<g2[n]>> /\ Append(x, g2[n]) \in Seq(Ids)
    BY <2>1, AppendIsConcat, AppendProperties
  <2>4. x \o << >> = x
    BY ConcatEmptySeq
  <2> QED
    BY <2>2, <2>3, <2>4
<1> HIDE DEF Found
<1>3. step \in [1 .. N -> [Seq(Ids) -> Seq(Ids)]]
  BY <1>2
<1>4. \A n \in 1 .. N, x \in Seq(Ids) : step[n][x] = x \o Found(g2[n])
  OBVIOUS
<1> HIDE DEF step, N
<1>5. PICK f : /\ f \in [0 .. N -> Seq(Ids)] /\ f[0] = << >>
               /\ \A n \in 1 .. N : f[n] = step[n][f[n - 1]]
  <2>1. << >> \in Seq(Ids) /\ N \in Nat
    BY <1>1
  <2>2. \E f : Steps(f, N, Seq(Ids), << >>, step)
    BY <1>3, <2>1, Recursion
  <2> QED
    BY <2>2 DEF Steps
<1>6. \A n \in 1 .. N : f[n - 1] \in Seq(Ids) /\ f[n] = f[n - 1] \o Found(g2[n])
  <2>1. \A n \in 1 .. N : n - 1 \in 0 .. N
    BY <1>1
  <2> QED
    BY <1>4, <1>5, <2>1
<1>7. f = [n \in 0 .. N |-> IF n = 0 THEN << >> ELSE f[n - 1] \o Found(g2[n])]
  <2>1. \A n \in 0 .. N : n = 0 \/ n \in 1 .. N
    BY <1>1
  <2>2. \A n \in 0 .. N : f[n] = IF n = 0 THEN << >> ELSE f[n - 1] \o Found(g2[n])
    BY <1>5, <1>6, <2>1
  <2> QED
    BY <1>5, <2>2, Zenon
<1>8. got = [n \in 0 .. N |-> IF n = 0 THEN << >> ELSE got[n - 1] \o Found(g2[n])]
  BY <1>7, Zenon
<1> HIDE DEF got
<1>9. got[0] = << >>
  BY <1>1, <1>8
<1>10. \A n \in 1 .. N : got[n] = got[n - 1] \o Found(g2[n])
  <2>1. \A n \in 1 .. N : n \in 0 .. N /\ n # 0
    BY <1>1
  <2> QED
    BY <1>8, <2>1, Zenon
<1> DEFINE Has(n, id) == Contains(g1, id) /\ \E m \in 1 .. n : g2[m] = id
           P == {n \in 0 .. N : /\ got[n] \in Gathers
                                /\ \A id \in Ids : Contains(got[n], id) <=> Has(n, id)}
<1>11. 0 \in P
  <2>1. \A id \in Ids : ~Has(0, id)
    OBVIOUS
  <2> HIDE DEF Has
  <2> QED
    BY <1>1, <1>9, <2>1, EmptyGather
<1>12. ASSUME NEW n \in 0 .. N - 1, n \in P
       PROVE  n + 1 \in P
  <2>1. n + 1 \in 1 .. N /\ (n + 1) - 1 = n /\ n + 1 \in 0 .. N /\ n \in 0 .. N
    BY <1>1
  <2>2. /\ got[n] \in Gathers /\ got[n] \in Seq(Ids) /\ g2[n + 1] \in Ids
        /\ got[n + 1] = got[n] \o Found(g2[n + 1])
    BY <1>1, <1>10, <1>12, <2>1, GatherType
  <2>3. got[n + 1] = IF Contains(g1, g2[n + 1]) THEN Append(got[n], g2[n + 1]) ELSE got[n]
    BY <1>2, <2>1, <2>2
  <2>4. \A id \in Ids : Has(n + 1, id) <=> Has(n, id) \/ (Contains(g1, id) /\ g2[n + 1] = id)
    <3>1. \A m \in 1 .. n + 1 : m = n + 1 \/ m \in 1 .. n
      BY <1>1
    <3>2. n + 1 \in 1 .. n + 1 /\ \A m \in 1 .. n : m \in 1 .. n + 1
      BY <1>1
    <3> QED
      BY <3>1, <3>2
  <2>5. \A id \in Ids : Contains(got[n], id) <=> Has(n, id)
    BY <1>12
  <2>6. ~Has(n, g2[n + 1])
    <3>1. \A i, j \in 1 .. N : g2[i] = g2[j] => i = j
      BY GatherType DEF N
    <3>2. \A m \in 1 .. n : m \in 1 .. N /\ m # n + 1
      BY <1>1, <2>1
    <3> QED
      BY <2>1, <3>1, <3>2
  <2> HIDE DEF Has
  <2>7. /\ got[n + 1] \in Gathers
        /\ \A id \in Ids : Contains(got[n + 1], id)
                               <=> Contains(got[n], id) \/ (Contains(g1, id) /\ g2[n + 1] = id)
    <3>1. CASE Contains(g1, g2[n + 1])
      <4>1. got[n + 1] = Append(got[n], g2[n + 1]) /\ ~Contains(got[n], g2[n + 1])
        BY <2>2, <2>3, <2>5, <2>6, <3>1
      <4> QED
        BY <2>2, <3>1, <4>1, AppendGather
    <3>2. CASE ~Contains(g1, g2[n + 1])
      BY <2>2, <2>3, <3>2
    <3> QED
      BY <3>1, <3>2
  <2> QED
    BY <2>1, <2>4, <2>5, <2>7
<1>13. N \in P
  <2> HIDE DEF P
  <2>1. \A n \in 0 .. N - 1 : n \in P => n + 1 \in P
    BY <1>12
  <2>2. \A n \in 0 .. N : n \in P
    BY <1>1, <1>11, <2>1, UpTo
  <2> QED
    BY <1>1, <2>2
<1>14. slicesIntersection(g1, g2) = got[N]
  BY Zenon DEF slicesIntersection, got, N, Found
<1> QED
  BY <1>13, <1>14 DEF Contains, N

----------------------------------------------------------------------------
(* Indexes.                                                                *)

LEMMA EmptyIndexNames ==
    IsIndex(EmptyIndex) /\ \A v \in Values, id \in Ids : ~Names(EmptyIndex, v, id)
<1>1. EmptyIndex \in [{} -> Gathers] /\ {} \in SUBSET Values /\ DOMAIN EmptyIndex = {}
  BY DEF EmptyIndex
<1>2. IsIndex(EmptyIndex)
  BY <1>1 DEF IsIndex
<1> QED
  BY <1>1, <1>2 DEF Names

\* Insert's part: the index names the id under the value, and what it has named.
LEMMA AddNames ==
    ASSUME NEW index, IsIndex(index), NEW value \in Values, NEW id \in Ids,
           ~Names(index, value, id)
    PROVE  /\ IsIndex(AddToIndex(index, value, id))
           /\ \A v \in Values, i \in Ids :
                 Names(AddToIndex(index, value, id), v, i)
                     <=> Names(index, v, i) \/ (v = value /\ i = id)
<1> DEFINE new == AddToIndex(index, value, id)
           last == IF value \in DOMAIN index THEN Append(index[value], id) ELSE <<id>>
<1>1. PICK V \in SUBSET Values : index \in [V -> Gathers]
  BY DEF IsIndex
<1>2. /\ DOMAIN new = V \cup {value} /\ new[value] = last
      /\ \A v \in V : v # value => new[v] = index[v]
  BY <1>1 DEF AddToIndex
<1>3. last \in Gathers /\ \A i \in Ids : Contains(last, i) <=> Names(index, value, i) \/ i = id
  <2>1. CASE value \in V
    <3>1. index[value] \in Gathers /\ ~Contains(index[value], id)
      BY <1>1, <2>1 DEF Names
    <3>2. /\ Append(index[value], id) \in Gathers
          /\ \A i \in Ids :
                Contains(Append(index[value], id), i) <=> Contains(index[value], i) \/ i = id
      BY <3>1, AppendGather
    <3> QED
      BY <1>1, <2>1, <3>2 DEF Names
  <2>2. CASE value \notin V
    BY <1>1, <2>2, OneGather DEF Names
  <2> QED
    BY <2>1, <2>2
<1>4. new = [v \in V \cup {value} |-> new[v]]
  BY <1>1 DEF AddToIndex
<1> HIDE DEF new, last
<1>5. new \in [V \cup {value} -> Gathers] /\ V \cup {value} \in SUBSET Values
  <2>1. \A v \in V \cup {value} : new[v] \in Gathers
    BY <1>1, <1>2, <1>3
  <2> QED
    BY <1>4, <2>1
<1>6. IsIndex(new)
  BY <1>5 DEF IsIndex
<1>7. ASSUME NEW v \in Values, NEW i \in Ids
      PROVE  Names(new, v, i) <=> Names(index, v, i) \/ (v = value /\ i = id)
  <2>1. CASE v = value
    <3>1. Names(new, v, i) <=> Contains(last, i)
      BY <1>2, <2>1 DEF Names
    <3> QED
      BY <1>3, <2>1, <3>1
  <2>2. CASE v # value
    BY <1>1, <1>2, <2>2 DEF Names
  <2> QED
    BY <2>1, <2>2
<1> QED
  BY <1>6, <1>7 DEF new

\* Delete's part: the index names what it has named, but for the id under the value.
LEMMA TakeNames ==
    ASSUME NEW index, IsIndex(index), NEW value \in Values, NEW id \in Ids,
           Names(index, value, id)
    PROVE  /\ IsIndex(TakeFromIndex(index, value, id))
           /\ \A v \in Values, i \in Ids :
                 Names(TakeFromIndex(index, value, id), v, i)
                     <=> Names(index, v, i) /\ ~(v = value /\ i = id)
<1> DEFINE new == TakeFromIndex(index, value, id)
           last == WithoutId(index[value], id)
<1>1. PICK V \in SUBSET Values : index \in [V -> Gathers]
  BY DEF IsIndex
<1>2. value \in V /\ Contains(index[value], id)
  BY <1>1 DEF Names
<1>3. /\ DOMAIN new = V /\ new[value] = last
      /\ \A v \in V : v # value => new[v] = index[v]
  BY <1>1, <1>2 DEF TakeFromIndex
<1>4. last \in Gathers /\ \A i \in Ids : Contains(last, i) <=> Contains(index[value], i) /\ i # id
  BY <1>1, <1>2, WithoutGather
<1>5. new = [v \in V |-> new[v]]
  BY <1>1 DEF TakeFromIndex
<1> HIDE DEF new, last
<1>6. new \in [V -> Gathers]
  <2>1. \A v \in V : new[v] \in Gathers
    BY <1>1, <1>3, <1>4
  <2> QED
    BY <1>5, <2>1
<1>7. IsIndex(new)
  BY <1>6 DEF IsIndex
<1>8. ASSUME NEW v \in Values, NEW i \in Ids
      PROVE  Names(new, v, i) <=> Names(index, v, i) /\ ~(v = value /\ i = id)
  BY <1>1, <1>2, <1>3, <1>4 DEF Names
<1> QED
  BY <1>7, <1>8 DEF new

\* The updates' part: the id goes from one value to the other.
LEMMA ChangeNames ==
    ASSUME NEW index, IsIndex(index), NEW id \in Ids,
           NEW old \in Values, NEW new \in Values,
           \A v \in Values : Names(index, v, id) <=> v = old
    PROVE  /\ IsIndex(changeOneFieldIndex(index, id, old, new))
           /\ \A v \in Values, i \in Ids :
                 Names(changeOneFieldIndex(index, id, old, new), v, i)
                     <=> (i = id /\ v = new) \/ (i # id /\ Names(index, v, i))
<1> DEFINE taken == TakeFromIndex(index, old, id)
<1>1. /\ IsIndex(taken)
      /\ \A v \in Values, i \in Ids :
            Names(taken, v, i) <=> Names(index, v, i) /\ ~(v = old /\ i = id)
  BY TakeNames
<1> HIDE DEF taken
<1>2. ~Names(taken, new, id)
  BY <1>1
<1>3. /\ IsIndex(AddToIndex(taken, new, id))
      /\ \A v \in Values, i \in Ids :
            Names(AddToIndex(taken, new, id), v, i) <=> Names(taken, v, i) \/ (v = new /\ i = id)
  BY <1>1, <1>2, AddNames
<1>4. changeOneFieldIndex(index, id, old, new) = AddToIndex(taken, new, id)
  BY DEF changeOneFieldIndex, taken
<1>5. ASSUME NEW v \in Values, NEW i \in Ids
      PROVE  Names(AddToIndex(taken, new, id), v, i)
                 <=> (i = id /\ v = new) \/ (i # id /\ Names(index, v, i))
  <2>1. Names(index, v, id) <=> v = old
    OBVIOUS
  <2>2. CASE i = id
    BY <1>1, <1>3, <2>1, <2>2
  <2>3. CASE i # id
    BY <1>1, <1>3, <2>3
  <2> QED
    BY <2>2, <2>3
<1> QED
  BY <1>3, <1>4, <1>5

----------------------------------------------------------------------------
(* The inductive invariant.                                                *)

\* The table as it is committed is a record, with an index role, or none, of each field.
DbRecord ==
    /\ db = [main |-> db.main, indexes |-> db.indexes, rows |-> db.rows, listed |-> db.listed]
    /\ db.indexes = [f \in Fields |-> db.indexes[f]]

\* Which call is where, and with what; what the store must be like for it.  A call that
\* is about to commit has written what it would write now: nobody has changed what it
\* has read.
CallOK(c) ==
    /\ Inserts(c) => call[c].row \in Rows
    /\ call[c].op \in {"Delete", "Update", "UpdateFields"} => call[c].id \in Ids
    /\ call[c].op = "Update" => call[c].row \in Rows
    /\ call[c].at \in {"lock", "body", "commit"} =>
          call[c].op \in {"DropTable", "Insert", "InsertForAutoField", "Delete", "UpdateFields",
                          "Update"}
    /\ call[c].at = "row" => call[c].op = "Update"
    /\ call[c].at \in {"main", "indexes"} => call[c].op = "NewTable"
    /\ call[c].at = "main" => ~TableExist
    /\ call[c].at = "indexes" => TableExist /\ \A f \in call[c].left : db.indexes[f] = NoIndex
    /\ call[c].at \in {"body", "commit"} => TableExist
    /\ call[c].at = "commit" =>
          /\ WorksOn(c) /\ work = Result(c)
          /\ Inserts(c) => db.main.count < MaxId

\* A row is in a table, not above the increment count, and with all its indexes.  (With no
\* indexed field Update puts a row back that it has seen before the table was dropped.)
RowsHaveTable ==
    IndexField # {} =>
        \A id \in Ids : db.rows[id] # NoRow =>
            /\ TableExist /\ id <= db.main.count
            /\ \A f \in IndexField : db.indexes[f] # NoIndex

\* An index role names the rows with each value.
IndexesName ==
    \A f \in IndexField : db.indexes[f] # NoIndex =>
        \A v \in Values, id \in Ids :
            Names(db.indexes[f], v, id) <=> db.rows[id] # NoRow /\ db.rows[id][f] = v

TableOK ==
    /\ TableExist => db.main.index = IndexField /\ used \subseteq 1 .. db.main.count
    /\ ~TableExist => ~db.listed /\ \A f \in IndexField : db.indexes[f] = NoIndex
    /\ RowsHaveTable
    /\ IndexesName

IInv == TypeOK /\ DbRecord /\ TableOK /\ \A c \in Clients : CallOK(c)

\* One client at a time creates the table or drops it.
OneMaker == \A c, d \in Clients : Makes(c) /\ Makes(d) => c = d

\* A field that is not indexed has no index role.
OnlyIndexed == \A f \in Fields \ IndexField : db.indexes[f] = NoIndex

----------------------------------------------------------------------------
(* What the transactions write.                                            *)

\* The index roles when the table is committed.
Merged(table) ==
    [f \in Fields |-> IF f \in DOMAIN table.indexes THEN table.indexes[f] ELSE db.indexes[f]]

\* A table that may be committed.
MayCommit(table) ==
    /\ IsTable(table)
    /\ table.main # NoTable => table.main.index = IndexField /\ db.main.count <= table.main.count
    /\ table.main = NoTable => \A f \in IndexField : Merged(table)[f] = NoIndex
    /\ IndexField # {} =>
          \A id \in Ids : table.rows[id] # NoRow =>
              /\ table.main # NoTable /\ id <= table.main.count
              /\ \A f \in IndexField : Merged(table)[f] # NoIndex
    /\ \A f \in IndexField : Merged(table)[f] # NoIndex =>
          \A v \in Values, id \in Ids :
              Names(Merged(table)[f], v, id) <=> table.rows[id] # NoRow /\ table.rows[id][f] = v
    /\ \A f \in IndexField : db.indexes[f] = NoIndex => Merged(table)[f] = NoIndex

LEMMA DbFacts ==
    ASSUME IInv, TableExist
    PROVE  /\ db.main \in Mains /\ db.main.index = IndexField
           /\ db.main.count \in 0 .. MaxId /\ MaxId \in Nat
           /\ db.rows \in [Ids -> Rows \cup {NoRow}] /\ NoRow \notin Rows
           /\ IndexField \subseteq Fields /\ DOMAIN db.indexes = Fields
           /\ ~IsIndex(NoIndex)
           /\ \A f \in IndexField : db.indexes[f] # NoIndex => IsIndex(db.indexes[f])
<1>1. IsTable(db) /\ DOMAIN db.indexes = Fields
  BY DEF IInv, TypeOK
<1>2. db.main \in Mains /\ db.main.index = IndexField
  BY <1>1 DEF IInv, TableOK, TableExist, IsTable
<1>3. db.main.count \in 0 .. MaxId
  BY <1>2 DEF Mains
<1>4. IndexField \subseteq Fields
  BY RelaDBAssumption
<1>5. \A f \in IndexField : db.indexes[f] # NoIndex => IsIndex(db.indexes[f])
  BY <1>1, <1>4 DEF IsTable, AreIndexes
<1> QED
  BY <1>1, <1>2, <1>3, <1>4, <1>5, RelaDBAssumption DEF IsTable

\* The row that an insertion stores has a value of each field.
LEMMA StoredRowType ==
    ASSUME NEW c, call[c].row \in Rows, NEW ai \in Ids
    PROVE  StoredRow(c, ai) \in Rows
<1>1. \A f \in Fields : call[c].row[f] \in Values
  BY DEF Rows
<1>2. ASSUME NEW f \in Fields, f = AutoField
      PROVE  ai \in Values
  BY <1>2, RelaDBAssumption
<1> QED
  BY <1>1, <1>2 DEF StoredRow, Rows

LEMMA InsertedOK ==
    ASSUME IInv, TableExist, NEW c \in Clients, Inserts(c), WorksOn(c),
           db.main.count < MaxId
    PROVE  /\ MayCommit(Inserted(c))
           /\ Inserted(c).main # NoTable
           /\ Inserted(c).main.count = db.main.count + 1
<1> DEFINE ai == db.main.count + 1
           table == Inserted(c)
           row == StoredRow(c, ai)
<1>1. /\ db.main \in Mains /\ db.main.index = IndexField
      /\ db.main.count \in 0 .. MaxId /\ MaxId \in Nat
      /\ db.rows \in [Ids -> Rows \cup {NoRow}] /\ NoRow \notin Rows
      /\ IndexField \subseteq Fields /\ ~IsIndex(NoIndex)
      /\ \A f \in IndexField : db.indexes[f] # NoIndex => IsIndex(db.indexes[f])
  BY DbFacts
<1>2. ai \in Ids /\ ai \in 0 .. MaxId /\ db.main.count <= ai
  BY <1>1 DEF Ids
<1>3. row \in Rows
  BY <1>2, StoredRowType DEF IInv, CallOK
<1>4. \A f \in IndexField : db.indexes[f] # NoIndex
  BY <1>1 DEF WorksOn, Reads, Inserts, Updates
<1>5. /\ table.main = [db.main EXCEPT !.count = ai]
      /\ table.rows = [db.rows EXCEPT ![ai] = row]
      /\ table.indexes = [f \in IndexField |-> AddToIndex(db.indexes[f], row[f], ai)]
  BY <1>1 DEF Inserted, InsertedAs
<1> HIDE DEF table, row
<1>6. table.main \in Mains /\ table.main.index = IndexField /\ table.main.count = ai
  BY <1>1, <1>2, <1>5 DEF Mains
<1>7. /\ table.rows \in [Ids -> Rows \cup {NoRow}] /\ table.rows[ai] = row
      /\ \A id \in Ids : id # ai => table.rows[id] = db.rows[id]
  BY <1>1, <1>2, <1>3, <1>5
<1>8. ASSUME NEW f \in IndexField
      PROVE  /\ IsIndex(table.indexes[f])
             /\ \A v \in Values, id \in Ids :
                   Names(table.indexes[f], v, id)
                       <=> table.rows[id] # NoRow /\ table.rows[id][f] = v
  <2>1. IsIndex(db.indexes[f]) /\ row[f] \in Values
    BY <1>1, <1>3, <1>4 DEF Rows
  <2>2. \A v \in Values, id \in Ids :
            Names(db.indexes[f], v, id) <=> db.rows[id] # NoRow /\ db.rows[id][f] = v
    BY <1>4 DEF IInv, TableOK, IndexesName
  <2>3. db.rows[ai] = NoRow
    BY <1>1, <1>2 DEF IInv, TableOK, RowsHaveTable
  <2>4. ~Names(db.indexes[f], row[f], ai)
    BY <1>2, <2>1, <2>2, <2>3
  <2>5. /\ IsIndex(AddToIndex(db.indexes[f], row[f], ai))
        /\ \A v \in Values, id \in Ids :
              Names(AddToIndex(db.indexes[f], row[f], ai), v, id)
                  <=> Names(db.indexes[f], v, id) \/ (v = row[f] /\ id = ai)
    BY <1>2, <2>1, <2>4, AddNames
  <2>6. table.indexes[f] = AddToIndex(db.indexes[f], row[f], ai)
    BY <1>5
  <2>7. ASSUME NEW v \in Values, NEW id \in Ids
        PROVE  Names(table.indexes[f], v, id)
                   <=> table.rows[id] # NoRow /\ table.rows[id][f] = v
    <3>1. CASE id = ai
      <4>1. Names(table.indexes[f], v, id) <=> v = row[f]
        BY <2>2, <2>3, <2>5, <2>6, <3>1
      <4> QED
        BY <1>1, <1>3, <1>7, <3>1, <4>1
    <3>2. CASE id # ai
      <4>1. Names(table.indexes[f], v, id) <=> Names(db.indexes[f], v, id)
        BY <2>5, <2>6, <3>2
      <4> QED
        BY <1>7, <2>2, <3>2, <4>1
    <3> QED
      BY <3>1, <3>2
  <2> QED
    BY <2>5, <2>6, <2>7
<1>9. \A f \in IndexField : Merged(table)[f] = table.indexes[f]
  BY <1>1, <1>5 DEF Merged
<1>10. IsTable(table)
  BY <1>1, <1>5, <1>6, <1>7, <1>8 DEF IsTable, AreIndexes
<1>11. table.main # NoTable
  BY <1>6, RelaDBAssumption
<1>12. ASSUME IndexField # {}, NEW id \in Ids, table.rows[id] # NoRow
       PROVE  id <= table.main.count
  <2>1. CASE id = ai
    BY <1>6, <2>1 DEF Ids
  <2>2. CASE id # ai
    <3>1. id <= db.main.count
      BY <1>7, <1>12, <2>2 DEF IInv, TableOK, RowsHaveTable
    <3> QED
      BY <1>1, <1>6, <3>1 DEF Ids
  <2> QED
    BY <2>1, <2>2
<1>13. \A f \in IndexField : Merged(table)[f] # NoIndex
  BY <1>1, <1>8, <1>9
<1>14. MayCommit(table)
  BY <1>2, <1>4, <1>6, <1>8, <1>9, <1>10, <1>11, <1>12, <1>13 DEF MayCommit
<1> QED
  BY <1>6, <1>11, <1>14 DEF table

LEMMA DeletedOK ==
    ASSUME IInv, TableExist, NEW id \in Ids, db.rows[id] # NoRow,
           \A f \in IndexField : db.indexes[f] # NoIndex
    PROVE  MayCommit(Deleted(id)) /\ Deleted(id).main # NoTable
<1> DEFINE table == Deleted(id)
<1>1. /\ db.main \in Mains /\ db.main.index = IndexField
      /\ db.main.count \in 0 .. MaxId /\ MaxId \in Nat
      /\ db.rows \in [Ids -> Rows \cup {NoRow}] /\ NoRow \notin Rows
      /\ IndexField \subseteq Fields /\ ~IsIndex(NoIndex)
      /\ \A f \in IndexField : db.indexes[f] # NoIndex => IsIndex(db.indexes[f])
  BY DbFacts
<1>2. /\ table.main = db.main
      /\ table.rows = [db.rows EXCEPT ![id] = NoRow]
      /\ table.indexes = [f \in IndexField |-> TakeFromIndex(db.indexes[f], db.rows[id][f], id)]
  BY <1>1 DEF Deleted
<1> HIDE DEF table
<1>3. /\ table.rows \in [Ids -> Rows \cup {NoRow}] /\ table.rows[id] = NoRow
      /\ \A i \in Ids : i # id => table.rows[i] = db.rows[i]
  BY <1>1, <1>2
<1>4. ASSUME NEW f \in IndexField
      PROVE  /\ IsIndex(table.indexes[f])
             /\ \A v \in Values, i \in Ids :
                   Names(table.indexes[f], v, i) <=> table.rows[i] # NoRow /\ table.rows[i][f] = v
  <2> DEFINE old == db.rows[id][f]
  <2>1. IsIndex(db.indexes[f]) /\ old \in Values
    BY <1>1 DEF Rows
  <2>2. \A v \in Values, i \in Ids :
            Names(db.indexes[f], v, i) <=> db.rows[i] # NoRow /\ db.rows[i][f] = v
    BY DEF IInv, TableOK, IndexesName
  <2>3. Names(db.indexes[f], old, id)
    BY <2>1, <2>2
  <2>4. /\ IsIndex(TakeFromIndex(db.indexes[f], old, id))
        /\ \A v \in Values, i \in Ids :
              Names(TakeFromIndex(db.indexes[f], old, id), v, i)
                  <=> Names(db.indexes[f], v, i) /\ ~(v = old /\ i = id)
    BY <2>1, <2>3, TakeNames
  <2>5. table.indexes[f] = TakeFromIndex(db.indexes[f], old, id)
    BY <1>2
  <2>6. ASSUME NEW v \in Values, NEW i \in Ids
        PROVE  Names(table.indexes[f], v, i) <=> table.rows[i] # NoRow /\ table.rows[i][f] = v
    <3>1. CASE i = id
      <4>1. ~Names(table.indexes[f], v, i)
        BY <2>2, <2>4, <2>5, <3>1
      <4> QED
        BY <1>3, <3>1, <4>1
    <3>2. CASE i # id
      <4>1. Names(table.indexes[f], v, i) <=> Names(db.indexes[f], v, i)
        BY <2>4, <2>5, <3>2
      <4> QED
        BY <1>3, <2>2, <3>2, <4>1
    <3> QED
      BY <3>1, <3>2
  <2> QED
    BY <2>4, <2>5, <2>6
<1>5. \A f \in IndexField : Merged(table)[f] = table.indexes[f]
  BY <1>1, <1>2 DEF Merged
<1>6. IsTable(table)
  BY <1>1, <1>2, <1>3, <1>4 DEF IsTable, AreIndexes
<1>7. table.main # NoTable
  BY <1>2 DEF TableExist
<1>8. ASSUME IndexField # {}, NEW i \in Ids, table.rows[i] # NoRow
      PROVE  i <= table.main.count
  BY <1>2, <1>3, <1>8 DEF IInv, TableOK, RowsHaveTable
<1>9. \A f \in IndexField : Merged(table)[f] # NoIndex
  BY <1>1, <1>4, <1>5
<1>10. db.main.count <= table.main.count
  BY <1>1, <1>2
<1>11. MayCommit(table)
  BY <1>1, <1>2, <1>4, <1>5, <1>6, <1>7, <1>8, <1>9, <1>10 DEF MayCommit
<1> QED
  BY <1>7, <1>11 DEF table

LEMMA UpdatedOK ==
    ASSUME IInv, TableExist, NEW id \in Ids, NEW new \in Given,
           \A f \in IndexField \cap DOMAIN new : db.indexes[f] # NoIndex,
           db.rows[id] # NoRow \/ (new \in Rows /\ IndexField \cap DOMAIN new = {})
    PROVE  MayCommit(Updated(id, new)) /\ Updated(id, new).main # NoTable
<1> DEFINE table == Updated(id, new)
           row == [f \in Fields |-> IF f \in DOMAIN new THEN new[f] ELSE db.rows[id][f]]
<1>1. /\ db.main \in Mains /\ db.main.index = IndexField
      /\ db.main.count \in 0 .. MaxId /\ MaxId \in Nat
      /\ db.rows \in [Ids -> Rows \cup {NoRow}] /\ NoRow \notin Rows
      /\ IndexField \subseteq Fields /\ ~IsIndex(NoIndex) /\ DOMAIN db.indexes = Fields
      /\ \A f \in IndexField : db.indexes[f] # NoIndex => IsIndex(db.indexes[f])
  BY DbFacts
<1>2. DOMAIN new \subseteq Fields /\ \A f \in DOMAIN new : new[f] \in Values
  BY DEF Given
<1>3. row \in Rows
  <2>1. CASE db.rows[id] # NoRow
    BY <1>1, <1>2, <2>1 DEF Rows
  <2>2. CASE new \in Rows
    BY <2>2 DEF Rows
  <2> QED
    BY <2>1, <2>2
<1>4. /\ table.main = db.main
      /\ table.rows = [db.rows EXCEPT ![id] = row]
      /\ table.indexes = [f \in IndexField \cap DOMAIN new |->
                             changeOneFieldIndex(db.indexes[f], id, db.rows[id][f], new[f])]
  BY <1>1 DEF Updated
<1>5. \A f \in Fields : row[f] = IF f \in DOMAIN new THEN new[f] ELSE db.rows[id][f]
  OBVIOUS
<1> HIDE DEF table, row
<1>6. /\ table.rows \in [Ids -> Rows \cup {NoRow}] /\ table.rows[id] = row
      /\ \A i \in Ids : i # id => table.rows[i] = db.rows[i]
  BY <1>1, <1>3, <1>4
<1>7. ASSUME NEW f \in IndexField, f \in DOMAIN new
      PROVE  /\ Merged(table)[f] = table.indexes[f]
             /\ db.indexes[f] # NoIndex
             /\ IsIndex(table.indexes[f])
             /\ \A v \in Values, i \in Ids :
                   Names(table.indexes[f], v, i) <=> table.rows[i] # NoRow /\ table.rows[i][f] = v
  <2> DEFINE old == db.rows[id][f]
  <2>1. db.rows[id] \in Rows /\ db.indexes[f] # NoIndex
    BY <1>1, <1>7
  <2>2. IsIndex(db.indexes[f]) /\ old \in Values /\ new[f] \in Values
    BY <1>1, <1>2, <1>7, <2>1 DEF Rows
  <2>3. \A v \in Values, i \in Ids :
            Names(db.indexes[f], v, i) <=> db.rows[i] # NoRow /\ db.rows[i][f] = v
    BY <2>1 DEF IInv, TableOK, IndexesName
  <2>4. \A v \in Values : Names(db.indexes[f], v, id) <=> v = old
    BY <1>1, <2>1, <2>3
  <2> DEFINE changed == changeOneFieldIndex(db.indexes[f], id, old, new[f])
  <2>5. /\ IsIndex(changed)
        /\ \A v \in Values, i \in Ids :
              Names(changed, v, i) <=> (i = id /\ v = new[f]) \/ (i # id /\ Names(db.indexes[f], v, i))
    <3> DEFINE index == db.indexes[f]
               value == new[f]
    <3>1. /\ IsIndex(index) /\ old \in Values /\ value \in Values
          /\ \A v \in Values : Names(index, v, id) <=> v = old
      BY <2>2, <2>4
    <3> HIDE DEF index, old, value
    <3>2. /\ IsIndex(changeOneFieldIndex(index, id, old, value))
          /\ \A v \in Values, i \in Ids :
                Names(changeOneFieldIndex(index, id, old, value), v, i)
                    <=> (i = id /\ v = value) \/ (i # id /\ Names(index, v, i))
      BY <3>1, ChangeNames
    <3> QED
      BY <3>2 DEF index, old, value
  <2>6. table.indexes[f] = changed /\ Merged(table)[f] = table.indexes[f]
    BY <1>1, <1>4, <1>7 DEF Merged
  <2> HIDE DEF changed
  <2>7. ASSUME NEW v \in Values, NEW i \in Ids
        PROVE  Names(table.indexes[f], v, i) <=> table.rows[i] # NoRow /\ table.rows[i][f] = v
    <3>1. CASE i = id
      <4>1. Names(table.indexes[f], v, i) <=> v = new[f]
        BY <2>5, <2>6, <3>1
      <4>2. row # NoRow /\ row[f] = new[f]
        BY <1>1, <1>3, <1>5, <1>7
      <4> QED
        BY <1>6, <3>1, <4>1, <4>2
    <3>2. CASE i # id
      <4>1. Names(table.indexes[f], v, i) <=> Names(db.indexes[f], v, i)
        BY <2>5, <2>6, <3>2
      <4> QED
        BY <1>6, <2>3, <3>2, <4>1
    <3> QED
      BY <3>1, <3>2
  <2> QED
    BY <2>1, <2>5, <2>6, <2>7
<1>8. ASSUME NEW f \in IndexField, f \notin DOMAIN new
      PROVE  /\ Merged(table)[f] = db.indexes[f]
             /\ db.indexes[f] # NoIndex =>
                   \A v \in Values, i \in Ids :
                      Names(db.indexes[f], v, i) <=> table.rows[i] # NoRow /\ table.rows[i][f] = v
  <2>1. Merged(table)[f] = db.indexes[f]
    BY <1>1, <1>4, <1>8 DEF Merged
  <2>2. db.rows[id] # NoRow
    <3>1. ASSUME new \in Rows
          PROVE  FALSE
      BY <1>1, <1>8, <3>1 DEF Rows
    <3> QED
      BY <3>1
  <2>3. ASSUME db.indexes[f] # NoIndex, NEW v \in Values, NEW i \in Ids
        PROVE  Names(db.indexes[f], v, i) <=> table.rows[i] # NoRow /\ table.rows[i][f] = v
    <3>1. Names(db.indexes[f], v, i) <=> db.rows[i] # NoRow /\ db.rows[i][f] = v
      BY <2>3 DEF IInv, TableOK, IndexesName
    <3>2. CASE i = id
      <4>1. row # NoRow /\ row[f] = db.rows[id][f]
        BY <1>1, <1>3, <1>5, <1>8
      <4> QED
        BY <1>6, <2>2, <3>1, <3>2, <4>1
    <3>3. CASE i # id
      BY <1>6, <3>1, <3>3
    <3> QED
      BY <3>2, <3>3
  <2> QED
    BY <2>1, <2>3
<1>9. IsTable(table)
  <2>1. DOMAIN table.indexes = IndexField \cap DOMAIN new
    BY <1>4
  <2> QED
    BY <1>1, <1>4, <1>6, <1>7, <2>1 DEF IsTable, AreIndexes
<1>10. table.main # NoTable
  BY <1>4 DEF TableExist
<1>11. \A f \in IndexField : db.indexes[f] = NoIndex <=> Merged(table)[f] = NoIndex
  BY <1>1, <1>7, <1>8
<1>12. ASSUME IndexField # {}, NEW i \in Ids, table.rows[i] # NoRow
       PROVE  i <= table.main.count /\ \A f \in IndexField : Merged(table)[f] # NoIndex
  <2>1. new \in Rows /\ IndexField \cap DOMAIN new = {} => FALSE
    BY <1>1, <1>12 DEF Rows
  <2>2. db.rows[i] # NoRow
    BY <1>6, <1>12, <2>1
  <2> QED
    BY <1>4, <1>11, <1>12, <2>2 DEF IInv, TableOK, RowsHaveTable
<1>13. \A f \in IndexField : Merged(table)[f] # NoIndex =>
          \A v \in Values, i \in Ids :
              Names(Merged(table)[f], v, i) <=> table.rows[i] # NoRow /\ table.rows[i][f] = v
  BY <1>7, <1>8
<1>14. db.main.count <= table.main.count
  BY <1>1, <1>4
<1>15. MayCommit(table)
  BY <1>1, <1>4, <1>9, <1>10, <1>11, <1>12, <1>13, <1>14 DEF MayCommit
<1> QED
  BY <1>10, <1>15 DEF table

LEMMA DroppedOK ==
    ASSUME IInv, TableExist
    PROVE  MayCommit(Dropped) /\ Dropped.main = NoTable
<1> DEFINE table == Dropped
<1>1. /\ db.main \in Mains /\ db.main.index = IndexField
      /\ db.main.count \in 0 .. MaxId /\ MaxId \in Nat
      /\ db.rows \in [Ids -> Rows \cup {NoRow}] /\ NoRow \notin Rows
      /\ IndexField \subseteq Fields /\ ~IsIndex(NoIndex) /\ DOMAIN db.indexes = Fields
      /\ \A f \in IndexField : db.indexes[f] # NoIndex => IsIndex(db.indexes[f])
  BY DbFacts
<1>2. /\ table.main = NoTable
      /\ table.rows = [i \in Ids |-> IF i <= db.main.count THEN NoRow ELSE db.rows[i]]
      /\ table.indexes = [f \in IndexesFound |-> NoIndex]
  BY DEF Dropped
<1>3. IndexesFound = {f \in IndexField : db.indexes[f] # NoIndex}
  BY <1>1 DEF IndexesFound
<1> HIDE DEF table
<1>4. table.rows \in [Ids -> Rows \cup {NoRow}]
  BY <1>1, <1>2
<1>5. \A f \in IndexField : Merged(table)[f] = NoIndex
  BY <1>1, <1>2, <1>3 DEF Merged
<1>6. IsTable(table)
  BY <1>1, <1>2, <1>3, <1>4 DEF IsTable, AreIndexes
<1>7. IndexField # {} => \A i \in Ids : table.rows[i] = NoRow
  BY <1>2 DEF IInv, TableOK, RowsHaveTable
<1>8. MayCommit(table)
  BY <1>2, <1>5, <1>6, <1>7 DEF MayCommit
<1> QED
  BY <1>2, <1>8 DEF table

\* What a call writes may be committed.
LEMMA ResultOK ==
    ASSUME IInv, NEW c \in Clients, call[c].at \in {"body", "commit"}, WorksOn(c),
           Inserts(c) => db.main.count < MaxId
    PROVE  /\ MayCommit(Result(c))
           /\ Inserts(c) => Result(c).main.count = db.main.count + 1
           /\ Result(c).main = NoTable <=> call[c].op = "DropTable"
<1> DEFINE op == call[c].op
<1>1. TableExist /\ db.main.index = IndexField
  BY DEF IInv, CallOK, TableOK
<1>2. op \in {"DropTable", "Insert", "InsertForAutoField", "Delete", "UpdateFields", "Update"}
  BY DEF IInv, CallOK
<1>3. call[c].row \in Given
  BY DEF IInv, TypeOK, Calls
<1>4. CASE Inserts(c)
  <2>1. Result(c) = Inserted(c) /\ op # "DropTable"
    BY <1>4 DEF Result, Inserts, Updates
  <2> QED
    BY <1>1, <1>4, <2>1, InsertedOK
<1>5. CASE op = "Delete"
  <2>1. Result(c) = Deleted(call[c].id) /\ ~Inserts(c)
    BY <1>5 DEF Result, Inserts, Updates
  <2>2. call[c].id \in Ids /\ db.rows[call[c].id] # NoRow
    BY <1>5 DEF WorksOn, Inserts
  <2>3. \A f \in IndexField : db.indexes[f] # NoIndex
    BY <1>1, <1>5 DEF WorksOn, Reads, Updates
  <2> QED
    BY <1>1, <1>5, <2>1, <2>2, <2>3, DeletedOK
<1>6. CASE Updates(c)
  <2>1. Result(c) = Updated(call[c].id, call[c].row) /\ ~Inserts(c) /\ op # "DropTable"
    BY <1>6 DEF Result, Inserts, Updates
  <2>2. call[c].id \in Ids /\ Reads(c) = IndexField \cap DOMAIN call[c].row
    BY <1>1, <1>6 DEF Updates, IInv, CallOK, Reads
  <2>3. \A f \in IndexField \cap DOMAIN call[c].row : db.indexes[f] # NoIndex
    BY <2>1, <2>2 DEF WorksOn
  <2>4. \/ db.rows[call[c].id] # NoRow
        \/ call[c].row \in Rows /\ IndexField \cap DOMAIN call[c].row = {}
    BY <2>1, <2>2 DEF WorksOn, IInv, CallOK
  <2> QED
    BY <1>1, <1>3, <2>1, <2>2, <2>3, <2>4, UpdatedOK
<1>7. CASE op = "DropTable"
  <2>1. Result(c) = Dropped /\ ~Inserts(c)
    BY <1>7 DEF Result, Inserts, Updates
  <2> QED
    BY <1>1, <1>7, <2>1, DroppedOK
<1> QED
  BY <1>2, <1>4, <1>5, <1>6, <1>7 DEF Inserts, Updates

----------------------------------------------------------------------------
(* What a step does to the calls.                                          *)

LEMMA CallType ==
    ASSUME call \in [Clients -> Calls], NEW c \in Clients
    PROVE  /\ call[c] = [op |-> call[c].op, at |-> call[c].at, left |-> call[c].left,
                         id |-> call[c].id, row |-> call[c].row]
           /\ call[c].left \subseteq IndexField
           /\ call[c].id \in 0 .. MaxId /\ call[c].row \in Given
BY DEF Calls

LEMMA IdleCall ==
    /\ Idle \in Calls /\ Idle.op = "idle" /\ Idle.at = "idle"
    /\ NothingGiven \in Given /\ Rows \subseteq Given
<1>1. NothingGiven \in [{} -> Values] /\ {} \in SUBSET Fields
  BY DEF NothingGiven
<1>2. NothingGiven \in Given
  BY <1>1 DEF Given
<1>3. Rows \subseteq Given
  BY DEF Rows, Given
<1>4. 0 \in 0 .. MaxId
  BY RelaDBAssumption
<1> QED
  BY <1>2, <1>3, <1>4 DEF Idle, Calls

LEMMA Going ==
    ASSUME call \in [Clients -> Calls], NEW c \in Clients, NEW to, Goes(c, to),
           to \in {"indexes", "lock", "body", "commit"}
    PROVE  /\ call' \in [Clients -> Calls]
           /\ call'[c].at = to /\ call'[c].op = call[c].op /\ call'[c].left = call[c].left
           /\ call'[c].id = call[c].id /\ call'[c].row = call[c].row
           /\ \A d \in Clients : d # c => call'[d] = call[d]
BY DEF Goes, Calls

LEMMA Ending ==
    ASSUME call \in [Clients -> Calls], NEW c \in Clients, Ends(c)
    PROVE  /\ call' \in [Clients -> Calls] /\ call'[c] = Idle
           /\ \A d \in Clients : d # c => call'[d] = call[d]
BY IdleCall DEF Ends

\* A client that makes no call needs nothing of the store.
LEMMA IdleOK ==
    ASSUME NEW c, call'[c] = Idle
    PROVE  CallOK(c)'
BY IdleCall DEF CallOK, Inserts

\* What a call will write is the same as long as it is where it is, and what it reads is.
LEMMA ResultKept ==
    ASSUME NEW c, call'[c] = call[c],
           db'.main = db.main, db'.rows = db.rows,
           \A f \in Reads(c) : db'.indexes[f] = db.indexes[f],
           db'.indexes = db.indexes \/ call[c].op # "DropTable"
    PROVE  /\ Reads(c)' = Reads(c) /\ Inserts(c)' = Inserts(c)
           /\ WorksOn(c)' <=> WorksOn(c)
           /\ call[c].op \in {"DropTable", "Insert", "InsertForAutoField", "Delete",
                              "UpdateFields", "Update"} => Result(c)' = Result(c)
<1> DEFINE op == call[c].op
<1>1. /\ Reads(c)' = Reads(c) /\ Inserts(c)' = Inserts(c) /\ Updates(c)' = Updates(c)
      /\ call'[c].op = op /\ call'[c].id = call[c].id /\ call'[c].row = call[c].row
  BY DEF Reads, Inserts, Updates
<1>2. WorksOn(c)' <=> WorksOn(c)
  BY <1>1 DEF WorksOn
<1>3. CASE Inserts(c)
  <2>1. Reads(c) = db.main.index
    BY <1>3 DEF Reads, Inserts, Updates
  <2>2. StoredRow(c, db.main.count + 1)' = StoredRow(c, db.main.count + 1)
    BY DEF StoredRow
  <2>3. Inserted(c)' = Inserted(c)
    BY <2>1, <2>2 DEF Inserted, InsertedAs
  <2> QED
    BY <1>1, <1>2, <1>3, <2>3 DEF Result
<1>4. CASE op = "Delete"
  <2>1. Reads(c) = db.main.index
    BY <1>4 DEF Reads, Updates
  <2>2. Deleted(call[c].id)' = Deleted(call[c].id)
    BY <2>1 DEF Deleted
  <2> QED
    BY <1>1, <1>2, <1>4, <2>2 DEF Result, Inserts, Updates
<1>5. CASE Updates(c)
  <2>1. Reads(c) = db.main.index \cap DOMAIN call[c].row
    BY <1>5 DEF Reads
  <2>2. Updated(call[c].id, call[c].row)' = Updated(call[c].id, call[c].row)
    BY <2>1 DEF Updated
  <2> QED
    BY <1>1, <1>2, <1>5, <2>2 DEF Result, Inserts, Updates
<1>6. CASE op = "DropTable"
  <2>1. db'.indexes = db.indexes
    BY <1>6
  <2>2. IndexesFound' = IndexesFound
    BY <2>1 DEF IndexesFound
  <2>3. Dropped' = Dropped
    BY <2>2 DEF Dropped
  <2> QED
    BY <1>1, <1>2, <1>6, <2>3 DEF Result, Inserts, Updates
<1>7. op \in {"DropTable", "Insert", "InsertForAutoField", "Delete", "UpdateFields", "Update"}
      => Inserts(c) \/ op = "Delete" \/ Updates(c) \/ op = "DropTable"
  BY DEF Inserts, Updates
<1> QED
  BY <1>1, <1>2, <1>3, <1>4, <1>5, <1>6, <1>7

\* A call that does not move is all right as long as the table is the same.
LEMMA CallKept ==
    ASSUME IInv, NEW c \in Clients, call'[c] = call[c],
           db'.main = db.main, db'.rows = db.rows, db'.indexes = db.indexes,
           call[c].at = "commit" => work' = work
    PROVE  CallOK(c)'
<1>1. CallOK(c)
  BY DEF IInv
<1>2. /\ Inserts(c)' = Inserts(c) /\ (WorksOn(c)' <=> WorksOn(c))
      /\ call[c].at = "commit" => Result(c)' = Result(c)
  BY <1>1, ResultKept DEF CallOK
<1>3. TableExist' <=> TableExist
  BY DEF TableExist
<1> QED
  BY <1>1, <1>2, <1>3 DEF CallOK

----------------------------------------------------------------------------
(* The steps.                                                              *)

LEMMA InitOK == Init => IInv
<1> SUFFICES ASSUME Init PROVE IInv
  OBVIOUS
<1>1. /\ db = NoDB /\ call = [c \in Clients |-> Idle] /\ holder = Nobody /\ work = NoTable
      /\ used = {} /\ calls = 0 /\ fails = 0
  BY DEF Init
<1>2. TypeOK
  <2>1. IsTable(db) /\ DOMAIN db.indexes = Fields /\ db.listed \in BOOLEAN
    BY <1>1 DEF NoDB, IsTable, AreIndexes
  <2>2. call \in [Clients -> Calls] /\ \A c \in Clients : call[c].at = "idle"
    BY <1>1, IdleCall
  <2> QED
    BY <1>1, <2>1, <2>2, RelaDBAssumption DEF TypeOK
<1>3. DbRecord
  BY <1>1 DEF NoDB, DbRecord
<1>4. TableOK
  BY <1>1, RelaDBAssumption DEF NoDB, TableOK, TableExist, RowsHaveTable, IndexesName
<1>5. \A c \in Clients : CallOK(c)
  BY <1>1, IdleCall DEF CallOK, Inserts
<1> QED
  BY <1>2, <1>3, <1>4, <1>5 DEF IInv

\* As long as the table is the same, it is all right.
LEMMA TableKept ==
    ASSUME IInv, UNCHANGED <<db, used>>
    PROVE  TableOK' /\ DbRecord'
BY DEF IInv, TableOK, DbRecord, TableExist, RowsHaveTable, IndexesName

\* The types of the table and of the calls.
LEMMA TypeRule ==
    ASSUME IsTable(db)', (DOMAIN db.indexes = Fields)', db'.listed \in BOOLEAN,
           work' # NoTable => IsTable(work)',
           call' \in [Clients -> Calls], holder' \in Clients \cup {Nobody},
           \A c \in Clients : holder' = c <=> call'[c].at \in {"body", "commit"},
           used' \subseteq Ids, calls' \in 0 .. MaxCalls, fails' \in 0 .. MaxFails
    PROVE  TypeOK'
BY DEF TypeOK

LEMMA BeginStep ==
    ASSUME IInv, NEW c \in Clients, NEW op, NEW to, NEW id, NEW row, Begin(c, op, to, id, row),
           op \in {"NewTable", "DropTable", "Insert", "InsertForAutoField", "Delete",
                   "UpdateFields", "Update"},
           id \in 0 .. MaxId, row \in Given,
           \/ to = "main" /\ op = "NewTable" /\ ~TableExist
           \/ to = "row" /\ op = "Update"
           \/ to = "lock" /\ op \in {"DropTable", "Insert", "InsertForAutoField", "Delete",
                                     "UpdateFields"},
           op \in {"Insert", "InsertForAutoField", "Update"} => row \in Rows,
           op \in {"Delete", "UpdateFields", "Update"} => id \in Ids
    PROVE  IInv'
<1> DEFINE new == [op |-> op, at |-> to, left |-> IndexField, id |-> id, row |-> row]
<1>1. /\ call[c] = Idle /\ calls < MaxCalls /\ calls' = calls + 1
      /\ call' = [call EXCEPT ![c] = new]
      /\ UNCHANGED <<db, holder, work, used, fails>>
  BY DEF Begin
<1>2. new \in Calls /\ new.op = op /\ new.at = to /\ new.row = row /\ new.id = id
  BY DEF Calls
<1> HIDE DEF new
<1>3. /\ call \in [Clients -> Calls] /\ call' \in [Clients -> Calls] /\ call'[c] = new
      /\ \A d \in Clients : d # c => call'[d] = call[d]
  BY <1>1, <1>2 DEF IInv, TypeOK
<1>4. \A d \in Clients : CallOK(d)'
  <2>1. ASSUME NEW d \in Clients, d # c
        PROVE  CallOK(d)'
    BY <1>1, <1>3, <2>1, CallKept
  <2>2. CallOK(c)'
    BY <1>1, <1>2, <1>3 DEF CallOK, Inserts, TableExist
  <2> QED
    BY <2>1, <2>2
<1>5. TypeOK'
  <2>1. calls' \in 0 .. MaxCalls
    BY <1>1, RelaDBAssumption DEF IInv, TypeOK
  <2>2. \A d \in Clients : holder' = d <=> call'[d].at \in {"body", "commit"}
    BY <1>1, <1>2, <1>3, IdleCall DEF IInv, TypeOK
  <2> QED
    BY <1>1, <1>3, <2>1, <2>2 DEF IInv, TypeOK, IsTable
<1> QED
  BY <1>1, <1>4, <1>5, TableKept DEF IInv

\* A call begins.
LEMMA BeginsStep ==
    ASSUME IInv, NEW c \in Clients,
           \/ NewTable(c) \/ DropTable(c) \/ Insert(c) \/ InsertForAutoField(c)
           \/ Delete(c) \/ UpdateFields(c) \/ Update(c)
    PROVE  IInv'
<1>1. 0 \in 0 .. MaxId /\ Ids \subseteq 0 .. MaxId
  BY RelaDBAssumption DEF Ids
<1>2. CASE NewTable(c)
  BY <1>1, <1>2, BeginStep, IdleCall DEF NewTable
<1>3. CASE DropTable(c)
  BY <1>1, <1>3, BeginStep, IdleCall DEF DropTable
<1>4. CASE Insert(c)
  <2>1. PICK row \in Rows : Begin(c, "Insert", "lock", 0, row)
    BY <1>4 DEF Insert
  <2> QED
    BY <1>1, <2>1, BeginStep, IdleCall
<1>5. CASE InsertForAutoField(c)
  <2>1. PICK row \in Rows : Begin(c, "InsertForAutoField", "lock", 0, row)
    BY <1>5 DEF InsertForAutoField
  <2> QED
    BY <1>1, <2>1, BeginStep, IdleCall
<1>6. CASE Delete(c)
  <2>1. PICK id \in Ids : Begin(c, "Delete", "lock", id, NothingGiven)
    BY <1>6 DEF Delete
  <2> QED
    BY <1>1, <2>1, BeginStep, IdleCall
<1>7. CASE UpdateFields(c)
  <2>1. \E id \in Ids : \E new \in Given : Begin(c, "UpdateFields", "lock", id, new)
    BY <1>7 DEF UpdateFields
  <2> QED
    BY <1>1, <2>1, BeginStep, IdleCall
<1>8. CASE Update(c)
  <2>1. \E id \in Ids : \E new \in Rows : Begin(c, "Update", "row", id, new)
    BY <1>8 DEF Update
  <2> QED
    BY <1>1, <2>1, BeginStep, IdleCall
<1> QED
  BY <1>2, <1>3, <1>4, <1>5, <1>6, <1>7, <1>8

\* Where nobody holds the main role, or the holder is at work, the calls of the others
\* are not about to change the table.
LEMMA OneHolder ==
    ASSUME IInv, NEW c \in Clients, NEW d \in Clients, d # c,
           call[c].at \in {"body", "commit"}
    PROVE  call[d].at \notin {"body", "commit"}
BY DEF IInv, TypeOK

LEMMA StoreMainStep ==
    ASSUME IInv, OneMaker, NEW c \in Clients, StoreMain(c)
    PROVE  IInv'
<1> DEFINE main == [count |-> 0, index |-> IndexField]
<1>1. /\ call[c].at = "main" /\ db' = [db EXCEPT !.main = main] /\ used' = {}
      /\ Goes(c, "indexes") /\ UNCHANGED <<holder, work, calls, fails>>
  BY DEF StoreMain
<1>2. main \in Mains /\ main # NoTable /\ main.index = IndexField
  BY RelaDBAssumption DEF Mains
<1> HIDE DEF main
<1>3. /\ db'.main = main /\ db'.indexes = db.indexes /\ db'.rows = db.rows
      /\ db'.listed = db.listed
      /\ db' = [main |-> main, indexes |-> db.indexes, rows |-> db.rows, listed |-> db.listed]
  BY <1>1 DEF IInv, DbRecord
<1>4. /\ call \in [Clients -> Calls] /\ call' \in [Clients -> Calls]
      /\ call'[c].at = "indexes" /\ call'[c].op = call[c].op /\ call'[c].left = call[c].left
      /\ call'[c].id = call[c].id /\ call'[c].row = call[c].row
      /\ \A d \in Clients : d # c => call'[d] = call[d]
  BY <1>1, Going DEF IInv, TypeOK
<1>5. call[c].op = "NewTable" /\ ~TableExist /\ call[c].left \subseteq IndexField
  BY <1>1, <1>4, CallType DEF IInv, CallOK
<1>6. TableExist'
  BY <1>2, <1>3 DEF TableExist
<1>7. \A f \in IndexField : db.indexes[f] = NoIndex
  BY <1>5 DEF IInv, TableOK
<1>8. TableOK'
  <2>1. IndexField # {} => \A id \in Ids : db.rows[id] = NoRow
    BY <1>5 DEF IInv, TableOK, RowsHaveTable
  <2>2. RowsHaveTable'
    BY <1>3, <2>1 DEF RowsHaveTable
  <2>3. IndexesName'
    BY <1>3, <1>7 DEF IndexesName
  <2>4. db'.main.index = IndexField /\ used' \subseteq 1 .. db'.main.count
    BY <1>1, <1>2, <1>3
  <2> QED
    BY <1>6, <2>2, <2>3, <2>4 DEF TableOK
<1>9. DbRecord'
  BY <1>3 DEF DbRecord, IInv
<1>10. ASSUME NEW d \in Clients
       PROVE  CallOK(d)'
  <2>1. CASE d = c
    BY <1>3, <1>4, <1>5, <1>6, <1>7, <2>1 DEF CallOK, Inserts
  <2>2. CASE d # c
    <3>1. call'[d] = call[d]
      BY <1>4, <2>2
    <3>2. CallOK(d)
      BY DEF IInv
    <3>3. call[d].op # "NewTable" /\ call[d].at \notin {"main", "indexes", "body", "commit"}
      BY <1>5, <2>2, <3>2 DEF CallOK, OneMaker, Makes
    <3> QED
      BY <3>1, <3>2, <3>3 DEF CallOK, Inserts
  <2> QED
    BY <2>1, <2>2
<1>11. TypeOK'
  <2>1. IsTable(db)' /\ (DOMAIN db.indexes = Fields)' /\ db'.listed \in BOOLEAN
    BY <1>2, <1>3 DEF IInv, TypeOK, IsTable, AreIndexes
  <2>2. \A d \in Clients : holder' = d <=> call'[d].at \in {"body", "commit"}
    BY <1>1, <1>4 DEF IInv, TypeOK
  <2>3. used' \subseteq Ids
    BY <1>1
  <2>4. work' # NoTable => IsTable(work)'
    BY <1>1 DEF IInv, TypeOK, IsTable, AreIndexes
  <2>5. holder' \in Clients \cup {Nobody} /\ calls' \in 0 .. MaxCalls /\ fails' \in 0 .. MaxFails
    BY <1>1 DEF IInv, TypeOK
  <2> QED
    BY <1>4, <2>1, <2>2, <2>3, <2>4, <2>5, TypeRule
<1> QED
  BY <1>8, <1>9, <1>10, <1>11 DEF IInv

\* A new index role is stored where there is none, and the table has no rows yet: whoever
\* is at work or about to commit has not read it.
LEMMA StoreIndexStep ==
    ASSUME IInv, OneMaker, NEW c \in Clients, StoreIndex(c)
    PROVE  IInv'
<1>1. PICK f \in call[c].left :
          /\ db' = [db EXCEPT !.indexes[f] = EmptyIndex]
          /\ call' = [call EXCEPT ![c].left = @ \ {f}]
  BY DEF StoreIndex
<1>2. call[c].at = "indexes" /\ UNCHANGED <<holder, work, used, calls, fails>>
  BY DEF StoreIndex
<1>3. call \in [Clients -> Calls] /\ call[c].left \subseteq IndexField /\ IndexField \subseteq Fields
  BY CallType, RelaDBAssumption DEF IInv, TypeOK
<1>4. f \in IndexField /\ f \in Fields
  BY <1>3
<1>5. /\ db'.main = db.main /\ db'.rows = db.rows /\ db'.listed = db.listed
      /\ db'.indexes = [db.indexes EXCEPT ![f] = EmptyIndex]
      /\ db' = [main |-> db.main, indexes |-> db'.indexes, rows |-> db.rows, listed |-> db.listed]
  BY <1>1 DEF IInv, DbRecord
<1>6. DOMAIN db.indexes = Fields
  BY DEF IInv, TypeOK
<1>7. /\ db'.indexes[f] = EmptyIndex /\ DOMAIN db'.indexes = Fields
      /\ \A h \in Fields : h # f => db'.indexes[h] = db.indexes[h]
      /\ db'.indexes = [h \in Fields |-> db'.indexes[h]]
  BY <1>4, <1>5, <1>6
<1>8. /\ call' \in [Clients -> Calls] /\ call'[c].left = call[c].left \ {f}
      /\ call'[c].at = "indexes" /\ call'[c].op = call[c].op
      /\ call'[c].id = call[c].id /\ call'[c].row = call[c].row
      /\ \A d \in Clients : d # c => call'[d] = call[d]
  BY <1>1, <1>2, <1>3 DEF Calls
<1>9. /\ TableExist /\ call[c].op = "NewTable"
      /\ \A h \in call[c].left : db.indexes[h] = NoIndex
  BY <1>2 DEF IInv, CallOK
<1>10. \A id \in Ids : db.rows[id] = NoRow
  BY <1>4, <1>9 DEF IInv, TableOK, RowsHaveTable
<1>11. TableExist'
  BY <1>5, <1>9 DEF TableExist
<1>12. TableOK'
  <2>1. RowsHaveTable'
    BY <1>5, <1>10 DEF RowsHaveTable
  <2>2. IndexesName'
    <3> SUFFICES ASSUME NEW h \in IndexField, db'.indexes[h] # NoIndex,
                        NEW v \in Values, NEW id \in Ids
                 PROVE  Names(db'.indexes[h], v, id) <=> db'.rows[id] # NoRow /\ db'.rows[id][h] = v
      BY DEF IndexesName, Names
    <3>1. CASE h = f
      BY <1>5, <1>7, <1>10, <3>1, EmptyIndexNames
    <3>2. CASE h # f
      BY <1>3, <1>5, <1>7, <3>2 DEF IInv, TableOK, IndexesName
    <3> QED
      BY <3>1, <3>2
  <2> QED
    BY <1>2, <1>5, <1>9, <1>11, <2>1, <2>2 DEF IInv, TableOK
<1>13. DbRecord'
  BY <1>5, <1>7 DEF DbRecord
<1>14. ASSUME NEW d \in Clients
       PROVE  CallOK(d)'
  <2>1. CASE d = c
    BY <1>7, <1>8, <1>9, <1>3, <1>11, <2>1 DEF CallOK, Inserts
  <2>2. CASE d # c
    <3>1. call'[d] = call[d] /\ CallOK(d)
      BY <1>8, <2>2 DEF IInv
    <3>2. call[d].op \notin {"NewTable", "DropTable"} /\ call[d].at \notin {"main", "indexes"}
      BY <1>9, <2>2, <3>1 DEF CallOK, OneMaker, Makes
    <3>3. CASE call[d].at = "commit"
      <4>1. WorksOn(d) /\ work = Result(d)
        BY <3>1, <3>3 DEF CallOK
      <4>2. \A h \in Reads(d) : db.indexes[h] # NoIndex
        BY <3>2, <4>1 DEF WorksOn
      <4>3. Reads(d) \subseteq IndexField
        BY <1>9 DEF Reads, IInv, TableOK
      <4>4. \A h \in Reads(d) : db'.indexes[h] = db.indexes[h]
        BY <1>3, <1>7, <1>9, <4>2, <4>3
      <4>5. WorksOn(d)' /\ Result(d)' = Result(d) /\ Inserts(d)' = Inserts(d)
        BY <1>5, <3>1, <3>2, <3>3, <4>1, <4>4, ResultKept DEF CallOK
      <4> QED
        BY <1>2, <1>5, <1>11, <3>1, <3>2, <3>3, <4>5 DEF CallOK
    <3>4. CASE call[d].at # "commit"
      BY <1>11, <3>1, <3>2, <3>4 DEF CallOK, Inserts
    <3> QED
      BY <3>3, <3>4
  <2> QED
    BY <2>1, <2>2
<1>15. TypeOK'
  <2>1. IsTable(db)' /\ (DOMAIN db.indexes = Fields)' /\ db'.listed \in BOOLEAN
    <3>1. IsTable(db) /\ db.listed \in BOOLEAN
      BY DEF IInv, TypeOK
    <3>2. AreIndexes(db.indexes)'
      <4>1. \A h \in Fields : db.indexes[h] = NoIndex \/ IsIndex(db.indexes[h])
        BY <1>6, <3>1 DEF IsTable, AreIndexes
      <4>2. \A h \in Fields : db'.indexes[h] = NoIndex \/ IsIndex(db'.indexes[h])
        BY <1>7, <4>1, EmptyIndexNames
      <4> QED
        BY <1>7, <4>2 DEF AreIndexes, IsIndex
    <3> QED
      BY <1>5, <1>7, <3>1, <3>2 DEF IsTable
  <2>2. \A d \in Clients : holder' = d <=> call'[d].at \in {"body", "commit"}
    BY <1>2, <1>8 DEF IInv, TypeOK
  <2>3. work' # NoTable => IsTable(work)'
    BY <1>2 DEF IInv, TypeOK, IsTable, AreIndexes
  <2>4. /\ used' \subseteq Ids /\ holder' \in Clients \cup {Nobody}
        /\ calls' \in 0 .. MaxCalls /\ fails' \in 0 .. MaxFails
    BY <1>2 DEF IInv, TypeOK
  <2> QED
    BY <1>8, <2>1, <2>2, <2>3, <2>4, TypeRule
<1> QED
  BY <1>12, <1>13, <1>14, <1>15 DEF IInv

LEMMA WriteChildStep ==
    ASSUME IInv, NEW c \in Clients, WriteChild(c)
    PROVE  IInv'
<1>1. /\ call[c].at = "indexes" /\ db' = [db EXCEPT !.listed = TRUE] /\ Ends(c)
      /\ UNCHANGED <<holder, work, used, calls, fails>>
  BY DEF WriteChild
<1>2. /\ db'.main = db.main /\ db'.rows = db.rows /\ db'.indexes = db.indexes
      /\ db'.listed = TRUE
      /\ db' = [main |-> db.main, indexes |-> db.indexes, rows |-> db.rows, listed |-> TRUE]
  BY <1>1 DEF IInv, DbRecord
<1>3. /\ call' \in [Clients -> Calls] /\ call'[c] = Idle
      /\ \A d \in Clients : d # c => call'[d] = call[d]
  BY <1>1, Ending DEF IInv, TypeOK
<1>4. TableExist
  BY <1>1 DEF IInv, CallOK
<1>5. TableOK'
  <2>1. RowsHaveTable' /\ IndexesName'
    BY <1>2, <1>4 DEF IInv, TableOK, RowsHaveTable, IndexesName, TableExist
  <2> QED
    BY <1>1, <1>2, <1>4, <2>1 DEF IInv, TableOK, TableExist
<1>6. DbRecord'
  BY <1>2 DEF IInv, DbRecord
<1>7. \A d \in Clients : CallOK(d)'
  BY <1>1, <1>2, <1>3, CallKept, IdleOK
<1>8. TypeOK'
  <2>1. IsTable(db)' /\ (DOMAIN db.indexes = Fields)' /\ db'.listed \in BOOLEAN
    BY <1>2 DEF IInv, TypeOK, IsTable, AreIndexes
  <2>2. \A d \in Clients : holder' = d <=> call'[d].at \in {"body", "commit"}
    BY <1>1, <1>3, IdleCall DEF IInv, TypeOK
  <2>3. work' # NoTable => IsTable(work)'
    BY <1>1 DEF IInv, TypeOK, IsTable, AreIndexes
  <2>4. /\ used' \subseteq Ids /\ holder' \in Clients \cup {Nobody}
        /\ calls' \in 0 .. MaxCalls /\ fails' \in 0 .. MaxFails
    BY <1>1 DEF IInv, TypeOK
  <2> QED
    BY <1>3, <2>1, <2>2, <2>3, <2>4, TypeRule
<1> QED
  BY <1>5, <1>6, <1>7, <1>8 DEF IInv

\* The table is the same, and the others' calls are: what is left to show is the call that
\* moves, and who holds the main role.
LEMMA SameTableStep ==
    ASSUME IInv, NEW c \in Clients, UNCHANGED <<db, used, calls>>,
           call' \in [Clients -> Calls], \A d \in Clients : d # c => call'[d] = call[d],
           CallOK(c)',
           \A d \in Clients : d # c /\ call[d].at = "commit" => work' = work,
           work' # NoTable => IsTable(work)',
           holder' \in Clients \cup {Nobody}, fails' \in 0 .. MaxFails,
           \A d \in Clients : holder' = d <=> call'[d].at \in {"body", "commit"}
    PROVE  IInv'
<1>1. \A d \in Clients : CallOK(d)'
  BY CallKept
<1>2. TypeOK'
  <2>1. IsTable(db)' /\ (DOMAIN db.indexes = Fields)' /\ db'.listed \in BOOLEAN
    BY DEF IInv, TypeOK, IsTable, AreIndexes
  <2>2. used' \subseteq Ids /\ calls' \in 0 .. MaxCalls
    BY DEF IInv, TypeOK
  <2> QED
    BY <2>1, <2>2, TypeRule
<1> QED
  BY <1>1, <1>2, TableKept DEF IInv

LEMMA GivesUpStep ==
    ASSUME IInv, NEW c \in Clients, GivesUp(c), fails' \in 0 .. MaxFails
    PROVE  IInv'
<1>1. /\ Ends(c) /\ UNCHANGED <<db, used, calls>>
      /\ holder' = IF holder = c THEN Nobody ELSE holder
      /\ work' = IF holder = c THEN NoTable ELSE work
  BY DEF GivesUp
<1>2. /\ call' \in [Clients -> Calls] /\ call'[c] = Idle
      /\ \A d \in Clients : d # c => call'[d] = call[d]
  BY <1>1, Ending DEF IInv, TypeOK
<1>3. CallOK(c)'
  BY <1>2, IdleOK
<1>4. \A d \in Clients : d # c /\ call[d].at = "commit" => work' = work
  BY <1>1 DEF IInv, TypeOK
<1>5. work' # NoTable => IsTable(work)'
  BY <1>1 DEF IInv, TypeOK, IsTable, AreIndexes
<1>6. holder' \in Clients \cup {Nobody}
  BY <1>1 DEF IInv, TypeOK
<1>7. \A d \in Clients : holder' = d <=> call'[d].at \in {"body", "commit"}
  BY <1>1, <1>2, IdleCall, RelaDBAssumption DEF IInv, TypeOK
<1> QED
  BY <1>1, <1>2, <1>3, <1>4, <1>5, <1>6, <1>7, SameTableStep

LEMMA RowExistStep ==
    ASSUME IInv, NEW c \in Clients, RowExist(c)
    PROVE  IInv'
<1>1. /\ call[c].at = "row" /\ UNCHANGED <<db, holder, work, used, calls, fails>>
      /\ Ends(c) \/ Goes(c, "lock")
  BY DEF RowExist
<1>2. /\ call' \in [Clients -> Calls] /\ CallOK(c)' /\ call'[c].at \notin {"body", "commit"}
      /\ \A d \in Clients : d # c => call'[d] = call[d]
  <2>1. CASE Ends(c)
    BY <2>1, Ending, IdleOK, IdleCall DEF IInv, TypeOK
  <2>2. CASE Goes(c, "lock")
    <3>1. /\ call' \in [Clients -> Calls]
          /\ call'[c].at = "lock" /\ call'[c].op = call[c].op
          /\ call'[c].id = call[c].id /\ call'[c].row = call[c].row
          /\ \A d \in Clients : d # c => call'[d] = call[d]
      BY <2>2, Going DEF IInv, TypeOK
    <3>2. CallOK(c) /\ call[c].op = "Update"
      BY <1>1 DEF IInv, CallOK
    <3>3. CallOK(c)'
      BY <3>1, <3>2 DEF CallOK, Inserts
    <3> QED
      BY <3>1, <3>3
  <2> QED
    BY <1>1, <2>1, <2>2
<1>3. \A d \in Clients : holder' = d <=> call'[d].at \in {"body", "commit"}
  BY <1>1, <1>2 DEF IInv, TypeOK
<1>4. work' # NoTable => IsTable(work)'
  BY <1>1 DEF IInv, TypeOK, IsTable, AreIndexes
<1>5. holder' \in Clients \cup {Nobody} /\ fails' \in 0 .. MaxFails
  BY <1>1 DEF IInv, TypeOK
<1> QED
  BY <1>1, <1>2, <1>3, <1>4, <1>5, SameTableStep

LEMMA LockRoleStep ==
    ASSUME IInv, NEW c \in Clients, LockRole(c)
    PROVE  IInv'
<1>1. /\ call[c].at = "lock" /\ holder = Nobody /\ UNCHANGED <<db, work, used, calls, fails>>
      /\ \/ TableExist /\ holder' = c /\ Goes(c, "body")
         \/ Ends(c) /\ UNCHANGED holder
  BY DEF LockRole
<1>2. /\ call' \in [Clients -> Calls] /\ CallOK(c)'
      /\ \A d \in Clients : d # c => call'[d] = call[d]
      /\ holder' \in Clients \cup {Nobody}
      /\ holder' = c <=> call'[c].at \in {"body", "commit"}
      /\ \A d \in Clients : d # c => holder' # d
  <2>1. CASE Ends(c) /\ UNCHANGED holder
    BY <1>1, <2>1, Ending, IdleOK, IdleCall, RelaDBAssumption DEF IInv, TypeOK
  <2>2. CASE TableExist /\ holder' = c /\ Goes(c, "body")
    <3>1. /\ call' \in [Clients -> Calls]
          /\ call'[c].at = "body" /\ call'[c].op = call[c].op
          /\ call'[c].id = call[c].id /\ call'[c].row = call[c].row
          /\ \A d \in Clients : d # c => call'[d] = call[d]
      BY <2>2, Going DEF IInv, TypeOK
    <3>2. CallOK(c) /\ TableExist'
      BY <1>1, <2>2 DEF IInv, TableExist
    <3>3. CallOK(c)'
      BY <1>1, <3>1, <3>2 DEF CallOK, Inserts
    <3> QED
      BY <2>2, <3>1, <3>3
  <2> QED
    BY <1>1, <2>1, <2>2
<1>3. \A d \in Clients : call[d].at \notin {"body", "commit"}
  BY <1>1, RelaDBAssumption DEF IInv, TypeOK
<1>4. \A d \in Clients : holder' = d <=> call'[d].at \in {"body", "commit"}
  BY <1>2, <1>3
<1>5. work' # NoTable => IsTable(work)'
  BY <1>1 DEF IInv, TypeOK, IsTable, AreIndexes
<1>6. fails' \in 0 .. MaxFails
  BY <1>1 DEF IInv, TypeOK
<1> QED
  BY <1>1, <1>2, <1>4, <1>5, <1>6, SameTableStep

LEMMA BodyStep ==
    ASSUME IInv, NEW c \in Clients, Body(c)
    PROVE  IInv'
<1>1. /\ call[c].at = "body" /\ WorksOn(c) /\ work' = Result(c) /\ Goes(c, "commit")
      /\ Inserts(c) => db.main.count < MaxId
      /\ UNCHANGED <<db, holder, used, calls, fails>>
  BY DEF Body
<1>2. /\ call' \in [Clients -> Calls]
      /\ call'[c].at = "commit" /\ call'[c].op = call[c].op
      /\ call'[c].id = call[c].id /\ call'[c].row = call[c].row
      /\ \A d \in Clients : d # c => call'[d] = call[d]
  BY <1>1, Going DEF IInv, TypeOK
<1>3. MayCommit(Result(c))
  BY <1>1, ResultOK
<1>4. IsTable(work)'
  BY <1>1, <1>3 DEF MayCommit, IsTable, AreIndexes
<1>5. \A d \in Clients : d # c => call[d].at \notin {"body", "commit"}
  BY <1>1, OneHolder
<1>6. \A d \in Clients : holder' = d <=> call'[d].at \in {"body", "commit"}
  BY <1>1, <1>2 DEF IInv, TypeOK
<1>7. CallOK(c)'
  <2>1. CallOK(c)
    BY DEF IInv
  <2>2. Inserts(c)' = Inserts(c) /\ TableExist' = TableExist
    BY <1>1, <1>2 DEF Inserts, TableExist
  <2>3. Result(c)' = Result(c) /\ WorksOn(c)'
    BY <1>1, <1>2 DEF Result, WorksOn, Inserts, Updates, Reads, Inserted, InsertedAs,
                      StoredRow, Deleted, Updated, Dropped, IndexesFound
  <2> QED
    BY <1>1, <1>2, <2>1, <2>2, <2>3 DEF CallOK
<1>8. holder' \in Clients \cup {Nobody} /\ fails' \in 0 .. MaxFails
  BY <1>1 DEF IInv, TypeOK
<1> QED
  BY <1>1, <1>2, <1>4, <1>5, <1>6, <1>7, <1>8, SameTableStep

LEMMA CommitStep ==
    ASSUME IInv, OneMaker, NEW c \in Clients, Commit(c)
    PROVE  IInv' /\ (Inserts(c) => work.main.count \notin used)
<1> DEFINE table == Result(c)
<1>1. /\ call[c].at = "commit" /\ work' = NoTable /\ holder' = Nobody /\ Ends(c)
      /\ used' = IF Inserts(c) THEN used \cup {work.main.count} ELSE used
      /\ UNCHANGED <<calls, fails>>
  BY DEF Commit
<1>2. /\ WorksOn(c) /\ work = table /\ TableExist
      /\ Inserts(c) => db.main.count < MaxId
  BY <1>1 DEF IInv, CallOK
<1>3. /\ MayCommit(table)
      /\ Inserts(c) => table.main.count = db.main.count + 1
      /\ table.main = NoTable <=> call[c].op = "DropTable"
  BY <1>1, <1>2, ResultOK
<1>4. db' = [main |-> table.main, indexes |-> Merged(table), rows |-> table.rows,
             listed |-> db.listed /\ call[c].op # "DropTable"]
  BY <1>2, Zenon DEF Commit, Merged
<1> HIDE DEF table
<1>5. /\ db'.main = table.main /\ db'.indexes = Merged(table) /\ db'.rows = table.rows
      /\ db'.listed = (db.listed /\ call[c].op # "DropTable")
  BY <1>4
<1>6. /\ db.main \in Mains /\ db.main.index = IndexField /\ db.main.count \in 0 .. MaxId
      /\ MaxId \in Nat /\ IndexField \subseteq Fields /\ ~IsIndex(NoIndex)
      /\ used \subseteq 1 .. db.main.count
  BY <1>2, DbFacts DEF IInv, TableOK
<1>7. db'.main = NoTable <=> call[c].op = "DropTable"
  BY <1>3, <1>5
<1>8. IsTable(table)
  BY <1>3 DEF MayCommit
<1>9. /\ call' \in [Clients -> Calls] /\ call'[c] = Idle
      /\ \A d \in Clients : d # c => call'[d] = call[d]
  BY <1>1, Ending DEF IInv, TypeOK
<1>10. used' \subseteq Ids /\ (TableExist' => used' \subseteq 1 .. db'.main.count)
  <2>1. used \subseteq Ids
    BY DEF IInv, TypeOK
  <2>2. CASE Inserts(c)
    <3>1. used' = used \cup {db.main.count + 1} /\ db'.main.count = db.main.count + 1
      BY <1>1, <1>2, <1>3, <1>5, <2>2
    <3>2. db.main.count + 1 \in Ids
      BY <1>2, <1>6, <2>2 DEF Ids
    <3>3. 1 .. db.main.count \subseteq 1 .. db.main.count + 1
          /\ db.main.count + 1 \in 1 .. db.main.count + 1
      BY <1>6
    <3> QED
      BY <1>6, <2>1, <3>1, <3>2, <3>3
  <2>3. CASE ~Inserts(c)
    <3>1. TableExist' => db.main.count <= db'.main.count /\ db'.main.count \in 0 .. MaxId
      BY <1>3, <1>5, <1>8 DEF TableExist, MayCommit, IsTable, Mains
    <3>2. used' = used
      BY <1>1, <2>3
    <3>3. TableExist' => 1 .. db.main.count \subseteq 1 .. db'.main.count
      BY <1>6, <3>1
    <3> QED
      BY <1>6, <2>1, <3>2, <3>3
  <2> QED
    BY <2>2, <2>3
<1>11. TableOK'
  <2>1. RowsHaveTable'
    BY <1>3, <1>5 DEF RowsHaveTable, MayCommit, TableExist
  <2>2. IndexesName'
    <3> SUFFICES ASSUME NEW f \in IndexField, db'.indexes[f] # NoIndex,
                        NEW v \in Values, NEW id \in Ids
                 PROVE  Names(db'.indexes[f], v, id) <=> db'.rows[id] # NoRow /\ db'.rows[id][f] = v
      BY DEF IndexesName, Names
    <3> QED
      BY <1>3, <1>5 DEF MayCommit
  <2>3. TableExist' => db'.main.index = IndexField
    BY <1>3, <1>5 DEF MayCommit, TableExist
  <2>4. ~TableExist' => ~db'.listed /\ \A f \in IndexField : db'.indexes[f] = NoIndex
    BY <1>3, <1>5, <1>7 DEF MayCommit, TableExist
  <2> QED
    BY <1>10, <2>1, <2>2, <2>3, <2>4 DEF TableOK
<1>12. DbRecord'
  <2>1. Merged(table) = [f \in Fields |-> Merged(table)[f]]
    BY DEF Merged
  <2> QED
    BY <1>4, <1>5, <2>1 DEF DbRecord
<1>13. ASSUME NEW d \in Clients
       PROVE  CallOK(d)'
  <2>1. CASE d = c
    BY <1>9, <2>1, IdleOK
  <2>2. CASE d # c
    <3>1. call'[d] = call[d] /\ CallOK(d) /\ call[d].at \notin {"body", "commit"}
      BY <1>1, <1>9, <2>2, OneHolder DEF IInv
    <3>2. call[d].at # "main"
      BY <1>2, <3>1 DEF CallOK
    <3>3. ASSUME call[d].at = "indexes"
          PROVE  TableExist' /\ \A f \in call[d].left : db'.indexes[f] = NoIndex
      <4>1. /\ call[d].op = "NewTable" /\ \A f \in call[d].left : db.indexes[f] = NoIndex
            /\ call[d].left \subseteq IndexField
        BY <3>1, <3>3, CallType DEF CallOK, IInv, TypeOK
      <4>2. TableExist'
        BY <1>2, <1>7, <2>2, <4>1 DEF TableExist, OneMaker, Makes
      <4> QED
        BY <1>3, <1>5, <4>1, <4>2 DEF MayCommit
    <3> QED
      BY <3>1, <3>2, <3>3 DEF CallOK, Inserts
  <2> QED
    BY <2>1, <2>2
<1>14. TypeOK'
  <2>1. /\ db'.main \in Mains \cup {NoTable} /\ db'.rows \in [Ids -> Rows \cup {NoRow}]
        /\ db'.listed \in BOOLEAN
    BY <1>5, <1>8 DEF IsTable
  <2>2. DOMAIN db'.indexes = Fields
    BY <1>5 DEF Merged
  <2>3. \A f \in Fields : db'.indexes[f] = NoIndex \/ IsIndex(db'.indexes[f])
    <3>1. \A f \in Fields : db.indexes[f] = NoIndex \/ IsIndex(db.indexes[f])
      BY DEF IInv, TypeOK, IsTable, AreIndexes
    <3>2. \A f \in DOMAIN table.indexes :
              table.indexes[f] = NoIndex \/ IsIndex(table.indexes[f])
      BY <1>8 DEF IsTable, AreIndexes
    <3>3. \A f \in Fields :
              db'.indexes[f] = IF f \in DOMAIN table.indexes THEN table.indexes[f] ELSE db.indexes[f]
      BY <1>5 DEF Merged
    <3> QED
      BY <3>1, <3>2, <3>3
  <2>4. IsTable(db)'
    BY <2>1, <2>2, <2>3 DEF IsTable, AreIndexes, IsIndex
  <2>5. \A d \in Clients : holder' = d <=> call'[d].at \in {"body", "commit"}
    BY <1>1, <1>9, OneHolder, IdleCall, RelaDBAssumption
  <2>6. /\ holder' \in Clients \cup {Nobody} /\ calls' \in 0 .. MaxCalls /\ fails' \in 0 .. MaxFails
    BY <1>1 DEF IInv, TypeOK
  <2> QED
    BY <1>1, <1>9, <1>10, <2>1, <2>2, <2>4, <2>5, <2>6, TypeRule
<1>15. Inserts(c) => work.main.count \notin used
  BY <1>2, <1>3, <1>6
<1> QED
  BY <1>11, <1>12, <1>13, <1>14, <1>15 DEF IInv

\* A call that creates or drops the table begins when there is no other.
LEMMA OneMakerStep ==
    ASSUME IInv, OneMaker, [Next]_vars
    PROVE  OneMaker'
<1>1. call \in [Clients -> Calls]
  BY DEF IInv, TypeOK
<1>2. CASE \A d \in Clients : Makes(d)' => Makes(d)
  BY <1>2 DEF OneMaker
<1>3. CASE UNCHANGED call
  BY <1>2, <1>3 DEF Makes
<1>4. CASE \E c \in Clients : NewTable(c) \/ DropTable(c)
  <2>1. PICK c \in Clients : NewTable(c) \/ DropTable(c)
    BY <1>4
  <2>2. NobodyMakes /\ \A d \in Clients : d # c => call'[d] = call[d]
    BY <1>1, <2>1 DEF NewTable, DropTable, Begin
  <2>3. \A d \in Clients : d # c => ~Makes(d)'
    BY <2>2 DEF NobodyMakes, Makes
  <2> QED
    BY <2>3 DEF OneMaker
<1>5. CASE \E c \in Clients : \/ Insert(c) \/ InsertForAutoField(c) \/ Delete(c)
                              \/ UpdateFields(c) \/ Update(c)
  <2>1. PICK c \in Clients : \/ Insert(c) \/ InsertForAutoField(c) \/ Delete(c)
                             \/ UpdateFields(c) \/ Update(c)
    BY <1>5
  <2>2. \E op \in {"Insert", "InsertForAutoField", "Delete", "UpdateFields", "Update"} :
        \E to, id, row : Begin(c, op, to, id, row)
    BY <2>1 DEF Insert, InsertForAutoField, Delete, UpdateFields, Update
  <2>3. /\ call'[c].op \notin {"NewTable", "DropTable"}
        /\ \A d \in Clients : d # c => call'[d] = call[d]
    BY <1>1, <2>2 DEF Begin
  <2> QED
    BY <1>2, <2>3 DEF Makes
<1>6. CASE \E c \in Clients, to \in {"indexes", "lock", "body", "commit"} : Goes(c, to)
  BY <1>1, <1>2, <1>6, Going DEF Makes
<1>7. CASE \E c \in Clients : Ends(c)
  <2>1. PICK c \in Clients : Ends(c)
    BY <1>7
  <2>2. call'[c].op = "idle" /\ \A d \in Clients : d # c => call'[d] = call[d]
    BY <1>1, <2>1, Ending, IdleCall
  <2> QED
    BY <1>2, <2>2 DEF Makes
<1>8. CASE \E c \in Clients : StoreIndex(c)
  <2>1. PICK c \in Clients : StoreIndex(c)
    BY <1>8
  <2>2. \A d \in Clients : call'[d].op = call[d].op
    BY <1>1, <2>1 DEF StoreIndex, Calls
  <2> QED
    BY <1>2, <2>2 DEF Makes
<1>9. CASE \E c \in Clients : \/ StoreMain(c) \/ WriteChild(c) \/ RowExist(c) \/ LockRole(c)
                              \/ Body(c) \/ Commit(c) \/ Refused(c) \/ Fails(c)
  BY <1>6, <1>7, <1>9 DEF StoreMain, WriteChild, RowExist, LockRole, Body, Commit, Refused,
                          Fails, GivesUp
<1> QED
  BY <1>3, <1>4, <1>5, <1>8, <1>9 DEF Next, vars

\* A transaction writes the indexes of indexed fields alone.
LEMMA ResultIndexes ==
    ASSUME IInv, NEW c \in Clients, call[c].at = "commit"
    PROVE  DOMAIN work.indexes \subseteq IndexField
<1>1. /\ work = Result(c) /\ TableExist /\ db.main.index = IndexField
      /\ call[c].op \in {"DropTable", "Insert", "InsertForAutoField", "Delete", "UpdateFields",
                         "Update"}
  BY DEF IInv, CallOK, TableOK
<1>2. CASE Inserts(c)
  <2>1. work = Inserted(c)
    BY <1>1, <1>2 DEF Result, Inserts, Updates
  <2> QED
    BY <1>1, <2>1 DEF Inserted, InsertedAs
<1>3. CASE call[c].op = "Delete"
  <2>1. work = Deleted(call[c].id)
    BY <1>1, <1>3 DEF Result, Inserts, Updates
  <2> QED
    BY <1>1, <2>1 DEF Deleted
<1>4. CASE Updates(c)
  <2>1. work = Updated(call[c].id, call[c].row)
    BY <1>1, <1>4 DEF Result, Inserts, Updates
  <2> QED
    BY <1>1, <2>1 DEF Updated
<1>5. CASE call[c].op = "DropTable"
  <2>1. work = Dropped
    BY <1>1, <1>5 DEF Result, Inserts, Updates
  <2> QED
    BY <1>1, <2>1 DEF Dropped, IndexesFound
<1> QED
  BY <1>1, <1>2, <1>3, <1>4, <1>5 DEF Inserts, Updates

\* No step stores an index role of another field.
LEMMA OnlyIndexedStep ==
    ASSUME IInv, OnlyIndexed, [Next]_vars
    PROVE  OnlyIndexed'
<1> SUFFICES ASSUME NEW f \in Fields, f \notin IndexField
             PROVE  db'.indexes[f] = NoIndex
  BY DEF OnlyIndexed
<1>1. db.indexes[f] = NoIndex
  BY DEF OnlyIndexed
<1>2. /\ db = [main |-> db.main, indexes |-> db.indexes, rows |-> db.rows, listed |-> db.listed]
      /\ DOMAIN db.indexes = Fields /\ call \in [Clients -> Calls]
  BY DEF IInv, DbRecord, TypeOK
<1>3. CASE UNCHANGED db
  BY <1>1, <1>3
<1>4. CASE \E c \in Clients : StoreMain(c)
  <2>1. db' = [db EXCEPT !.main = [count |-> 0, index |-> IndexField]]
    BY <1>4 DEF StoreMain
  <2>2. db'.indexes = db.indexes
    BY <1>2, <2>1
  <2> QED
    BY <1>1, <2>2
<1>5. CASE \E c \in Clients : StoreIndex(c)
  <2>1. PICK c \in Clients : StoreIndex(c)
    BY <1>5
  <2>2. PICK h \in call[c].left : db' = [db EXCEPT !.indexes[h] = EmptyIndex]
    BY <2>1 DEF StoreIndex
  <2>3. h \in IndexField
    BY <1>2, <2>2, CallType
  <2>4. db'.indexes = [db.indexes EXCEPT ![h] = EmptyIndex]
    BY <1>2, <2>2
  <2> QED
    BY <1>1, <1>2, <2>3, <2>4
<1>6. CASE \E c \in Clients : WriteChild(c)
  <2>1. db' = [db EXCEPT !.listed = TRUE]
    BY <1>6 DEF WriteChild
  <2>2. db'.indexes = db.indexes
    BY <1>2, <2>1
  <2> QED
    BY <1>1, <2>2
<1>7. CASE \E c \in Clients : Commit(c)
  <2>1. PICK c \in Clients : Commit(c)
    BY <1>7
  <2>2. db'.indexes = [h \in Fields |-> IF h \in DOMAIN work.indexes THEN work.indexes[h]
                                                                     ELSE db.indexes[h]]
    BY <2>1 DEF Commit
  <2>3. f \notin DOMAIN work.indexes
    BY <2>1, ResultIndexes DEF Commit
  <2> QED
    BY <1>1, <2>2, <2>3
<1>8. CASE \E c \in Clients : \/ NewTable(c) \/ DropTable(c) \/ Insert(c)
                              \/ InsertForAutoField(c) \/ Delete(c) \/ UpdateFields(c) \/ Update(c)
  BY <1>3, <1>8 DEF NewTable, DropTable, Insert, InsertForAutoField, Delete, UpdateFields,
                    Update, Begin
<1>9. CASE \E c \in Clients : RowExist(c) \/ LockRole(c) \/ Body(c) \/ Refused(c) \/ Fails(c)
  BY <1>3, <1>9 DEF RowExist, LockRole, Body, Refused, Fails, GivesUp
<1> QED
  BY <1>3, <1>4, <1>5, <1>6, <1>7, <1>8, <1>9 DEF Next, vars

\* Every step keeps the invariant, and gives no id again.
LEMMA NextOK ==
    ASSUME IInv, OneMaker, [Next]_vars
    PROVE  IInv' /\ \A c \in Clients : Commit(c) /\ Inserts(c) => work.main.count \notin used
<1>1. \A c \in Clients : Commit(c) /\ Inserts(c) => work.main.count \notin used
  BY CommitStep
<1>2. CASE UNCHANGED vars
  <2>1. UNCHANGED <<db, call, holder, work, used, calls, fails>>
    BY <1>2 DEF vars
  <2>2. TypeOK'
    BY <2>1 DEF IInv, TypeOK, IsTable, AreIndexes
  <2>3. \A c \in Clients : CallOK(c)'
    BY <2>1, CallKept
  <2> QED
    BY <1>1, <2>1, <2>2, <2>3, TableKept DEF IInv
<1>3. CASE Next
  <2>1. PICK c \in Clients :
          \/ NewTable(c) \/ StoreMain(c) \/ StoreIndex(c) \/ WriteChild(c)
          \/ DropTable(c) \/ Insert(c) \/ InsertForAutoField(c) \/ Delete(c)
          \/ UpdateFields(c) \/ Update(c)
          \/ RowExist(c) \/ LockRole(c) \/ Body(c) \/ Commit(c) \/ Refused(c) \/ Fails(c)
    BY <1>3 DEF Next
  <2> SUFFICES IInv'
    BY <1>1
  <2>2. CASE NewTable(c) \/ DropTable(c) \/ Insert(c) \/ InsertForAutoField(c) \/ Delete(c)
             \/ UpdateFields(c) \/ Update(c)
    BY <2>2, BeginsStep
  <2>3. CASE StoreMain(c)
    BY <2>3, StoreMainStep
  <2>4. CASE StoreIndex(c)
    BY <2>4, StoreIndexStep
  <2>5. CASE WriteChild(c)
    BY <2>5, WriteChildStep
  <2>6. CASE RowExist(c)
    BY <2>6, RowExistStep
  <2>7. CASE LockRole(c)
    BY <2>7, LockRoleStep
  <2>8. CASE Body(c)
    BY <2>8, BodyStep
  <2>9. CASE Commit(c)
    BY <2>9, CommitStep
  <2>10. CASE Refused(c)
    <3>1. GivesUp(c) /\ fails' \in 0 .. MaxFails
      BY <2>10 DEF Refused, IInv, TypeOK
    <3> QED
      BY <3>1, GivesUpStep
  <2>11. CASE Fails(c)
    <3>1. GivesUp(c) /\ fails' \in 0 .. MaxFails
      BY <2>11, RelaDBAssumption DEF Fails, IInv, TypeOK
    <3> QED
      BY <3>1, GivesUpStep
  <2> QED
    BY <2>1, <2>2, <2>3, <2>4, <2>5, <2>6, <2>7, <2>8, <2>9, <2>10, <2>11
<1> QED
  BY <1>2, <1>3

----------------------------------------------------------------------------
(* Searches.                                                               *)

\* The gather of the rows that a request asks for.
GatherFor(request) ==
    IF request.value \in DOMAIN db.indexes[request.field]
    THEN db.indexes[request.field][request.value] ELSE << >>

\* A row matches a request that has the value in the field.
LEMMA MatchesRow ==
    ASSUME IInv, TableExist, NEW id \in Ids, NEW request \in Requests
    PROVE  Matches(id, request)
               <=> db.rows[id] # NoRow /\ db.rows[id][request.field] = request.value
<1>1. request.field \in Fields
  BY DEF Requests
<1>2. Exist(id) <=> db.rows[id] # NoRow
  BY DEF Exist
<1>3. CASE db.rows[id] # NoRow
  <2>1. Select(id) = [f \in Fields |-> db.rows[id][f]]
    BY <1>3 DEF Select, SelectFields
  <2> QED
    BY <1>1, <1>2, <1>3, <2>1 DEF Matches
<1>4. CASE db.rows[id] = NoRow
  BY <1>2, <1>4 DEF Matches
<1> QED
  BY <1>3, <1>4

\* That gather has the rows that match the request.
LEMMA GatherForRequest ==
    ASSUME IInv, OnlyIndexed, TableExist, NEW request \in Requests
    PROVE  /\ GatherFor(request) \in Gathers
           /\ \A id \in Ids : Contains(GatherFor(request), id) <=> Matches(id, request)
<1> DEFINE f == request.field
           v == request.value
<1>1. f \in IndexField /\ db.indexes[f] # NoIndex /\ v \in Values
  BY DEF Requests, OnlyIndexed
<1>2. PICK V \in SUBSET Values : db.indexes[f] \in [V -> Gathers]
  BY <1>1, DbFacts DEF IsIndex
<1>3. \A id \in Ids : Names(db.indexes[f], v, id)
                          <=> db.rows[id] # NoRow /\ db.rows[id][f] = v
  BY <1>1 DEF IInv, TableOK, IndexesName
<1>4. \A id \in Ids : Names(db.indexes[f], v, id) <=> Matches(id, request)
  BY <1>3, MatchesRow
<1>5. CASE v \in DOMAIN db.indexes[f]
  <2>1. GatherFor(request) = db.indexes[f][v]
    BY <1>5 DEF GatherFor
  <2> QED
    BY <1>2, <1>4, <1>5, <2>1 DEF Names
<1>6. CASE v \notin DOMAIN db.indexes[f]
  <2>1. GatherFor(request) = << >>
    BY <1>6 DEF GatherFor
  <2> QED
    BY <1>4, <1>6, <2>1, EmptyGather DEF Names
<1> QED
  BY <1>5, <1>6

\* find reads a gather for each request.
LEMMA FindGathers ==
    ASSUME IInv, OnlyIndexed, TableExist, NEW requests \in Seq(Requests)
    PROVE  /\ find(requests) # Error /\ Len(requests) \in Nat
           /\ \A n \in 1 .. Len(requests) :
                  /\ find(requests)[n] \in Gathers
                  /\ \A id \in Ids :
                         Contains(find(requests)[n], id) <=> Matches(id, requests[n])
<1>1. /\ Len(requests) \in Nat /\ DOMAIN requests = 1 .. Len(requests)
      /\ \A n \in 1 .. Len(requests) : requests[n] \in Requests
  BY LenProperties, ElementOfSeq
<1>2. \A n \in 1 .. Len(requests) : db.indexes[requests[n].field] # NoIndex
  BY <1>1 DEF Requests
<1>3. find(requests) = [n \in 1 .. Len(requests) |-> GatherFor(requests[n])]
  BY <1>1, <1>2, Zenon DEF find, GatherFor
<1>4. \A n \in 1 .. Len(requests) :
          /\ GatherFor(requests[n]) \in Gathers
          /\ \A id \in Ids : Contains(GatherFor(requests[n]), id) <=> Matches(id, requests[n])
  BY <1>1, GatherForRequest
<1>5. find(requests) \in [1 .. Len(requests) -> Gathers]
  BY <1>3, <1>4
<1>6. find(requests) \in Seq(Gathers)
  BY <1>1, <1>5
<1> QED
  BY <1>1, <1>3, <1>4, <1>6, RelaDBAssumption

\* FindOr has the rows that match one of the requests.
LEMMA FindOrOf ==
    ASSUME IInv, OnlyIndexed, TableExist, NEW requests \in Seq(Requests)
    PROVE  /\ FindOr(requests) \in Gathers
           /\ \A id \in Ids : Contains(FindOr(requests), id)
                                  <=> \E m \in 1 .. Len(requests) : Matches(id, requests[m])
<1> DEFINE g == find(requests)
           N == Len(requests)
           step == [n \in 1 .. N |-> [x \in Gathers |-> slicesCollection(x, g[n])]]
           got == CHOOSE f : f = [n \in 0 .. N |->
                      IF n = 0 THEN << >> ELSE slicesCollection(f[n - 1], g[n])]
<1>1. /\ g # Error /\ N \in Nat /\ \A n \in 1 .. N : g[n] \in Gathers
      /\ \A n \in 1 .. N, id \in Ids : Contains(g[n], id) <=> Matches(id, requests[n])
  BY FindGathers
<1>2. FindOr(requests) = got[N]
  BY <1>1, Zenon DEF FindOr
<1> HIDE DEF N, g
<1>3. \A n \in 1 .. N, x \in Gathers :
          /\ slicesCollection(x, g[n]) \in Gathers
          /\ \A id \in Ids : Contains(slicesCollection(x, g[n]), id)
                                 <=> Contains(x, id) \/ Matches(id, requests[n])
  BY <1>1, CollectionOf
<1>4. step \in [1 .. N -> [Gathers -> Gathers]]
  BY <1>3
<1>5. \A n \in 1 .. N, x \in Gathers : step[n][x] = slicesCollection(x, g[n])
  OBVIOUS
<1> HIDE DEF step
<1>6. PICK f : /\ f \in [0 .. N -> Gathers] /\ f[0] = << >>
               /\ \A n \in 1 .. N : f[n] = step[n][f[n - 1]]
  <2>1. \E f : Steps(f, N, Gathers, << >>, step)
    BY <1>1, <1>4, EmptyGather, Recursion
  <2> QED
    BY <2>1 DEF Steps
<1>7. f = [n \in 0 .. N |-> IF n = 0 THEN << >> ELSE slicesCollection(f[n - 1], g[n])]
  <2>1. \A n \in 0 .. N : n = 0 \/ (n \in 1 .. N /\ n - 1 \in 0 .. N)
    BY <1>1
  <2>2. \A n \in 0 .. N :
            f[n] = IF n = 0 THEN << >> ELSE slicesCollection(f[n - 1], g[n])
    BY <1>5, <1>6, <2>1
  <2> QED
    BY <1>6, <2>2, Zenon
<1>8. got = [n \in 0 .. N |-> IF n = 0 THEN << >> ELSE slicesCollection(got[n - 1], g[n])]
  BY <1>7, Zenon
<1> HIDE DEF got
<1>9. got[0] = << >>
  BY <1>1, <1>8
<1>10. \A n \in 1 .. N : got[n] = slicesCollection(got[n - 1], g[n])
  <2>1. \A n \in 1 .. N : n \in 0 .. N /\ n # 0
    BY <1>1
  <2> QED
    BY <1>8, <2>1, Zenon
<1> DEFINE Has(n, id) == \E m \in 1 .. n : Matches(id, requests[m])
           P == {n \in 0 .. N : /\ got[n] \in Gathers
                                /\ \A id \in Ids : Contains(got[n], id) <=> Has(n, id)}
<1>11. 0 \in P
  <2>1. \A id \in Ids : ~Has(0, id)
    OBVIOUS
  <2> HIDE DEF Has
  <2> QED
    BY <1>1, <1>9, <2>1, EmptyGather
<1>12. ASSUME NEW n \in 0 .. N - 1, n \in P
       PROVE  n + 1 \in P
  <2>1. n + 1 \in 1 .. N /\ (n + 1) - 1 = n /\ n + 1 \in 0 .. N
    BY <1>1
  <2>2. got[n] \in Gathers /\ \A id \in Ids : Contains(got[n], id) <=> Has(n, id)
    BY <1>12
  <2>3. \A id \in Ids : Has(n + 1, id) <=> Has(n, id) \/ Matches(id, requests[n + 1])
    <3>1. \A m \in 1 .. n + 1 : m = n + 1 \/ m \in 1 .. n
      BY <1>1
    <3>2. n + 1 \in 1 .. n + 1 /\ \A m \in 1 .. n : m \in 1 .. n + 1
      BY <1>1
    <3> QED
      BY <3>1, <3>2
  <2> HIDE DEF Has
  <2>4. got[n + 1] = slicesCollection(got[n], g[n + 1])
    BY <1>10, <2>1
  <2> QED
    BY <1>3, <2>1, <2>2, <2>3, <2>4
<1>13. N \in P
  <2> HIDE DEF P
  <2>1. \A n \in 0 .. N - 1 : n \in P => n + 1 \in P
    BY <1>12
  <2>2. \A n \in 0 .. N : n \in P
    BY <1>1, <1>11, <2>1, UpTo
  <2> QED
    BY <1>1, <2>2
<1> QED
  BY <1>2, <1>13 DEF N

\* The requests that FindAnd looks at: two, or all but the last.
LastOf(requests) == IF Len(requests) = 2 THEN 2 ELSE Len(requests) - 1

\* FindAnd has the rows that match all those.
LEMMA FindAndOf ==
    ASSUME IInv, OnlyIndexed, TableExist, NEW requests \in Seq(Requests), Len(requests) >= 2
    PROVE  /\ FindAnd(requests) \in Gathers
           /\ \A id \in Ids : Contains(FindAnd(requests), id)
                  <=> \A m \in 1 .. LastOf(requests) : Matches(id, requests[m])
<1> DEFINE g == find(requests)
           L == LastOf(requests)
           N == L - 1
           step == [n \in 1 .. N |-> [x \in Gathers |-> slicesIntersection(x, g[n + 1])]]
           got == CHOOSE f : f = [n \in 2 .. L |->
                      slicesIntersection(IF n = 2 THEN g[1] ELSE f[n - 1], g[n])]
<1>1. g # Error /\ L \in 2 .. Len(requests) /\ Len(requests) \in Nat /\ ~(Len(requests) < 2)
  <2>1. g # Error /\ Len(requests) \in Nat
    BY FindGathers
  <2> HIDE DEF g
  <2>2. CASE Len(requests) = 2
    <3>1. L = 2
      BY <2>2 DEF LastOf
    <3> HIDE DEF L
    <3> QED
      BY <2>1, <2>2, <3>1
  <2>3. CASE Len(requests) # 2
    <3>1. L = Len(requests) - 1
      BY <2>3 DEF LastOf
    <3> HIDE DEF L
    <3> QED
      BY <2>1, <2>3, <3>1
  <2> QED
    BY <2>2, <2>3
<1>2. /\ \A n \in 1 .. L : g[n] \in Gathers
      /\ \A n \in 1 .. L, id \in Ids : Contains(g[n], id) <=> Matches(id, requests[n])
  BY <1>1, FindGathers
<1>3. FindAnd(requests) = got[L]
  BY <1>1, Zenon DEF FindAnd, LastOf
<1> HIDE DEF L, g
<1>4. /\ N \in Nat /\ N >= 1 /\ L = N + 1 /\ 1 \in 1 .. L /\ 2 \in 1 .. L
      /\ \A n \in 1 .. N : n + 1 \in 1 .. L
  BY <1>1
<1>5. \A n \in 1 .. L, x \in Gathers :
          /\ slicesIntersection(x, g[n]) \in Gathers
          /\ \A id \in Ids : Contains(slicesIntersection(x, g[n]), id)
                                 <=> Contains(x, id) /\ Matches(id, requests[n])
  BY <1>2, IntersectionOf
<1> HIDE DEF N
<1>6. step \in [1 .. N -> [Gathers -> Gathers]]
  BY <1>4, <1>5
<1>7. \A n \in 1 .. N, x \in Gathers : step[n][x] = slicesIntersection(x, g[n + 1])
  OBVIOUS
<1> HIDE DEF step
<1>8. PICK f : /\ f \in [0 .. N -> Gathers] /\ f[0] = g[1]
               /\ \A n \in 1 .. N : f[n] = step[n][f[n - 1]]
  <2>1. \E f : Steps(f, N, Gathers, g[1], step)
    BY <1>2, <1>4, <1>6, Recursion
  <2> QED
    BY <2>1 DEF Steps
<1> DEFINE h == [n \in 2 .. L |-> f[n - 1]]
<1>9. h = [n \in 2 .. L |-> slicesIntersection(IF n = 2 THEN g[1] ELSE h[n - 1], g[n])]
  <2>1. ASSUME NEW n \in 2 .. L
        PROVE  h[n] = slicesIntersection(IF n = 2 THEN g[1] ELSE h[n - 1], g[n])
    <3>1. n - 1 \in 1 .. N /\ (n - 1) + 1 = n /\ (n - 1) - 1 \in 0 .. N
      BY <1>4
    <3>2. f[(n - 1) - 1] = IF n = 2 THEN g[1] ELSE h[n - 1]
      <4>1. CASE n = 2
        BY <1>8, <4>1
      <4>2. CASE n # 2
        <5>1. n - 1 \in 2 .. L
          BY <1>4, <4>2
        <5> QED
          BY <4>2, <5>1
      <4> QED
        BY <4>1, <4>2
    <3>3. f[n - 1] = slicesIntersection(f[(n - 1) - 1], g[n])
      <4>1. f[(n - 1) - 1] \in Gathers
        BY <1>8, <3>1
      <4> QED
        BY <1>7, <1>8, <3>1, <4>1
    <3> QED
      BY <3>2, <3>3
  <2> QED
    BY <2>1, Zenon
<1>10. got = [n \in 2 .. L |-> slicesIntersection(IF n = 2 THEN g[1] ELSE got[n - 1], g[n])]
  BY <1>9, Zenon
<1> HIDE DEF got, h
<1>11. \A n \in 2 .. L :
           got[n] = slicesIntersection(IF n = 2 THEN g[1] ELSE got[n - 1], g[n])
  BY <1>10, Zenon
<1> DEFINE Has(n, id) == \A m \in 1 .. n : Matches(id, requests[m])
           P == {n \in 0 .. N - 1 : /\ got[n + 2] \in Gathers
                                    /\ \A id \in Ids :
                                           Contains(got[n + 2], id) <=> Has(n + 2, id)}
<1>12. 0 \in P
  <2>1. got[2] = slicesIntersection(g[1], g[2])
    <3>1. 2 \in 2 .. L
      BY <1>4
    <3> QED
      BY <1>11, <3>1
  <2>2. \A id \in Ids : Has(2, id) <=> Matches(id, requests[1]) /\ Matches(id, requests[2])
    <3>1. 1 \in 1 .. 2 /\ 2 \in 1 .. 2 /\ \A m \in 1 .. 2 : m = 1 \/ m = 2
      OBVIOUS
    <3> QED
      BY <3>1
  <2> HIDE DEF Has
  <2>3. /\ got[2] \in Gathers
        /\ \A id \in Ids : Contains(got[2], id) <=> Has(2, id)
    BY <1>2, <1>4, <1>5, <2>1, <2>2
  <2> QED
    BY <1>4, <2>3
<1>13. ASSUME NEW n \in 0 .. N - 2, n \in P
       PROVE  n + 1 \in P
  <2>1. /\ n + 3 \in 2 .. L /\ n + 3 \in 1 .. L /\ n + 3 # 2 /\ (n + 3) - 1 = n + 2
        /\ n + 1 \in 0 .. N - 1 /\ (n + 1) + 2 = n + 3 /\ n \in Nat
    BY <1>4
  <2>2. got[n + 2] \in Gathers /\ \A id \in Ids : Contains(got[n + 2], id) <=> Has(n + 2, id)
    BY <1>13
  <2>3. \A id \in Ids : Has(n + 3, id) <=> Has(n + 2, id) /\ Matches(id, requests[n + 3])
    <3>1. \A m \in 1 .. n + 3 : m = n + 3 \/ m \in 1 .. n + 2
      BY <2>1
    <3>2. n + 3 \in 1 .. n + 3 /\ \A m \in 1 .. n + 2 : m \in 1 .. n + 3
      BY <2>1
    <3> QED
      BY <3>1, <3>2
  <2> HIDE DEF Has
  <2>4. got[n + 3] = slicesIntersection(got[n + 2], g[n + 3])
    BY <1>11, <2>1
  <2>5. /\ got[n + 3] \in Gathers
        /\ \A id \in Ids : Contains(got[n + 3], id) <=> Has(n + 3, id)
    BY <1>5, <2>1, <2>2, <2>3, <2>4
  <2> QED
    BY <2>1, <2>5
<1>14. N - 1 \in P
  <2> HIDE DEF P
  <2>1. N - 1 \in Nat /\ (N - 1) - 1 = N - 2 /\ N - 1 \in 0 .. N - 1
    BY <1>4
  <2>2. \A n \in 0 .. (N - 1) - 1 : n \in P => n + 1 \in P
    BY <1>13, <2>1
  <2>3. \A n \in 0 .. N - 1 : n \in P
    BY <1>12, <2>1, <2>2, UpTo
  <2> QED
    BY <2>1, <2>3
<1>15. /\ got[L] \in Gathers
       /\ \A id \in Ids : Contains(got[L], id) <=> Has(L, id)
  <2>1. (N - 1) + 2 = L
    BY <1>4
  <2> HIDE DEF Has
  <2> QED
    BY <1>14, <2>1
<1> QED
  BY <1>3, <1>15 DEF L

\* FindOr finds each row that matches one of any number of requests, once, and no other;
\* FindAnd finds each row that matches all the requests that it looks at, once, and no
\* other: of two these are both, of more all but the last.
FindsAllAsked ==
    TableExist =>
        \A requests \in Seq(Requests) :
            /\ IsInjective(FindOr(requests))
            /\ ToSet(FindOr(requests)) =
                   {id \in Ids : \E n \in 1 .. Len(requests) : Matches(id, requests[n])}
            /\ Len(requests) >= 2 =>
                   /\ IsInjective(FindAnd(requests))
                   /\ ToSet(FindAnd(requests)) =
                          {id \in Ids : \A n \in 1 .. LastOf(requests) : Matches(id, requests[n])}

LEMMA FindsAllOK ==
    ASSUME IInv, OnlyIndexed
    PROVE  FindsAllAsked
<1> SUFFICES ASSUME TableExist, NEW requests \in Seq(Requests)
             PROVE  /\ IsInjective(FindOr(requests))
                    /\ ToSet(FindOr(requests)) =
                           {id \in Ids : \E n \in 1 .. Len(requests) : Matches(id, requests[n])}
                    /\ Len(requests) >= 2 =>
                           /\ IsInjective(FindAnd(requests))
                           /\ ToSet(FindAnd(requests)) =
                                  {id \in Ids : \A n \in 1 .. LastOf(requests) :
                                                    Matches(id, requests[n])}
  BY DEF FindsAllAsked
<1>1. /\ FindOr(requests) \in Gathers
      /\ \A id \in Ids : Contains(FindOr(requests), id)
                             <=> \E m \in 1 .. Len(requests) : Matches(id, requests[m])
  BY FindOrOf
<1>2. ASSUME Len(requests) >= 2
      PROVE  /\ IsInjective(FindAnd(requests))
             /\ ToSet(FindAnd(requests)) =
                    {id \in Ids : \A n \in 1 .. LastOf(requests) : Matches(id, requests[n])}
  <2>1. /\ FindAnd(requests) \in Gathers
        /\ \A id \in Ids : Contains(FindAnd(requests), id)
               <=> \A m \in 1 .. LastOf(requests) : Matches(id, requests[m])
    BY <1>2, FindAndOf
  <2> QED
    BY <2>1, GatherSet
<1> QED
  BY <1>1, <1>2, GatherSet

\* Two requests are one of those numbers, and FindAnd looks at both.
LEMMA FindsOK ==
    ASSUME IInv, OnlyIndexed, IndexField # {}
    PROVE  FindsWhatMatches
<1> SUFFICES ASSUME TableExist
             PROVE  /\ \A id \in Ids : Exist(id) => id <= Count
                    /\ \A r1, r2 \in Requests :
                           /\ IsInjective(FindOr(<<r1, r2>>))
                           /\ ToSet(FindOr(<<r1, r2>>)) =
                                  {id \in Ids : Matches(id, r1) \/ Matches(id, r2)}
                           /\ IsInjective(FindAnd(<<r1, r2>>))
                           /\ ToSet(FindAnd(<<r1, r2>>)) =
                                  {id \in Ids : Matches(id, r1) /\ Matches(id, r2)}
  BY DEF FindsWhatMatches
<1>1. \A id \in Ids : Exist(id) => id <= Count
  BY DEF IInv, TableOK, RowsHaveTable, Exist, Count
<1>2. ASSUME NEW r1 \in Requests, NEW r2 \in Requests
      PROVE  /\ IsInjective(FindOr(<<r1, r2>>))
             /\ ToSet(FindOr(<<r1, r2>>)) = {id \in Ids : Matches(id, r1) \/ Matches(id, r2)}
             /\ IsInjective(FindAnd(<<r1, r2>>))
             /\ ToSet(FindAnd(<<r1, r2>>)) = {id \in Ids : Matches(id, r1) /\ Matches(id, r2)}
  <2> DEFINE requests == <<r1, r2>>
  <2>1. /\ requests \in Seq(Requests) /\ Len(requests) = 2
        /\ requests[1] = r1 /\ requests[2] = r2
    OBVIOUS
  <2> HIDE DEF requests
  <2>2. LastOf(requests) = 2 /\ Len(requests) >= 2
    BY <2>1 DEF LastOf
  <2>3. \A n \in 1 .. 2 : n = 1 \/ n = 2
    OBVIOUS
  <2>4. /\ IsInjective(FindOr(requests))
        /\ ToSet(FindOr(requests)) = {id \in Ids : \E n \in 1 .. 2 : Matches(id, requests[n])}
        /\ IsInjective(FindAnd(requests))
        /\ ToSet(FindAnd(requests)) = {id \in Ids : \A n \in 1 .. 2 : Matches(id, requests[n])}
    BY <2>1, <2>2, FindsAllOK DEF FindsAllAsked
  <2>5. \A id : /\ (\E n \in 1 .. 2 : Matches(id, requests[n])) <=> Matches(id, r1) \/ Matches(id, r2)
                /\ (\A n \in 1 .. 2 : Matches(id, requests[n])) <=> Matches(id, r1) /\ Matches(id, r2)
    <3>1. 1 \in 1 .. 2 /\ 2 \in 1 .. 2
      OBVIOUS
    <3> QED
      BY <2>1, <2>3, <3>1
  <2>6. /\ ToSet(FindOr(requests)) = {id \in Ids : Matches(id, r1) \/ Matches(id, r2)}
        /\ ToSet(FindAnd(requests)) = {id \in Ids : Matches(id, r1) /\ Matches(id, r2)}
    BY <2>4, <2>5
  <2> QED
    BY <2>4, <2>6 DEF requests
<1> QED
  BY <1>1, <1>2

----------------------------------------------------------------------------
(* The theorems.                                                           *)

\* What IInv says holds in every behaviour, one client at a time makes or drops the table,
\* and no field has an index role that the table does not index.
THEOREM RelaDBInvariant == Spec => [](IInv /\ OneMaker /\ OnlyIndexed)
<1>1. Init => IInv /\ OneMaker /\ OnlyIndexed
  BY InitOK, IdleCall DEF Init, NoDB, OneMaker, Makes, OnlyIndexed
<1>2. IInv /\ OneMaker /\ OnlyIndexed /\ [Next]_vars => (IInv /\ OneMaker /\ OnlyIndexed)'
  BY NextOK, OneMakerStep, OnlyIndexedStep
<1> QED
  BY <1>1, <1>2, PTL DEF Spec

\* The table that is committed and the one that a transaction writes have their types, no
\* gather names a row twice, and one client at most has the lock (reladb.go).
THEOREM RelaDBType == Spec => []TypeOK
<1>1. IInv => TypeOK
  BY DEF IInv
<1> QED
  BY <1>1, RelaDBInvariant, PTL

\* Whatever calls fail and in whatever order the clients come, every index names exactly
\* the rows with each value (reladb.go, Insert to changeOneFieldIndexDRule).
THEOREM IndexesMatch == Spec => []IndexMatchesRows
<1>1. IInv => IndexMatchesRows
  BY DEF IInv, TableOK, IndexesName, IndexMatchesRows, Names
<1> QED
  BY <1>1, RelaDBInvariant, PTL

\* A listed table can be read, and a table that is gone has left no row behind, as long as
\* it indexes a field (reladb.go NewTable, DropTable).  Without one the second half is not
\* so: Update puts back a row that it saw before DropTable, and another NewTable starts
\* its count below that row.
THEOREM ListedTableIsThere ==
    ASSUME IndexField # {}
    PROVE  Spec => []ListedIsThere
<1>1. IInv => ListedIsThere
  BY DEF IInv, TableOK, RowsHaveTable, ListedIsThere, TableListFails
<1> QED
  BY <1>1, RelaDBInvariant, PTL

\* A row gets an id that no row of the table has had before (reladb.go Insert).
THEOREM IdsStayUsed == Spec => IdsNotUsedAgain
<1>1. IInv /\ OneMaker /\ [Next]_vars =>
          [\A c \in Clients : Commit(c) /\ Inserts(c) => work.main.count \notin used]_vars
  BY NextOK
<1> QED
  BY <1>1, RelaDBInvariant, PTL DEF Spec, IdsNotUsedAgain

\* A search of a table that indexes a field, by one or the other of two conditions or by
\* both, finds the rows that Select would show to match, each once, and no other, whatever
\* failed and whoever came in between; and Count counts every row (reladb.go FindOr,
\* FindAnd, find, slicesCollection, slicesIntersection, Count).  Without an indexed field
\* there is nothing to search by, and a row that Update puts back may be above the count.
THEOREM FindsTheRows ==
    ASSUME IndexField # {}
    PROVE  Spec => []FindsWhatMatches
<1>1. IInv /\ OnlyIndexed => FindsWhatMatches
  BY FindsOK
<1> QED
  BY <1>1, RelaDBInvariant, PTL

\* A search by any number of conditions finds the rows that match one of them, or that match
\* all those that FindAnd looks at: of more than two, the last is not (reladb.go FindOr,
\* FindAnd).
THEOREM FindsAnyNumber == Spec => []FindsAllAsked
<1>1. IInv /\ OnlyIndexed => FindsAllAsked
  BY FindsAllOK
<1> QED
  BY <1>1, RelaDBInvariant, PTL
=============================================================================
