-------------------------- MODULE Algorithms_proofs --------------------------
(***************************************************************************)
(* Proofs about the code that keeps no state between calls: the query that *)
(* prepares a training set, the batches of the inference client, the       *)
(* format of an answer, and what the connectors ask of their platforms.    *)
(***************************************************************************)
EXTENDS Preparation, Algorithms, FiniteSetTheorems, SequenceTheorems,
        WellFoundedInduction, TLAPS

-----------------------------------------------------------------------------
(* The corpus is finite, and holds nothing that harvesters do not write.    *)
PrepInv ==
    /\ rows \subseteq CorpusRows /\ IsFiniteSet(rows)
    /\ tombs \subseteq CorpusTombstones

(* PrepInv is an invariant: harvesters add rows and tombstones one at a time. *)
LEMMA PrepInvariant == PrepSpec => []PrepInv
<1>1. PrepInit => PrepInv
  BY FS_EmptySet DEF PrepInit, PrepInv
<1>2. PrepInv /\ [PrepNext]_prepVars => PrepInv'
  <2> SUFFICES ASSUME PrepInv, [PrepNext]_prepVars PROVE PrepInv'
    OBVIOUS
  <2>1. CASE AddRow
    BY <2>1, FS_AddElement DEF PrepInv, AddRow
  <2>2. CASE AddTombstone
    BY <2>2 DEF PrepInv, AddTombstone
  <2>3. CASE Prep \/ UNCHANGED prepVars
    BY <2>3 DEF PrepInv, Prep, prepVars
  <2> QED
    BY <2>1, <2>2, <2>3 DEF PrepNext
<1> QED
  BY <1>1, <1>2, PTL DEF PrepSpec

(* The anti-joins leave what no tombstone speaks of, seen from either side. *)
LEMMA LiveRows == ASSUME PrepInv PROVE Sized(Alive(rows, tombs)) = Live
<1>1. ASSUME NEW r \in rows
      PROVE  (\E t \in tombs : Revokes(t, r)) <=>
               \/ <<r.platform, r.doc>> \in RevokedPosts
               \/ <<r.platform, r.author>> \in RevokedAccounts
  <2>1. ASSUME NEW t \in tombs, Revokes(t, r)
        PROVE  \/ <<r.platform, r.doc>> \in RevokedPosts
               \/ <<r.platform, r.author>> \in RevokedAccounts
    BY <2>1 DEF Revokes, RevokedPosts, RevokedAccounts
  <2>2. ASSUME <<r.platform, r.doc>> \in RevokedPosts
        PROVE  \E t \in tombs : Revokes(t, r)
    BY <2>2 DEF Revokes, RevokedPosts
  <2>3. ASSUME <<r.platform, r.author>> \in RevokedAccounts
        PROVE  \E t \in tombs : Revokes(t, r)
    <3>1. PICK t \in tombs : /\ t.scope = "account" /\ t.platform = r.platform
                             /\ t.author = r.author
      BY <2>3 DEF RevokedAccounts
    <3>2. t.author # NULL
      BY <3>1, PreparationAssumption DEF PrepInv
    <3> QED
      BY <3>1, <3>2 DEF Revokes
  <2> QED
    BY <2>1, <2>2, <2>3
<1>2. ASSUME NEW r \in rows
      PROVE  r.chars \in MinChars..MaxChars <=> r.chars >= MinChars /\ r.chars <= MaxChars
  BY PreparationAssumption DEF PrepInv
<1> QED
  BY <1>1, <1>2 DEF Sized, Alive, Live

(* Rows that differ in content whenever they differ are as many as texts.   *)
LEMMA OneRowPerText ==
    ASSUME NEW S, IsFiniteSet(S),
           \A r, s \in S : r.content = s.content => r = s
    PROVE  /\ IsFiniteSet(TextsOf(S))
           /\ Cardinality(S) = Cardinality(TextsOf(S))
<1> DEFINE f == [r \in S |-> r.content]
<1>1. f \in Bijection(S, TextsOf(S))
  BY DEF Bijection, Injection, Surjection, IsInjective, TextsOf
<1>2. ExistsBijection(S, TextsOf(S))
  BY <1>1 DEF ExistsBijection
<1> QED
  BY <1>2, FS_Bijection

(***************************************************************************)
(* However a corpus grows, a training set is made of live texts, has each  *)
(* once, and as many as there are and the cap allows.                      *)
(***************************************************************************)
THEOREM PreparedFromLiveTexts == PrepSpec => TextsAreTheLiveTexts
<1> DEFINE Right == /\ TextsOf(kept') \subseteq TextsOf(Live)
                    /\ Cardinality(kept') = Cardinality(TextsOf(kept'))
                    /\ Cardinality(kept') = Min({MaxSequences, Cardinality(TextsOf(Live))})
<1>1. ASSUME PrepInv, Prep PROVE Right
  <2>1. PICK deduped \in SUBSET Live : IsDeduped(deduped, Live) /\ IsCapped(kept', deduped)
    BY <1>1, LiveRows DEF Prep, TrainingSets
  <2>2. IsFiniteSet(Live) /\ IsFiniteSet(deduped)
    BY <1>1, <2>1, FS_Subset DEF PrepInv, Live
  <2>3. ASSUME NEW r \in deduped, NEW s \in deduped, r.content = s.content
        PROVE  r = s
    <3> DEFINE Same == {k \in deduped : k.content = r.content}
    <3>1. Cardinality(Same) = 1
      BY <2>1 DEF IsDeduped
    <3>2. IsFiniteSet(Same)
      BY <2>2, FS_Subset
    <3>3. r \in Same /\ s \in Same
      BY <2>3
    <3> HIDE DEF Same
    <3> QED
      BY <3>1, <3>2, <3>3, FS_Singleton
  <2>4. TextsOf(deduped) = TextsOf(Live)
    <3>1. ASSUME NEW r \in Live PROVE \E k \in deduped : k.content = r.content
      <4> DEFINE Same == {k \in deduped : k.content = r.content}
      <4>1. Cardinality(Same) = 1
        BY <2>1 DEF IsDeduped
      <4>2. Same # {}
        BY <4>1, FS_EmptySet
      <4> QED
        BY <4>2
    <3> QED
      BY <2>1, <3>1 DEF TextsOf, IsDeduped
  <2>5. /\ IsFiniteSet(TextsOf(deduped))
        /\ Cardinality(deduped) = Cardinality(TextsOf(Live))
    BY <2>2, <2>3, <2>4, OneRowPerText
  <2>6. kept' \subseteq deduped /\ IsFiniteSet(kept')
    BY <2>1, <2>2, FS_Subset DEF IsCapped
  <2>7. Cardinality(kept') = Cardinality(TextsOf(kept'))
    BY <2>3, <2>6, OneRowPerText
  <2>8. Cardinality(kept') = Min({MaxSequences, Cardinality(TextsOf(Live))})
    <3>1. Cardinality(deduped) \in Nat /\ MaxSequences \in Nat
      BY <2>2, FS_CardinalityType, PreparationAssumption
    <3>2. ASSUME NEW n \in Nat, NEW m \in Nat
          PROVE  Min({m, n}) = IF n < m THEN n ELSE m
      BY DEF Min
    <3> QED
      BY <2>1, <2>5, <3>1, <3>2 DEF IsCapped
  <2> QED
    BY <2>4, <2>6, <2>7, <2>8 DEF TextsOf
<1>2. PrepInv => [Prep => Right]_prepVars
  BY <1>1
<1> QED
  BY <1>2, PrepInvariant, PTL DEF TextsAreTheLiveTexts

-----------------------------------------------------------------------------
(* Numbers, sets of numbers, and lists.                                     *)

(* No descent of numbers goes on for ever.                                   *)
Descends == {p \in Nat \X Nat : p[1] < p[2]}

(* No descent of numbers goes on for ever.                                   *)
LEMMA NatDescends == IsWellFoundedOn(Descends, Nat)
  BY NatLessThanWellFounded, Zenon DEF OpToRel, Descends

(* A set of numbers has a least one.                                         *)
LEMMA LeastNumber ==
    ASSUME NEW T, T \subseteq Nat, T # {}
    PROVE  \E x \in T : \A y \in T : x <= y
<1>1. PICK x \in T : \A y \in T : <<y, x>> \notin Descends
  BY NatDescends, WFMin
<1>2. ASSUME NEW y \in T PROVE x <= y
  <2>1. <<y, x>> \in Nat \X Nat
    OBVIOUS
  <2>2. ~(y < x)
    BY <1>1, <2>1, Zenon DEF Descends
  <2> QED
    BY <2>2
<1> QED
  BY <1>1, <1>2

(* Induction, for a set of numbers. *)
LEMMA CountingUp ==
    ASSUME NEW T, 0 \in T, \A n \in Nat : n \in T => n + 1 \in T
    PROVE  Nat \subseteq T
<1> SUFFICES ASSUME NEW m \in Nat, m \notin T PROVE FALSE
  OBVIOUS
<1>1. PICK x \in Nat \ T : \A y \in Nat \ T : x <= y
  <2> DEFINE U == Nat \ T
  <2>1. U \subseteq Nat /\ U # {}
    OBVIOUS
  <2> HIDE DEF U
  <2>2. \E x \in U : \A y \in U : x <= y
    BY <2>1, LeastNumber
  <2> QED
    BY <2>2 DEF U
<1>2. x # 0 /\ x - 1 \in Nat /\ x - 1 \in T /\ (x - 1) + 1 = x
  BY <1>1
<1> QED
  BY <1>1, <1>2

(* The least of a set of numbers, the largest, and those of two.             *)
LEMMA LeastIs ==
    ASSUME NEW S, S \subseteq Int, NEW m \in S, \A x \in S : m <= x
    PROVE  Min(S) = m
<1>1. Min(S) \in S /\ \A x \in S : Min(S) <= x
  BY Zenon DEF Min
<1>2. Min(S) \in Int /\ m \in Int /\ m <= Min(S) /\ Min(S) <= m
  BY <1>1, Zenon
<1> QED
  BY <1>2

(* The largest of a set of numbers. *)
LEMMA MostIs ==
    ASSUME NEW S, S \subseteq Int, NEW m \in S, \A x \in S : x <= m
    PROVE  Max(S) = m
<1>1. Max(S) \in S /\ \A x \in S : x <= Max(S)
  BY Zenon DEF Max
<1>2. Max(S) \in Int /\ m \in Int /\ m <= Max(S) /\ Max(S) <= m
  BY <1>1, Zenon
<1> QED
  BY <1>2

(* The lesser and the greater of two numbers. *)
LEMMA OfTwo ==
    ASSUME NEW a \in Int, NEW b \in Int
    PROVE  /\ Min({a, b}) = (IF a <= b THEN a ELSE b)
           /\ Max({a, b}) = (IF a <= b THEN b ELSE a)
<1>1. Min({a, b}) = (IF a <= b THEN a ELSE b)
  BY DEF Min
<1>2. Max({a, b}) = (IF a <= b THEN b ELSE a)
  BY DEF Max
<1> QED
  BY <1>1, <1>2


(* The least number of a set is one of its members. *)
LEMMA LeastIn ==
    ASSUME NEW T, T \subseteq Nat, T # {}
    PROVE  Min(T) \in T /\ \A x \in T : Min(T) <= x
<1>1. PICK m \in T : \A x \in T : m <= x
  BY LeastNumber
<1>2. T \subseteq Int
  OBVIOUS
<1>3. Min(T) = m
  BY <1>1, <1>2, LeastIs
<1> QED
  BY <1>1, <1>3

-----------------------------------------------------------------------------
(* Sorting, as the inference client does it: a relation orders a set if it *)
(* ranks every two members of it.                                           *)
IsOrderOn(R, S) ==
    /\ \A x \in S : <<x, x>> \notin R
    /\ \A x \in S : \A y \in S : x # y => <<x, y>> \in R \/ <<y, x>> \in R
    /\ \A x \in S : \A y \in S : \A z \in S :
         <<x, y>> \in R /\ <<y, z>> \in R => <<x, z>> \in R

(* To sort is to permute. *)
LEMMA OrderPermutes ==
    ASSUME NEW S, IsFiniteSet(S), NEW R, IsOrderOn(R, S)
    PROVE  /\ Cardinality(S) \in Nat
           /\ InOrder(S, R) \in Bijection(1..Cardinality(S), S)
           /\ \A i \in 1..Cardinality(S) : \A j \in 1..Cardinality(S) :
                i < j => <<InOrder(S, R)[i], InOrder(S, R)[j]>> \in R
<1> DEFINE n == Cardinality(S)
           below(x) == {y \in S : <<y, x>> \in R}
           rank == [x \in S |-> Cardinality(below(x)) + 1]
           order == InOrder(S, R)
<1>1. n \in Nat
  BY FS_CardinalityType
<1>2. ASSUME NEW x \in S
      PROVE  /\ IsFiniteSet(below(x)) /\ Cardinality(below(x)) \in Nat
             /\ Cardinality(below(x)) < n
  <2>1. below(x) \in SUBSET S /\ below(x) # S
    BY <1>2 DEF IsOrderOn
  <2> HIDE DEF below
  <2>2. /\ IsFiniteSet(below(x)) /\ Cardinality(below(x)) <= n
        /\ Cardinality(below(x)) # n
    BY <2>1, FS_Subset
  <2>3. Cardinality(below(x)) \in Nat
    BY <2>2, FS_CardinalityType
  <2> QED
    BY <1>1, <2>2, <2>3
<1>3. rank \in [S -> 1..n]
  <2>1. ASSUME NEW x \in S PROVE Cardinality(below(x)) + 1 \in 1..n
    <3> HIDE DEF below
    <3> QED
      BY <1>1, <1>2
  <2> HIDE DEF below
  <2> QED
    BY <2>1
<1>4. ASSUME NEW x \in S, NEW y \in S, <<x, y>> \in R PROVE rank[x] < rank[y]
  <2>1. below(x) \in SUBSET below(y) /\ below(x) # below(y)
    BY <1>4 DEF IsOrderOn
  <2>2. IsFiniteSet(below(y)) /\ Cardinality(below(x)) \in Nat /\ Cardinality(below(y)) \in Nat
    BY <1>2
  <2>3. rank[x] = Cardinality(below(x)) + 1 /\ rank[y] = Cardinality(below(y)) + 1
    OBVIOUS
  <2> HIDE DEF below, rank
  <2>4. Cardinality(below(x)) <= Cardinality(below(y)) /\ Cardinality(below(x)) # Cardinality(below(y))
    BY <2>1, <2>2, FS_Subset
  <2> QED
    BY <2>2, <2>3, <2>4
<1> HIDE DEF rank
<1>5. rank \in Injection(S, 1..n)
  <2>1. ASSUME NEW x \in S, NEW y \in S, x # y PROVE rank[x] # rank[y]
    <3>1. <<x, y>> \in R \/ <<y, x>> \in R
      BY <2>1 DEF IsOrderOn
    <3>2. rank[x] < rank[y] \/ rank[y] < rank[x]
      BY <1>4, <3>1
    <3>3. rank[x] \in Nat /\ rank[y] \in Nat
      BY <1>3
    <3> QED
      BY <3>2, <3>3
  <2> QED
    BY <1>3, <2>1 DEF Injection, IsInjective
<1>6. rank \in Surjection(S, 1..n)
  <2>1. IsFiniteSet(1..n) /\ Cardinality(1..n) = n
    BY <1>1, FS_Interval
  <2> QED
    BY <1>5, <2>1, FS_Injection
<1>7. ASSUME NEW k \in 1..n PROVE order[k] \in S /\ rank[order[k]] = k
  <2>1. \E x \in S : rank[x] = k
    BY <1>6 DEF Surjection
  <2>2. \A x \in S : rank[x] = k <=> Cardinality({y \in S : <<y, x>> \in R}) = k - 1
    <3> SUFFICES ASSUME NEW x \in S
                 PROVE  rank[x] = k <=> Cardinality(below(x)) = k - 1
      OBVIOUS
    <3>1. rank[x] = Cardinality(below(x)) + 1
      BY DEF rank
    <3>2. Cardinality(below(x)) \in Nat
      BY <1>2
    <3> QED
      BY <3>1, <3>2, <1>1
  <2>3. order[k] = CHOOSE x \in S : Cardinality({y \in S : <<y, x>> \in R}) = k - 1
    BY DEF InOrder
  <2>4. \E x \in S : Cardinality({y \in S : <<y, x>> \in R}) = k - 1
    BY <2>1, <2>2
  <2>5. order[k] \in S /\ Cardinality({y \in S : <<y, order[k]>> \in R}) = k - 1
    BY <2>3, <2>4, Zenon
  <2> QED
    BY <2>2, <2>5
<1>8. order \in [1..n -> S]
  <2> DEFINE pick(k) == CHOOSE x \in S : Cardinality({y \in S : <<y, x>> \in R}) = k - 1
  <2>1. order = [k \in 1..n |-> pick(k)]
    BY Zenon DEF InOrder
  <2> HIDE DEF pick, order
  <2> QED
    BY <1>7, <2>1
<1> HIDE DEF order
<1>9. order \in Bijection(1..n, S)
  <2>1. ASSUME NEW x \in S PROVE rank[x] \in 1..n /\ order[rank[x]] = x
    <3>1. rank[x] \in 1..n
      BY <1>3
    <3>2. order[rank[x]] \in S /\ rank[order[rank[x]]] = rank[x]
      BY <3>1, <1>7
    <3> QED
      BY <3>1, <3>2, <1>5 DEF Injection, IsInjective
  <2>3. \A i, j \in 1..n : order[i] = order[j] => i = j
    BY <1>7
  <2> QED
    BY <1>8, <2>1, <2>3 DEF Bijection, Injection, Surjection, IsInjective
<1>10. ASSUME NEW i \in 1..n, NEW j \in 1..n, i < j PROVE <<order[i], order[j]>> \in R
  <2>1. order[i] \in S /\ order[j] \in S /\ rank[order[i]] = i /\ rank[order[j]] = j
    BY <1>7
  <2>2. order[i] # order[j] /\ ~ (rank[order[j]] < rank[order[i]])
    BY <1>10, <2>1, <1>1
  <2>3. <<order[j], order[i]>> \notin R
    BY <1>4, <2>1, <2>2
  <2> QED
    BY <2>1, <2>2, <2>3 DEF IsOrderOn
<1> QED
  BY <1>1, <1>9, <1>10 DEF order

(* Numbers in ascending order: every one of them, once. *)
LEMMA AscendingIs ==
    ASSUME NEW S, S \subseteq Int, IsFiniteSet(S)
    PROVE  /\ Cardinality(S) \in Nat
           /\ Ascending(S) \in Bijection(1..Cardinality(S), S)
           /\ \A i \in 1..Cardinality(S) : \A j \in 1..Cardinality(S) :
                i < j => Ascending(S)[i] < Ascending(S)[j]
<1> DEFINE below == {p \in S \X S : p[1] < p[2]}
           n == Cardinality(S)
           order == InOrder(S, below)
<1>1. IsOrderOn(below, S)
  BY DEF IsOrderOn
<1>2. order = Ascending(S)
  BY Zenon DEF Ascending
<1>3. \A p \in below : p[1] < p[2]
  OBVIOUS
<1> HIDE DEF below
<1>4. /\ n \in Nat /\ order \in Bijection(1..n, S)
      /\ \A i \in 1..n : \A j \in 1..n : i < j => <<order[i], order[j]>> \in below
  BY <1>1, OrderPermutes, Zenon
<1> HIDE DEF order, n
<1>5. \A i \in 1..n : \A j \in 1..n : i < j => order[i] < order[j]
  BY <1>3, <1>4
<1> QED
  BY <1>2, <1>4, <1>5 DEF n

-----------------------------------------------------------------------------
(* The calls an order is cut into.                                          *)

(* The only fact about products that the calls need.                         *)
LEMMA TimesIsMonotone ==
    ASSUME NEW a \in Nat, NEW b \in Nat, NEW c \in Nat, a <= b
    PROVE  a * c <= b * c /\ a * c \in Nat
<1>1. b * c = a * c + (b - a) * c /\ (b - a) * c \in Nat /\ a * c \in Nat
  OBVIOUS
<1> QED
  BY <1>1

(* How many calls there are, and where each begins. *)
LEMMA CallsOf ==
    ASSUME NEW n \in Nat, NEW limit \in Nat \ {0}
    PROVE  LET m == (n + limit - 1) \div limit
           IN  /\ m \in Nat
               /\ \A k \in 1..m : (k - 1) * limit \in 0..(n - 1) /\ k * limit = (k - 1) * limit + limit
               /\ \A p \in 1..n : \E k \in 1..m : p \in (k - 1) * limit + 1..k * limit
               /\ \A k \in 1..m : \A l \in 1..m : k < l => k * limit <= (l - 1) * limit
<1> DEFINE m == (n + limit - 1) \div limit
<1>1. m \in Nat /\ m * limit <= n + limit - 1 /\ n <= m * limit
  OBVIOUS
<1> HIDE DEF m
<1>2. ASSUME NEW k \in 1..m
      PROVE  (k - 1) * limit \in 0..(n - 1) /\ k * limit = (k - 1) * limit + limit
  <2>1. k - 1 \in Nat /\ m - 1 \in Nat /\ k - 1 <= m - 1
    BY <1>1
  <2>2. (k - 1) * limit <= (m - 1) * limit /\ (k - 1) * limit \in Nat
    BY <2>1, TimesIsMonotone
  <2>3. (m - 1) * limit = m * limit - limit /\ m * limit \in Nat
    BY <1>1
  <2>4. k * limit = (k - 1) * limit + limit
    BY <2>1
  <2> QED
    BY <1>1, <2>2, <2>3, <2>4
<1>3. ASSUME NEW p \in 1..n
      PROVE  \E k \in 1..m : p \in (k - 1) * limit + 1..k * limit
  <2> DEFINE q == (p - 1) \div limit
  <2>1. q \in Nat /\ q * limit <= p - 1 /\ p - 1 < q * limit + limit
    OBVIOUS
  <2> HIDE DEF q
  <2>2. (q + 1) * limit = q * limit + limit /\ q * limit \in Nat
    BY <2>1
  <2>3. q < m
    <3> SUFFICES ASSUME m <= q PROVE FALSE
      BY <1>1, <2>1
    <3>1. m * limit <= q * limit /\ m * limit \in Nat
      BY <1>1, <2>1, TimesIsMonotone
    <3> QED
      BY <1>1, <2>1, <2>2, <3>1
  <2>4. q + 1 \in 1..m /\ (q + 1) - 1 = q
    BY <1>1, <2>1, <2>3
  <2>5. p \in ((q + 1) - 1) * limit + 1..(q + 1) * limit
    BY <2>1, <2>2, <2>4
  <2> QED
    BY <2>4, <2>5
<1>4. ASSUME NEW k \in 1..m, NEW l \in 1..m, k < l PROVE k * limit <= (l - 1) * limit
  BY <1>1, <1>4, TimesIsMonotone, k \in Nat /\ l - 1 \in Nat /\ k <= l - 1
<1> QED
  BY <1>1, <1>2, <1>3, <1>4 DEF m

(* Each member of a set is at one place of a sequence of sequences, and     *)
(* nothing else is.                                                          *)
IsPartition(w, S) ==
    /\ w \in Seq(Seq(S))
    /\ \A x \in S : \E k \in DOMAIN w : \E at \in DOMAIN w[k] : w[k][at] = x
    /\ \A k \in DOMAIN w : \A l \in DOMAIN w : \A at \in DOMAIN w[k] : \A bt \in DOMAIN w[l] :
         w[k][at] = w[l][bt] => k = l /\ at = bt

(* The calls cut any order of a set into pieces that fit.                   *)
LEMMA WindowsPartition ==
    ASSUME NEW S, NEW n \in Nat, NEW order \in Bijection(1..n, S), NEW limit \in Nat \ {0}
    PROVE  /\ IsPartition(Windows(order, limit), S)
           /\ \A k \in DOMAIN Windows(order, limit) : Len(Windows(order, limit)[k]) \in 1..limit
<1> DEFINE m == (n + limit - 1) \div limit
           w == Windows(order, limit)
           from(k) == (k - 1) * limit
           full(k) == k * limit
           end(k) == Min({full(k), n})
<1>1. order \in Seq(S) /\ Len(order) = n /\ DOMAIN order = 1..n
  BY DEF Bijection, Injection
<1>2. m \in Nat
  BY CallsOf
<1>a. \A k \in 1..m : from(k) \in 0..(n - 1) /\ full(k) = from(k) + limit
  BY CallsOf
<1>b. \A p \in 1..n : \E k \in 1..m : p \in from(k) + 1..full(k)
  BY CallsOf
<1>c. \A k \in 1..m : \A l \in 1..m : k < l => full(k) <= from(l)
  BY CallsOf
<1>3. w = [k \in 1..m |-> SubSeq(order, from(k) + 1, end(k))]
  BY <1>1 DEF Windows, chunkRanges
<1> HIDE DEF m, w, from, full
<1>4. ASSUME NEW k \in 1..m
      PROVE  /\ end(k) \in Nat /\ end(k) <= n /\ end(k) <= full(k) /\ end(k) > from(k)
             /\ from(k) \in Nat /\ full(k) \in Nat /\ full(k) = from(k) + limit
             /\ \A p \in 1..n : p <= full(k) => p <= end(k)
  <2>1. ASSUME NEW a \in Nat, NEW b \in Nat PROVE Min({a, b}) = IF a < b THEN a ELSE b
    BY DEF Min
  <2>2. from(k) \in Nat /\ full(k) = from(k) + limit /\ full(k) \in Nat /\ from(k) < n
    BY <1>a
  <2>3. end(k) = IF full(k) < n THEN full(k) ELSE n
    BY <2>1, <2>2
  <2> HIDE DEF end
  <2> QED
    BY <2>2, <2>3
<1> HIDE DEF end
<1>5. ASSUME NEW k \in 1..m
      PROVE  /\ w[k] \in Seq(S) /\ Len(w[k]) = end(k) - from(k)
             /\ \A at \in 1..Len(w[k]) : w[k][at] = order[from(k) + at]
  <2>1. w[k] = SubSeq(order, from(k) + 1, end(k))
    BY <1>3
  <2>2. /\ from(k) + 1 \in Int /\ from(k) \in Nat /\ end(k) \in Int /\ end(k) \in Nat
    BY <1>4
  <2>0. \A i \in from(k) + 1..end(k) : order[i] \in S
    BY <1>1, <2>2, <1>4
  <2>3. /\ w[k] \in Seq(S)
        /\ Len(w[k]) = IF from(k) + 1 <= end(k) THEN end(k) - (from(k) + 1) + 1 ELSE 0
        /\ \A at \in 1..end(k) - (from(k) + 1) + 1 : w[k][at] = order[(from(k) + 1) + at - 1]
    BY <2>0, <2>1, <2>2, SubSeqProperties
  <2>4. Len(w[k]) = end(k) - from(k) /\ end(k) - (from(k) + 1) + 1 = Len(w[k])
    BY <1>4, <2>2, <2>3
  <2>5. ASSUME NEW at \in 1..Len(w[k]) PROVE (from(k) + 1) + at - 1 = from(k) + at
    BY <2>2, <2>4, <2>5
  <2> QED
    BY <2>3, <2>4, <2>5
<1>6. DOMAIN w = 1..m /\ w \in Seq(Seq(S))
  BY <1>2, <1>3, <1>5
<1>7. ASSUME NEW k \in 1..m PROVE Len(w[k]) \in 1..limit
  BY <1>4, <1>5
<1>8. ASSUME NEW x \in S
      PROVE  \E k \in 1..m : \E at \in DOMAIN w[k] : w[k][at] = x
  <2>1. PICK p \in 1..n : order[p] = x
    BY DEF Bijection, Surjection
  <2>2. PICK k \in 1..m : p \in from(k) + 1..full(k)
    BY <1>b
  <2>3. p - from(k) \in 1..Len(w[k]) /\ from(k) + (p - from(k)) = p
    BY <1>4, <1>5, <2>2
  <2>4. p - from(k) \in DOMAIN w[k] /\ w[k][p - from(k)] = x
    BY <1>5, <2>1, <2>3
  <2> QED
    BY <2>4
<1>9. ASSUME NEW k \in 1..m, NEW at \in DOMAIN w[k]
      PROVE  /\ at \in Nat /\ from(k) + at \in 1..n /\ w[k][at] = order[from(k) + at]
             /\ from(k) + at > from(k) /\ from(k) + at <= full(k)
  <2>1. at \in 1..Len(w[k]) /\ w[k][at] = order[from(k) + at]
    BY <1>5
  <2>2. Len(w[k]) = end(k) - from(k)
    BY <1>5
  <2> QED
    BY <1>4, <2>1, <2>2
<1>10. ASSUME NEW k \in 1..m, NEW l \in 1..m, NEW at \in DOMAIN w[k], NEW bt \in DOMAIN w[l],
              w[k][at] = w[l][bt]
       PROVE  k = l /\ at = bt
  <2>1. from(k) + at = from(l) + bt
    BY <1>9, <1>10 DEF Bijection, Injection, IsInjective
  <2>2. /\ k < l => full(k) <= from(l)
        /\ l < k => full(l) <= from(k)
    BY <1>c
  <2>3. k \in Int /\ l \in Int /\ from(k) \in Nat /\ from(l) \in Nat /\ full(k) \in Nat
        /\ full(l) \in Nat
    BY <1>2, <1>4
  <2>4. k = l
    BY <1>9, <2>1, <2>2, <2>3
  <2> QED
    BY <1>9, <2>1, <2>3, <2>4
<1> QED
  BY <1>6, <1>7, <1>8, <1>10 DEF w, IsPartition

-----------------------------------------------------------------------------
(* Classify: sorted, cut into calls, asked, and put back.                   *)

(* Sorting by length loses no text and repeats none.                         *)
LEMMA LengthsOrder ==
    ASSUME NEW texts, NEW n \in Nat, DOMAIN texts = 1..n, \A i \in 1..n : texts[i].length \in Nat
    PROVE  lengthOrder(texts) \in Bijection(1..n, 1..n)
<1>1. IsFiniteSet(1..n) /\ Cardinality(1..n) = n
  BY FS_Interval
<1>2. IsOrderOn(shorter(texts), 1..n)
  BY DEF IsOrderOn, shorter
<1>3. lengthOrder(texts) = InOrder(1..n, shorter(texts))
  BY DEF lengthOrder
<1> QED
  BY <1>1, <1>2, <1>3, OrderPermutes

(* What stands at a place of a call goes back to where it was taken from.   *)
LEMMA PlacesBack ==
    ASSUME NEW texts, NEW windows, IsPartition(windows, DOMAIN texts), NEW replies,
           NEW k \in DOMAIN windows, NEW at \in DOMAIN windows[k]
    PROVE  /\ windows[k][at] \in DOMAIN texts
           /\ Place(texts, windows, replies)[windows[k][at]] = ProtoToScore(replies[k][at])
<1> DEFINE i == windows[k][at]
           kk == CHOOSE l \in DOMAIN windows : i \in Range(windows[l])
           aa == CHOOSE bt \in DOMAIN windows[kk] : windows[kk][bt] = i
<1>1. windows \in Seq(Seq(DOMAIN texts)) /\ windows[k] \in Seq(DOMAIN texts)
  BY DEF IsPartition
<1>2. i \in DOMAIN texts
  BY <1>1
<1>3. kk \in DOMAIN windows /\ i \in Range(windows[kk])
  <2>1. \E l \in DOMAIN windows : i \in Range(windows[l])
    BY DEF Range
  <2> QED
    BY <2>1, Zenon
<1> HIDE DEF kk
<1>4. aa \in DOMAIN windows[kk] /\ windows[kk][aa] = i
  <2>1. \E bt \in DOMAIN windows[kk] : windows[kk][bt] = i
    BY <1>3 DEF Range
  <2> QED
    BY <2>1, Zenon
<1> HIDE DEF aa
<1>5. kk = k /\ aa = at
  BY <1>3, <1>4 DEF IsPartition
<1>6. Place(texts, windows, replies)[i] = ProtoToScore(replies[kk][aa])
  BY <1>2, Zenon DEF Place, kk, aa
<1> QED
  BY <1>2, <1>5, <1>6

(***************************************************************************)
(* Whatever the texts and however many: every call of Classify is one the  *)
(* worker takes, and every text gets its own score back (client.go,        *)
(* batch.go:24-52).                                                         *)
(***************************************************************************)
THEOREM ScoresComeBack ==
    ASSUME NEW Text, \A t \in Text : t.length \in Nat,
           NEW worker, NEW score, NEW texts \in Seq(Text),
           \A batch \in Seq(Text) : Len(batch) \in 1..maxBatch =>
             /\ Scores(worker, batch) = [at \in 1..Len(batch) |-> score[batch[at]]]
             /\ Scores(worker, batch) # FAILED
    PROVE  Classify(texts, worker) = [i \in DOMAIN texts |-> ProtoToScore(score[texts[i]])]
<1> DEFINE n == Len(texts)
           windows == Windows(lengthOrder(texts), maxBatch)
           replies == [k \in DOMAIN windows |-> Scores(worker, AsksFor(texts, windows[k]))]
<1>1. n \in Nat /\ DOMAIN texts = 1..n /\ \A i \in 1..n : texts[i] \in Text /\ texts[i].length \in Nat
  OBVIOUS
<1>2. maxBatch \in Nat \ {0}
  BY BatchAssumption
<1>3. /\ IsPartition(windows, 1..n)
      /\ \A k \in DOMAIN windows : Len(windows[k]) \in 1..maxBatch
  BY <1>1, <1>2, LengthsOrder, WindowsPartition
<1> HIDE DEF n, windows
<1>4. ASSUME NEW k \in DOMAIN windows
      PROVE  /\ replies[k] # FAILED /\ Len(replies[k]) = Len(windows[k])
             /\ \A at \in DOMAIN windows[k] : replies[k][at] = score[texts[windows[k][at]]]
  <2> DEFINE batch == AsksFor(texts, windows[k])
  <2>1. windows[k] \in Seq(1..n) /\ Len(windows[k]) \in Nat
    BY <1>3 DEF IsPartition
  <2>2. batch = [at \in 1..Len(windows[k]) |-> texts[windows[k][at]]]
    BY <2>1 DEF AsksFor
  <2>3. batch \in Seq(Text) /\ Len(batch) = Len(windows[k])
    BY <1>1, <2>1, <2>2
  <2>4. replies[k] = Scores(worker, batch)
    OBVIOUS
  <2> HIDE DEF batch, replies
  <2>5. /\ replies[k] = [at \in 1..Len(windows[k]) |-> score[batch[at]]] /\ replies[k] # FAILED
    BY <1>3, <2>3, <2>4
  <2> QED
    BY <2>1, <2>2, <2>5
<1> HIDE DEF replies
<1>5. Classify(texts, worker) = Place(texts, windows, replies)
  BY <1>4 DEF Classify, InWindows, Gathered, windows, replies
<1>6. ASSUME NEW i \in 1..n PROVE Place(texts, windows, replies)[i] = ProtoToScore(score[texts[i]])
  <2>1. PICK k \in DOMAIN windows : \E at \in DOMAIN windows[k] : windows[k][at] = i
    BY <1>3 DEF IsPartition
  <2>2. PICK at \in DOMAIN windows[k] : windows[k][at] = i
    BY <2>1
  <2>3. Place(texts, windows, replies)[i] = ProtoToScore(replies[k][at])
    BY <1>1, <1>3, <2>2, PlacesBack
  <2> QED
    BY <1>4, <2>2, <2>3
<1>7. Place(texts, windows, replies) = [i \in 1..n |-> Place(texts, windows, replies)[i]]
  BY <1>1 DEF Place
<1> QED
  BY <1>1, <1>5, <1>6, <1>7

-----------------------------------------------------------------------------
(* FlattenSeq is defined by a recursion the provers cannot unfold further   *)
(* than one step, so what holds of all of it is proved by counting up.      *)

(* The concatenations g[1], g[2], ... of the first, the first two ... of ss. *)
IsJoining(g, ss) ==
    /\ g[1] = ss[1]
    /\ \A i \in 2..Len(ss) : g[i] = g[i - 1] \o ss[i]

(* There is a function of the joints of any sequences, as FlattenSeq asks.   *)
LEMMA JoiningExists ==
    ASSUME NEW S, NEW ss \in Seq(Seq(S))
    PROVE  \A n \in 1..Len(ss) :
             \E g \in [1..n -> Seq(S)] :
               g[1] = ss[1] /\ \A i \in 2..n : g[i] = g[i - 1] \o ss[i]
<1> DEFINE Joins(n) == \E g \in [1..n -> Seq(S)] :
                         g[1] = ss[1] /\ \A i \in 2..n : g[i] = g[i - 1] \o ss[i]
           T == {n \in Nat : n \in 1..Len(ss) => Joins(n)}
<1>1. 0 \in T
  OBVIOUS
<1>2. ASSUME NEW n \in Nat, n \in T PROVE n + 1 \in T
  <2> SUFFICES ASSUME n + 1 \in 1..Len(ss) PROVE Joins(n + 1)
    <3> HIDE DEF Joins
    <3> QED
      OBVIOUS
  <2>1. Len(ss) \in Nat /\ \A i \in 1..Len(ss) : ss[i] \in Seq(S)
    OBVIOUS
  <2>2. CASE n = 0
    <3> DEFINE g == [i \in 1..n + 1 |-> ss[1]]
    <3>1. ss[1] \in Seq(S)
      BY <2>1, <2>2
    <3>2. g \in [1..n + 1 -> Seq(S)] /\ g[1] = ss[1] /\ 2..n + 1 = {}
      BY <2>2, <3>1
    <3> QED
      BY <3>2
  <2>3. CASE n # 0
    <3>1. n \in 1..Len(ss)
      BY <2>1, <2>3
    <3>2. PICK g \in [1..n -> Seq(S)] :
             g[1] = ss[1] /\ \A i \in 2..n : g[i] = g[i - 1] \o ss[i]
      BY <1>2, <3>1
    <3> DEFINE more == g[n] \o ss[n + 1]
               h == [i \in 1..n + 1 |-> IF i = n + 1 THEN more ELSE g[i]]
    <3>3. g[n] \in Seq(S) /\ ss[n + 1] \in Seq(S)
      BY <2>1, <3>1, <3>2
    <3>4. more \in Seq(S)
      BY <3>3
    <3>5. n + 1 \in 1..n + 1 /\ 1 # n + 1 /\ 1 \in 1..n + 1
      BY <2>3
    <3>6. ASSUME NEW i \in 1..n PROVE i # n + 1 /\ i \in 1..n + 1
      BY <3>6
    <3>0. more = g[n] \o ss[n + 1]
      OBVIOUS
    <3> HIDE DEF more
    <3>7. /\ h[n + 1] = more
          /\ \A i \in 1..n : h[i] = g[i]
      BY <3>5, <3>6
    <3>8. h \in [1..n + 1 -> Seq(S)]
      BY <3>2, <3>4
    <3> HIDE DEF h
    <3>9. ASSUME NEW i \in 2..n + 1 PROVE h[i] = h[i - 1] \o ss[i]
      <4>1. CASE i = n + 1
        <5>1. i - 1 = n /\ n \in 1..n
          BY <2>3, <4>1
        <5>2. h[i - 1] = g[n]
          BY <5>1, <3>7
        <5> QED
          BY <4>1, <5>2, <3>7, <3>0
      <4>2. CASE i # n + 1
        <5>1. i \in 2..n /\ i \in 1..n /\ i - 1 \in 1..n
          BY <4>2
        <5>2. h[i] = g[i] /\ h[i - 1] = g[i - 1]
          BY <5>1, <3>7
        <5> QED
          BY <5>1, <5>2, <3>2
      <4> QED
        BY <4>1, <4>2
    <3>10. h[1] = ss[1]
      <4>1. 1 \in 1..n
        BY <2>3
      <4> QED
        BY <4>1, <3>2, <3>7
    <3> QED
      BY <3>8, <3>9, <3>10
  <2> QED
    BY <2>2, <2>3
<1> HIDE DEF T
<1>3. Nat \subseteq T
  BY <1>1, <1>2, CountingUp
<1>4. ASSUME NEW n \in 1..Len(ss) PROVE Joins(n)
  <2>1. n \in Nat /\ n \in T
    BY <1>3
  <2> QED
    BY <2>1 DEF T
<1> QED
  BY <1>4

(* FlattenSeq is the last of the joints.                                     *)
LEMMA FlattenJoins ==
    ASSUME NEW S, NEW ss \in Seq(Seq(S)), Len(ss) # 0
    PROVE  \E g : IsJoining(g, ss) /\ FlattenSeq(ss) = g[Len(ss)]
<1> DEFINE n == Len(ss)
           step(f) == [i \in 1..n |-> IF i = 1 THEN ss[i] ELSE f[i - 1] \o ss[i]]
           g == CHOOSE f : f = step(f)
<1>1. n \in Nat /\ n \in 1..n
  OBVIOUS
<1>2. \E f : f = step(f)
  <2>1. PICK f \in [1..n -> Seq(S)] :
           f[1] = ss[1] /\ \A i \in 2..n : f[i] = f[i - 1] \o ss[i]
    BY <1>1, JoiningExists
  <2>2. ASSUME NEW i \in 1..n
        PROVE  f[i] = IF i = 1 THEN ss[i] ELSE f[i - 1] \o ss[i]
    <3>1. CASE i = 1
      BY <2>1, <3>1
    <3>2. CASE i # 1
      <4>1. i \in 2..n
        BY <3>2
      <4> QED
        BY <2>1, <3>2, <4>1
    <3> QED
      BY <3>1, <3>2
  <2>3. f = step(f)
    BY <2>1, <2>2
  <2> QED
    BY <2>3
<1>3. g = step(g)
  BY <1>2, Zenon
<1>4. FlattenSeq(ss) = g[n]
  BY Zenon DEF FlattenSeq
<1> HIDE DEF g
<1>5. IsJoining(g, ss)
  <2>1. \A i \in 1..n : g[i] = IF i = 1 THEN ss[i] ELSE g[i - 1] \o ss[i]
    BY <1>3
  <2>2. 1 \in 1..n /\ \A i \in 2..n : i \in 1..n /\ i # 1
    BY <1>1
  <2> HIDE DEF step
  <2> QED
    BY <2>1, <2>2 DEF IsJoining
<1> QED
  BY <1>4, <1>5

-----------------------------------------------------------------------------
(* Pieces that partition a set are joined to an order of it.                *)

(* Where the parts of a concatenation end up.                                *)
LEMMA ConcatAt ==
    ASSUME NEW S, NEW s \in Seq(S), NEW t \in Seq(S)
    PROVE  /\ s \o t \in Seq(S)
           /\ Len(s) \in Nat /\ Len(t) \in Nat /\ DOMAIN (s \o t) = 1..Len(s) + Len(t)
           /\ DOMAIN s = 1..Len(s) /\ DOMAIN t = 1..Len(t)
           /\ \A q \in 1..Len(s) : (s \o t)[q] = s[q]
           /\ \A q \in 1..Len(t) : (s \o t)[Len(s) + q] = t[q]
           /\ \A q \in 1..Len(s) + Len(t) :
                ~ (q <= Len(s)) => q - Len(s) \in 1..Len(t) /\ (s \o t)[q] = t[q - Len(s)]
  OBVIOUS

(* A concatenation has what its parts have, and once if they share nothing. *)
LEMMA ConcatHas ==
    ASSUME NEW S, NEW s \in Seq(S), NEW t \in Seq(S)
    PROVE  /\ s \o t \in Seq(S)
           /\ Range(s \o t) = Range(s) \cup Range(t)
           /\ IsInjective(s) /\ IsInjective(t) /\ Range(s) \cap Range(t) = {} =>
                IsInjective(s \o t)
<1> DEFINE u == s \o t
           a == Len(s)
           b == Len(t)
<1>1. /\ u \in Seq(S) /\ a \in Nat /\ b \in Nat
      /\ DOMAIN u = 1..a + b /\ DOMAIN s = 1..a /\ DOMAIN t = 1..b
      /\ \A q \in 1..a : u[q] = s[q]
      /\ \A q \in 1..b : u[a + q] = t[q]
      /\ \A q \in 1..a + b : ~ (q <= a) => q - a \in 1..b /\ u[q] = t[q - a]
  BY ConcatAt
<1> HIDE DEF u, a, b
<1>2. /\ \A q \in 1..a : q \in 1..a + b
      /\ \A q \in 1..b : a + q \in 1..a + b
      /\ \A q \in 1..a + b : q <= a => q \in 1..a
  BY <1>1
<1>3. Range(u) = Range(s) \cup Range(t)
  <2>1. Range(u) = {u[q] : q \in 1..a + b} /\ Range(s) = {s[q] : q \in 1..a}
        /\ Range(t) = {t[q] : q \in 1..b}
    BY <1>1 DEF Range
  <2>2. ASSUME NEW x \in Range(u) PROVE x \in Range(s) \cup Range(t)
    <3>1. PICK q \in 1..a + b : x = u[q]
      BY <2>1, <2>2
    <3>2. CASE q <= a
      BY <1>1, <1>2, <2>1, <3>1, <3>2
    <3>3. CASE ~ (q <= a)
      BY <1>1, <2>1, <3>1, <3>3
    <3> QED
      BY <3>2, <3>3
  <2>3. ASSUME NEW x \in Range(s) PROVE x \in Range(u)
    BY <1>1, <1>2, <2>1, <2>3
  <2>4. ASSUME NEW x \in Range(t) PROVE x \in Range(u)
    BY <1>1, <1>2, <2>1, <2>4
  <2> QED
    BY <2>2, <2>3, <2>4
<1>4. ASSUME IsInjective(s), IsInjective(t), Range(s) \cap Range(t) = {} PROVE IsInjective(u)
  <2>1. ASSUME NEW q \in 1..a + b, NEW r \in 1..a + b, u[q] = u[r] PROVE q = r
    <3>1. CASE q <= a /\ r <= a
      <4>1. q \in 1..a /\ r \in 1..a
        BY <1>2, <3>1
      <4>2. s[q] = s[r]
        BY <1>1, <2>1, <4>1
      <4> QED
        BY <1>1, <1>4, <4>1, <4>2 DEF IsInjective
    <3>2. CASE ~ (q <= a) /\ ~ (r <= a)
      <4>1. /\ q - a \in 1..b /\ u[q] = t[q - a]
            /\ r - a \in 1..b /\ u[r] = t[r - a]
        BY <1>1, <3>2
      <4>2. q - a = r - a
        BY <1>1, <1>4, <2>1, <4>1 DEF IsInjective
      <4> QED
        BY <1>1, <4>2
    <3>3. ASSUME NEW p \in 1..a + b, NEW o \in 1..a + b, p <= a, ~ (o <= a), u[p] = u[o]
          PROVE  FALSE
      <4>1. p \in 1..a /\ u[p] = s[p] /\ o - a \in 1..b /\ u[o] = t[o - a]
        BY <1>1, <1>2, <3>3
      <4>2. s[p] \in Range(s) /\ t[o - a] \in Range(t)
        BY <1>1, <4>1 DEF Range
      <4> QED
        BY <1>4, <3>3, <4>1, <4>2
    <3> QED
      BY <2>1, <3>1, <3>2, <3>3
  <2> QED
    BY <1>1, <2>1 DEF IsInjective
<1> QED
  BY <1>1, <1>3, <1>4 DEF u

(* What has been concatenated is what was there, each once. *)
LEMMA FlattenPartition ==
    ASSUME NEW S, NEW ss, IsPartition(ss, S)
    PROVE  \E n \in Nat : FlattenSeq(ss) \in Bijection(1..n, S)
<1>1. /\ ss \in Seq(Seq(S)) /\ Len(ss) \in Nat /\ DOMAIN ss = 1..Len(ss)
      /\ \A k \in 1..Len(ss) : ss[k] \in Seq(S)
  BY DEF IsPartition
<1>2. \A x \in S : \E k \in 1..Len(ss) : x \in Range(ss[k])
  BY <1>1 DEF IsPartition, Range
<1>3. ASSUME NEW k \in 1..Len(ss) PROVE IsInjective(ss[k])
  BY <1>1 DEF IsPartition, IsInjective
<1>4. ASSUME NEW k \in 1..Len(ss), NEW l \in 1..Len(ss), k # l
      PROVE  Range(ss[k]) \cap Range(ss[l]) = {}
  <2> SUFFICES ASSUME NEW at \in DOMAIN ss[k], NEW bt \in DOMAIN ss[l], ss[k][at] = ss[l][bt]
               PROVE  FALSE
    BY DEF Range
  <2> QED
    BY <1>1, <1>4 DEF IsPartition
<1>5. CASE Len(ss) = 0
  <2>1. S = {} /\ ss = << >>
    BY <1>1, <1>2, <1>5
  <2>2. FlattenSeq(ss) = << >>
    BY <1>5, <2>1 DEF FlattenSeq
  <2>3. << >> \in Bijection(1..0, S)
    BY <2>1 DEF Bijection, Injection, Surjection, IsInjective
  <2> QED
    BY <2>2, <2>3
<1>6. CASE Len(ss) # 0
  <2>1. PICK g : IsJoining(g, ss) /\ FlattenSeq(ss) = g[Len(ss)]
    BY <1>1, <1>6, FlattenJoins
  <2> DEFINE Before(i) == UNION {Range(ss[k]) : k \in 1..i}
             Joined(i) == g[i] \in Seq(S) /\ Range(g[i]) = Before(i) /\ IsInjective(g[i])
             T == {i \in Nat : i \in 1..Len(ss) => Joined(i)}
  <2>2. ASSUME NEW i \in Nat, i \in 1..Len(ss) => Joined(i), i + 1 \in 1..Len(ss)
        PROVE  Joined(i + 1)
    <3>1. CASE i = 0
      <4>1. 1 \in 1..Len(ss) /\ g[1] = ss[1] /\ 1..1 = {1}
        BY <1>1, <2>1, <2>2, <3>1 DEF IsJoining
      <4>2. Before(1) = Range(ss[1])
        BY <4>1
      <4> QED
        BY <1>1, <1>3, <3>1, <4>1, <4>2
    <3>2. CASE i # 0
      <4>1. i \in 1..Len(ss) /\ i + 1 \in 2..Len(ss) /\ (i + 1) - 1 = i
        BY <1>1, <2>2, <3>2
      <4>2. Joined(i)
        BY <2>2, <4>1
      <4>3. g[i + 1] = g[i] \o ss[i + 1] /\ ss[i + 1] \in Seq(S)
        <5>1. g[i + 1] = g[(i + 1) - 1] \o ss[i + 1]
          BY <2>1, <4>1 DEF IsJoining
        <5> QED
          BY <1>1, <2>2, <4>1, <5>1
      <4>4. Range(g[i]) \cap Range(ss[i + 1]) = {}
        <5>1. \A k \in 1..i : k \in 1..Len(ss) /\ k # i + 1
          BY <4>1
        <5>2. \A k \in 1..i : Range(ss[k]) \cap Range(ss[i + 1]) = {}
          BY <1>4, <2>2, <5>1
        <5> QED
          BY <4>2, <5>2
      <4>5. Before(i + 1) = Before(i) \cup Range(ss[i + 1])
        <5>1. 1..i + 1 = (1..i) \cup {i + 1}
          BY <4>1
        <5> QED
          BY <5>1
      <4>6. IsInjective(ss[i + 1])
        BY <1>3, <2>2
      <4>7. g[i] \in Seq(S) /\ Range(g[i]) = Before(i) /\ IsInjective(g[i])
        BY <4>2
      <4> HIDE DEF Before
      <4>8. /\ g[i] \o ss[i + 1] \in Seq(S)
            /\ Range(g[i] \o ss[i + 1]) = Range(g[i]) \cup Range(ss[i + 1])
            /\ IsInjective(g[i] \o ss[i + 1])
        BY <4>3, <4>4, <4>6, <4>7, ConcatHas
      <4> QED
        BY <4>3, <4>5, <4>7, <4>8
    <3> QED
      BY <3>1, <3>2
  <2> HIDE DEF Joined
  <2>3. 0 \in T
    OBVIOUS
  <2>4. ASSUME NEW i \in Nat, i \in T PROVE i + 1 \in T
    BY <2>2, <2>4
  <2> HIDE DEF T
  <2>5. Len(ss) \in T
    BY <1>1, <2>3, <2>4, CountingUp
  <2>6. Joined(Len(ss))
    BY <1>1, <1>6, <2>5 DEF T
  <2> DEFINE f == g[Len(ss)]
  <2>7. f \in Seq(S) /\ IsInjective(f) /\ Len(f) \in Nat /\ DOMAIN f = 1..Len(f)
    BY <2>6 DEF Joined
  <2>8. \A x \in S : x \in Range(f)
    BY <1>2, <2>6 DEF Joined
  <2> HIDE DEF f
  <2>9. f \in [1..Len(f) -> S]
    BY <2>7
  <2>10. f \in Bijection(1..Len(f), S)
    BY <2>7, <2>8, <2>9 DEF Bijection, Injection, Surjection, Range
  <2> QED
    BY <2>1, <2>7, <2>10 DEF f
<1> QED
  BY <1>1, <1>5, <1>6

-----------------------------------------------------------------------------
(***************************************************************************)
(* groupByItem cuts refs into runs: every ref is in one run, and a run is  *)
(* about one item.                                                          *)
(***************************************************************************)
LEMMA GroupsPartition ==
    ASSUME NEW S, NEW refs \in Seq(S), IsInjective(refs)
    PROVE  /\ IsPartition(groupByItem(refs), Range(refs))
           /\ \A g \in DOMAIN groupByItem(refs) :
                /\ Len(groupByItem(refs)[g]) \in Nat \ {0}
                /\ \A a \in DOMAIN groupByItem(refs)[g] :
                     groupByItem(refs)[g][a].item = groupByItem(refs)[g][1].item
<1> DEFINE n == Len(refs)
           starts == {i \in DOMAIN refs : i = 1 \/ refs[i].item # refs[i - 1].item}
           c == Cardinality(starts)
           begins == Ascending(starts)
           end(g) == IF g = Len(begins) THEN n ELSE begins[g + 1] - 1
           G == groupByItem(refs)
<1>1. /\ n \in Nat /\ DOMAIN refs = 1..n /\ refs \in [1..n -> S]
      /\ starts \subseteq 1..n /\ starts \subseteq Nat
  OBVIOUS
<1>2. ASSUME NEW q \in 1..n, q \notin starts PROVE q # 1 /\ refs[q].item = refs[q - 1].item
  BY <1>2
<1>3. 1..n # {} => 1 \in starts
  BY <1>1
<1>4. G = [g \in DOMAIN begins |-> SubSeq(refs, begins[g], end(g))]
  BY DEF groupByItem
<1>5. IsFiniteSet(starts)
  <2> HIDE DEF starts
  <2>1. starts \in SUBSET (1..n) /\ IsFiniteSet(1..n)
    BY <1>1, FS_Interval
  <2> QED
    BY <2>1, FS_Subset
<1> HIDE DEF starts
<1>6. /\ c \in Nat /\ begins \in Bijection(1..c, starts)
      /\ \A g \in 1..c : \A h \in 1..c : g < h => begins[g] < begins[h]
  <2>1. starts \subseteq Int
    BY <1>1
  <2> QED
    BY <1>5, <2>1, AscendingIs, Zenon
<1> HIDE DEF begins, c
<1>7. /\ DOMAIN begins = 1..c /\ Len(begins) = c
      /\ \A g \in 1..c : begins[g] \in starts /\ begins[g] \in 1..n
      /\ \A i \in starts : \E g \in 1..c : begins[g] = i
  <2>1. begins \in [1..c -> starts] /\ \A i \in starts : \E g \in 1..c : begins[g] = i
    BY <1>6 DEF Bijection, Injection, Surjection
  <2>2. DOMAIN begins = 1..c /\ Len(begins) = c
    BY <1>6, <2>1
  <2>3. \A g \in 1..c : begins[g] \in starts
    BY <2>1
  <2> QED
    BY <1>1, <2>1, <2>2, <2>3
<1>8. \A g \in 1..c : \A h \in 1..c : g < h => begins[g] < begins[h]
  BY <1>6
<1> DEFINE In(q, g) == begins[g] <= q /\ q <= end(g)
<1>9. ASSUME NEW g \in 1..c
      PROVE  /\ end(g) \in Nat /\ begins[g] <= end(g) /\ end(g) <= n
             /\ \A h \in 1..c : g < h => end(g) < begins[h]
             /\ begins[g] \in Nat
  <2>1. CASE g = c
    BY <1>1, <1>6, <1>7, <2>1
  <2>2. CASE g # c
    <3>1. g + 1 \in 1..c /\ g < g + 1
      BY <1>6, <2>2
    <3>2. end(g) = begins[g + 1] - 1 /\ begins[g + 1] \in 1..n /\ begins[g] \in 1..n
          /\ begins[g] < begins[g + 1]
      BY <1>7, <1>8, <2>2, <3>1
    <3>3. ASSUME NEW h \in 1..c, g < h PROVE begins[g + 1] <= begins[h] /\ begins[h] \in 1..n
      <4>1. CASE h = g + 1
        BY <3>2, <4>1
      <4>2. CASE h # g + 1
        BY <1>7, <1>8, <3>1, <3>2, <3>3, <4>2
      <4> QED
        BY <4>1, <4>2
    <3> HIDE DEF end
    <3> QED
      BY <1>1, <3>2, <3>3
  <2> QED
    BY <2>1, <2>2
<1>10. ASSUME NEW q \in 1..n PROVE \E g \in 1..c : In(q, g)
  <2>1. PICK f \in 1..c : begins[f] = 1
    BY <1>3, <1>7
  <2> DEFINE After == {h \in 1..c : q < begins[h]}
  <2>2. CASE After = {}
    <3>a. c \in 1..c
      BY <1>6
    <3>b. ~ (q < begins[c])
      BY <2>2, <3>a
    <3>1. c \in 1..c /\ ~ (q < begins[c]) /\ begins[c] \in 1..n
      BY <1>7, <3>a, <3>b
    <3>2. end(c) = n
      BY <1>7
    <3> QED
      BY <1>1, <3>1, <3>2
  <2>3. CASE After # {}
    <3>1. PICK h \in After : \A j \in After : h <= j
      <4>1. After \subseteq Nat
        BY <1>6
      <4> HIDE DEF After
      <4> QED
        BY <2>3, <4>1, LeastNumber
    <3>2. h # 1
      <4> SUFFICES ASSUME h = 1 PROVE FALSE
        OBVIOUS
      <4>1. q < begins[1] /\ begins[1] \in 1..n
        BY <1>7, <3>1
      <4>2. CASE f = 1
        BY <2>1, <4>1, <4>2
      <4>3. CASE f # 1
        BY <1>6, <1>7, <1>8, <2>1, <3>1, <4>1, <4>3
      <4> QED
        BY <4>2, <4>3
    <3>3. h - 1 \in 1..c /\ h - 1 # c /\ (h - 1) + 1 = h /\ h \in 1..c /\ ~ (h <= h - 1)
      BY <1>6, <3>1, <3>2
    <3>4. ~ (q < begins[h - 1]) /\ begins[h - 1] \in 1..n /\ q < begins[h] /\ begins[h] \in 1..n
      BY <1>7, <3>1, <3>3
    <3>5. end(h - 1) = begins[h] - 1
      BY <1>7, <3>3
    <3> QED
      BY <1>1, <3>3, <3>4, <3>5
  <2> QED
    BY <2>2, <2>3
<1>11. ASSUME NEW q \in 1..n, NEW g \in 1..c, NEW h \in 1..c, In(q, g), In(q, h) PROVE g = h
  <2>1. ~ (g < h) /\ ~ (h < g)
    BY <1>9, <1>11
  <2> QED
    BY <1>6, <2>1
<1>12. ASSUME NEW g \in 1..c
       PROVE  /\ G[g] \in Seq(S) /\ Len(G[g]) = end(g) - begins[g] + 1
              /\ Len(G[g]) \in Nat \ {0} /\ DOMAIN G[g] = 1..Len(G[g])
              /\ \A a \in 1..Len(G[g]) :
                   /\ begins[g] + a - 1 \in 1..n /\ In(begins[g] + a - 1, g)
                   /\ G[g][a] = refs[begins[g] + a - 1]
  <2>1. G[g] = SubSeq(refs, begins[g], end(g))
    BY <1>4, <1>7
  <2>2. begins[g] \in 1..n /\ end(g) \in Nat /\ begins[g] <= end(g) /\ end(g) <= n
    BY <1>7, <1>9
  <2> HIDE DEF end, G
  <2>3. begins[g] \in Int /\ end(g) \in Int /\ \A i \in begins[g]..end(g) : refs[i] \in S
    BY <1>1, <2>2
  <2>4. /\ G[g] \in Seq(S)
        /\ Len(G[g]) = IF begins[g] <= end(g) THEN end(g) - begins[g] + 1 ELSE 0
        /\ \A a \in 1..end(g) - begins[g] + 1 : G[g][a] = refs[begins[g] + a - 1]
    BY <2>1, <2>3, SubSeqProperties
  <2>5. Len(G[g]) = end(g) - begins[g] + 1 /\ Len(G[g]) \in Nat \ {0}
    BY <2>2, <2>4
  <2> QED
    BY <1>1, <2>2, <2>4, <2>5
<1>13. DOMAIN G = 1..c /\ G \in Seq(Seq(Range(refs)))
  <2>1. ASSUME NEW g \in 1..c PROVE G[g] \in Seq(Range(refs))
    <3>1. \A a \in 1..Len(G[g]) : G[g][a] \in Range(refs)
      BY <1>1, <1>12 DEF Range
    <3>2. G[g] \in Seq(S) /\ Len(G[g]) \in Nat
      BY <1>12
    <3> HIDE DEF G
    <3>3. G[g] \in [1..Len(G[g]) -> Range(refs)]
      BY <3>1, <3>2
    <3> QED
      BY <3>2, <3>3
  <2>2. DOMAIN G = 1..c /\ G = [g \in 1..c |-> G[g]]
    BY <1>4, <1>7
  <2> HIDE DEF G
  <2>3. G \in [1..c -> Seq(Range(refs))]
    BY <2>1, <2>2
  <2> QED
    BY <1>6, <2>2, <2>3
<1>14. ASSUME NEW x \in Range(refs)
       PROVE  \E g \in DOMAIN G : \E a \in DOMAIN G[g] : G[g][a] = x
  <2>1. PICK q \in 1..n : refs[q] = x
    BY <1>1 DEF Range
  <2>2. PICK g \in 1..c : In(q, g)
    BY <1>10
  <2> DEFINE a == q - begins[g] + 1
  <2>3. a \in 1..Len(G[g]) /\ begins[g] + a - 1 = q
    <3>1. Len(G[g]) = end(g) - begins[g] + 1 /\ end(g) \in Nat /\ begins[g] \in Nat
      BY <1>9, <1>12
    <3> HIDE DEF G, end
    <3> QED
      BY <2>2, <3>1
  <2> HIDE DEF a
  <2>4. G[g][a] = x /\ a \in DOMAIN G[g]
    BY <1>12, <2>1, <2>3
  <2> QED
    BY <1>13, <2>4
<1> HIDE DEF end, G
<1>15. ASSUME NEW g \in DOMAIN G, NEW h \in DOMAIN G, NEW a \in DOMAIN G[g], NEW b \in DOMAIN G[h],
              G[g][a] = G[h][b]
       PROVE  g = h /\ a = b
  <2>1. /\ g \in 1..c /\ h \in 1..c /\ a \in 1..Len(G[g]) /\ b \in 1..Len(G[h])
        /\ a \in Nat /\ b \in Nat
    BY <1>12, <1>13
  <2> DEFINE q == begins[g] + a - 1
             r == begins[h] + b - 1
  <2>2. /\ q \in 1..n /\ In(q, g) /\ G[g][a] = refs[q]
        /\ r \in 1..n /\ In(r, h) /\ G[h][b] = refs[r]
    BY <1>12, <2>1
  <2>3. begins[g] \in Nat /\ begins[h] \in Nat
    BY <1>9, <2>1
  <2>4. q = r
    <3> HIDE DEF q, r
    <3> QED
      BY <1>1, <1>15, <2>2 DEF IsInjective
  <2>5. g = h
    BY <1>11, <2>1, <2>2, <2>4
  <2> QED
    BY <2>1, <2>3, <2>4, <2>5
<1>16. ASSUME NEW g \in 1..c, NEW a \in 1..Len(G[g]) PROVE G[g][a].item = G[g][1].item
  <2> DEFINE AsFirst(k) == k + 1 \in 1..Len(G[g]) => G[g][k + 1].item = G[g][1].item
             T == {k \in Nat : AsFirst(k)}
  <2>1. 0 \in T
    OBVIOUS
  <2>2. ASSUME NEW k \in Nat, AsFirst(k) PROVE AsFirst(k + 1)
    <3> SUFFICES ASSUME (k + 1) + 1 \in 1..Len(G[g])
                 PROVE  G[g][(k + 1) + 1].item = G[g][1].item
      BY Zenon
    <3> DEFINE q == begins[g] + ((k + 1) + 1) - 1
    <3>1. Len(G[g]) \in Nat /\ begins[g] \in Nat /\ k + 1 \in 1..Len(G[g])
      BY <1>9, <1>12
    <3>2. q \in 1..n /\ In(q, g) /\ G[g][(k + 1) + 1] = refs[q]
      BY <1>12
    <3>3. q - 1 = begins[g] + (k + 1) - 1 /\ begins[g] < q
      <4>1. ASSUME NEW b \in Nat
            PROVE  (b + ((k + 1) + 1) - 1) - 1 = b + (k + 1) - 1 /\ b < b + ((k + 1) + 1) - 1
        OBVIOUS
      <4>2. begins[g] \in Nat
        BY <3>1
      <4> QED
        BY <4>1, <4>2, Zenon
    <3>4. G[g][k + 1] = refs[q - 1]
      BY <1>12, <3>1, <3>3
    <3> HIDE DEF q
    <3>5. q \notin starts
      <4> SUFFICES ASSUME q \in starts PROVE FALSE
        OBVIOUS
      <4>1. PICK h \in 1..c : begins[h] = q
        BY <1>7
      <4>2. begins[h] <= end(h)
        BY <1>9
      <4>3. h = g
        BY <1>11, <3>2, <4>1, <4>2
      <4> QED
        BY <3>1, <3>3, <4>1, <4>3
    <3>6. refs[q].item = refs[q - 1].item
      BY <1>2, <3>2, <3>5
    <3>7. G[g][k + 1].item = G[g][1].item
      BY <2>2, <3>1
    <3> QED
      BY <3>2, <3>4, <3>6, <3>7
  <2> HIDE DEF AsFirst
  <2>3. \A k \in Nat : k \in T => k + 1 \in T
    BY <2>2
  <2> HIDE DEF T
  <2>4. a - 1 \in Nat /\ (a - 1) + 1 = a
    BY <1>12
  <2>5. a - 1 \in T
    BY <2>1, <2>3, <2>4, CountingUp
  <2> QED
    BY <2>4, <2>5 DEF T, AsFirst
<1> QED
  BY <1>12, <1>13, <1>14, <1>15, <1>16 DEF IsPartition, G

-----------------------------------------------------------------------------
(* What is asked about: one pair per aspect of an item.                     *)
PairsOf(items) ==
    UNION {{[item |-> i, pos |-> p] : p \in DOMAIN items[i].aspects} : i \in DOMAIN items}

(* Refs are equal if they name the same pair.                                *)
LEMMA SameRef ==
    ASSUME NEW i, NEW j, NEW p, NEW q, [item |-> i, pos |-> p] = [item |-> j, pos |-> q]
    PROVE  i = j /\ p = q
<1>1. [item |-> i, pos |-> p].item = i /\ [item |-> i, pos |-> p].pos = p
  OBVIOUS
<1>2. [item |-> j, pos |-> q].item = j /\ [item |-> j, pos |-> q].pos = q
  OBVIOUS
<1> QED
  BY <1>1, <1>2, Zenon

(* An aspect of an item is one of its pairs.                                 *)
LEMMA PairIsAPair ==
    ASSUME NEW items, NEW i \in DOMAIN items, NEW p \in DOMAIN items[i].aspects
    PROVE  [item |-> i, pos |-> p] \in PairsOf(items)
<1> DEFINE part(j) == {[item |-> j, pos |-> q] : q \in DOMAIN items[j].aspects}
<1>1. [item |-> i, pos |-> p] \in part(i)
  OBVIOUS
<1> HIDE DEF part
<1>2. [item |-> i, pos |-> p] \in UNION {part(j) : j \in DOMAIN items}
  BY <1>1, Zenon
<1> QED
  BY <1>2, Zenon DEF PairsOf, part

(* What a call asks about one text.                                          *)
LEMMA CallInput ==
    ASSUME NEW T, NEW A, NEW t \in T, NEW a \in A, NEW x, x = [text |-> t, aspects |-> a]
    PROVE  x \in [text : T, aspects : A]
  OBVIOUS

(* One ref per pair of a text and an aspect. *)
LEMMA RefsPermutePairs ==
    ASSUME NEW Aspect, NEW items, NEW n \in Nat, DOMAIN items = 1..n,
           \A i \in 1..n : items[i].length \in Nat /\ items[i].aspects \in Seq(Aspect)
    PROVE  \E m \in Nat : aspectRefs(items) \in Bijection(1..m, PairsOf(items))
<1> DEFINE order == lengthOrder(items)
           part(i) == [p \in DOMAIN items[i].aspects |-> [item |-> i, pos |-> p]]
           parts == [k \in 1..n |-> part(order[k])]
           S == PairsOf(items)
<1>1. order \in Bijection(1..n, 1..n)
  BY LengthsOrder
<1> HIDE DEF order
<1>2. /\ DOMAIN order = 1..n
      /\ \A k \in 1..n : order[k] \in 1..n
      /\ \A k \in 1..n : \A l \in 1..n : order[k] = order[l] => k = l
      /\ \A i \in 1..n : \E k \in 1..n : order[k] = i
  BY <1>1 DEF Bijection, Injection, Surjection, IsInjective
<1>3. aspectRefs(items) = FlattenSeq(parts)
  BY <1>2 DEF aspectRefs, order
<1>4. ASSUME NEW i \in 1..n
      PROVE  /\ part(i) \in Seq(S) /\ DOMAIN part(i) = DOMAIN items[i].aspects
             /\ \A p \in DOMAIN items[i].aspects : part(i)[p] = [item |-> i, pos |-> p]
  <2> DEFINE r == part(i)
             d == Len(items[i].aspects)
  <2>1. d \in Nat /\ DOMAIN items[i].aspects = 1..d
    BY <1>4
  <2>2. r = [p \in 1..d |-> [item |-> i, pos |-> p]]
    BY <2>1
  <2> HIDE DEF d
  <2>3. \A p \in 1..d : [item |-> i, pos |-> p] \in S
    <3>1. i \in DOMAIN items
      OBVIOUS
    <3>2. TAKE p \in 1..d
    <3>3. p \in DOMAIN items[i].aspects
      BY <2>1
    <3> QED
      BY <3>1, <3>3, PairIsAPair, Zenon DEF S
  <2> HIDE DEF S
  <2>4. r \in Seq(S)
    BY <2>1, <2>2, <2>3
  <2> QED
    BY <2>1, <2>2, <2>4
<1> HIDE DEF part, S
<1>5. parts \in Seq(Seq(S)) /\ DOMAIN parts = 1..n /\ \A k \in 1..n : parts[k] = part(order[k])
  BY <1>2, <1>4
<1> HIDE DEF parts
<1>6. ASSUME NEW x \in S PROVE \E k \in 1..n : \E at \in DOMAIN parts[k] : parts[k][at] = x
  <2>1. PICK i \in 1..n : \E p \in DOMAIN items[i].aspects : x = [item |-> i, pos |-> p]
    BY DEF S, PairsOf
  <2>2. PICK k \in 1..n : order[k] = i
    BY <1>2
  <2> QED
    BY <1>4, <1>5, <2>1, <2>2
<1>7. ASSUME NEW k \in 1..n, NEW l \in 1..n, NEW at \in DOMAIN parts[k], NEW bt \in DOMAIN parts[l],
             parts[k][at] = parts[l][bt]
      PROVE  k = l /\ at = bt
  <2>1. parts[k][at] = [item |-> order[k], pos |-> at] /\ parts[l][bt] = [item |-> order[l], pos |-> bt]
    BY <1>2, <1>4, <1>5
  <2>2. [item |-> order[k], pos |-> at] = [item |-> order[l], pos |-> bt]
    BY <1>7, <2>1, Zenon
  <2>3. order[k] = order[l] /\ at = bt
    BY <2>2, SameRef
  <2> QED
    BY <1>2, <2>3
<1>8. IsPartition(parts, S)
  BY <1>5, <1>6, <1>7 DEF IsPartition
<1> QED
  BY <1>3, <1>8, FlattenPartition DEF S

-----------------------------------------------------------------------------
(* How much a call asks for, and what a worker that knows its scores says.  *)
CellsOf(inputs) == UNION {{<<g, a>> : a \in DOMAIN inputs[g].aspects} : g \in DOMAIN inputs}

(* The answer of a worker that knows its scores: a row for every aspect. *)
RightRows(inputs, score) ==
    [g \in 1..Len(inputs) |->
       [a \in 1..Len(inputs[g].aspects) |->
          [aspect |-> inputs[g].aspects[a],
           score |-> score[<<inputs[g].text, inputs[g].aspects[a]>>]]]]

(* The call that asks what a list of groups stands for, within its limit. *)
IsTheCallFor(items, groups, inputs, Text, Aspect, limit) ==
    /\ inputs \in Seq([text : Text, aspects : Seq(Aspect)])
    /\ Len(inputs) = Len(groups) /\ DOMAIN groups = 1..Len(groups)
    /\ Cardinality(CellsOf(inputs)) \in 0..limit
    /\ \A g \in DOMAIN groups :
         /\ Len(inputs[g].aspects) = Len(groups[g]) /\ DOMAIN groups[g] = 1..Len(groups[g])
         /\ \A a \in DOMAIN groups[g] :
              /\ inputs[g].text = items[groups[g][a].item].text
              /\ inputs[g].aspects[a] = items[groups[g][a].item].aspects[groups[g][a].pos]

(* A call asks for what its refs name, each once. *)
LEMMA CallsAskForTheirRefs ==
    ASSUME NEW Text, NEW Aspect, NEW items, NEW refs \in Seq(PairsOf(items)), IsInjective(refs),
           \A i \in DOMAIN items : items[i].text \in Text /\ items[i].aspects \in Seq(Aspect),
           NEW groups, groups = groupByItem(refs),
           NEW inputs, inputs = CallInputs(items, groups)
    PROVE  IsTheCallFor(items, groups, inputs, Text, Aspect, Len(refs))
<1> DEFINE S == PairsOf(items)
           R == Range(refs)
<1>1. /\ IsPartition(groups, R)
      /\ \A g \in DOMAIN groups :
           /\ Len(groups[g]) \in Nat \ {0}
           /\ \A a \in DOMAIN groups[g] : groups[g][a].item = groups[g][1].item
  BY GroupsPartition
<1>2. R \subseteq S
  BY DEF Range
<1>3. ASSUME NEW x \in S
      PROVE  /\ x.item \in DOMAIN items /\ items[x.item].text \in Text
             /\ items[x.item].aspects[x.pos] \in Aspect
  <2>1. PICK i \in DOMAIN items : \E p \in DOMAIN items[i].aspects : x = [item |-> i, pos |-> p]
    BY DEF PairsOf
  <2>2. PICK p \in DOMAIN items[i].aspects : x = [item |-> i, pos |-> p]
    BY <2>1
  <2>3. items[i].aspects[p] \in Aspect
    BY <2>2
  <2> QED
    BY <2>2, <2>3
<1>4. inputs = [g \in DOMAIN groups |->
                  [text |-> items[groups[g][1].item].text,
                   aspects |-> [a \in DOMAIN groups[g] |->
                                  items[groups[g][a].item].aspects[groups[g][a].pos]]]]
  BY DEF CallInputs
<1> HIDE DEF S, R
<1>5. /\ groups \in Seq(Seq(R)) /\ DOMAIN groups = 1..Len(groups) /\ Len(groups) \in Nat
      /\ \A g \in DOMAIN groups : groups[g] \in Seq(R) /\ DOMAIN groups[g] = 1..Len(groups[g])
  BY <1>1 DEF IsPartition
<1>6. ASSUME NEW g \in DOMAIN groups
      PROVE  /\ inputs[g].text \in Text /\ inputs[g].aspects \in Seq(Aspect)
             /\ inputs[g] = [text |-> inputs[g].text, aspects |-> inputs[g].aspects]
             /\ Len(inputs[g].aspects) = Len(groups[g]) /\ DOMAIN inputs[g].aspects = DOMAIN groups[g]
             /\ \A a \in DOMAIN groups[g] :
                  /\ inputs[g].text = items[groups[g][a].item].text
                  /\ inputs[g].aspects[a] = items[groups[g][a].item].aspects[groups[g][a].pos]
  <2> DEFINE asked == [a \in DOMAIN groups[g] |-> items[groups[g][a].item].aspects[groups[g][a].pos]]
  <2>1. inputs[g] = [text |-> items[groups[g][1].item].text, aspects |-> asked]
    BY <1>4
  <2>2. \A a \in DOMAIN groups[g] : groups[g][a] \in S /\ groups[g][a].item = groups[g][1].item
    BY <1>1, <1>2, <1>5
  <2>3. Len(groups[g]) \in Nat \ {0} /\ DOMAIN groups[g] = 1..Len(groups[g])
    BY <1>1, <1>5
  <2>4. items[groups[g][1].item].text \in Text
    BY <1>3, <2>2, <2>3
  <2>5. asked \in Seq(Aspect) /\ Len(asked) = Len(groups[g]) /\ DOMAIN asked = DOMAIN groups[g]
    BY <1>3, <2>2, <2>3
  <2>6. \A a \in DOMAIN groups[g] : asked[a] = items[groups[g][a].item].aspects[groups[g][a].pos]
    OBVIOUS
  <2> HIDE DEF asked
  <2>7. inputs[g].text = items[groups[g][1].item].text /\ inputs[g].aspects = asked
    BY <2>1
  <2> QED
    BY <2>1, <2>2, <2>4, <2>5, <2>6, <2>7
<1>7. /\ inputs \in Seq([text : Text, aspects : Seq(Aspect)])
      /\ Len(inputs) = Len(groups) /\ DOMAIN inputs = DOMAIN groups
  <2>1. DOMAIN inputs = 1..Len(groups)
    BY <1>4, <1>5
  <2>2. ASSUME NEW g \in 1..Len(groups)
        PROVE  inputs[g] \in [text : Text, aspects : Seq(Aspect)]
    <3>1. /\ inputs[g].text \in Text /\ inputs[g].aspects \in Seq(Aspect)
          /\ inputs[g] = [text |-> inputs[g].text, aspects |-> inputs[g].aspects]
      BY <1>5, <1>6
    <3> DEFINE t == inputs[g].text
               as == inputs[g].aspects
    <3>2. t \in Text /\ as \in Seq(Aspect) /\ inputs[g] = [text |-> t, aspects |-> as]
      BY <3>1, Zenon
    <3> HIDE DEF t, as
    <3> QED
      BY <3>2, CallInput, Zenon
  <2>3. inputs = [g \in 1..Len(groups) |-> inputs[g]]
    BY <1>4, <1>5
  <2> QED
    BY <1>5, <2>1, <2>2, <2>3
<1>8. Cardinality(CellsOf(inputs)) \in 0..Len(refs)
  <2> DEFINE f == [c \in CellsOf(inputs) |-> groups[c[1]][c[2]]]
  <2>1. ASSUME NEW c \in CellsOf(inputs)
        PROVE  c[1] \in DOMAIN groups /\ c[2] \in DOMAIN groups[c[1]] /\ c = <<c[1], c[2]>>
    <3>1. PICK g \in DOMAIN inputs : \E a \in DOMAIN inputs[g].aspects : c = <<g, a>>
      BY DEF CellsOf
    <3> QED
      BY <1>6, <1>7, <3>1
  <2>2. \A c \in CellsOf(inputs) : groups[c[1]][c[2]] \in R
    BY <1>5, <2>1
  <2>3. ASSUME NEW c \in CellsOf(inputs), NEW d \in CellsOf(inputs), f[c] = f[d] PROVE c = d
    <3>1. groups[c[1]][c[2]] = groups[d[1]][d[2]]
      BY <2>3
    <3>2. c[1] = d[1] /\ c[2] = d[2]
      BY <1>1, <2>1, <3>1 DEF IsPartition
    <3> QED
      BY <2>1, <3>2
  <2>4. f \in Injection(CellsOf(inputs), R)
    BY <2>2, <2>3 DEF Injection, IsInjective
  <2>5. Len(refs) \in Nat /\ refs \in Surjection(1..Len(refs), R)
    BY DEF R, Range, Surjection
  <2>6. ExistsSurjection(1..Len(refs), R)
    BY <2>5 DEF ExistsSurjection
  <2>7. IsFiniteSet(R) /\ Cardinality(R) <= Len(refs)
    BY <2>5, <2>6, FS_NatSurjection, FS_SurjCardinalityBound
  <2> HIDE DEF f
  <2>8. IsFiniteSet(CellsOf(inputs)) /\ Cardinality(CellsOf(inputs)) <= Cardinality(R)
    BY <2>4, <2>7, FS_Injection
  <2>9. Cardinality(CellsOf(inputs)) \in Nat /\ Cardinality(R) \in Nat
    BY <2>7, <2>8, FS_CardinalityType
  <2> QED
    BY <2>5, <2>7, <2>8, <2>9
<1> QED
  BY <1>5, <1>6, <1>7, <1>8 DEF IsTheCallFor

-----------------------------------------------------------------------------
(* ClassifyAspects: the pairs cut into calls, grouped, and put back.        *)
Scored(r) == [r EXCEPT !.score = ProtoToScore(@)]

(* A pair has the score that came back at its place in its call. *)
FoundIn(calls, replies, x) ==
    \E k \in DOMAIN calls : \E g \in DOMAIN groupByItem(calls[k]) :
      \E a \in DOMAIN groupByItem(calls[k])[g] :
        /\ groupByItem(calls[k])[g][a] = x
        /\ ScoreOfPair(GroupsOf(calls), replies, x) = Scored(replies[k][g][a])

(* Every pair is found in the call, the group and the place that hold it.   *)
LEMMA PairsAreFound ==
    ASSUME NEW S, NEW calls, IsPartition(calls, S), NEW replies, NEW x \in S
    PROVE  FoundIn(calls, replies, x)
<1> DEFINE groups == GroupsOf(calls)
           k == CHOOSE c \in DOMAIN groups : \E g \in DOMAIN groups[c] : x \in Range(groups[c][g])
           g == CHOOSE h \in DOMAIN groups[k] : x \in Range(groups[k][h])
           a == CHOOSE b \in DOMAIN groups[k][g] : groups[k][g][b] = x
<1>1. ScoreOfPair(groups, replies, x) = Scored(replies[k][g][a])
  BY Zenon DEF ScoreOfPair, Scored
<1>2. DOMAIN groups = DOMAIN calls /\ \A c \in DOMAIN calls : groups[c] = groupByItem(calls[c])
  BY DEF GroupsOf
<1>3. ASSUME NEW c \in DOMAIN calls
      PROVE  IsPartition(groupByItem(calls[c]), Range(calls[c]))
  <2>1. calls[c] \in Seq(S)
    BY DEF IsPartition
  <2>2. IsInjective(calls[c])
    BY DEF IsPartition, IsInjective
  <2> QED
    BY <2>1, <2>2, GroupsPartition
<1> HIDE DEF groups
<1>4. \E c \in DOMAIN groups : \E h \in DOMAIN groups[c] : x \in Range(groups[c][h])
  <2>1. PICK c \in DOMAIN calls : \E at \in DOMAIN calls[c] : calls[c][at] = x
    BY DEF IsPartition
  <2>2. x \in Range(calls[c])
    BY <2>1 DEF Range
  <2>3. PICK h \in DOMAIN groupByItem(calls[c]) :
          \E b \in DOMAIN groupByItem(calls[c])[h] : groupByItem(calls[c])[h][b] = x
    BY <1>3, <2>2 DEF IsPartition
  <2>4. x \in Range(groupByItem(calls[c])[h])
    BY <2>3 DEF Range
  <2> QED
    BY <1>2, <2>4
<1>5. k \in DOMAIN groups /\ \E h \in DOMAIN groups[k] : x \in Range(groups[k][h])
  BY <1>4, Zenon
<1> HIDE DEF k
<1>6. g \in DOMAIN groups[k] /\ x \in Range(groups[k][g])
  BY <1>5, Zenon
<1> HIDE DEF g
<1>7. a \in DOMAIN groups[k][g] /\ groups[k][g][a] = x
  <2>1. \E b \in DOMAIN groups[k][g] : groups[k][g][b] = x
    BY <1>6 DEF Range
  <2> QED
    BY <2>1, Zenon
<1> HIDE DEF a
<1>8. k \in DOMAIN calls /\ groups[k] = groupByItem(calls[k])
  BY <1>2, <1>5
<1>9. \E h \in DOMAIN groups[k] : \E b \in DOMAIN groups[k][h] :
        groups[k][h][b] = x /\ ScoreOfPair(groups, replies, x) = Scored(replies[k][h][b])
  BY <1>1, <1>6, <1>7, Zenon
<1>10. \E h \in DOMAIN groupByItem(calls[k]) : \E b \in DOMAIN groupByItem(calls[k])[h] :
         /\ groupByItem(calls[k])[h][b] = x
         /\ ScoreOfPair(groups, replies, x) = Scored(replies[k][h][b])
  BY <1>8, <1>9, Zenon
<1> QED
  BY <1>8, <1>10, Zenon DEF groups, FoundIn

(* The worker answers every call that asks for so many pairs or fewer.      *)
AnswersWithin(limit, Text, Aspect, worker, score) ==
    \A inputs \in Seq([text : Text, aspects : Seq(Aspect)]) \ {<<>>} :
      Cardinality(CellsOf(inputs)) <= limit =>
        /\ AspectScores(worker, inputs) = RightRows(inputs, score)
        /\ AspectScores(worker, inputs) # FAILED

(***************************************************************************)
(* Whatever the items: no call of ClassifyAspects asks for more pairs than *)
(* the client allows itself, and every pair of a text and an aspect gets   *)
(* its own score, in its item's order (client.go, batch.go:54-120).         *)
(***************************************************************************)
THEOREM AspectScoresComeBack ==
    ASSUME NEW Text, NEW Aspect, NEW worker, NEW score,
           NEW n \in Nat, NEW items, DOMAIN items = 1..n,
           \A i \in 1..n : /\ items[i].length \in Nat
                           /\ items[i].text \in Text
                           /\ items[i].aspects \in Seq(Aspect),
           AnswersWithin(maxBatch * aspectBatchMultiple, Text, Aspect, worker, score)
    PROVE  ClassifyAspects(items, worker)
             = [i \in 1..n |->
                  [p \in DOMAIN items[i].aspects |->
                     [aspect |-> items[i].aspects[p],
                      score |-> ProtoToScore(score[<<items[i].text, items[i].aspects[p]>>])]]]
<1> DEFINE S == PairsOf(items)
           refs == aspectRefs(items)
           limit == maxBatch * aspectBatchMultiple
           calls == Windows(refs, limit)
           groups == GroupsOf(calls)
           replies == [k \in DOMAIN groups |-> AspectScores(worker, CallInputs(items, groups[k]))]
<1>1. PICK m \in Nat : refs \in Bijection(1..m, S)
  BY RefsPermutePairs
<1>2. limit \in Nat \ {0}
  <2>1. ASSUME NEW a \in Nat \ {0}, NEW b \in Nat \ {0} PROVE a * b \in Nat \ {0}
    BY <2>1
  <2> QED
    BY <2>1, BatchAssumption
<1> HIDE DEF S, refs, limit
<1>3. IsPartition(calls, S) /\ \A k \in DOMAIN calls : Len(calls[k]) \in 1..limit
  BY <1>1, <1>2, WindowsPartition
<1>4. DOMAIN groups = DOMAIN calls /\ \A k \in DOMAIN calls : groups[k] = groupByItem(calls[k])
  BY DEF GroupsOf
<1>5. \A k \in DOMAIN groups : replies[k] = AspectScores(worker, CallInputs(items, groups[k]))
  OBVIOUS
<1>6. ClassifyAspects(items, worker) = GatheredPairs(items, groups, replies)
  BY Zenon DEF ClassifyAspects, InGroups, calls, refs, limit
<1> HIDE DEF calls, groups, replies
<1>7. ASSUME NEW k \in DOMAIN groups
      PROVE  /\ Accepted(replies[k], groups[k])
             /\ \A g \in DOMAIN groups[k] : \A a \in DOMAIN groups[k][g] :
                  replies[k][g][a]
                    = [aspect |-> items[groups[k][g][a].item].aspects[groups[k][g][a].pos],
                       score |-> score[<<items[groups[k][g][a].item].text,
                                         items[groups[k][g][a].item].aspects[groups[k][g][a].pos]>>]]
  <2> DEFINE inputs == CallInputs(items, groups[k])
             reply == replies[k]
             gs == groups[k]
  <2>1. calls[k] \in Seq(S) /\ IsInjective(calls[k]) /\ Len(calls[k]) <= limit
    <3>1. calls[k] \in Seq(S) /\ IsInjective(calls[k])
      BY <1>3, <1>4 DEF IsPartition, IsInjective
    <3>2. Len(calls[k]) <= limit
      BY <1>2, <1>3, <1>4
    <3> QED
      BY <3>1, <3>2
  <2>2. gs = groupByItem(calls[k]) /\ inputs = CallInputs(items, gs)
    BY <1>4
  <2>3. \A i \in DOMAIN items : items[i].text \in Text /\ items[i].aspects \in Seq(Aspect)
    OBVIOUS
  <2> HIDE DEF inputs, gs
  <2>4a. IsTheCallFor(items, gs, inputs, Text, Aspect, Len(calls[k]))
    <3>1. calls[k] \in Seq(PairsOf(items)) /\ IsInjective(calls[k])
      BY <2>1 DEF S
    <3> QED
      BY <2>2, <2>3, <3>1, CallsAskForTheirRefs, Zenon
  <2>4. /\ inputs \in Seq([text : Text, aspects : Seq(Aspect)])
        /\ Len(inputs) = Len(gs) /\ DOMAIN gs = 1..Len(gs)
        /\ Cardinality(CellsOf(inputs)) \in 0..Len(calls[k])
        /\ \A g \in DOMAIN gs :
             /\ Len(inputs[g].aspects) = Len(gs[g]) /\ DOMAIN gs[g] = 1..Len(gs[g])
             /\ \A a \in DOMAIN gs[g] :
                  /\ inputs[g].text = items[gs[g][a].item].text
                  /\ inputs[g].aspects[a] = items[gs[g][a].item].aspects[gs[g][a].pos]
    BY <2>4a DEF IsTheCallFor
  <2>5. Cardinality(CellsOf(inputs)) <= limit
    <3>1. Len(calls[k]) \in Nat
      BY <2>1
    <3> QED
      BY <1>2, <2>1, <2>4, <3>1
  <2>6a. inputs # <<>>
    <3>1. IsPartition(gs, Range(calls[k]))
      BY <2>1, <2>2, GroupsPartition
    <3>2. Len(calls[k]) \in Nat /\ Len(calls[k]) # 0 /\ calls[k][1] \in Range(calls[k])
      BY <1>2, <1>3, <1>4, <2>1 DEF Range
    <3>3. \E g \in DOMAIN gs : TRUE
      BY <3>1, <3>2 DEF IsPartition
    <3> QED
      BY <2>4, <3>3
  <2>6. reply = RightRows(inputs, score) /\ reply # FAILED
    BY <1>5, <2>4, <2>5, <2>6a DEF inputs, limit, AnswersWithin
  <2> HIDE DEF reply
  <2>7. Len(gs) \in Nat
    BY <2>4
  <2>8. Len(reply) = Len(gs)
    BY <2>4, <2>6, <2>7 DEF RightRows
  <2>9. ASSUME NEW g \in DOMAIN gs
        PROVE  /\ Len(reply[g]) = Len(gs[g])
               /\ \A a \in DOMAIN gs[g] :
                    reply[g][a] = [aspect |-> inputs[g].aspects[a],
                                   score |-> score[<<inputs[g].text, inputs[g].aspects[a]>>]]
    BY <2>4, <2>6 DEF RightRows
  <2>10. Accepted(reply, gs)
    BY <2>6, <2>8, <2>9 DEF Accepted
  <2>11. ASSUME NEW g \in DOMAIN gs, NEW a \in DOMAIN gs[g]
         PROVE  reply[g][a]
                  = [aspect |-> items[gs[g][a].item].aspects[gs[g][a].pos],
                     score |-> score[<<items[gs[g][a].item].text,
                                       items[gs[g][a].item].aspects[gs[g][a].pos]>>]]
    BY <2>4, <2>9
  <2> QED
    BY <2>10, <2>11 DEF reply, gs
<1>8. ASSUME NEW i \in 1..n, NEW p \in DOMAIN items[i].aspects
      PROVE  ScoreOfPair(groups, replies, [item |-> i, pos |-> p])
               = [aspect |-> items[i].aspects[p],
                  score |-> ProtoToScore(score[<<items[i].text, items[i].aspects[p]>>])]
  <2> DEFINE x == [item |-> i, pos |-> p]
  <2>1. x \in S
    BY PairIsAPair DEF S
  <2>2. x.item = i /\ x.pos = p
    OBVIOUS
  <2> HIDE DEF x
  <2>3. PICK k \in DOMAIN groups : \E g \in DOMAIN groups[k] : \E a \in DOMAIN groups[k][g] :
          /\ groups[k][g][a] = x
          /\ ScoreOfPair(groups, replies, x) = Scored(replies[k][g][a])
    <3>1. FoundIn(calls, replies, x)
      <4>1. IsPartition(calls, S)
        BY <1>3
      <4> QED
        BY <2>1, <4>1, PairsAreFound, Zenon
    <3>2. groups = GroupsOf(calls)
      BY DEF groups
    <3> HIDE DEF groups
    <3>3. PICK k \in DOMAIN calls : \E g \in DOMAIN groupByItem(calls[k]) :
            \E a \in DOMAIN groupByItem(calls[k])[g] :
              /\ groupByItem(calls[k])[g][a] = x
              /\ ScoreOfPair(GroupsOf(calls), replies, x) = Scored(replies[k][g][a])
      BY <3>1, Zenon DEF FoundIn
    <3>4. k \in DOMAIN groups /\ groups[k] = groupByItem(calls[k])
      BY <1>4
    <3> QED
      BY <3>2, <3>3, <3>4, Zenon
  <2>4a. PICK g \in DOMAIN groups[k] : \E a \in DOMAIN groups[k][g] :
          /\ groups[k][g][a] = x
          /\ ScoreOfPair(groups, replies, x) = Scored(replies[k][g][a])
    BY <2>3
  <2>4. PICK a \in DOMAIN groups[k][g] :
          /\ groups[k][g][a] = x
          /\ ScoreOfPair(groups, replies, x) = Scored(replies[k][g][a])
    BY <2>4a
  <2>5. replies[k][g][a]
          = [aspect |-> items[i].aspects[p], score |-> score[<<items[i].text, items[i].aspects[p]>>]]
    <3>1. replies[k][g][a]
            = [aspect |-> items[groups[k][g][a].item].aspects[groups[k][g][a].pos],
               score |-> score[<<items[groups[k][g][a].item].text,
                                 items[groups[k][g][a].item].aspects[groups[k][g][a].pos]>>]]
      BY <1>7, Zenon
    <3>2. groups[k][g][a].item = i /\ groups[k][g][a].pos = p
      BY <2>2, <2>4, Zenon
    <3> QED
      BY <3>1, <3>2, Zenon
  <2> QED
    BY <2>4, <2>5 DEF x, Scored
<1>9. GatheredPairs(items, groups, replies)
        = [i \in 1..n |-> [p \in DOMAIN items[i].aspects |->
             ScoreOfPair(groups, replies, [item |-> i, pos |-> p])]]
  BY <1>7 DEF GatheredPairs
<1> QED
  BY <1>6, <1>8, <1>9

-----------------------------------------------------------------------------
(* A worker that cannot be trusted with a text.                             *)

(* A worker that loses a text, or adds one, in every call that has it. *)
Loses(worker, Doc, doc) ==
    \A batch \in Seq(Doc) :
      Len(batch) \in 1..maxBatch /\ doc \in Range(batch) =>
        Scores(worker, batch) = FAILED \/ Len(Scores(worker, batch)) # Len(batch)

(* An answer of the wrong length is an error. *)
LEMMA LostIsFailed ==
    ASSUME NEW Doc, \A d \in Doc : d.length \in Nat, NEW docs \in Seq(Doc),
           NEW worker, NEW i \in DOMAIN docs, Loses(worker, Doc, docs[i])
    PROVE  Classify(docs, worker) = FAILED
<1> DEFINE n == Len(docs)
           windows == Windows(lengthOrder(docs), maxBatch)
           replies == [k \in DOMAIN windows |-> Scores(worker, AsksFor(docs, windows[k]))]
<1>1. n \in Nat /\ DOMAIN docs = 1..n /\ \A j \in 1..n : docs[j] \in Doc /\ docs[j].length \in Nat
  OBVIOUS
<1>2. maxBatch \in Nat \ {0}
  BY BatchAssumption
<1>3. /\ IsPartition(windows, 1..n)
      /\ \A k \in DOMAIN windows : Len(windows[k]) \in 1..maxBatch
  BY <1>1, <1>2, LengthsOrder, WindowsPartition
<1> HIDE DEF n, windows
<1>4. PICK k \in DOMAIN windows : \E at \in DOMAIN windows[k] : windows[k][at] = i
  BY <1>1, <1>3 DEF IsPartition
<1>5. PICK at \in DOMAIN windows[k] : windows[k][at] = i
  BY <1>4
<1> DEFINE batch == AsksFor(docs, windows[k])
<1>6. windows[k] \in Seq(1..n) /\ Len(windows[k]) \in Nat
  BY <1>3 DEF IsPartition
<1>7. batch = [bt \in 1..Len(windows[k]) |-> docs[windows[k][bt]]]
  BY <1>6 DEF AsksFor
<1>8. batch \in Seq(Doc) /\ Len(batch) = Len(windows[k])
  BY <1>1, <1>6, <1>7
<1>9. docs[i] \in Range(batch)
  BY <1>5, <1>6, <1>7 DEF Range
<1>10. replies[k] = Scores(worker, batch)
  OBVIOUS
<1> HIDE DEF batch, replies
<1>11. replies[k] = FAILED \/ Len(replies[k]) # Len(windows[k])
  BY <1>3, <1>8, <1>9, <1>10 DEF Loses
<1>12. Gathered(docs, windows, replies) = FAILED
  BY <1>11 DEF Gathered
<1> QED
  BY <1>12 DEF Classify, InWindows, windows, replies

(* A reply has a row for every text and a score for every aspect.          *)
AsManyAs(reply, inputs) ==
    /\ reply # FAILED
    /\ Len(reply) = Len(inputs)
    /\ \A g \in DOMAIN inputs : Len(reply[g]) = Len(inputs[g].aspects)

(* A worker that is wrong about how many aspects a text has, in every call. *)
LosesRows(worker, Text, Aspect, text) ==
    \A inputs \in Seq([text : Text, aspects : Seq(Aspect)]) :
      (\E g \in DOMAIN inputs : inputs[g].text = text /\ inputs[g].aspects # <<>>) =>
        ~AsManyAs(AspectScores(worker, inputs), inputs)

(***************************************************************************)
(* One short row is an error of the whole call, however the pairs are cut  *)
(* into calls, and whatever Classify says (client.go:207-222).              *)
(***************************************************************************)
LEMMA LostRowIsFailed ==
    ASSUME NEW Text, NEW Aspect, NEW worker, NEW n \in Nat, NEW items, DOMAIN items = 1..n,
           \A i \in 1..n : /\ items[i].length \in Nat
                           /\ items[i].text \in Text
                           /\ items[i].aspects \in Seq(Aspect),
           NEW i \in 1..n, items[i].aspects # <<>>,
           LosesRows(worker, Text, Aspect, items[i].text)
    PROVE  ClassifyAspects(items, worker) = FAILED
<1> DEFINE S == PairsOf(items)
           refs == aspectRefs(items)
           limit == maxBatch * aspectBatchMultiple
           calls == Windows(refs, limit)
           groups == GroupsOf(calls)
           replies == [k \in DOMAIN groups |-> AspectScores(worker, CallInputs(items, groups[k]))]
           x == [item |-> i, pos |-> 1]
<1>1. PICK m \in Nat : refs \in Bijection(1..m, S)
  BY RefsPermutePairs
<1>2. limit \in Nat \ {0}
  <2>1. ASSUME NEW a \in Nat \ {0}, NEW b \in Nat \ {0} PROVE a * b \in Nat \ {0}
    BY <2>1
  <2> QED
    BY <2>1, BatchAssumption
<1>3. x \in S
  <2>1. 1 \in DOMAIN items[i].aspects
    <3>1. ASSUME NEW s \in Seq(Aspect), s # <<>> PROVE 1 \in DOMAIN s
      BY <3>1
    <3> QED
      BY <3>1
  <2> QED
    BY <2>1, PairIsAPair
<1>4. x.item = i
  OBVIOUS
<1> HIDE DEF S, refs, limit, x
<1>5. IsPartition(calls, S)
  BY <1>1, <1>2, WindowsPartition
<1>6. DOMAIN groups = DOMAIN calls /\ \A k \in DOMAIN calls : groups[k] = groupByItem(calls[k])
  BY DEF GroupsOf
<1>7. \A k \in DOMAIN groups : replies[k] = AspectScores(worker, CallInputs(items, groups[k]))
  OBVIOUS
<1>8. ClassifyAspects(items, worker) = GatheredPairs(items, groups, replies)
  BY Zenon DEF ClassifyAspects, InGroups, calls, refs, limit
<1> HIDE DEF calls, groups, replies
<1>9. PICK k \in DOMAIN calls : \E at \in DOMAIN calls[k] : calls[k][at] = x
  BY <1>3, <1>5 DEF IsPartition
<1> DEFINE gs == groupByItem(calls[k])
           inputs == CallInputs(items, gs)
<1>10. calls[k] \in Seq(S) /\ IsInjective(calls[k]) /\ x \in Range(calls[k])
  <2>1. x \in Range(calls[k])
    BY <1>9 DEF Range
  <2> QED
    BY <1>5, <2>1 DEF IsPartition, IsInjective
<1>11. IsPartition(gs, Range(calls[k]))
  BY <1>10, GroupsPartition
<1>12. IsTheCallFor(items, gs, inputs, Text, Aspect, Len(calls[k]))
  <2>1. calls[k] \in Seq(PairsOf(items))
    BY <1>10 DEF S
  <2>2. \A j \in DOMAIN items : items[j].text \in Text /\ items[j].aspects \in Seq(Aspect)
    OBVIOUS
  <2> QED
    BY <1>10, <2>1, <2>2, CallsAskForTheirRefs, Zenon
<1> HIDE DEF gs, inputs
<1>13. PICK g \in DOMAIN gs : \E a \in DOMAIN gs[g] : gs[g][a] = x
  BY <1>10, <1>11 DEF IsPartition
<1>14. /\ inputs \in Seq([text : Text, aspects : Seq(Aspect)])
       /\ Len(inputs) = Len(gs) /\ DOMAIN gs = 1..Len(gs)
       /\ \A h \in DOMAIN gs : Len(inputs[h].aspects) = Len(gs[h]) /\ DOMAIN gs[h] = 1..Len(gs[h])
       /\ \A h \in DOMAIN gs : \A a \in DOMAIN gs[h] :
            inputs[h].text = items[gs[h][a].item].text
  BY <1>12, Zenon DEF IsTheCallFor
<1>15. DOMAIN inputs = DOMAIN gs
  <2> DEFINE Input == [text : Text, aspects : Seq(Aspect)]
  <2> HIDE DEF Input
  <2>1. inputs \in Seq(Input)
    BY <1>14 DEF Input
  <2> QED
    BY <1>14, <2>1
<1>16. inputs[g].text = items[i].text /\ inputs[g].aspects # <<>>
  <2>1. PICK a \in DOMAIN gs[g] : gs[g][a] = x
    BY <1>13
  <2>2. inputs[g].text = items[i].text
    BY <1>4, <1>14, <2>1
  <2>3. Len(inputs[g].aspects) # 0
    BY <1>14, <2>1
  <2>4. Len(<<>>) = 0
    OBVIOUS
  <2> QED
    BY <2>2, <2>3, <2>4
<1>17. ~AsManyAs(AspectScores(worker, inputs), inputs)
  BY <1>14, <1>15, <1>16, Zenon DEF LosesRows
<1>18. groups[k] = gs /\ replies[k] = AspectScores(worker, inputs)
  BY <1>6, <1>7 DEF gs, inputs
<1>19. ~Accepted(replies[k], groups[k])
  BY <1>14, <1>15, <1>17, <1>18, Zenon DEF AsManyAs, Accepted
<1>20. GatheredPairs(items, groups, replies) = FAILED
  BY <1>6, <1>19, Zenon DEF GatheredPairs
<1> QED
  BY <1>8, <1>20

-----------------------------------------------------------------------------
(* An error is no list of scores and no answer made of some. *)
ErrorsAreTold == FAILED # [x \in DOMAIN FAILED |-> FAILED[x]]

(* The documents of an analysis. *)
DocsOf(Id, Platform, Text, Aspect) ==
    [id : Id, platform : Platform, length : Nat, text : Text, aspects : Seq(Aspect)]

(* A document whose text is of a smaller set. *)
LEMMA DocOfFewer ==
    ASSUME NEW Id, NEW Platform, NEW Text, NEW Sure, NEW Aspect,
           NEW d \in DocsOf(Id, Platform, Text, Aspect), d.text \in Sure
    PROVE  d \in DocsOf(Id, Platform, Sure, Aspect)
  BY DEF DocsOf

(* A worker that answers calls of Classify about these texts as the client  *)
(* expects: what is on the wire stands for the scores.                        *)
RightOnTexts(worker, Id, Platform, Text, Aspect, wire) ==
    \A batch \in Seq(DocsOf(Id, Platform, Text, Aspect)) : Len(batch) \in 1..maxBatch =>
      /\ Scores(worker, batch) = [at \in 1..Len(batch) |-> wire[<<batch[at].text, "">>]]
      /\ Scores(worker, batch) # FAILED

(* And calls of ClassifyAspects. *)
RightOnAspects(worker, Text, Aspect, wire) ==
    AnswersWithin(maxBatch * aspectBatchMultiple, Text, Aspect, worker, wire)

(* What the wire carries stands for the labels. *)
StandsFor(wire, Text, Aspect) ==
    \A t \in Text : \A a \in Aspect \cup {""} : ProtoToScore(wire[<<t, a>>]) = LabelOf(t, a)

(* What comes back for all texts, and for all their aspects. *)
OverallOf(docs) == [i \in DOMAIN docs |-> LabelOf(docs[i].text, "")]
AllRowsOf(docs) == [i \in DOMAIN docs |-> RowsOf(docs[i], docs[i].aspects)]

(* These documents are answered as they should be, and so are their aspects. *)
TextsAnswered(docs, worker, Id, Platform, Text, Aspect, wire) ==
    /\ StandsFor(wire, Text, Aspect)
    /\ RightOnTexts(worker, Id, Platform, Text, Aspect, wire)
    /\ docs \in Seq(DocsOf(Id, Platform, Text, Aspect))
AspectsAnswered(docs, worker, Id, Platform, Text, Aspect, wire) ==
    /\ StandsFor(wire, Text, Aspect)
    /\ RightOnAspects(worker, Text, Aspect, wire)
    /\ docs \in Seq(DocsOf(Id, Platform, Text, Aspect))

(* The overall scores. *)
LEMMA OverallScores ==
    ASSUME NEW Id, NEW Platform, NEW Text, NEW Aspect, NEW wire, NEW worker, NEW docs,
           TextsAnswered(docs, worker, Id, Platform, Text, Aspect, wire)
    PROVE  Classify(docs, worker) = OverallOf(docs)
<1> DEFINE Doc == DocsOf(Id, Platform, Text, Aspect)
           score == [d \in Doc |-> wire[<<d.text, "">>]]
<1>1. \A d \in Doc : d.length \in Nat /\ d.text \in Text
  BY DEF DocsOf
<1> USE DEF TextsAnswered
<1> HIDE DEF Doc
<1>2. docs \in Seq(Doc)
  BY DEF Doc
<1>3. ASSUME NEW batch \in Seq(Doc), Len(batch) \in 1..maxBatch
      PROVE  /\ Scores(worker, batch) = [at \in 1..Len(batch) |-> score[batch[at]]]
             /\ Scores(worker, batch) # FAILED
  <2>1. /\ Scores(worker, batch) = [at \in 1..Len(batch) |-> wire[<<batch[at].text, "">>]]
        /\ Scores(worker, batch) # FAILED
    BY <1>3 DEF RightOnTexts, Doc
  <2>2. \A at \in 1..Len(batch) : batch[at] \in Doc
    OBVIOUS
  <2> QED
    BY <2>1, <2>2
<1>4. \A d \in Doc : ProtoToScore(score[d]) = LabelOf(d.text, "")
  BY <1>1 DEF StandsFor
<1>5. \A i \in DOMAIN docs : docs[i] \in Doc
  BY <1>2
<1> HIDE DEF score
<1>6. Classify(docs, worker) = [i \in DOMAIN docs |-> ProtoToScore(score[docs[i]])]
  BY <1>1, <1>2, <1>3, ScoresComeBack
<1> QED
  BY <1>4, <1>5, <1>6 DEF OverallOf

(* The scores of the aspects. *)
LEMMA ScoresOfAspects ==
    ASSUME NEW Id, NEW Platform, NEW Text, NEW Aspect, NEW wire, NEW worker, NEW docs,
           AspectsAnswered(docs, worker, Id, Platform, Text, Aspect, wire)
    PROVE  ClassifyAspects(docs, worker) = AllRowsOf(docs)
<1> DEFINE Doc == DocsOf(Id, Platform, Text, Aspect)
           n == Len(docs)
           cell(i, p) == [aspect |-> docs[i].aspects[p],
                          score |-> ProtoToScore(wire[<<docs[i].text, docs[i].aspects[p]>>])]
<1>1. \A d \in Doc : d.length \in Nat /\ d.text \in Text /\ d.aspects \in Seq(Aspect)
  BY DEF DocsOf
<1> USE DEF AspectsAnswered
<1> HIDE DEF Doc
<1>2. docs \in Seq(Doc)
  BY DEF Doc
<1>3. n \in Nat /\ DOMAIN docs = 1..n /\ \A i \in 1..n : docs[i] \in Doc
  BY <1>2
<1>4. AnswersWithin(maxBatch * aspectBatchMultiple, Text, Aspect, worker, wire)
  BY DEF RightOnAspects
<1> HIDE DEF n
<1>5. ClassifyAspects(docs, worker) = [i \in 1..n |-> [p \in DOMAIN docs[i].aspects |-> cell(i, p)]]
  BY <1>1, <1>3, <1>4, AspectScoresComeBack
<1>6. ASSUME NEW i \in 1..n PROVE [p \in DOMAIN docs[i].aspects |-> cell(i, p)] = RowsOf(docs[i], docs[i].aspects)
  <2>1. docs[i].text \in Text /\ docs[i].aspects \in Seq(Aspect)
    BY <1>1, <1>3
  <2>2. ASSUME NEW p \in DOMAIN docs[i].aspects
        PROVE  cell(i, p) = [aspect |-> docs[i].aspects[p],
                             score |-> LabelOf(docs[i].text, docs[i].aspects[p])]
    <3>1. docs[i].aspects[p] \in Aspect
      BY <2>1, <2>2
    <3> QED
      BY <2>1, <3>1 DEF StandsFor
  <2> HIDE DEF cell
  <2> QED
    BY <2>2 DEF RowsOf
<1> HIDE DEF cell
<1> QED
  BY <1>3, <1>5, <1>6 DEF AllRowsOf

-----------------------------------------------------------------------------
(* AnalyzeText, for every request.                                          *)

(* AnalyzeText gives every text its score, and its aspects theirs.         *)
TextIsBack(text, docs, includeAspects) ==
    /\ text # FAILED
    /\ \A i \in DOMAIN docs :
         text.results[i] =
           [id |-> docs[i].id, overall |-> LabelOf(docs[i].text, ""),
            aspects |-> IF includeAspects THEN RowsOf(docs[i], docs[i].aspects) ELSE <<>>]

(* It does, if the worker answers rightly, about aspects where it is asked. *)
LEMMA TextComesBack ==
    ASSUME ErrorsAreTold, NEW Id, NEW Platform, NEW Text, NEW Aspect, NEW wire,
           StandsFor(wire, Text, Aspect),
           NEW worker, RightOnTexts(worker, Id, Platform, Text, Aspect, wire),
           NEW Sure \in SUBSET Text, RightOnAspects(worker, Sure, Aspect, wire),
           NEW docs \in Seq(DocsOf(Id, Platform, Text, Aspect)), NEW includeAspects \in BOOLEAN,
           \A i \in DOMAIN docs : includeAspects /\ docs[i].aspects # <<>> => docs[i].text \in Sure
    PROVE  TextIsBack(AnalyzeText(docs, includeAspects, worker), docs, includeAspects)
<1> DEFINE Doc == DocsOf(Id, Platform, Text, Aspect)
           S == {i \in DOMAIN docs : includeAspects /\ docs[i].aspects # <<>>}
           c == Cardinality(S)
           asked == Ascending(S)
           items == [k \in DOMAIN asked |-> docs[asked[k]]]
           scores == Classify(docs, worker)
           lines == ClassifyAspects(items, worker)
           its(i) == IF i \in Range(asked) /\ RowOf(asked, i) \in DOMAIN lines
                     THEN lines[RowOf(asked, i)] ELSE <<>>
           results == [i \in DOMAIN docs |->
                         [id |-> docs[i].id, overall |-> scores[i], aspects |-> its(i)]]
           text == AnalyzeText(docs, includeAspects, worker)
<1>1. text = IF scores = FAILED \/ lines = FAILED THEN FAILED
             ELSE [results |-> results, aggregate |-> Aggregate(scores)]
  BY Zenon DEF AnalyzeText, AskedAbout, TextAsked, TextResults
<1>2. Len(docs) \in Nat /\ DOMAIN docs = 1..Len(docs) /\ \A i \in DOMAIN docs : docs[i] \in Doc
  <2> HIDE DEF Doc
  <2>1. docs \in Seq(Doc)
    BY DEF Doc
  <2> QED
    BY <2>1
<1>3. S \subseteq Int /\ IsFiniteSet(S) /\ S \subseteq DOMAIN docs
  <2> DEFINE n == Len(docs)
  <2>1. S \in SUBSET (1..n) /\ n \in Nat /\ DOMAIN docs = 1..n
    BY <1>2
  <2> HIDE DEF S, n
  <2>2. IsFiniteSet(1..n)
    BY <2>1, FS_Interval
  <2>3. IsFiniteSet(S)
    BY <2>1, <2>2, FS_Subset
  <2> QED
    BY <2>1, <2>3
<1>4. \A i \in DOMAIN docs : i \in S <=> includeAspects /\ docs[i].aspects # <<>>
  OBVIOUS
<1> HIDE DEF S, c
<1>5. c \in Nat /\ asked \in Bijection(1..c, S)
  BY <1>3, AscendingIs DEF c
<1> HIDE DEF asked, Doc
<1>6. DOMAIN asked = 1..c /\ Range(asked) = S /\ \A k \in 1..c : asked[k] \in S
  BY <1>5 DEF Bijection, Injection, Surjection, Range
<1>7. items \in Seq(DocsOf(Id, Platform, Sure, Aspect)) /\ DOMAIN items = 1..c
  <2> DEFINE Known == DocsOf(Id, Platform, Sure, Aspect)
  <2>1. items = [k \in 1..c |-> docs[asked[k]]]
    BY <1>6
  <2>2. ASSUME NEW k \in 1..c PROVE docs[asked[k]] \in Known
    <3> DEFINE d == docs[asked[k]]
    <3>1. asked[k] \in DOMAIN docs /\ asked[k] \in S
      BY <1>3, <1>6
    <3>2. d \in Doc /\ d.text \in Sure
      BY <1>2, <1>4, <3>1
    <3> QED
      BY <3>2, DocOfFewer, Zenon DEF Doc
  <2> HIDE DEF Known
  <2> HIDE DEF items
  <2> QED
    BY <1>5, <2>1, <2>2 DEF Known
<1>8. scores = [i \in DOMAIN docs |-> LabelOf(docs[i].text, "")]
  <2>1. TextsAnswered(docs, worker, Id, Platform, Text, Aspect, wire)
    BY Zenon DEF TextsAnswered, Doc
  <2>2. scores = OverallOf(docs)
    BY <2>1, OverallScores, SMT
  <2> HIDE DEF scores
  <2> QED
    BY <2>2 DEF OverallOf
<1>9. lines = [k \in 1..c |-> RowsOf(items[k], items[k].aspects)]
  <2> HIDE DEF items
  <2>1. AspectsAnswered(items, worker, Id, Platform, Sure, Aspect, wire)
    <3>1. StandsFor(wire, Sure, Aspect)
      BY DEF StandsFor
    <3> QED
      BY <1>7, <3>1, Zenon DEF AspectsAnswered
  <2>2. lines = AllRowsOf(items)
    BY <2>1, ScoresOfAspects, SMT
  <2> HIDE DEF lines
  <2> QED
    BY <1>7, <2>2 DEF AllRowsOf
<1>10. \A k \in 1..c : items[k] = docs[asked[k]]
  BY <1>6
<1> HIDE DEF items, scores, lines
<1>11. scores # FAILED /\ lines # FAILED
  BY <1>8, <1>9 DEF ErrorsAreTold
<1>12. ASSUME NEW i \in S PROVE its(i) = RowsOf(docs[i], docs[i].aspects)
  <2> DEFINE k == CHOOSE k \in DOMAIN asked : asked[k] = i
  <2>1. k \in 1..c /\ asked[k] = i
    <3>1. \E l \in DOMAIN asked : asked[l] = i
      BY <1>5, <1>6 DEF Bijection, Surjection
    <3>2. k \in DOMAIN asked /\ asked[k] = i
      BY <3>1, Zenon
    <3> HIDE DEF k
    <3> QED
      BY <1>6, <3>2
  <2>2. RowOf(asked, i) = k
    BY Zenon DEF RowOf
  <2> HIDE DEF k
  <2>3. i \in Range(asked) /\ k \in DOMAIN lines /\ lines[k] = RowsOf(items[k], items[k].aspects)
    BY <1>6, <1>9, <2>1
  <2>4. its(i) = lines[k]
    BY <2>2, <2>3, Zenon
  <2> HIDE DEF its
  <2>5. items[k] = docs[i]
    BY <1>10, <2>1
  <2> QED
    BY <2>3, <2>4, <2>5
<1>13. ASSUME NEW i \in DOMAIN docs, i \notin S
       PROVE  its(i) = <<>> /\ (includeAspects => RowsOf(docs[i], docs[i].aspects) = <<>>)
  <2>1. its(i) = <<>>
    BY <1>6, <1>13
  <2>2. includeAspects => docs[i].aspects = <<>>
    BY <1>4, <1>13
  <2> HIDE DEF its
  <2>3. RowsOf(docs[i], <<>>) = <<>>
    BY DEF RowsOf
  <2> QED
    BY <2>1, <2>2, <2>3
<1>14. ASSUME NEW i \in DOMAIN docs
       PROVE  its(i) = IF includeAspects THEN RowsOf(docs[i], docs[i].aspects) ELSE <<>>
  <2> HIDE DEF its
  <2> QED
    BY <1>4, <1>12, <1>13
<1>15. text = [results |-> results, aggregate |-> Aggregate(scores)]
  BY <1>1, <1>11
<1> HIDE DEF its, text
<1>16. ASSUME NEW i \in DOMAIN docs
       PROVE  results[i] = [id |-> docs[i].id, overall |-> LabelOf(docs[i].text, ""),
                            aspects |-> IF includeAspects
                                        THEN RowsOf(docs[i], docs[i].aspects) ELSE <<>>]
  <2>1. results[i] = [id |-> docs[i].id, overall |-> scores[i], aspects |-> its(i)]
    OBVIOUS
  <2>2. scores[i] = LabelOf(docs[i].text, "")
    BY <1>8
  <2> QED
    BY <1>14, <2>1, <2>2, Zenon
<1> HIDE DEF results
<1>17. text # FAILED /\ text.results = results
  <2> DEFINE total == Aggregate(scores)
  <2> HIDE DEF total
  <2>1. text = [results |-> results, aggregate |-> total]
    BY <1>15 DEF total
  <2> QED
    BY <2>1 DEF ErrorsAreTold
<1> QED
  BY <1>16, <1>17, Zenon DEF text, TextIsBack

(* AnalyzeTopic gives every document the scores of the topic's aspects.    *)
TopicIsBack(topic, docs, aspects) ==
    /\ topic # FAILED
    /\ \A i \in DOMAIN docs :
         topic.results[i] =
           [id |-> docs[i].id, platform |-> docs[i].platform,
            overall |-> LabelOf(docs[i].text, ""), aspects |-> RowsOf(docs[i], aspects)]

(* It does, if the worker answers rightly, about aspects where it is asked. *)
LEMMA TopicComesBack ==
    ASSUME ErrorsAreTold, NEW Id, NEW Platform, NEW Text, NEW Aspect, NEW wire,
           StandsFor(wire, Text, Aspect),
           NEW worker, RightOnTexts(worker, Id, Platform, Text, Aspect, wire),
           NEW Sure \in SUBSET Text, RightOnAspects(worker, Sure, Aspect, wire),
           NEW docs \in Seq(DocsOf(Id, Platform, Text, Aspect)), NEW aspects \in Seq(Aspect),
           \A i \in DOMAIN docs : aspects # <<>> => docs[i].text \in Sure
    PROVE  TopicIsBack(AnalyzeDocuments(docs, aspects, worker), docs, aspects)
<1> DEFINE Doc == DocsOf(Id, Platform, Text, Aspect)
           items == [i \in DOMAIN docs |-> [docs[i] EXCEPT !.aspects = aspects]]
           scores == Classify(docs, worker)
           lines == IF aspects = <<>> THEN [i \in DOMAIN docs |-> <<>>]
                   ELSE ClassifyAspects(items, worker)
           results == [i \in DOMAIN docs |->
                         [id |-> docs[i].id, platform |-> docs[i].platform,
                          overall |-> scores[i], aspects |-> lines[i]]]
           said == FlattenSeq(lines)
           topic == AnalyzeDocuments(docs, aspects, worker)
<1>1. topic = IF scores = FAILED \/ lines = FAILED THEN FAILED ELSE TopicAggregates(results, said)
  BY Zenon DEF AnalyzeDocuments, TopicResults
<1>2. Len(docs) \in Nat /\ DOMAIN docs = 1..Len(docs) /\ \A i \in DOMAIN docs : docs[i] \in Doc
  <2> HIDE DEF Doc
  <2>1. docs \in Seq(Doc)
    BY DEF Doc
  <2> QED
    BY <2>1
<1>3. ASSUME NEW i \in DOMAIN docs
      PROVE  items[i] \in Doc /\ items[i].text = docs[i].text /\ items[i].aspects = aspects
  <2>1. docs[i] \in [id : Id, platform : Platform, length : Nat, text : Text, aspects : Seq(Aspect)]
    BY <1>2 DEF DocsOf
  <2>2. items[i] = [docs[i] EXCEPT !.aspects = aspects]
    OBVIOUS
  <2> HIDE DEF items
  <2> QED
    BY <2>1, <2>2 DEF DocsOf
<1>4. DOMAIN items = DOMAIN docs
  OBVIOUS
<1> HIDE DEF items, Doc
<1>5. ASSUME aspects # <<>> PROVE items \in Seq(DocsOf(Id, Platform, Sure, Aspect))
  <2> DEFINE Known == DocsOf(Id, Platform, Sure, Aspect)
  <2>1. ASSUME NEW i \in 1..Len(docs) PROVE items[i] \in Known
    <3> DEFINE d == items[i]
    <3>1. d \in Doc /\ d.text \in Sure
      BY <1>2, <1>3, <1>5
    <3> QED
      BY <3>1, DocOfFewer, Zenon DEF Doc
  <2> HIDE DEF Known
  <2>2. items \in [1..Len(docs) -> Known]
    <3>1. items = [i \in 1..Len(docs) |-> items[i]]
      BY <1>2 DEF items
    <3> QED
      BY <2>1, <3>1
  <2> QED
    BY <1>2, <2>2 DEF Known
<1>6. scores = [i \in DOMAIN docs |-> LabelOf(docs[i].text, "")]
  <2>1. TextsAnswered(docs, worker, Id, Platform, Text, Aspect, wire)
    BY Zenon DEF TextsAnswered, Doc
  <2>2. scores = OverallOf(docs)
    BY <2>1, OverallScores, SMT
  <2> HIDE DEF scores
  <2> QED
    BY <2>2 DEF OverallOf
<1>7. ASSUME aspects # <<>>
      PROVE  ClassifyAspects(items, worker) = [i \in DOMAIN docs |-> RowsOf(items[i], aspects)]
  <2>1. AspectsAnswered(items, worker, Id, Platform, Sure, Aspect, wire)
    <3>1. StandsFor(wire, Sure, Aspect)
      BY DEF StandsFor
    <3> QED
      BY <1>5, <1>7, <3>1, Zenon DEF AspectsAnswered
  <2>2. ClassifyAspects(items, worker) = AllRowsOf(items)
    BY <2>1, ScoresOfAspects, SMT
  <2> QED
    BY <1>3, <1>4, <2>2 DEF AllRowsOf
<1>8. \A i \in DOMAIN docs : RowsOf(items[i], aspects) = RowsOf(docs[i], aspects)
  BY <1>3 DEF RowsOf
<1>9. \A i \in DOMAIN docs : RowsOf(docs[i], <<>>) = <<>>
  BY DEF RowsOf
<1>10. lines = [i \in DOMAIN docs |-> RowsOf(docs[i], aspects)]
  BY <1>7, <1>8, <1>9
<1> HIDE DEF lines, scores
<1>11. scores # FAILED /\ lines # FAILED
  BY <1>6, <1>10 DEF ErrorsAreTold
<1>12. topic = TopicAggregates(results, said)
  BY <1>1, <1>11
<1>13. ASSUME NEW i \in DOMAIN docs
       PROVE  results[i] = [id |-> docs[i].id, platform |-> docs[i].platform,
                            overall |-> LabelOf(docs[i].text, ""), aspects |-> RowsOf(docs[i], aspects)]
  <2>1. results[i] = [id |-> docs[i].id, platform |-> docs[i].platform,
                      overall |-> scores[i], aspects |-> lines[i]]
    OBVIOUS
  <2>2. scores[i] = LabelOf(docs[i].text, "") /\ lines[i] = RowsOf(docs[i], aspects)
    BY <1>6, <1>10
  <2> QED
    BY <2>1, <2>2, Zenon
<1> HIDE DEF topic, results, said
<1>14. topic # FAILED /\ topic.results = results
  <2> DEFINE total == Aggregate(ScoresOf(results))
             places == [p \in {r.platform : r \in Range(results)} |->
                          Aggregate(ScoresOf(Those(results, LAMBDA r : r.platform = p)))]
             sides == [a \in {s.aspect : s \in Range(said)} |->
                         Aggregate(ScoresSaid(Those(said, LAMBDA s : s.aspect = a)))]
  <2>1. TopicAggregates(results, said)
          = [results |-> results, aggregate |-> total, by_platform |-> places, by_aspect |-> sides]
    BY Zenon DEF TopicAggregates
  <2> HIDE DEF total, places, sides
  <2>2. topic = [results |-> results, aggregate |-> total, by_platform |-> places, by_aspect |-> sides]
    BY <1>12, <2>1
  <2> QED
    BY <2>2 DEF ErrorsAreTold
<1> QED
  BY <1>13, <1>14, Zenon DEF topic, TopicIsBack

(***************************************************************************)
(* What a worker of a kind does: one that is right answers every call; one *)
(* that is curt knows the scores of all texts and gives the hard one a row *)
(* that is too short or too long, or fails; and any other loses that text  *)
(* or adds one to it.  Calls without the hard text are answered.            *)
(***************************************************************************)
Texts(worker, Text, hard) == IF worker \in {"right", "curt"} THEN Text ELSE Text \ {hard}
SureTexts(worker, Text, hard) == IF worker = "right" THEN Text ELSE Text \ {hard}

IsOfItsKind(worker, Id, Platform, Text, Aspect, wire, hard) ==
    /\ RightOnTexts(worker, Id, Platform, Texts(worker, Text, hard), Aspect, wire)
    /\ RightOnAspects(worker, SureTexts(worker, Text, hard), Aspect, wire)
    /\ worker = "curt" => LosesRows(worker, Text, Aspect, hard)
    /\ worker \notin {"right", "curt"} =>
         \A d \in DocsOf(Id, Platform, Text, Aspect) :
           d.text = hard => Loses(worker, DocsOf(Id, Platform, Text, Aspect), d)

(***************************************************************************)
(* Whatever the documents, however many, and however many go into a call:  *)
(* every document gets its own score, and those of its own aspects in its  *)
(* own order, if the worker answers as it should; and there is an error and *)
(* no result if some document makes it answer with too few scores, or too   *)
(* many, or not at all, be it for the texts or only for the aspects that    *)
(* are asked about (service.go:90-180, batch.go, client.go:155,207-222).     *)
(***************************************************************************)
THEOREM ScoresComeBackToAll ==
    ASSUME given.part = "batch", ErrorsAreTold,
           NEW Id, NEW Platform, NEW Text, NEW Aspect, NEW wire, StandsFor(wire, Text, Aspect),
           given.docs \in Seq(DocsOf(Id, Platform, Text, Aspect)),
           given.aspects \in Seq(Aspect), given.includeAspects \in BOOLEAN,
           IsOfItsKind(given.worker, Id, Platform, Text, Aspect, wire, given.hard)
    PROVE  EveryScoreComesBack
<1> DEFINE docs == given.docs
           worker == given.worker
           text == AnalyzeText(docs, given.includeAspects, worker)
           topic == AnalyzeDocuments(docs, given.aspects, worker)
           hard == {i \in DOMAIN docs : docs[i].text = given.hard}
           lost == worker \notin {"right", "curt"} /\ hard # {}
           curt == worker = "curt"
           asked == given.includeAspects /\ \E i \in hard : docs[i].aspects # <<>>
           Doc == DocsOf(Id, Platform, Text, Aspect)
           Known == Texts(worker, Text, given.hard)
           Sure == SureTexts(worker, Text, given.hard)
<1>1. /\ Len(docs) \in Nat /\ DOMAIN docs = 1..Len(docs)
      /\ \A i \in DOMAIN docs : docs[i] \in Doc
  <2> HIDE DEF Doc
  <2>1. docs \in Seq(Doc)
    BY DEF Doc
  <2> QED
    BY <2>1
<1>2. \A i \in DOMAIN docs : /\ docs[i].length \in Nat /\ docs[i].text \in Text
                            /\ docs[i].aspects \in Seq(Aspect)
  BY <1>1 DEF DocsOf
<1>3. \A i \in DOMAIN docs : i \in hard <=> docs[i].text = given.hard
  OBVIOUS
<1>4. /\ RightOnTexts(worker, Id, Platform, Known, Aspect, wire)
      /\ RightOnAspects(worker, Sure, Aspect, wire)
      /\ curt => LosesRows(worker, Text, Aspect, given.hard)
      /\ worker \notin {"right", "curt"} => \A d \in Doc : d.text = given.hard => Loses(worker, Doc, d)
  BY Zenon DEF IsOfItsKind
<1>5. Sure \in SUBSET Known /\ Known \in SUBSET Text
  BY DEF Texts, SureTexts
<1> HIDE DEF Doc
<1>6. ASSUME lost PROVE text = FAILED /\ topic = FAILED
  <2>1. PICK i \in DOMAIN docs : docs[i].text = given.hard
    BY <1>3, <1>6
  <2>2. Loses(worker, Doc, docs[i])
    BY <1>1, <1>4, <1>6, <2>1
  <2>3. \A d \in Doc : d.length \in Nat
    BY DEF Doc, DocsOf
  <2>4. docs \in Seq(Doc)
    BY DEF Doc
  <2>5. Classify(docs, worker) = FAILED
    BY <2>2, <2>3, <2>4, LostIsFailed
  <2>6. text = FAILED
    BY <2>5, Zenon DEF AnalyzeText, TextAsked, TextResults
  <2>7. topic = FAILED
    BY <2>5, Zenon DEF AnalyzeDocuments, TopicResults
  <2> QED
    BY <2>6, <2>7
<1>7. ASSUME curt, asked PROVE text = FAILED
  <2> DEFINE S == {i \in DOMAIN docs : given.includeAspects /\ docs[i].aspects # <<>>}
             about == Ascending(S)
             items == [k \in DOMAIN about |-> docs[about[k]]]
             c == Cardinality(S)
  <2>1. PICK i \in hard : docs[i].aspects # <<>>
    BY <1>7
  <2>2. i \in S /\ S \subseteq DOMAIN docs
    BY <1>7, <2>1
  <2> HIDE DEF S
  <2>3. S \subseteq Int /\ IsFiniteSet(S)
    <3> DEFINE n == Len(docs)
    <3>1. n \in Nat /\ S \in SUBSET (1..n)
      BY <1>1, <2>2
    <3> HIDE DEF n
    <3>2. IsFiniteSet(1..n)
      BY <3>1, FS_Interval
    <3>3. IsFiniteSet(S)
      BY <3>1, <3>2, FS_Subset
    <3> QED
      BY <3>1, <3>3
  <2>4. c \in Nat /\ about \in Bijection(1..c, S)
    BY <2>3, AscendingIs
  <2> HIDE DEF about, c
  <2>5. /\ DOMAIN about = 1..c /\ \A k \in 1..c : about[k] \in DOMAIN docs
        /\ \E k \in 1..c : about[k] = i
    BY <2>2, <2>4 DEF Bijection, Injection, Surjection
  <2>6. PICK k \in 1..c : about[k] = i
    BY <2>5
  <2>7. /\ DOMAIN items = 1..c
        /\ \A l \in 1..c : /\ items[l].length \in Nat /\ items[l].text \in Text
                           /\ items[l].aspects \in Seq(Aspect)
    BY <1>2, <2>5
  <2>8. items[k].aspects # <<>> /\ items[k].text = given.hard
    BY <1>3, <2>1, <2>5, <2>6
  <2> HIDE DEF items
  <2>9. LosesRows(worker, Text, Aspect, items[k].text)
    BY <1>4, <1>7, <2>8
  <2>10. ClassifyAspects(items, worker) = FAILED
    BY <2>4, <2>7, <2>8, <2>9, LostRowIsFailed
  <2> QED
    BY <2>10, Zenon DEF AnalyzeText, AskedAbout, TextAsked, TextResults, items, about, S
<1>8. ASSUME curt, hard # {}, given.aspects # <<>> PROVE topic = FAILED
  <2> DEFINE items == [i \in DOMAIN docs |-> [docs[i] EXCEPT !.aspects = given.aspects]]
             n == Len(docs)
  <2>1. PICK i \in hard : docs[i].text = given.hard
    BY <1>8
  <2>2. ASSUME NEW j \in DOMAIN docs
        PROVE  items[j].length = docs[j].length /\ items[j].text = docs[j].text
               /\ items[j].aspects = given.aspects
    <3>1. docs[j] \in [id : Id, platform : Platform, length : Nat, text : Text, aspects : Seq(Aspect)]
      BY <1>1 DEF Doc, DocsOf
    <3>2. items[j] = [docs[j] EXCEPT !.aspects = given.aspects]
      OBVIOUS
    <3> HIDE DEF items
    <3> QED
      BY <3>1, <3>2
  <2>3. DOMAIN items = 1..n /\ n \in Nat /\ i \in 1..n
    BY <1>1
  <2> HIDE DEF items, n
  <2>4. \A j \in 1..n : /\ items[j].length \in Nat /\ items[j].text \in Text
                       /\ items[j].aspects \in Seq(Aspect)
    BY <1>1, <1>2, <2>2 DEF n
  <2>5. items[i].aspects # <<>> /\ items[i].text = given.hard
    BY <1>8, <2>1, <2>2
  <2>6. LosesRows(worker, Text, Aspect, items[i].text)
    BY <1>4, <1>8, <2>5
  <2>7. ClassifyAspects(items, worker) = FAILED
    BY <2>3, <2>4, <2>5, <2>6, LostRowIsFailed
  <2> QED
    BY <1>8, <2>7, Zenon DEF AnalyzeDocuments, TopicResults, items
<1>9. ASSUME ~lost
      PROVE  /\ docs \in Seq(DocsOf(Id, Platform, Known, Aspect))
             /\ \A i \in DOMAIN docs : i \notin hard => docs[i].text \in Sure
             /\ ~curt => \A i \in DOMAIN docs : docs[i].text \in Sure
             /\ StandsFor(wire, Known, Aspect)
  <2>1. \A i \in DOMAIN docs : docs[i].text \in Known
    BY <1>2, <1>3, <1>9 DEF Texts
  <2>2. \A i \in DOMAIN docs : i \notin hard => docs[i].text \in Sure
    BY <1>2, <1>3 DEF SureTexts
  <2>3. ~curt => \A i \in DOMAIN docs : docs[i].text \in Sure
    BY <1>2, <1>3, <1>9 DEF SureTexts
  <2>4. StandsFor(wire, Known, Aspect)
    BY <1>5 DEF StandsFor
  <2>5. docs \in Seq(DocsOf(Id, Platform, Known, Aspect))
    <3> DEFINE Those0 == DocsOf(Id, Platform, Known, Aspect)
    <3>1. ASSUME NEW i \in DOMAIN docs PROVE docs[i] \in Those0
      <4> DEFINE d == docs[i]
      <4>1. d \in Doc /\ d.text \in Known
        BY <1>1, <2>1
      <4> QED
        BY <4>1, DocOfFewer, Zenon DEF Doc
    <3> HIDE DEF Those0
    <3>2. docs = [i \in 1..Len(docs) |-> docs[i]]
      BY <1>1
    <3> QED
      BY <1>1, <3>1, <3>2 DEF Those0
  <2> QED
    BY <2>1, <2>2, <2>3, <2>4, <2>5
<1> HIDE DEF Known, Sure
<1>10. ASSUME ~lost, ~(curt /\ asked) PROVE TextIsBack(text, docs, given.includeAspects)
  <2>1. \A i \in DOMAIN docs : given.includeAspects /\ docs[i].aspects # <<>> => docs[i].text \in Sure
    BY <1>9, <1>10
  <2> QED
    BY <1>4, <1>5, <1>9, <1>10, <2>1, TextComesBack, Zenon
<1>11. ASSUME ~lost, ~(curt /\ hard # {} /\ given.aspects # <<>>)
       PROVE  TopicIsBack(topic, docs, given.aspects)
  <2>1. \A i \in DOMAIN docs : given.aspects # <<>> => docs[i].text \in Sure
    BY <1>9, <1>11
  <2> QED
    BY <1>4, <1>5, <1>9, <1>11, <2>1, TopicComesBack, Zenon
<1> DEFINE BackText ==
             \A i \in DOMAIN docs :
               text.results[i] =
                 [id |-> docs[i].id, overall |-> LabelOf(docs[i].text, ""),
                  aspects |-> IF given.includeAspects
                              THEN RowsOf(docs[i], docs[i].aspects) ELSE <<>>]
           BackTopic ==
             \A i \in DOMAIN docs :
               topic.results[i] =
                 [id |-> docs[i].id, platform |-> docs[i].platform,
                  overall |-> LabelOf(docs[i].text, ""),
                  aspects |-> RowsOf(docs[i], given.aspects)]
<1>12. TextIsBack(text, docs, given.includeAspects) => text # FAILED /\ BackText
  BY Zenon DEF TextIsBack
<1>13. TopicIsBack(topic, docs, given.aspects) => topic # FAILED /\ BackTopic
  BY Zenon DEF TopicIsBack
<1> SUFFICES /\ (text = FAILED) = (lost \/ (curt /\ asked))
             /\ (topic = FAILED) = (lost \/ (curt /\ hard # {} /\ given.aspects # <<>>))
             /\ text # FAILED => BackText
             /\ topic # FAILED => BackTopic
  BY Zenon DEF EveryScoreComesBack
<1> DEFINE none == given.aspects = <<>>
           clear == hard = {}
<1>14. /\ text = FAILED <=> lost \/ (curt /\ asked)
       /\ topic = FAILED <=> lost \/ (curt /\ ~clear /\ ~none)
       /\ text # FAILED => BackText
       /\ topic # FAILED => BackTopic
  <2> HIDE DEF text, topic, BackText, BackTopic, lost, curt, asked, hard
  <2> QED
    BY <1>6, <1>7, <1>8, <1>10, <1>11, <1>12, <1>13
<1>15. (text = FAILED) \in BOOLEAN /\ (topic = FAILED) \in BOOLEAN
       /\ lost \in BOOLEAN /\ curt \in BOOLEAN /\ asked \in BOOLEAN
  BY Zenon
<1> HIDE DEF text, topic, BackText, BackTopic, lost, curt, asked, hard
<1> QED
  BY <1>14, <1>15

-----------------------------------------------------------------------------
(* What a header says of a type.                                            *)

(* Headers with ranges of a set. *)
Headers(Media) == Seq([media : Media \cup {NoType}, q : Int \cup {NoType}])

(* A spelling never stands for text/html, nor is text/html one. *)
LEMMA CanonicalIs ==
    ASSUME NEW m, m # NoType
    PROVE  Canonical(m) = mimeHTML <=> m = mimeHTML
<1> DEFINE Spelt == \E s \in Spellings : m \in s[2]
           its == CHOOSE s \in Spellings : m \in s[2]
<1>1. Spelt => its \in Spellings /\ m \in its[2]
  BY Zenon
<1>2. ASSUME NEW s \in Spellings
      PROVE  s[1] # NoType /\ s[1] # mimeHTML /\ mimeHTML \notin s[2]
  <2>1. \/ s[1] = mimeJSON /\ s[2] = {mimeJSON, <<"text", "json">>}
        \/ s[1] = mimeXML /\ s[2] = {mimeXML, <<"text", "xml">>}
        \/ s[1] = mimeYAML /\ s[2] = {mimeYAML, <<"text", "yaml">>, <<"application", "x-yaml">>,
                                     <<"text", "x-yaml">>}
        \/ s[1] = mimeCSV /\ s[2] = {mimeCSV, <<"application", "csv">>}
        \/ s[1] = mimeNDJSON /\ s[2] = {mimeNDJSON, <<"application", "ndjson">>}
    BY DEF Spellings
  <2>2. s[1] # NoType
    BY <2>1, NegotiationAssumption
  <2>3. s[1] # mimeHTML
    BY <2>1 DEF mimeJSON, mimeXML, mimeYAML, mimeCSV, mimeNDJSON, mimeHTML
  <2>4. mimeHTML \notin s[2]
    BY <2>1 DEF mimeJSON, mimeXML, mimeYAML, mimeCSV, mimeNDJSON, mimeHTML
  <2> QED
    BY <2>2, <2>3, <2>4
<1>3. canonicalMedia(m) = IF Spelt THEN its[1] ELSE NoType
  BY Zenon DEF canonicalMedia
<1> HIDE DEF Spelt, its
<1>4. ASSUME Spelt PROVE Canonical(m) = its[1]
  BY <1>1, <1>2, <1>3, <1>4 DEF Canonical
<1>5. ASSUME ~Spelt PROVE Canonical(m) = m
  BY <1>3, <1>5 DEF Canonical
<1>6. m = mimeHTML => ~Spelt
  BY <1>1, <1>2
<1> QED
  BY <1>1, <1>2, <1>4, <1>5, <1>6

(* What of a header is kept. *)
LEMMA RangesOf ==
    ASSUME NEW Media, NEW header \in Headers(Media)
    PROVE  LET R == parseAccept(header) IN
           /\ DOMAIN R = {i \in DOMAIN header : header[i].media # NoType}
           /\ DOMAIN R \subseteq Nat
           /\ \A i \in DOMAIN R :
                /\ header[i].media # NoType
                /\ R[i].media = Canonical(header[i].media)
                /\ R[i].q = IF header[i].q = NoType THEN Full ELSE header[i].q
                /\ R[i].q \in Int
<1> DEFINE R == parseAccept(header)
           D == {i \in DOMAIN header : header[i].media # NoType}
           entry(i) == [media |-> IF canonicalMedia(header[i].media) = NoType THEN header[i].media
                                 ELSE canonicalMedia(header[i].media),
                        q |-> IF header[i].q = NoType THEN Full ELSE header[i].q]
<1>1. R = [i \in D |-> entry(i)]
  BY Zenon DEF parseAccept
<1>2. D \subseteq Nat
  BY DEF Headers
<1>3. ASSUME NEW i \in D
      PROVE  /\ header[i].media # NoType
             /\ header[i].q \in Int \cup {NoType}
  <2>1. header[i] \in [media : Media \cup {NoType}, q : Int \cup {NoType}]
    <3> DEFINE Entries == [media : Media \cup {NoType}, q : Int \cup {NoType}]
    <3>1. header \in Seq(Entries) /\ i \in DOMAIN header
      BY DEF Headers
    <3> HIDE DEF Entries
    <3>2. header[i] \in Entries
      BY <3>1
    <3> QED
      BY <3>2 DEF Entries
  <2> QED
    BY <2>1
<1>4. ASSUME NEW i \in D PROVE entry(i).media = Canonical(header[i].media)
  BY DEF Canonical
<1>5. ASSUME NEW i \in D
      PROVE  entry(i).q = (IF header[i].q = NoType THEN Full ELSE header[i].q) /\ entry(i).q \in Int
  BY <1>3, NegotiationAssumption
<1> HIDE DEF R, D, entry
<1>6. DOMAIN R = D /\ \A i \in D : R[i] = entry(i)
  BY <1>1, Zenon
<1>7. \A i \in D :
                /\ header[i].media # NoType
                /\ R[i].media = Canonical(header[i].media)
                /\ R[i].q = (IF header[i].q = NoType THEN Full ELSE header[i].q)
                /\ R[i].q \in Int
  BY <1>3, <1>4, <1>5, <1>6, Zenon
<1> QED
  BY <1>2, <1>6, <1>7, Zenon DEF R, D

(* A type that is no wildcard. *)
Plainly(m) == m \notin {<<m[1], "*">>, <<"*", "*">>} /\ m[1] # "*"

(* A range covers what it is specific about, the more specific the less. *)
LEMMA HowSpecific ==
    ASSUME NEW m, Plainly(m), NEW range
    PROVE  /\ Specificity(range, m) \in {-1, 0, 1, 2}
           /\ Specificity(range, m) >= 0 <=> Covers(range, m)
           /\ Specificity(range, m) = 2 <=> range = m
           /\ \A other :
                /\ Specificity(other, m) >= 0 /\ Specificity(range, m) >= Specificity(other, m)
                => Covers(other, range)
<1> DEFINE one == <<m[1], "*">>  all == <<"*", "*">>
<1>1. m # one /\ m # all /\ one # all
  BY DEF Plainly
<1>2. ASSUME NEW r
      PROVE  Specificity(r, m) = IF r = m THEN 2 ELSE IF r = one THEN 1 ELSE IF r = all THEN 0 ELSE -1
  BY <1>1 DEF Specificity
<1>3. ASSUME NEW r PROVE Covers(r, m) <=> r = m \/ r = one \/ r = all
  BY Zenon DEF Covers
<1>4. ASSUME NEW r PROVE Covers(r, one) <=> r = one \/ r = all
  BY Zenon DEF Covers
<1>5. ASSUME NEW r PROVE Covers(r, all) <=> r = all
  BY Zenon DEF Covers
<1> HIDE DEF one, all
<1>6. \A other :
                /\ Specificity(other, m) >= 0 /\ Specificity(range, m) >= Specificity(other, m)
                => Covers(other, range)
  BY <1>1, <1>2, <1>3, <1>4, <1>5
<1> QED
  BY <1>1, <1>2, <1>3, <1>6

(* The most specific range that covers a type, if any does, decides. *)
LEMMA QualityIs ==
    ASSUME NEW m, Plainly(m), NEW ranges, DOMAIN ranges \subseteq Nat
    PROVE  LET Q == quality(m, ranges) IN
           \/ /\ \A i \in DOMAIN ranges : ~Covers(ranges[i].media, m)
              /\ Q.q = 0 /\ Q.spec = -1
           \/ \E i \in DOMAIN ranges :
                /\ Covers(ranges[i].media, m)
                /\ Q.q = ranges[i].q /\ Q.spec = Specificity(ranges[i].media, m)
                /\ \A j \in DOMAIN ranges : Specificity(ranges[j].media, m) <= Q.spec
<1> DEFINE Q == quality(m, ranges)
           spec(i) == Specificity(ranges[i].media, m)
           S == {spec(i) : i \in DOMAIN ranges} \cup {-1}
           best == {i \in DOMAIN ranges : spec(i) = Max(S)}
<1>1. Q = [q |-> IF Max(S) < 0 THEN 0 ELSE ranges[Min(best)].q, spec |-> Max(S)]
  BY Zenon DEF quality
<1>2. \A i \in DOMAIN ranges : spec(i) \in {-1, 0, 1, 2} /\ (spec(i) >= 0 <=> Covers(ranges[i].media, m))
  BY HowSpecific
<1> HIDE DEF Q, spec
<1>3. S \subseteq {-1, 0, 1, 2} /\ -1 \in S
  BY <1>2
<1>4. Max(S) \in S /\ \A x \in S : x <= Max(S)
  <2> HIDE DEF S
  <2>1. PICK x \in S : \A y \in S : y <= x
    BY <1>3
  <2>2. S \subseteq Int
    BY <1>3
  <2>3. Max(S) = x
    BY <2>1, <2>2, MostIs
  <2> QED
    BY <2>1, <2>3
<1>5. \A i \in DOMAIN ranges : spec(i) <= Max(S)
  BY <1>4
<1>6. Max(S) = -1 \/ \E i \in DOMAIN ranges : spec(i) = Max(S)
  BY <1>4
<1>7. Max(S) \in {-1, 0, 1, 2}
  BY <1>3, <1>4
<1> HIDE DEF S
<1>8. CASE Max(S) = -1
  <2>1. Q.q = 0 /\ Q.spec = -1
    BY <1>1, <1>8
  <2>2. \A i \in DOMAIN ranges : ~Covers(ranges[i].media, m)
    BY <1>2, <1>5, <1>8
  <2> QED
    BY <2>1, <2>2 DEF Q
<1>9. CASE Max(S) # -1
  <2>1. best # {} /\ best \subseteq Nat
    BY <1>6, <1>9
  <2>2. Min(best) \in best
    BY <2>1, LeastIn
  <2>3. PICK i \in DOMAIN ranges : i = Min(best) /\ spec(i) = Max(S)
    BY <2>2
  <2>4. Q.q = ranges[i].q /\ Q.spec = spec(i)
    BY <1>1, <1>7, <1>9, <2>3
  <2>5. Covers(ranges[i].media, m)
    BY <1>2, <1>7, <1>9, <2>3
  <2> QED
    BY <1>5, <2>3, <2>4, <2>5 DEF Q, spec
<1> QED
  BY <1>8, <1>9

(* Ranges that cover each other are the same. *)
LEMMA CoverEachOther ==
    ASSUME NEW a, NEW b, Covers(a, b), Covers(b, a)
    PROVE  a = b
<1>1. a = b \/ a = <<b[1], "*">> \/ a = <<"*", "*">>
  BY DEF Covers
<1>2. a = b \/ b = <<a[1], "*">> \/ b = <<"*", "*">>
  BY DEF Covers
<1>3. CASE a = <<b[1], "*">> /\ b = <<a[1], "*">>
  BY <1>3
<1>4. CASE a = <<"*", "*">> /\ b = <<a[1], "*">>
  BY <1>4
<1>5. CASE a = <<b[1], "*">> /\ b = <<"*", "*">>
  BY <1>5
<1> QED
  BY <1>1, <1>2, <1>3, <1>4, <1>5

(* The reference takes the same range, unless two are the same. *)
LEMMA WantedIs ==
    ASSUME NEW Media, NEW header \in Headers(Media), Unambiguous(header), NEW m
    PROVE  /\ (\A e \in Said(header) : ~Covers(Canonical(e.media), m)) => Wanted(header, m) = 0
           /\ \A i \in DOMAIN header :
                /\ header[i].media # NoType /\ Covers(Canonical(header[i].media), m)
                /\ \A e \in Said(header) : Covers(Canonical(e.media), m) =>
                     Covers(Canonical(e.media), Canonical(header[i].media))
                => Wanted(header, m) = (IF header[i].q = NoType THEN Full ELSE header[i].q)
<1> DEFINE covering == {e \in Said(header) : Covers(Canonical(e.media), m)}
           nearest == {e \in covering : \A f \in covering : Covers(Canonical(f.media), Canonical(e.media))}
           chosen == CHOOSE e \in nearest : TRUE
<1>1. Wanted(header, m) = IF covering = {} THEN 0 ELSE IF chosen.q = NoType THEN Full ELSE chosen.q
  BY Zenon DEF Wanted
<1>2. ASSUME NEW i \in DOMAIN header, header[i].media # NoType, Covers(Canonical(header[i].media), m),
             \A e \in Said(header) : Covers(Canonical(e.media), m) =>
                     Covers(Canonical(e.media), Canonical(header[i].media))
      PROVE  Wanted(header, m) = IF header[i].q = NoType THEN Full ELSE header[i].q
  <2>1. header[i] \in Said(header)
    BY <1>2 DEF Said, Range
  <2>2. header[i] \in nearest
    BY <1>2, <2>1
  <2>3. chosen \in nearest
    BY <2>2
  <2>4. Covers(Canonical(chosen.media), Canonical(header[i].media))
        /\ Covers(Canonical(header[i].media), Canonical(chosen.media))
    BY <2>2, <2>3
  <2>5. Canonical(chosen.media) = Canonical(header[i].media)
    BY <2>4, CoverEachOther
  <2>6. PICK j \in DOMAIN header : chosen = header[j] /\ header[j].media # NoType
    BY <2>3 DEF Said, Range
  <2>7. i = j
    BY <1>2, <2>5, <2>6 DEF Unambiguous
  <2> QED
    BY <1>1, <2>2, <2>6, <2>7
<1> QED
  BY <1>1, <1>2

(* What the code finds is what RFC 9110 says. *)
LEMMA QualityIsWanted ==
    ASSUME NEW Media, NEW header \in Headers(Media), Unambiguous(header), NEW m, Plainly(m)
    PROVE  LET Q == quality(m, parseAccept(header)) IN
           /\ Q.q = Wanted(header, m) /\ Q.q \in Int /\ Q.spec \in Int
           /\ Q.spec = 2 <=> \E e \in Said(header) : Canonical(e.media) = m
<1> DEFINE R == parseAccept(header)
           Q == quality(m, R)
<1>1. /\ DOMAIN R = {i \in DOMAIN header : header[i].media # NoType}
      /\ DOMAIN R \subseteq Nat
      /\ \A i \in DOMAIN R :
           /\ header[i].media # NoType
           /\ R[i].media = Canonical(header[i].media)
           /\ R[i].q = IF header[i].q = NoType THEN Full ELSE header[i].q
           /\ R[i].q \in Int
  BY RangesOf
<1> HIDE DEF R
<1>2. \A e \in Said(header) : \E i \in DOMAIN R : header[i] = e
  BY <1>1 DEF Said, Range
<1>3. \A i \in DOMAIN R : header[i] \in Said(header)
  BY <1>1 DEF Said, Range
<1>4. \A i \in DOMAIN R :
        /\ Specificity(R[i].media, m) \in {-1, 0, 1, 2}
        /\ Specificity(R[i].media, m) >= 0 <=> Covers(R[i].media, m)
        /\ Specificity(R[i].media, m) = 2 <=> R[i].media = m
        /\ \A other :
             /\ Specificity(other, m) >= 0 /\ Specificity(R[i].media, m) >= Specificity(other, m)
             => Covers(other, R[i].media)
  BY HowSpecific
<1>5. CASE /\ \A i \in DOMAIN R : ~Covers(R[i].media, m)
           /\ Q.q = 0 /\ Q.spec = -1
  <2>1. \A e \in Said(header) : ~Covers(Canonical(e.media), m)
    BY <1>1, <1>2, <1>5
  <2>2. Wanted(header, m) = 0
    BY <2>1, WantedIs
  <2>3. ~ \E e \in Said(header) : Canonical(e.media) = m
    BY <2>1 DEF Covers
  <2> QED
    BY <1>5, <2>2, <2>3 DEF R
<1>6. ASSUME NEW i \in DOMAIN R, Covers(R[i].media, m),
             Q.q = R[i].q, Q.spec = Specificity(R[i].media, m),
             \A j \in DOMAIN R : Specificity(R[j].media, m) <= Q.spec
      PROVE  /\ Q.q = Wanted(header, m) /\ Q.q \in Int /\ Q.spec \in Int
             /\ Q.spec = 2 <=> \E e \in Said(header) : Canonical(e.media) = m
  <2>1. ASSUME NEW e \in Said(header), Covers(Canonical(e.media), m)
        PROVE  Covers(Canonical(e.media), Canonical(header[i].media))
    <3>1. PICK j \in DOMAIN R : header[j] = e
      BY <1>2
    <3>2. R[j].media = Canonical(e.media) /\ R[i].media = Canonical(header[i].media)
      BY <1>1, <3>1
    <3>3. Specificity(R[j].media, m) >= 0 /\ Specificity(R[j].media, m) <= Specificity(R[i].media, m)
      BY <1>4, <1>6, <2>1, <3>2
    <3>4. Specificity(R[i].media, m) >= Specificity(R[j].media, m)
      BY <1>4, <3>3
    <3> QED
      BY <1>4, <3>2, <3>3, <3>4
  <2>2. Wanted(header, m) = IF header[i].q = NoType THEN Full ELSE header[i].q
    BY <1>1, <1>6, <2>1, WantedIs
  <2>3. Q.q = Wanted(header, m) /\ Q.q \in Int /\ Q.spec \in Int
    BY <1>1, <1>4, <1>6, <2>2
  <2>4. ASSUME Q.spec = 2 PROVE \E e \in Said(header) : Canonical(e.media) = m
    BY <1>1, <1>3, <1>4, <1>6, <2>4
  <2>5. ASSUME NEW e \in Said(header), Canonical(e.media) = m PROVE Q.spec = 2
    <3>1. PICK j \in DOMAIN R : header[j] = e
      BY <1>2
    <3>2. Specificity(R[j].media, m) = 2
      BY <1>1, <1>4, <2>5, <3>1
    <3>3. Q.spec \in {-1, 0, 1, 2} /\ 2 <= Q.spec
      BY <1>4, <1>6, <3>2
    <3> QED
      BY <3>3
  <2> QED
    BY <2>3, <2>4, <2>5
<1>7. \/ /\ \A i \in DOMAIN R : ~Covers(R[i].media, m)
         /\ Q.q = 0 /\ Q.spec = -1
      \/ \E i \in DOMAIN R :
           /\ Covers(R[i].media, m)
           /\ Q.q = R[i].q /\ Q.spec = Specificity(R[i].media, m)
           /\ \A j \in DOMAIN R : Specificity(R[j].media, m) <= Q.spec
  BY <1>1, QualityIs
<1> QED
  BY <1>5, <1>6, <1>7 DEF R, Q

-----------------------------------------------------------------------------
(* What is offered, and how it is spelt.                                    *)

(* The places of a format in the parameter's table. *)
LEMMA FormatsAre ==
    /\ DOMAIN formatParams = 1..6
    /\ formatParams[1] = <<"json", mimeJSON>> /\ formatParams[2] = <<"xml", mimeXML>>
    /\ formatParams[3] = <<"yaml", mimeYAML>> /\ formatParams[4] = <<"yml", mimeYAML>>
    /\ formatParams[5] = <<"csv", mimeCSV>> /\ formatParams[6] = <<"ndjson", mimeNDJSON>>
  BY DEF formatParams

(* The places of a format in what is offered. *)
LEMMA OffersAre ==
    ASSUME NEW offered, offered \in {offers, analyzeOffers}
    PROVE  /\ offered[1] = mimeJSON /\ offered[2] = mimeXML /\ offered[3] = mimeYAML
           /\ \/ DOMAIN offered = 1..3
              \/ DOMAIN offered = 1..5 /\ offered[4] = mimeCSV /\ offered[5] = mimeNDJSON
<1>1. offers = <<mimeJSON, mimeXML, mimeYAML>>
  BY DEF offers
<1>2. /\ DOMAIN analyzeOffers = 1..5
      /\ analyzeOffers[1] = mimeJSON /\ analyzeOffers[2] = mimeXML /\ analyzeOffers[3] = mimeYAML
      /\ analyzeOffers[4] = mimeCSV /\ analyzeOffers[5] = mimeNDJSON
  <2> DEFINE more == <<mimeCSV, mimeNDJSON>>
             T == {mimeJSON, mimeXML, mimeYAML, mimeCSV, mimeNDJSON}
  <2>1. offers \in Seq(T) /\ Len(offers) = 3 /\ more \in Seq(T) /\ Len(more) = 2
        /\ more[1] = mimeCSV /\ more[2] = mimeNDJSON
    BY <1>1
  <2>2. analyzeOffers = offers \o more
    BY DEF analyzeOffers
  <2> HIDE DEF more, T
  <2>3. /\ Len(offers \o more) = 5 /\ offers \o more \in Seq(T)
        /\ \A i \in 1..5 : (offers \o more)[i] = IF i <= 3 THEN offers[i] ELSE more[i - 3]
    <3> HIDE DEF more, T
    <3>1. offers \in Seq(T) /\ more \in Seq(T) /\ Len(offers) = 3 /\ Len(more) = 2
      BY <2>1
    <3> DEFINE all == offers \o more
    <3>2. /\ all \in Seq(T) /\ Len(all) = Len(offers) + Len(more)
          /\ \A i \in 1..Len(offers) + Len(more) :
               all[i] = IF i <= Len(offers) THEN offers[i] ELSE more[i - Len(offers)]
      BY <3>1, ConcatProperties, Zenon
    <3> HIDE DEF all
    <3>3. Len(all) = 5 /\ \A i \in 1..5 : all[i] = IF i <= 3 THEN offers[i] ELSE more[i - 3]
      BY <3>1, <3>2
    <3> QED
      BY <3>2, <3>3 DEF all
  <2> QED
    BY <1>1, <2>1, <2>2, <2>3
<1>3. CASE offered = offers
  BY <1>1, <1>3
<1>4. CASE offered = analyzeOffers
  BY <1>2, <1>4
<1> QED
  BY <1>3, <1>4

(* No two formats are the same. *)
LEMMA FormatsDiffer ==
    /\ mimeJSON # mimeXML /\ mimeJSON # mimeYAML /\ mimeJSON # mimeCSV /\ mimeJSON # mimeNDJSON
    /\ mimeXML # mimeYAML /\ mimeXML # mimeCSV /\ mimeXML # mimeNDJSON
    /\ mimeYAML # mimeCSV /\ mimeYAML # mimeNDJSON /\ mimeCSV # mimeNDJSON
  BY DEF mimeJSON, mimeXML, mimeYAML, mimeCSV, mimeNDJSON

(* No format is a wildcard. *)
LEMMA FormatsPlain ==
    /\ Plainly(mimeJSON) /\ Plainly(mimeXML) /\ Plainly(mimeYAML)
    /\ Plainly(mimeCSV) /\ Plainly(mimeNDJSON) /\ Plainly(mimeHTML)
  BY DEF mimeJSON, mimeXML, mimeYAML, mimeCSV, mimeNDJSON, mimeHTML, Plainly

(* The name that stands for an offer in an error's text. *)
LEMMA NamedFor ==
    ASSUME NEW offered, offered \in {offers, analyzeOffers}
    PROVE  /\ DOMAIN formatParamList(offered) = DOMAIN offered
           /\ \A i \in DOMAIN offered : formatParamList(offered)[i] =
                (CASE i = 1 -> "json" [] i = 2 -> "xml" [] i = 3 -> "yaml"
                   [] i = 4 -> "csv" [] i = 5 -> "ndjson")
<1> DEFINE at(i) == {k \in DOMAIN formatParams : formatParams[k][2] = offered[i]}
           name(i) == formatParams[Min(at(i))][1]
<1>1. formatParamList(offered) = [i \in DOMAIN offered |-> name(i)]
  BY Zenon DEF formatParamList
<1>2. ASSUME NEW i \in DOMAIN offered
      PROVE  name(i) = (CASE i = 1 -> "json" [] i = 2 -> "xml" [] i = 3 -> "yaml"
                   [] i = 4 -> "csv" [] i = 5 -> "ndjson")
  <2> DEFINE k == IF i <= 3 THEN i ELSE i + 1
  <2>1. i \in 1..5
    BY OffersAre
  <2>2. at(i) \subseteq Int
    BY FormatsAre
  <2>3. k \in at(i) /\ \A x \in at(i) : k <= x
    BY <2>1, FormatsAre, OffersAre, FormatsDiffer
  <2> HIDE DEF at
  <2>4. Min(at(i)) = k
    BY <2>2, <2>3, LeastIs
  <2> QED
    BY <2>1, <2>4, FormatsAre
<1> HIDE DEF name
<1> QED
  BY <1>1, <1>2

(***************************************************************************)
(* A format is known when it is named for an offer, or is "yml", and it is *)
(* that offer, or YAML.                                                      *)
(***************************************************************************)
LEMMA FormatsKnown ==
    ASSUME NEW offered, offered \in {offers, analyzeOffers}, NEW name
    PROVE  /\ formatParam(name, offered) # NoType
                <=> name \in Range(formatParamList(offered)) \cup {"yml"}
           /\ formatParam(name, offered) # NoType =>
                \/ name = "yml" /\ formatParam(name, offered) = mimeYAML
                \/ \E i \in DOMAIN offered :
                     /\ name = formatParamList(offered)[i]
                     /\ formatParam(name, offered) = offered[i]
<1> DEFINE named == {p \in Range(formatParams) : p[1] = name /\ p[2] \in Range(offered)}
           its == CHOOSE p \in named : TRUE
<1>1. formatParam(name, offered) = IF named = {} THEN NoType ELSE its[2]
  BY Zenon DEF formatParam
<1>2. Range(offered) = {offered[i] : i \in DOMAIN offered}
      /\ Range(formatParams) = {formatParams[i] : i \in DOMAIN formatParams}
      /\ Range(formatParamList(offered)) = {formatParamList(offered)[i] : i \in DOMAIN offered}
  BY NamedFor DEF Range
<1>3. named # {} => its[2] # NoType
  <2>1. named # {} => its \in named
    OBVIOUS
  <2>2. \A p \in Range(formatParams) : p[2] # NoType
    BY <1>2, FormatsAre, NegotiationAssumption
  <2> QED
    BY <2>1, <2>2
<1>4. named # {} <=> \E k \in 1..6 : formatParams[k][1] = name /\ \E i \in DOMAIN offered : formatParams[k][2] = offered[i]
  BY <1>2, FormatsAre
<1>7. ASSUME named # {}
      PROVE  \E k \in 1..6 : \E i \in DOMAIN offered :
               formatParams[k][1] = name /\ formatParams[k][2] = offered[i] /\ its[2] = offered[i]
  <2>1. its \in named
    BY <1>7, Zenon
  <2> HIDE DEF its
  <2> QED
    BY <1>2, <2>1, FormatsAre
<1> HIDE DEF named, its
<1>5. CASE DOMAIN offered = 1..3
  <2>1. named # {} <=> name \in {"json", "xml", "yaml", "yml"}
    BY <1>4, <1>5, FormatsAre, OffersAre, FormatsDiffer
  <2>2. Range(formatParamList(offered)) = {"json", "xml", "yaml"}
    BY <1>2, <1>5, NamedFor
  <2>3. ASSUME named # {}
        PROVE  \/ name = "yml" /\ its[2] = mimeYAML
               \/ \E i \in DOMAIN offered : name = formatParamList(offered)[i] /\ its[2] = offered[i]
    <3>1. PICK k \in 1..6 : \E i \in 1..3 :
            formatParams[k][1] = name /\ formatParams[k][2] = offered[i] /\ its[2] = offered[i]
      BY <1>5, <1>7, <2>3
    <3>2. \/ k = 1 /\ its[2] = offered[1]
          \/ k = 2 /\ its[2] = offered[2]
          \/ k = 3 /\ its[2] = offered[3]
          \/ k = 4 /\ its[2] = mimeYAML
      BY <3>1, FormatsAre, OffersAre, FormatsDiffer
    <3> QED
      BY <1>5, <3>1, <3>2, FormatsAre, NamedFor
  <2> QED
    BY <1>1, <1>3, <2>1, <2>2, <2>3
<1>6. CASE DOMAIN offered = 1..5 /\ offered[4] = mimeCSV /\ offered[5] = mimeNDJSON
  <2>1. named # {} <=> name \in {"json", "xml", "yaml", "yml", "csv", "ndjson"}
    BY <1>4, <1>6, FormatsAre, OffersAre, FormatsDiffer
  <2>2. Range(formatParamList(offered)) = {"json", "xml", "yaml", "csv", "ndjson"}
    BY <1>2, <1>6, NamedFor
  <2>3. ASSUME named # {}
        PROVE  \/ name = "yml" /\ its[2] = mimeYAML
               \/ \E i \in DOMAIN offered : name = formatParamList(offered)[i] /\ its[2] = offered[i]
    <3>1. PICK k \in 1..6 : \E i \in 1..5 :
            formatParams[k][1] = name /\ formatParams[k][2] = offered[i] /\ its[2] = offered[i]
      BY <1>6, <1>7, <2>3
    <3>2. \/ k = 1 /\ its[2] = offered[1]
          \/ k = 2 /\ its[2] = offered[2]
          \/ k = 3 /\ its[2] = offered[3]
          \/ k = 4 /\ its[2] = mimeYAML
          \/ k = 5 /\ its[2] = offered[4]
          \/ k = 6 /\ its[2] = offered[5]
      BY <1>6, <3>1, FormatsAre, OffersAre, FormatsDiffer
    <3> QED
      BY <1>6, <3>1, <3>2, FormatsAre, NamedFor
  <2> QED
    BY <1>1, <1>3, <2>1, <2>2, <2>3
<1> QED
  BY <1>5, <1>6, OffersAre

-----------------------------------------------------------------------------
(* The format of an answer.                                                 *)

(* Some offer is wanted most. *)
LEMMA MostWanted ==
    ASSUME NEW Media, NEW header \in Headers(Media), Unambiguous(header),
           NEW offered, offered \in {offers, analyzeOffers}
    PROVE  /\ \A i \in DOMAIN offered : Wanted(header, offered[i]) \in Int
           /\ \E i \in DOMAIN offered : \A j \in DOMAIN offered :
                Wanted(header, offered[j]) <= Wanted(header, offered[i])
<1> DEFINE W(i) == Wanted(header, offered[i])
<1>1. ASSUME NEW i \in DOMAIN offered PROVE W(i) \in Int
  <2>1. Plainly(offered[i])
    BY OffersAre, FormatsPlain
  <2> QED
    BY <2>1, QualityIsWanted
<1> HIDE DEF W
<1> DEFINE more(i, j) == IF W(i) <= W(j) THEN j ELSE i
           most3 == more(more(1, 2), 3)
           most5 == more(more(most3, 4), 5)
<1>2. ASSUME DOMAIN offered = 1..3
      PROVE  most3 \in 1..3 /\ \A j \in 1..3 : W(j) <= W(most3)
  <2>1. W(1) \in Int /\ W(2) \in Int /\ W(3) \in Int
    BY <1>1, <1>2
  <2> QED
    BY <2>1
<1>3. ASSUME DOMAIN offered = 1..5
      PROVE  most5 \in 1..5 /\ \A j \in 1..5 : W(j) <= W(most5)
  <2>1. W(1) \in Int /\ W(2) \in Int /\ W(3) \in Int /\ W(4) \in Int /\ W(5) \in Int
    BY <1>1, <1>3
  <2> QED
    BY <2>1
<1> HIDE DEF most3, most5
<1>4. \E i \in DOMAIN offered : \A j \in DOMAIN offered : W(j) <= W(i)
  BY <1>2, <1>3, OffersAre
<1> QED
  BY <1>1, <1>4 DEF W

(* What negotiate.go:119-156 picks, in the words of RFC 9110. *)
LEMMA NegotiateIs ==
    ASSUME NEW Media, NEW header \in Headers(Media), Unambiguous(header),
           NEW offered, offered \in {offers, analyzeOffers}
    PROVE  LET W(i) == Wanted(header, offered[i])
               out == negotiate(header, offered)
               html == \E e \in Said(header) : e.media = mimeHTML
           IN  /\ Said(header) = {} => out = mimeJSON
               /\ \A i \in DOMAIN offered :
                    Said(header) # {} /\ (\A j \in DOMAIN offered : W(j) <= W(i)) =>
                      /\ W(i) <= 0 => out = NoType
                      /\ W(i) > 0 /\ html /\ W(i) <= Wanted(header, mimeHTML) => out = mimeJSON
                      /\ W(i) > 0 /\ ~(html /\ W(i) <= Wanted(header, mimeHTML)) =>
                           \E k \in DOMAIN offered :
                             /\ out = offered[k] /\ W(k) = W(i)
                             /\ \A j \in DOMAIN offered : W(j) = W(i) => k <= j
<1> DEFINE W(i) == Wanted(header, offered[i])
           out == negotiate(header, offered)
           html == \E e \in Said(header) : e.media = mimeHTML
           R == parseAccept(header)
           weight(i) == quality(offered[i], R).q
           S == {weight(i) : i \in DOMAIN offered}
           bestQ == Max(S)
           H == quality(mimeHTML, R)
           best == {i \in DOMAIN offered : weight(i) = bestQ}
<1>1. out = CASE DOMAIN R = {}                   -> offered[1]
              [] DOMAIN R # {} /\ bestQ <= 0     -> NoType
              [] DOMAIN R # {} /\ bestQ > 0      ->
                   IF H.spec = 2 /\ H.q >= bestQ THEN mimeJSON ELSE offered[Min(best)]
  BY Zenon DEF negotiate
<1>2. DOMAIN R = {} <=> Said(header) = {}
  <2>1. DOMAIN R = {i \in DOMAIN header : header[i].media # NoType}
    BY RangesOf
  <2> HIDE DEF R
  <2> QED
    BY <2>1 DEF Said, Range
<1>3. ASSUME NEW i \in DOMAIN offered PROVE weight(i) = W(i) /\ W(i) \in Int
  <2>1. Plainly(offered[i])
    BY OffersAre, FormatsPlain
  <2> QED
    BY <2>1, QualityIsWanted
<1>4. H.q = Wanted(header, mimeHTML) /\ H.q \in Int /\ (H.spec = 2 <=> html)
  <2>1. /\ H.q = Wanted(header, mimeHTML) /\ H.q \in Int
        /\ H.spec = 2 <=> \E e \in Said(header) : Canonical(e.media) = mimeHTML
    BY FormatsPlain, QualityIsWanted
  <2>2. \A e \in Said(header) : Canonical(e.media) = mimeHTML <=> e.media = mimeHTML
    BY CanonicalIs DEF Said
  <2> HIDE DEF H
  <2> QED
    BY <2>1, <2>2
<1> HIDE DEF H, R, W, weight, html
<1>5. ASSUME NEW i \in DOMAIN offered, \A j \in DOMAIN offered : W(j) <= W(i)
      PROVE  bestQ = W(i)
  <2>1. S \subseteq Int /\ W(i) \in S /\ \A x \in S : x <= W(i)
    BY <1>3, <1>5
  <2> HIDE DEF S
  <2> QED
    BY <2>1, MostIs
<1>6. ASSUME Said(header) = {} PROVE out = mimeJSON
  BY <1>1, <1>2, <1>6, OffersAre
<1>7. ASSUME NEW i \in DOMAIN offered, \A j \in DOMAIN offered : W(j) <= W(i), Said(header) # {}
      PROVE  /\ W(i) <= 0 => out = NoType
             /\ W(i) > 0 /\ html /\ W(i) <= Wanted(header, mimeHTML) => out = mimeJSON
             /\ W(i) > 0 /\ ~(html /\ W(i) <= Wanted(header, mimeHTML)) =>
                  \E k \in DOMAIN offered :
                     /\ out = offered[k] /\ W(k) = W(i)
                     /\ \A j \in DOMAIN offered : W(j) = W(i) => k <= j
  <2>1. bestQ = W(i) /\ W(i) \in Int
    BY <1>3, <1>5, <1>7
  <2>2. out = IF W(i) <= 0 THEN NoType
              ELSE IF html /\ W(i) <= Wanted(header, mimeHTML) THEN mimeJSON ELSE offered[Min(best)]
    <3> HIDE DEF best, bestQ, out
    <3>1. DOMAIN R # {}
      BY <1>2, <1>7
    <3>2. CASE W(i) <= 0
      BY <1>1, <2>1, <3>1, <3>2
    <3>3. CASE W(i) > 0
      BY <1>1, <1>4, <2>1, <3>1, <3>3
    <3> QED
      BY <2>1, <3>2, <3>3
  <2>3. Min(best) \in best /\ \A j \in best : Min(best) <= j
    <3>1. best \subseteq Nat /\ i \in best
      BY <1>3, <1>7, <2>1, OffersAre
    <3> HIDE DEF best
    <3> QED
      BY <3>1, LeastIn
  <2>4. Min(best) \in DOMAIN offered /\ W(Min(best)) = W(i)
        /\ \A j \in DOMAIN offered : W(j) = W(i) => Min(best) <= j
    <3>1. \A j \in DOMAIN offered : j \in best <=> W(j) = W(i)
      BY <1>3, <2>1
    <3>2. best \subseteq DOMAIN offered
      OBVIOUS
    <3> HIDE DEF best
    <3> QED
      BY <2>3, <3>1, <3>2
  <2> HIDE DEF best, out, bestQ
  <2> QED
    BY <2>1, <2>2, <2>4
<1> QED
  BY <1>6, <1>7, Zenon DEF W, out, html

(* For every header whose ranges are told apart. *)
THEOREM NegotiationIsRight ==
    ASSUME given.part = "header",
           NEW Media, given.header \in Headers(Media),
           given.offered \in {offers, analyzeOffers}
    PROVE  NegotiatesAsAsked
<1> DEFINE header == given.header
           offered == given.offered
           out == negotiateMedia(given.format, header, offered)
           wanted == [m \in Range(offered) |-> Wanted(header, m)]
           html == \E e \in Said(header) : e.media = mimeHTML
           browser == \E e \in Said(header) :
                        /\ e.media = mimeHTML
                        /\ \A m \in DOMAIN wanted : wanted[m] <= Wanted(header, mimeHTML)
           first == negotiate(header, offered)
           W(i) == Wanted(header, offered[i])
<1> SUFFICES ASSUME Unambiguous(header)
             PROVE  IF given.format # NoType
                    THEN /\ (out.status = 200) =
                              (given.format \in Range(formatParamList(offered)) \cup {"yml"})
                         /\ out.status = 200 =>
                              \/ given.format = "yml" /\ out.format = mimeYAML
                              \/ \E i \in DOMAIN offered :
                                   /\ given.format = formatParamList(offered)[i]
                                   /\ out.format = offered[i]
                    ELSE /\ (out.status = 406) = (Said(header) # {} /\ \A m \in DOMAIN wanted : wanted[m] <= 0)
                         /\ out.status = 200 =>
                              /\ out.format \in DOMAIN wanted
                              /\ \/ Said(header) = {} /\ out.format = mimeJSON
                                 \/ browser /\ out.format = mimeJSON
                                 \/ /\ ~browser
                                    /\ wanted[out.format] > 0
                                    /\ \A m \in DOMAIN wanted : wanted[m] <= wanted[out.format]
                                    /\ wanted[mimeJSON] = wanted[out.format] => out.format = mimeJSON
  BY DEF NegotiatesAsAsked
<1>1. CASE given.format # NoType
  <2>1. out = (CASE formatParam(given.format, offered) # NoType ->
                      [status |-> 200, format |-> formatParam(given.format, offered)]
                 [] formatParam(given.format, offered) = NoType -> [status |-> 400, format |-> mimeJSON])
    BY <1>1 DEF negotiateMedia
  <2>2. /\ out.status = 200 <=> formatParam(given.format, offered) # NoType
        /\ out.status = 200 => out.format = formatParam(given.format, offered)
    BY <2>1
  <2> HIDE DEF out
  <2>3. (out.status = 200) = (given.format \in Range(formatParamList(offered)) \cup {"yml"})
    BY <2>2, FormatsKnown
  <2>4. out.status = 200 =>
          \/ given.format = "yml" /\ out.format = mimeYAML
          \/ \E i \in DOMAIN offered :
               given.format = formatParamList(offered)[i] /\ out.format = offered[i]
    BY <2>2, FormatsKnown
  <2> QED
    BY <1>1, <2>3, <2>4
<1>2. CASE given.format = NoType
  <2>1. out = (CASE first # NoType -> [status |-> 200, format |-> first]
                 [] first = NoType -> [status |-> 406, format |-> mimeJSON])
    BY <1>2 DEF negotiateMedia
  <2>2. /\ out.status = 200 <=> first # NoType
        /\ out.status = 406 <=> first = NoType
        /\ out.status = 200 => out.format = first
    BY <2>1
  <2> HIDE DEF out
  <2>3. DOMAIN wanted = Range(offered) /\ \A i \in DOMAIN offered : wanted[offered[i]] = W(i)
    BY DEF Range
  <2>4. \A m \in DOMAIN wanted : \E i \in DOMAIN offered : m = offered[i]
    BY DEF Range
  <2>5. \A i \in DOMAIN offered : offered[i] \in DOMAIN wanted
    BY DEF Range
  <2> HIDE DEF wanted, W
  <2>6. PICK b \in DOMAIN offered : \A j \in DOMAIN offered : W(j) <= W(b)
    BY MostWanted DEF W
  <2>7. \A i \in DOMAIN offered : W(i) \in Int
    BY MostWanted DEF W
  <2>8. offered[1] = mimeJSON /\ 1 \in DOMAIN offered /\ DOMAIN offered \subseteq 1..5
        /\ \A i \in DOMAIN offered : offered[i] # NoType
    BY OffersAre, NegotiationAssumption
  <2>9. Wanted(header, mimeHTML) \in Int
    BY FormatsPlain, QualityIsWanted
  <2>10. browser <=> html /\ W(b) <= Wanted(header, mimeHTML)
    <3>1. (\A m \in DOMAIN wanted : wanted[m] <= Wanted(header, mimeHTML)) <=> W(b) <= Wanted(header, mimeHTML)
      BY <2>3, <2>4, <2>5, <2>6, <2>7, <2>9
    <3> QED
      BY <3>1
  <2>11. (\A m \in DOMAIN wanted : wanted[m] <= 0) <=> W(b) <= 0
    BY <2>3, <2>4, <2>5, <2>6, <2>7
  <2>12. /\ Said(header) = {} => first = mimeJSON
         /\ Said(header) # {} =>
              /\ W(b) <= 0 => first = NoType
              /\ W(b) > 0 /\ html /\ W(b) <= Wanted(header, mimeHTML) => first = mimeJSON
              /\ W(b) > 0 /\ ~(html /\ W(b) <= Wanted(header, mimeHTML)) =>
                   \E k \in DOMAIN offered :
                     /\ first = offered[k] /\ W(k) = W(b)
                     /\ \A j \in DOMAIN offered : W(j) = W(b) => k <= j
    BY <2>6, NegotiateIs DEF W
  <2> HIDE DEF first, html, browser, header, offered
  <2>13. CASE Said(header) = {}
    BY <1>2, <2>2, <2>5, <2>8, <2>12, <2>13
  <2>14. CASE Said(header) # {} /\ W(b) <= 0
    BY <1>2, <2>2, <2>11, <2>12, <2>14
  <2>15. CASE Said(header) # {} /\ W(b) > 0 /\ html /\ W(b) <= Wanted(header, mimeHTML)
    <3>1. ~(W(b) <= 0)
      BY <2>7, <2>15
    <3> QED
      BY <1>2, <2>2, <2>5, <2>8, <2>10, <2>11, <2>12, <2>15, <3>1
  <2>16. CASE Said(header) # {} /\ W(b) > 0 /\ ~(html /\ W(b) <= Wanted(header, mimeHTML))
    <3>1. PICK k \in DOMAIN offered :
                     /\ first = offered[k] /\ W(k) = W(b)
                     /\ \A j \in DOMAIN offered : W(j) = W(b) => k <= j
      BY <2>12, <2>16
    <3>2. wanted[first] = W(b) /\ first \in DOMAIN wanted /\ first # NoType
      BY <2>3, <2>5, <2>8, <3>1
    <3>3. \A m \in DOMAIN wanted : wanted[m] <= wanted[first]
      BY <2>3, <2>4, <2>6, <3>2
    <3>4. wanted[mimeJSON] = wanted[first] => first = mimeJSON
      <4> SUFFICES ASSUME W(1) = W(b) PROVE first = mimeJSON
        BY <2>3, <2>8, <3>2
      <4>1. k <= 1 /\ k \in 1..5
        BY <2>8, <3>1
      <4> QED
        BY <2>8, <3>1, <4>1
    <3>5. ~(W(b) <= 0) /\ wanted[first] > 0
      BY <2>7, <2>16, <3>2
    <3> QED
      BY <1>2, <2>2, <2>10, <2>11, <2>16, <3>2, <3>3, <3>4, <3>5
  <2> QED
    BY <1>2, <2>7, <2>13, <2>14, <2>15, <2>16 DEF out, wanted, html, browser, header, offered, first
<1> QED
  BY <1>1, <1>2

-----------------------------------------------------------------------------
(* The windows of the connectors.                                           *)

(* Rounding up to a unit adds less than the unit.                           *)
LEMMA RoundsUp ==
    ASSUME NEW secs \in Nat, NEW unit \in Nat \ {0}
    PROVE  Rounded(secs, unit) \in Nat /\ secs <= Rounded(secs, unit) /\ Rounded(secs, unit) - secs < unit
<1> DEFINE k == (secs + unit - 1) \div unit
<1>1. k \in Nat /\ k * unit <= secs + unit - 1 /\ secs + unit - 1 < (k + 1) * unit
  OBVIOUS
<1>2. (k + 1) * unit = k * unit + unit /\ k * unit \in Nat
  BY <1>1
<1> HIDE DEF k
<1>3. secs <= k * unit /\ k * unit - secs < unit
  BY <1>1, <1>2
<1> QED
  BY <1>2, <1>3 DEF Rounded, k

(* A window that covers the one wanted and is the least that GDELT takes, or
   goes beyond it by less than a unit: a minute, an hour from two hours on, a
   day from three days on.                                                  *)
CoversTightly(span, secs) ==
    /\ span \in Nat /\ secs <= span
    /\ \/ span = 15 * Minute
       \/ span - secs < Minute
       \/ secs >= 2 * Hour /\ span - secs < Hour
       \/ secs >= 3 * Day /\ span - secs < Day

(***************************************************************************)
(* The window GDELT is asked for covers the one wanted, however long, and  *)
(* goes beyond it by less than the unit GDELT is asked in (gdelt.go).      *)
(***************************************************************************)
THEOREM GdeltWindowCovers ==
    ASSUME NEW secs \in Nat
    PROVE  CoversTightly(gdeltTimespan(secs), secs)
<1>1. Minute = 60 /\ Hour = 3600 /\ Day = 86400
  BY DEF Minute, Hour, Day
<1>2. CASE secs < 2 * Hour
  <2> DEFINE r == Rounded(secs, Minute)
             span == gdeltTimespan(secs)
  <2>1. r \in Nat /\ secs <= r /\ r - secs < Minute
    BY <1>1, RoundsUp
  <2>2. span = Max({15 * Minute, r})
    BY <1>1, <1>2 DEF gdeltTimespan
  <2> HIDE DEF r, span
  <2>3. 15 * Minute \in Int
    BY <1>1
  <2>4. span = IF 15 * Minute <= r THEN r ELSE 15 * Minute
    BY <2>1, <2>2, <2>3, OfTwo
  <2>5. span \in Nat /\ secs <= span /\ (span = 15 * Minute \/ span - secs < Minute)
    BY <1>1, <2>1, <2>4
  <2> QED
    BY <2>5 DEF CoversTightly, span
<1>3. CASE secs >= 2 * Hour /\ secs < 72 * Hour
  <2> DEFINE r == Rounded(secs, Hour)
  <2>1. r \in Nat /\ secs <= r /\ r - secs < Hour
    BY <1>1, RoundsUp
  <2>2. gdeltTimespan(secs) = r
    BY <1>1, <1>3 DEF gdeltTimespan
  <2> HIDE DEF r
  <2> QED
    BY <1>3, <2>1, <2>2 DEF CoversTightly
<1>4. CASE secs >= 72 * Hour
  <2> DEFINE r == Rounded(secs, Day)
  <2>1. r \in Nat /\ secs <= r /\ r - secs < Day
    BY <1>1, RoundsUp
  <2>2. gdeltTimespan(secs) = r
    BY <1>1, <1>4 DEF gdeltTimespan
  <2>3. secs >= 3 * Day
    BY <1>1, <1>4
  <2> HIDE DEF r
  <2> QED
    BY <2>1, <2>2, <2>3 DEF CoversTightly
<1> QED
  BY <1>1, <1>2, <1>3, <1>4

(***************************************************************************)
(* Of Reddit's named windows the smallest that covers the one wanted is    *)
(* asked for, and all of time if none does (reddit.go).                     *)
(***************************************************************************)
THEOREM RedditWindowCovers ==
    ASSUME NEW secs \in Nat
    PROVE  IF \A w \in redditWindows : w < secs THEN redditTimeWindow(secs) = Forever
           ELSE /\ redditTimeWindow(secs) \in redditWindows
                /\ redditTimeWindow(secs) >= secs
                /\ \A w \in redditWindows : w >= secs => w >= redditTimeWindow(secs)
<1> DEFINE covering == {w \in redditWindows : secs <= w}
<1>1. redditWindows = {3600, 86400, 604800, 2592000, 31536000}
  BY DEF redditWindows, Hour, Day, Minute
<1>2. redditTimeWindow(secs) = IF covering = {} THEN Forever ELSE Min(covering)
  BY Zenon DEF redditTimeWindow
<1>3. covering \subseteq Int
  BY <1>1
<1>4. covering # {} => \E m \in covering : \A x \in covering : m <= x
  BY <1>1
<1>5. covering # {} => Min(covering) \in covering /\ \A x \in covering : Min(covering) <= x
  BY <1>3, <1>4, LeastIs
<1> QED
  BY <1>1, <1>2, <1>5

-----------------------------------------------------------------------------
(* A search asks a host for so many posts from then on, with this key.      *)
Sends(r, limit, span, key, host) ==
    r.limit = limit /\ r.span = span /\ r.key = key /\ r.host = host

(* What a search asks for is what its connector puts together.              *)
LEMMA AskedFor ==
    ASSUME NEW limit, NEW span, NEW narrowed, NEW key, NEW host, NEW docs,
           NEW r \in Asked(limit, span, narrowed, key, host, docs)
    PROVE  Sends(r, limit, span, key, host)
  BY DEF Asked, Sends

(* A limit is the caller's, or a default, and never above the platform's.   *)
LEMMA Clamps ==
    ASSUME NEW wanted \in Int, NEW default \in Nat \ {0}, NEW cap \in Nat \ {0}
    PROVE  /\ Clamped(wanted, default, cap) \in 1..cap
           /\ wanted > 0 => Clamped(wanted, default, cap) <= wanted
<1> DEFINE w == IF wanted <= 0 THEN default ELSE wanted
<1>1. w \in Int /\ w > 0
  OBVIOUS
<1>2. Clamped(wanted, default, cap) = Min({w, cap})
  BY Zenon DEF Clamped
<1>3. Min({w, cap}) = IF w <= cap THEN w ELSE cap
  BY <1>1, OfTwo
<1> QED
  BY <1>2, <1>3

(* The keys a search on a platform may send.                                *)
MaySend(p, key, cfg, creds) ==
    \/ p \in Keyless /\ key = ""
    \/ p = "reddit" /\ key = cfg.Reddit
    \/ p = "twitter" /\ key = cfg.Twitter
    \/ p = "youtube" /\ key \in {cfg.YouTube, creds.YouTubeAPIKey}
    \/ p = "mastodon" /\ key \in {cfg.Mastodon.AccessToken, creds.MastodonToken}

(* The hosts a search may send it to.                                       *)
MayReach(p, host, key, cfg, creds, public) ==
    \/ p # "mastodon" /\ host = p
    \/ p = "mastodon" /\ host = cfg.Mastodon.Instance
    \/ /\ p = "mastodon" /\ host = creds.MastodonInstance /\ host \in public
       /\ key = creds.MastodonToken /\ key # ""

(* What may be asked for.                                                   *)
WithinLimit(limit, wanted) == limit > 0 /\ (wanted > 0 => limit <= wanted)

(* The window it is asked for in.                                            *)
Windowed(p, span, since) ==
    \/ span = Forever /\ (since <= 0 \/ p \in {"mastodon", "mock", "rss", "stocktwits"})
    \/ span = Duration(since) /\ since > 0 /\ p \in {"bluesky", "hackernews", "twitter", "youtube"}
    \/ span = gdeltTimespan(since) /\ since > 0 /\ p = "gdelt"
    \/ span = redditTimeWindow(since) /\ since > 0 /\ p = "reddit"

(* A search that keeps to all four.                                         *)
Home(r, p, q, cfg, public) ==
    /\ WithinLimit(r.limit, q.limit)
    /\ Windowed(p, r.span, q.since)
    /\ MaySend(p, r.key, cfg, q.creds)
    /\ MayReach(p, r.host, r.key, cfg, q.creds, public)

(* A search that goes to its own platform keeps to them if its key does.    *)
LEMMA SentHome ==
    ASSUME NEW r, NEW p, NEW q, NEW cfg, NEW public, NEW limit, NEW span, NEW key,
           Sends(r, limit, span, key, p), p # "mastodon",
           WithinLimit(limit, q.limit), Windowed(p, span, q.since), MaySend(p, key, cfg, q.creds)
    PROVE  Home(r, p, q, cfg, public)
  BY Zenon DEF Sends, MayReach, Home

(***************************************************************************)
(* Whatever the caller sends: a key goes to the platform it is a key of,   *)
(* or to the operator's own Mastodon instance; an instance the caller      *)
(* names is a public one and sees the caller's token alone                  *)
(* (mastodon.go:55-69); a platform without keys is sent none; no more      *)
(* posts are asked for than the caller wants, and those from the window    *)
(* the platform has for the one wanted.                                     *)
(***************************************************************************)
THEOREM KeysGoHome ==
    ASSUME NEW cfg, NEW q, q.limit \in Int, q.since \in Int, NEW public, NEW posts,
           NEW p \in BuildRegistry(cfg), NEW r \in SearchOf(p, q, cfg, public, posts)
    PROVE  Home(r, p, q, cfg, public)
<1>1. \A wanted \in Int : \A default \in Nat \ {0} : \A cap \in Nat \ {0} :
        WithinLimit(Clamped(wanted, default, cap), wanted)
  <2> TAKE wanted \in Int, default \in Nat \ {0}, cap \in Nat \ {0}
  <2> QED
    BY Clamps DEF WithinLimit
<1>2. CASE p = "bluesky"
  <2> DEFINE limit == Clamped(q.limit, 25, 100)
             span == Since(q.since)
             key == ""
  <2>1. r \in Bluesky(q, posts)
    BY <1>2, SMT DEF SearchOf
  <2>2. Sends(r, limit, span, key, "bluesky")
    BY <2>1, AskedFor, Zenon DEF Bluesky
  <2>3. Sends(r, limit, span, key, p)
    <3> HIDE DEF limit, span, key
    <3> QED
      BY <1>2, <2>2, Zenon
  <2>4. WithinLimit(limit, q.limit)
    BY <1>1
  <2>5. Windowed(p, span, q.since)
    BY <1>2 DEF Windowed, Since
  <2>6. MaySend(p, key, cfg, q.creds)
    BY <1>2 DEF MaySend, Keyless
  <2>7. p # "mastodon"
    BY <1>2
  <2> HIDE DEF limit, span, key
  <2> QED
    BY <2>3, <2>4, <2>5, <2>6, <2>7, SentHome, Zenon
<1>3. CASE p = "gdelt"
  <2> DEFINE limit == Clamped(q.limit, 25, 250)
             span == IF q.since > 0 THEN gdeltTimespan(q.since) ELSE Forever
             key == ""
             country == countryFIPS(q.location)
             place == IF country = "" THEN andLocation(q.location) ELSE {<<"sourcecountry", country>>}
             language == IF q.language \in gdeltLangs THEN inLanguage(q.language) ELSE {}
             narrowed == place \cup language
             docs == DocumentsOf(Those(posts, LAMBDA post : TrimSpace(post.title) # ""))
  <2>1. r \in GDELT(q, posts)
    BY <1>3, SMT DEF SearchOf
  <2>2. GDELT(q, posts) = Asked(limit, span, narrowed, "", "gdelt", docs)
    BY Zenon DEF GDELT
  <2> HIDE DEF country, place, language, narrowed, docs
  <2>3. Sends(r, limit, span, key, p)
    <3> HIDE DEF limit, span
    <3> QED
      BY <1>3, <2>1, <2>2, AskedFor, Zenon
  <2>4. WithinLimit(limit, q.limit)
    BY <1>1
  <2>5. Windowed(p, span, q.since)
    BY <1>3 DEF Windowed
  <2>6. MaySend(p, key, cfg, q.creds)
    BY <1>3 DEF MaySend, Keyless
  <2>7. p # "mastodon"
    BY <1>3
  <2> HIDE DEF limit, span, key
  <2> QED
    BY <2>3, <2>4, <2>5, <2>6, <2>7, SentHome, Zenon
<1>4. CASE p = "hackernews"
  <2> DEFINE limit == Clamped(q.limit, 20, 100)
             span == Since(q.since)
             key == ""
  <2>1. r \in HackerNews(q, posts)
    BY <1>4, SMT DEF SearchOf
  <2>2. Sends(r, limit, span, key, "hackernews")
    BY <2>1, AskedFor, Zenon DEF HackerNews
  <2>3. Sends(r, limit, span, key, p)
    <3> HIDE DEF limit, span, key
    <3> QED
      BY <1>4, <2>2, Zenon
  <2>4. WithinLimit(limit, q.limit)
    BY <1>1
  <2>5. Windowed(p, span, q.since)
    BY <1>4 DEF Windowed, Since
  <2>6. MaySend(p, key, cfg, q.creds)
    BY <1>4 DEF MaySend, Keyless
  <2>7. p # "mastodon"
    BY <1>4
  <2> HIDE DEF limit, span, key
  <2> QED
    BY <2>3, <2>4, <2>5, <2>6, <2>7, SentHome, Zenon
<1>5. CASE p = "mock"
  <2> DEFINE limit == Clamped(q.limit, 8, 8)
             span == Forever
             key == ""
  <2>1. r \in Mock(q)
    BY <1>5, SMT DEF SearchOf
  <2>2. Sends(r, limit, span, key, "mock")
    BY <2>1, AskedFor, Zenon DEF Mock
  <2>3. Sends(r, limit, span, key, p)
    <3> HIDE DEF limit, span, key
    <3> QED
      BY <1>5, <2>2, Zenon
  <2>4. WithinLimit(limit, q.limit)
    BY <1>1
  <2>5. Windowed(p, span, q.since)
    BY <1>5 DEF Windowed
  <2>6. MaySend(p, key, cfg, q.creds)
    BY <1>5 DEF MaySend, Keyless
  <2>7. p # "mastodon"
    BY <1>5
  <2> HIDE DEF limit, span, key
  <2> QED
    BY <2>3, <2>4, <2>5, <2>6, <2>7, SentHome, Zenon
<1>6. CASE p = "reddit"
  <2> DEFINE limit == Clamped(q.limit, 25, 100)
             span == IF q.since > 0 THEN redditTimeWindow(q.since) ELSE Forever
             key == cfg.Reddit
  <2>1. r \in Reddit(q, cfg, posts)
    BY <1>6, SMT DEF SearchOf
  <2>2. Sends(r, limit, span, key, "reddit")
    BY <2>1, AskedFor, Zenon DEF Reddit
  <2>3. Sends(r, limit, span, key, p)
    <3> HIDE DEF limit, span, key
    <3> QED
      BY <1>6, <2>2, Zenon
  <2>4. WithinLimit(limit, q.limit)
    BY <1>1
  <2>5. Windowed(p, span, q.since)
    BY <1>6 DEF Windowed
  <2>6. MaySend(p, key, cfg, q.creds)
    BY <1>6 DEF MaySend, Keyless
  <2>7. p # "mastodon"
    BY <1>6
  <2> HIDE DEF limit, span, key
  <2> QED
    BY <2>3, <2>4, <2>5, <2>6, <2>7, SentHome, Zenon
<1>7. CASE p = "rss"
  <2> DEFINE limit == IF q.limit <= 0 THEN 30 ELSE q.limit
             span == Forever
             key == ""
  <2>1. r \in RSS(q, posts)
    BY <1>7, SMT DEF SearchOf
  <2>2. Sends(r, limit, span, key, "rss")
    BY <2>1, AskedFor, Zenon DEF RSS
  <2>3. Sends(r, limit, span, key, p)
    <3> HIDE DEF limit, span, key
    <3> QED
      BY <1>7, <2>2, Zenon
  <2>4. WithinLimit(limit, q.limit)
    BY DEF WithinLimit
  <2>5. Windowed(p, span, q.since)
    BY <1>7 DEF Windowed
  <2>6. MaySend(p, key, cfg, q.creds)
    BY <1>7 DEF MaySend, Keyless
  <2>7. p # "mastodon"
    BY <1>7
  <2> HIDE DEF limit, span, key
  <2> QED
    BY <2>3, <2>4, <2>5, <2>6, <2>7, SentHome, Zenon
<1>8. CASE p = "stocktwits"
  <2> DEFINE limit == Clamped(q.limit, 30, 30)
             span == Forever
             key == ""
  <2>1. r \in StockTwits(q, posts)
    BY <1>8, SMT DEF SearchOf
  <2>2. Sends(r, limit, span, key, "stocktwits")
    BY <2>1, AskedFor, Zenon DEF StockTwits
  <2>3. Sends(r, limit, span, key, p)
    <3> HIDE DEF limit, span, key
    <3> QED
      BY <1>8, <2>2, Zenon
  <2>4. WithinLimit(limit, q.limit)
    BY <1>1
  <2>5. Windowed(p, span, q.since)
    BY <1>8 DEF Windowed
  <2>6. MaySend(p, key, cfg, q.creds)
    BY <1>8 DEF MaySend, Keyless
  <2>7. p # "mastodon"
    BY <1>8
  <2> HIDE DEF limit, span, key
  <2> QED
    BY <2>3, <2>4, <2>5, <2>6, <2>7, SentHome, Zenon
<1>9. CASE p = "twitter"
  <2> DEFINE limit == Clamped(q.limit, 25, 100)
             span == Since(q.since)
             key == cfg.Twitter
  <2>1. r \in Twitter(q, cfg, posts)
    BY <1>9, SMT DEF SearchOf
  <2>2. Sends(r, limit, span, key, "twitter")
    BY <2>1, AskedFor, Zenon DEF Twitter
  <2>3. Sends(r, limit, span, key, p)
    <3> HIDE DEF limit, span, key
    <3> QED
      BY <1>9, <2>2, Zenon
  <2>4. WithinLimit(limit, q.limit)
    BY <1>1
  <2>5. Windowed(p, span, q.since)
    BY <1>9 DEF Windowed, Since
  <2>6. MaySend(p, key, cfg, q.creds)
    BY <1>9 DEF MaySend, Keyless
  <2>7. p # "mastodon"
    BY <1>9
  <2> HIDE DEF limit, span, key
  <2> QED
    BY <2>3, <2>4, <2>5, <2>6, <2>7, SentHome, Zenon
<1>10. CASE p = "youtube"
  <2> DEFINE limit == Clamped(q.limit, 25, 50)
             span == Since(q.since)
             key == keyFor(cfg, q.creds)
  <2>1. r \in YouTube(q, cfg, posts)
    BY <1>10, SMT DEF SearchOf
  <2>2. Sends(r, limit, span, key, "youtube")
    BY <2>1, AskedFor, Zenon DEF YouTube
  <2>3. Sends(r, limit, span, key, p)
    <3> HIDE DEF limit, span, key
    <3> QED
      BY <1>10, <2>2, Zenon
  <2>4. WithinLimit(limit, q.limit)
    BY <1>1
  <2>5. Windowed(p, span, q.since)
    BY <1>10 DEF Windowed, Since
  <2>6. MaySend(p, key, cfg, q.creds)
    BY <1>10 DEF MaySend, Keyless, keyFor
  <2>7. p # "mastodon"
    BY <1>10
  <2> HIDE DEF limit, span, key
  <2> QED
    BY <2>3, <2>4, <2>5, <2>6, <2>7, SentHome, Zenon
<1>11. CASE p = "mastodon"
  <2> DEFINE host == instanceFor(cfg, q.creds, public)
             key == tokenFor(cfg, q.creds)
             limit == Clamped(q.limit, 25, 40)
  <2>1. r \in Mastodon(q, cfg, public, posts)
    BY <1>11, SMT DEF SearchOf
  <2>2. host # REJECTED /\ Sends(r, limit, Forever, key, host)
    BY <2>1, AskedFor, Zenon DEF Mastodon
  <2>3. WithinLimit(limit, q.limit)
    BY <1>1
  <2>4. MaySend("mastodon", key, cfg, q.creds)
    BY DEF MaySend, tokenFor
  <2>5. MayReach("mastodon", host, key, cfg, q.creds, public)
    BY <2>2 DEF MayReach, instanceFor, tokenFor, validateCallerInstance
  <2>6. Windowed("mastodon", Forever, q.since)
    BY DEF Windowed
  <2> HIDE DEF host, key, limit
  <2> QED
    BY <1>11, <2>2, <2>3, <2>4, <2>5, <2>6, Zenon DEF Home, Sends
<1>12. p \in {"bluesky", "gdelt", "hackernews", "mock", "reddit", "rss", "stocktwits", "twitter",
               "youtube", "mastodon"}
  BY DEF BuildRegistry
<1> QED
  BY <1>2, <1>3, <1>4, <1>5, <1>6, <1>7,
     <1>8, <1>9, <1>10, <1>11, <1>12

-----------------------------------------------------------------------------
(* What every platform is asked.                                            *)

(* The connector that searches a platform. *)
LEMMA ConnectorOf ==
    ASSUME NEW q, NEW cfg, NEW public, NEW posts
    PROVE  /\ SearchOf("bluesky", q, cfg, public, posts) = Bluesky(q, posts)
           /\ SearchOf("gdelt", q, cfg, public, posts) = GDELT(q, posts)
           /\ SearchOf("hackernews", q, cfg, public, posts) = HackerNews(q, posts)
           /\ SearchOf("mastodon", q, cfg, public, posts) = Mastodon(q, cfg, public, posts)
           /\ SearchOf("mock", q, cfg, public, posts) = Mock(q)
           /\ SearchOf("reddit", q, cfg, public, posts) = Reddit(q, cfg, posts)
           /\ SearchOf("rss", q, cfg, public, posts) = RSS(q, posts)
           /\ SearchOf("stocktwits", q, cfg, public, posts) = StockTwits(q, posts)
           /\ SearchOf("twitter", q, cfg, public, posts) = Twitter(q, cfg, posts)
           /\ SearchOf("youtube", q, cfg, public, posts) = YouTube(q, cfg, posts)
  BY SMT DEF SearchOf


(* What it narrows the search by, and makes of what comes back.             *)
Makes(r, limit, narrowed, docs) ==
    r.limit = limit /\ r.narrowed = narrowed /\ r.docs = docs

(* A request is made with what it is asked with. *)
LEMMA AskedWith ==
    ASSUME NEW limit, NEW span, NEW narrowed, NEW key, NEW host, NEW docs,
           NEW r \in Asked(limit, span, narrowed, key, host, docs)
    PROVE  Makes(r, limit, narrowed, docs)
  BY DEF Asked, Makes

(* The demo makes as many posts up as it is asked for. *)
LEMMA MockMakes ==
    ASSUME NEW q, q.limit \in Int, NEW r \in Mock(q)
    PROVE  Cardinality({doc.id : doc \in Range(r.docs)}) = r.limit
<1> DEFINE limit == Clamped(q.limit, 8, 8)
           made(i) == [id |-> <<"mock", i>>, post |-> [platform |-> "mock", owner |-> "mock", key |-> i]]
           docs == [i \in 1..limit |-> made(i)]
           ids == {doc.id : doc \in Range(docs)}
           f == [i \in 1..limit |-> <<"mock", i>>]
<1>1. r.limit = limit /\ r.docs = docs
  <2>1. Mock(q) = Asked(limit, Forever, {}, "", "mock", docs)
    BY Zenon DEF Mock
  <2> HIDE DEF limit, docs
  <2>2. r \in Asked(limit, Forever, {}, "", "mock", docs)
    BY <2>1
  <2>3. Makes(r, limit, {}, docs)
    BY <2>2, AskedWith, Zenon
  <2> QED
    BY <2>3, Zenon DEF Makes
<1>2. limit \in Nat
  BY Clamps
<1> HIDE DEF limit
<1>3. ids = {<<"mock", i>> : i \in 1..limit}
  <2>1. DOMAIN docs = 1..limit /\ \A i \in 1..limit : docs[i].id = <<"mock", i>>
    OBVIOUS
  <2> HIDE DEF docs
  <2>2. Range(docs) = {docs[i] : i \in 1..limit}
    BY <2>1, Zenon DEF Range
  <2>3. ids = {doc.id : doc \in {docs[i] : i \in 1..limit}}
    BY <2>2, Zenon
  <2> HIDE DEF ids
  <2>4. ids = {docs[i].id : i \in 1..limit}
    BY <2>3
  <2> QED
    BY <2>1, <2>4
<1> HIDE DEF ids, docs
<1>4. f \in Bijection(1..limit, ids)
  <2>1. \A i, j \in 1..limit : f[i] = f[j] => i = j
    OBVIOUS
  <2>2. f \in [1..limit -> ids] /\ \A x \in ids : \E i \in 1..limit : f[i] = x
    BY <1>3
  <2> HIDE DEF f
  <2> QED
    BY <2>1, <2>2 DEF Bijection, Injection, Surjection, IsInjective
<1>5. IsFiniteSet(1..limit) /\ Cardinality(1..limit) = limit
  BY <1>2, FS_Interval
<1> HIDE DEF f
<1>6. Cardinality(ids) = limit
  <2>1. ExistsBijection(1..limit, ids)
    BY <1>4, Zenon DEF ExistsBijection
  <2> QED
    BY <1>5, <2>1, FS_Bijection
<1> QED
  BY <1>1, <1>6 DEF ids

(* A country that GDELT has a code for is asked for by the code. *)
LEMMA CountryByCode ==
    ASSUME NEW q, q.location \in DOMAIN fipsCountry, fipsCountry[q.location] # "",
           NEW posts, NEW r \in GDELT(q, posts)
    PROVE  /\ <<"sourcecountry", fipsCountry[q.location]>> \in r.narrowed
           /\ <<"phrase", q.location>> \notin r.narrowed
<1> DEFINE country == countryFIPS(q.location)
           place == IF country = "" THEN andLocation(q.location) ELSE {<<"sourcecountry", country>>}
           language == IF q.language \in gdeltLangs THEN inLanguage(q.language) ELSE {}
           narrowed == place \cup language
           docs == DocumentsOf(Those(posts, LAMBDA post : TrimSpace(post.title) # ""))
           limit == Clamped(q.limit, 25, 250)
           span == IF q.since > 0 THEN gdeltTimespan(q.since) ELSE Forever
<1>1. GDELT(q, posts) = Asked(limit, span, narrowed, "", "gdelt", docs)
  BY Zenon DEF GDELT
<1>2. country = fipsCountry[q.location] /\ place = {<<"sourcecountry", country>>}
  BY DEF countryFIPS
<1>3. \A x \in language : x = <<"language", q.language>>
  BY Zenon DEF inLanguage
<1> HIDE DEF country, place, language, docs, limit, span
<1>4. r.narrowed = place \cup language
  <2> HIDE DEF narrowed
  <2>0. r \in Asked(limit, span, narrowed, "", "gdelt", docs)
    BY <1>1
  <2>1. Makes(r, limit, narrowed, docs)
    BY <2>0, AskedWith, Zenon
  <2> QED
    BY <2>1, Zenon DEF Makes, narrowed
<1>5. <<"phrase", q.location>> \notin language
  BY <1>3
<1>6. <<"phrase", q.location>> # <<"sourcecountry", country>>
  OBVIOUS
<1> QED
  BY <1>2, <1>4, <1>5, <1>6

(* A search that asks for something is made. *)
LEMMA AskedIsAsked ==
    ASSUME NEW limit, NEW span, NEW narrowed, NEW key, NEW host, NEW docs
    PROVE  Asked(limit, span, narrowed, key, host, docs) # {}
  BY DEF Asked

(* StockTwits is given a ticker if the topic names one. *)
Words == [cashtag : BOOLEAN, ticker : BOOLEAN]

(* It finds a ticker exactly if the topic names one. *)
LEMMA TickerFound ==
    ASSUME NEW topic \in Seq(Words)
    PROVE  extractSymbol(topic) # NoSymbol <=> NamesTicker(topic)
<1> DEFINE tags == {i \in DOMAIN topic : topic[i].cashtag /\ topic[i].ticker}
<1>1. extractSymbol(topic) = IF tags # {} THEN topic[Min(tags)]
                             ELSE IF Len(topic) = 1 /\ topic[1].ticker THEN topic[1] ELSE NoSymbol
  BY Zenon DEF extractSymbol
<1>2. tags \subseteq Nat
  OBVIOUS
<1>3. ASSUME tags # {} PROVE extractSymbol(topic) # NoSymbol /\ NamesTicker(topic)
  <2>1. Min(tags) \in tags
    <3> HIDE DEF tags
    <3> QED
      BY <1>2, <1>3, LeastIn
  <2>2. topic[Min(tags)].ticker /\ topic[Min(tags)].cashtag /\ Min(tags) \in DOMAIN topic
    BY <2>1
  <2>3. NoSymbol.ticker = FALSE
    BY DEF NoSymbol
  <2>4. extractSymbol(topic) = topic[Min(tags)]
    BY <1>1, <1>3
  <2> HIDE DEF tags
  <2> QED
    BY <2>2, <2>3, <2>4 DEF NamesTicker
<1>4. ASSUME tags = {} PROVE extractSymbol(topic) # NoSymbol <=> NamesTicker(topic)
  <2>1. \A i \in DOMAIN topic : ~(topic[i].cashtag /\ topic[i].ticker)
    BY <1>4
  <2>2. extractSymbol(topic) = IF Len(topic) = 1 /\ topic[1].ticker THEN topic[1] ELSE NoSymbol
    BY <1>1, <1>4
  <2> HIDE DEF tags
  <2>3. NamesTicker(topic) <=> Len(topic) = 1 /\ topic[1].ticker
    BY <2>1 DEF NamesTicker
  <2>4. NoSymbol.ticker = FALSE
    BY DEF NoSymbol
  <2> QED
    BY <2>2, <2>3, <2>4
<1> QED
  BY <1>3, <1>4

(* A platform that is listed as enabled is asked, but for one reason. *)
LEMMA EnabledIsAsked ==
    ASSUME NEW q, q.topic \in Seq(Words), NEW cfg, NEW public, NEW posts,
           REJECTED \notin public \cup {cfg.Mastodon.Instance},
           q.creds.MastodonInstance \in public \cup {""},
           NEW p \in BuildRegistry(cfg), Info(cfg)[p]
    PROVE  SearchOf(p, q, cfg, public, posts) # {} <=> (p = "stocktwits" => NamesTicker(q.topic))
<1>1. EnabledOn(p, cfg)
  BY DEF Info
<1>2. CASE p = "bluesky"
  <2>1. Bluesky(q, posts) # {}
    BY AskedIsAsked, Zenon DEF Bluesky
  <2>2. SearchOf(p, q, cfg, public, posts) = Bluesky(q, posts)
    BY <1>2, ConnectorOf, Zenon
  <2>3. p # "stocktwits"
    BY <1>2
  <2> QED
    BY <2>1, <2>2, <2>3, Zenon
<1>3. CASE p = "gdelt"
  <2>1. GDELT(q, posts) # {}
    <3> DEFINE country == countryFIPS(q.location)
               place == IF country = "" THEN andLocation(q.location)
                        ELSE {<<"sourcecountry", country>>}
               language == IF q.language \in gdeltLangs THEN inLanguage(q.language) ELSE {}
               narrowed == place \cup language
               docs == DocumentsOf(Those(posts, LAMBDA post : TrimSpace(post.title) # ""))
               limit == Clamped(q.limit, 25, 250)
               span == IF q.since > 0 THEN gdeltTimespan(q.since) ELSE Forever
    <3>1. GDELT(q, posts) = Asked(limit, span, narrowed, "", "gdelt", docs)
      BY Zenon DEF GDELT
    <3> HIDE DEF country, place, language, narrowed, docs, limit, span
    <3> QED
      BY <3>1, AskedIsAsked
  <2>2. SearchOf(p, q, cfg, public, posts) = GDELT(q, posts)
    BY <1>3, ConnectorOf, Zenon
  <2>3. p # "stocktwits"
    BY <1>3
  <2> QED
    BY <2>1, <2>2, <2>3, Zenon
<1>4. CASE p = "hackernews"
  <2>1. HackerNews(q, posts) # {}
    BY AskedIsAsked, Zenon DEF HackerNews
  <2>2. SearchOf(p, q, cfg, public, posts) = HackerNews(q, posts)
    BY <1>4, ConnectorOf, Zenon
  <2>3. p # "stocktwits"
    BY <1>4
  <2> QED
    BY <2>1, <2>2, <2>3, Zenon
<1>5. CASE p = "mock"
  <2>1. Mock(q) # {}
    BY AskedIsAsked, Zenon DEF Mock
  <2>2. SearchOf(p, q, cfg, public, posts) = Mock(q)
    BY <1>5, ConnectorOf, Zenon
  <2>3. p # "stocktwits"
    BY <1>5
  <2> QED
    BY <2>1, <2>2, <2>3, Zenon
<1>6. CASE p = "reddit"
  <2>1. EnabledOn("reddit", cfg)
    BY <1>1, <1>6, Zenon
  <2>2. Reddit(q, cfg, posts) # {}
    BY <2>1, AskedIsAsked, Zenon DEF Reddit
  <2>3. SearchOf(p, q, cfg, public, posts) = Reddit(q, cfg, posts)
    BY <1>6, ConnectorOf, Zenon
  <2>4. p # "stocktwits"
    BY <1>6
  <2> QED
    BY <2>2, <2>3, <2>4, Zenon
<1>7. CASE p = "rss"
  <2>1. RSS(q, posts) # {}
    BY AskedIsAsked, Zenon DEF RSS
  <2>2. SearchOf(p, q, cfg, public, posts) = RSS(q, posts)
    BY <1>7, ConnectorOf, Zenon
  <2>3. p # "stocktwits"
    BY <1>7
  <2> QED
    BY <2>1, <2>2, <2>3, Zenon
<1>8. CASE p = "stocktwits"
  <2>1. StockTwits(q, posts) # {} <=> extractSymbol(q.topic) # NoSymbol
    BY AskedIsAsked, Zenon DEF StockTwits
  <2>2. extractSymbol(q.topic) # NoSymbol <=> NamesTicker(q.topic)
    BY TickerFound
  <2>3. SearchOf(p, q, cfg, public, posts) = StockTwits(q, posts)
    BY <1>8, ConnectorOf, Zenon
  <2> QED
    BY <1>8, <2>1, <2>2, <2>3, Zenon
<1>9. CASE p = "twitter"
  <2>1. EnabledOn("twitter", cfg)
    BY <1>1, <1>9, Zenon
  <2>2. Twitter(q, cfg, posts) # {}
    BY <2>1, AskedIsAsked, Zenon DEF Twitter
  <2>3. SearchOf(p, q, cfg, public, posts) = Twitter(q, cfg, posts)
    BY <1>9, ConnectorOf, Zenon
  <2>4. p # "stocktwits"
    BY <1>9
  <2> QED
    BY <2>2, <2>3, <2>4, Zenon
<1>10. CASE p = "youtube"
  <2>1. EnabledWith("youtube", cfg, q.creds)
    BY <1>1, <1>10, Zenon DEF EnabledWith
  <2>2. YouTube(q, cfg, posts) # {}
    BY <2>1, AskedIsAsked, Zenon DEF YouTube
  <2>3. SearchOf(p, q, cfg, public, posts) = YouTube(q, cfg, posts)
    BY <1>10, ConnectorOf, Zenon
  <2>4. p # "stocktwits"
    BY <1>10
  <2> QED
    BY <2>2, <2>3, <2>4, Zenon
<1>11. CASE p = "mastodon"
  <2>1. EnabledWith("mastodon", cfg, q.creds)
    BY <1>1, <1>11, Zenon DEF EnabledWith
  <2>2. instanceFor(cfg, q.creds, public) # REJECTED
    BY Zenon DEF instanceFor, validateCallerInstance
  <2>3. Mastodon(q, cfg, public, posts) # {}
    BY <2>1, <2>2, AskedIsAsked, Zenon DEF Mastodon
  <2>4. SearchOf(p, q, cfg, public, posts) = Mastodon(q, cfg, public, posts)
    BY <1>11, ConnectorOf, Zenon
  <2>5. p # "stocktwits"
    BY <1>11
  <2> QED
    BY <2>3, <2>4, <2>5, Zenon
<1>12. p \in {"bluesky", "gdelt", "hackernews", "mock", "reddit", "rss", "stocktwits", "twitter",
               "youtube", "mastodon"}
  BY DEF BuildRegistry
<1> QED
  BY <1>2, <1>3, <1>4, <1>5, <1>6, <1>7, <1>8, <1>9, <1>10, <1>11, <1>12

-----------------------------------------------------------------------------
(* Whose keys are used, and for which window.                               *)

(* The operator's keys. *)
OperatorsKeys(cfg) == {cfg.Reddit, cfg.Twitter, cfg.YouTube, cfg.Mastodon.AccessToken}

(* A query, its keys being the caller's own, and no window longer than all time. *)
Sensible(q, cfg, public) ==
    /\ q.limit \in Int /\ q.since \in Int /\ Forever \in Int /\ q.since <= Forever
    /\ q.topic \in Seq(Words)
    /\ OperatorsKeys(cfg) \cap CallersKeys(q) = {}
    /\ REJECTED \notin public \cup {cfg.Mastodon.Instance}
    /\ \A country \in DOMAIN fipsCountry : fipsCountry[country] # ""

(* A key of the caller's, or of the operator's, is sent where it belongs. *)
KeptApart(p, key, host, q, cfg) ==
    /\ key \in CallersKeys(q) => key = q.creds[KeyHolders[p]]
    /\ key # "" /\ key \notin CallersKeys(q) => host \in {p, cfg.Mastodon.Instance}
    /\ host \notin {p, cfg.Mastodon.Instance} => key = q.creds.MastodonToken

(* The connectors' rules keep them apart. *)
LEMMA KeysApart ==
    ASSUME NEW cfg, NEW q, NEW public, OperatorsKeys(cfg) \cap CallersKeys(q) = {},
           NEW p, NEW key, NEW host,
           MaySend(p, key, cfg, q.creds), MayReach(p, host, key, cfg, q.creds, public)
    PROVE  KeptApart(p, key, host, q, cfg)
<1>1. CallersKeys(q) = {q.creds["YouTubeAPIKey"], q.creds["MastodonToken"],
                        q.creds["MastodonInstance"]} \ {""}
  BY DEF CallersKeys, KeyNames
<1>2. q.creds["YouTubeAPIKey"] = q.creds.YouTubeAPIKey /\ q.creds["MastodonToken"] = q.creds.MastodonToken
  OBVIOUS
<1>3. KeyHolders["youtube"] = "YouTubeAPIKey" /\ KeyHolders["mastodon"] = "MastodonToken"
  BY DEF KeyHolders
<1>4. ASSUME key \in CallersKeys(q) PROVE key = q.creds[KeyHolders[p]]
  <2>1. key # "" /\ key \notin OperatorsKeys(cfg)
    BY <1>1, <1>4
  <2>2. key # cfg.Reddit /\ key # cfg.Twitter /\ key # cfg.YouTube /\ key # cfg.Mastodon.AccessToken
    BY <2>1 DEF OperatorsKeys
  <2>3. \/ p = "youtube" /\ key = q.creds.YouTubeAPIKey
        \/ p = "mastodon" /\ key = q.creds.MastodonToken
    BY <2>1, <2>2, Zenon DEF MaySend
  <2> QED
    BY <1>2, <1>3, <2>3
<1>5. ASSUME host \notin {p, cfg.Mastodon.Instance}
      PROVE  key = q.creds.MastodonToken /\ key # ""
  BY <1>5, Zenon DEF MayReach
<1>6. ASSUME key # "", key \notin CallersKeys(q) PROVE host \in {p, cfg.Mastodon.Instance}
  BY <1>1, <1>2, <1>5, <1>6
<1> QED
  BY <1>4, <1>5, <1>6, Zenon DEF KeptApart

(* What is left of a dividend. *)
LEMMA Remainder ==
    ASSUME NEW n \in Nat \ {0}, NEW x \in Nat
    PROVE  x % n \in Nat /\ x % n <= x /\ (x < n => x % n = x)
  OBVIOUS

(* A Duration holds what is shorter than the longest, and what is longer    *)
(* comes out shorter.                                                        *)
LEMMA DurationsFit ==
    ASSUME NEW secs \in Nat
    PROVE  /\ Duration(secs) \in Int /\ Duration(secs) <= secs
           /\ secs < MaxDuration => Duration(secs) = secs
<1> DEFINE n == 2 * MaxDuration  x == secs + MaxDuration
<1>1. n \in Nat \ {0} /\ x \in Nat /\ (secs < MaxDuration => x < n) /\ MaxDuration \in Nat
  BY DurationAssumption
<1>2. Duration(secs) = (x % n) - MaxDuration
  BY Zenon DEF Duration
<1>3. x = secs + MaxDuration
  OBVIOUS
<1> HIDE DEF n, x
<1> QED
  BY <1>1, <1>2, <1>3, Remainder

(* The platforms whose window is reckoned as a Duration. *)
Reckoned == {"bluesky", "hackernews", "twitter", "youtube"}

(* The window a platform has for the one wanted covers it, tightly. *)
LEMMA WindowsCover ==
    ASSUME NEW p, NEW span, NEW since \in Int, Forever \in Int, since <= Forever,
           Windowed(p, span, since)
    PROVE  /\ span >= since \/ (since >= MaxDuration /\ p \in Reckoned)
           /\ since > 0 /\ p = "gdelt" =>
                \/ span = 15 * Minute
                \/ span - since < Day /\ (span <= 3 * Day => span - since < Hour)
           /\ p = "reddit" => ~ \E w \in redditWindows : since \in 1..w /\ w < span
<1>1. Minute = 60 /\ Hour = 3600 /\ Day = 86400
  BY DEF Minute, Hour, Day
<1>2. redditWindows = {3600, 86400, 604800, 2592000, 31536000}
  BY <1>1 DEF redditWindows
<1>3. CASE span = Forever /\ (since <= 0 \/ p \in {"mastodon", "mock", "rss", "stocktwits"})
  <2>1. since > 0 => p \notin {"gdelt", "reddit"}
    BY <1>3
  <2>2. since <= 0 => \A w \in redditWindows : since \notin 1..w
    BY <1>2
  <2> QED
    BY <1>3, <2>1, <2>2
<1>4. CASE span = Duration(since) /\ since > 0 /\ p \in {"bluesky", "hackernews", "twitter", "youtube"}
  <2>1. since \in Nat /\ MaxDuration \in Nat
    BY <1>4, DurationAssumption
  <2>2. span \in Int /\ (since < MaxDuration => span = since)
    BY <1>4, <2>1, DurationsFit
  <2>3. p # "gdelt" /\ p # "reddit" /\ p \in Reckoned
    BY <1>4 DEF Reckoned
  <2> QED
    BY <2>1, <2>2, <2>3
<1>5. CASE span = gdeltTimespan(since) /\ since > 0 /\ p = "gdelt"
  <2>1. CoversTightly(span, since)
    BY <1>5, GdeltWindowCovers
  <2>2. p # "reddit"
    BY <1>5
  <2>3. span \in Nat /\ since <= span
        /\ \/ span = 900
           \/ span - since < 60
           \/ since >= 7200 /\ span - since < 3600
           \/ since >= 259200 /\ span - since < 86400
    BY <1>1, <2>1 DEF CoversTightly
  <2>4. \/ span = 900
        \/ span - since < 86400 /\ (span <= 259200 => span - since < 3600)
    BY <2>3
  <2>5. 15 * Minute = 900 /\ 3 * Day = 259200
    BY <1>1
  <2>6. \/ span = 15 * Minute
        \/ span - since < Day /\ (span <= 3 * Day => span - since < Hour)
    BY <1>1, <2>4, <2>5
  <2>7. span >= since
    BY <2>3
  <2> QED
    BY <2>2, <2>6, <2>7, Zenon
<1>6. CASE span = redditTimeWindow(since) /\ since > 0 /\ p = "reddit"
  <2>1. IF \A w \in redditWindows : w < since THEN span = Forever
        ELSE /\ span \in redditWindows /\ span >= since
             /\ \A w \in redditWindows : w >= since => w >= span
    BY <1>6, RedditWindowCovers
  <2>2. p # "gdelt"
    BY <1>6
  <2>3. redditWindows \subseteq Int
    BY <1>2
  <2>4. CASE \A w \in redditWindows : w < since
    <3>1. span = Forever /\ \A w \in redditWindows : since \notin 1..w
      BY <2>1, <2>3, <2>4
    <3> QED
      BY <2>2, <3>1
  <2>5. CASE ~ \A w \in redditWindows : w < since
    <3>1. span \in Int /\ span >= since /\ \A w \in redditWindows : w >= since => w >= span
      BY <2>1, <2>3, <2>5
    <3>2. \A w \in redditWindows : ~(since \in 1..w /\ w < span)
      BY <2>3, <3>1
    <3> QED
      BY <2>2, <3>1, <3>2
  <2> QED
    BY <2>4, <2>5
<1> QED
  BY <1>3, <1>4, <1>5, <1>6, Zenon DEF Windowed

(***************************************************************************)
(* The contract of Query, of every search of every query: limits, windows, *)
(* keys, hosts, the country's code, and who is asked at all                *)
(* (connectors/connector.go:20-34, mastodon.go:55-69).                     *)
(***************************************************************************)
THEOREM SearchesAskAsAsked ==
    ASSUME given.part = "search", Sensible(given.query, given.cfg, given.public)
    PROVE  AsksAsAsked
<1> DEFINE q == given.query  cfg == given.cfg  public == given.public
<1> SUFFICES ASSUME NEW p \in BuildRegistry(cfg)
             PROVE  /\ \A r \in SearchOf(p, q, cfg, public, <<>>) :
                         /\ r.limit > 0 /\ (q.limit > 0 => r.limit <= q.limit)
                         /\ \/ r.span >= q.since
                            \/ q.since >= MaxDuration /\ p \in {"bluesky", "hackernews", "twitter", "youtube"}
                         /\ q.since > 0 /\ p = "gdelt" =>
                              \/ r.span = 15 * Minute
                              \/ r.span - q.since < Day /\ (r.span <= 3 * Day => r.span - q.since < Hour)
                         /\ p = "reddit" => ~ \E w \in redditWindows : q.since \in 1..w /\ w < r.span
                         /\ r.key \in CallersKeys(q) => r.key = q.creds[KeyHolders[p]]
                         /\ r.key # "" /\ r.key \notin CallersKeys(q) =>
                              r.host \in {p, cfg.Mastodon.Instance}
                         /\ r.host \notin {p, cfg.Mastodon.Instance} => r.key = q.creds.MastodonToken
                         /\ p = "mock" => Cardinality({doc.id : doc \in Range(r.docs)}) = r.limit
                         /\ p = "gdelt" /\ q.location \in DOMAIN fipsCountry =>
                              /\ <<"sourcecountry", fipsCountry[q.location]>> \in r.narrowed
                              /\ <<"phrase", q.location>> \notin r.narrowed
                    /\ Info(cfg)[p] /\ q.creds.MastodonInstance \in public \cup {""} =>
                         (SearchOf(p, q, cfg, public, <<>>) # {}) =
                           (p = "stocktwits" => NamesTicker(q.topic))
  BY Zenon DEF AsksAsAsked
<1>1. /\ q.limit \in Int /\ q.since \in Int /\ Forever \in Int /\ q.since <= Forever
      /\ q.topic \in Seq(Words)
      /\ OperatorsKeys(cfg) \cap CallersKeys(q) = {}
      /\ REJECTED \notin public \cup {cfg.Mastodon.Instance}
      /\ \A country \in DOMAIN fipsCountry : fipsCountry[country] # ""
  BY Zenon DEF Sensible
<1> HIDE DEF q, cfg, public
<1>2. ASSUME NEW r \in SearchOf(p, q, cfg, public, <<>>)
      PROVE  /\ r.limit > 0 /\ (q.limit > 0 => r.limit <= q.limit)
             /\ \/ r.span >= q.since
                \/ q.since >= MaxDuration /\ p \in {"bluesky", "hackernews", "twitter", "youtube"}
             /\ q.since > 0 /\ p = "gdelt" =>
                  \/ r.span = 15 * Minute
                  \/ r.span - q.since < Day /\ (r.span <= 3 * Day => r.span - q.since < Hour)
             /\ p = "reddit" => ~ \E w \in redditWindows : q.since \in 1..w /\ w < r.span
             /\ r.key \in CallersKeys(q) => r.key = q.creds[KeyHolders[p]]
             /\ r.key # "" /\ r.key \notin CallersKeys(q) => r.host \in {p, cfg.Mastodon.Instance}
             /\ r.host \notin {p, cfg.Mastodon.Instance} => r.key = q.creds.MastodonToken
  <2>1. Home(r, p, q, cfg, public)
    BY <1>1, KeysGoHome
  <2>2. /\ WithinLimit(r.limit, q.limit) /\ Windowed(p, r.span, q.since)
        /\ MaySend(p, r.key, cfg, q.creds)
        /\ MayReach(p, r.host, r.key, cfg, q.creds, public)
    BY <2>1, Zenon DEF Home
  <2>3. r.limit > 0 /\ (q.limit > 0 => r.limit <= q.limit)
    BY <2>2, Zenon DEF WithinLimit
  <2>4. /\ \/ r.span >= q.since
           \/ q.since >= MaxDuration /\ p \in {"bluesky", "hackernews", "twitter", "youtube"}
        /\ q.since > 0 /\ p = "gdelt" =>
             \/ r.span = 15 * Minute
             \/ r.span - q.since < Day /\ (r.span <= 3 * Day => r.span - q.since < Hour)
        /\ p = "reddit" => ~ \E w \in redditWindows : q.since \in 1..w /\ w < r.span
    BY <1>1, <2>2, WindowsCover DEF Reckoned
  <2>5. /\ r.key \in CallersKeys(q) => r.key = q.creds[KeyHolders[p]]
        /\ r.key # "" /\ r.key \notin CallersKeys(q) => r.host \in {p, cfg.Mastodon.Instance}
        /\ r.host \notin {p, cfg.Mastodon.Instance} => r.key = q.creds.MastodonToken
    <3>1. KeptApart(p, r.key, r.host, q, cfg)
      BY <1>1, <2>2, KeysApart, Zenon
    <3> QED
      BY <3>1, Zenon DEF KeptApart
  <2> QED
    BY <2>3, <2>4, <2>5
<1>3. ASSUME NEW r \in SearchOf(p, q, cfg, public, <<>>), p = "mock"
      PROVE  Cardinality({doc.id : doc \in Range(r.docs)}) = r.limit
  <2>1. r \in Mock(q)
    BY <1>3, ConnectorOf, Zenon
  <2> QED
    BY <1>1, <2>1, MockMakes
<1>4. ASSUME NEW r \in SearchOf(p, q, cfg, public, <<>>), p = "gdelt",
             q.location \in DOMAIN fipsCountry
      PROVE  /\ <<"sourcecountry", fipsCountry[q.location]>> \in r.narrowed
             /\ <<"phrase", q.location>> \notin r.narrowed
  <2>1. r \in GDELT(q, <<>>)
    BY <1>4, ConnectorOf, Zenon
  <2> QED
    BY <1>1, <1>4, <2>1, CountryByCode
<1>5. ASSUME Info(cfg)[p], q.creds.MastodonInstance \in public \cup {""}
      PROVE  (SearchOf(p, q, cfg, public, <<>>) # {}) = (p = "stocktwits" => NamesTicker(q.topic))
  <2>1. SearchOf(p, q, cfg, public, <<>>) # {} <=> (p = "stocktwits" => NamesTicker(q.topic))
    BY <1>1, <1>5, EnabledIsAsked DEF cfg
  <2> QED
    BY <2>1
<1> QED
  BY <1>2, <1>3, <1>4, <1>5

=============================================================================
