----------------------------- MODULE ExeBinProofs -----------------------------
(* Proofs about ExeBin: the types of its state, the temporary pipes that a  *)
(* line needs, and the words that a command is run with.                    *)
EXTENDS ExeBin, FiniteSetTheorems, FunctionTheorems, SequenceTheorems,
        WellFoundedInduction, TLAPS

(* A set of numbers that is not empty has a smallest one; a finite one has  *)
(* a largest one.                                                           *)
LEMMA SmallestOf ==
  ASSUME NEW T \in SUBSET Nat, T # {}
  PROVE  \E n \in T : \A m \in T : n <= m
<1>1. PICK n \in T : \A m \in T : <<m, n>> \notin OpToRel(<, Nat)
  BY WFMin, NatLessThanWellFounded
<1>2. \A m \in T : ~(m < n)
  BY <1>1 DEF OpToRel
<1> QED BY <1>2

(* InOrder lists the set.                                                   *)
LEMMA InOrderLists ==
  ASSUME NEW S \in SUBSET Nat, IsFiniteSet(S)
  PROVE  /\ Cardinality(S) \in Nat
         /\ InOrder(S) \in [1..Cardinality(S) -> S]
         /\ \A m, n \in 1..Cardinality(S) : m < n => InOrder(S)[m] < InOrder(S)[n]
         /\ \A x \in S : \E n \in 1..Cardinality(S) : InOrder(S)[n] = x
         /\ \A n \in 1..Cardinality(S) : Cardinality({y \in S : y <= InOrder(S)[n]}) = n
<1> DEFINE N       == Cardinality(S)
           Upto(x) == {y \in S : y <= x}
           rank    == [x \in S |-> Cardinality(Upto(x))]
<1>1. N \in Nat
  BY FS_CardinalityType
<1>2. \A x \in S : IsFiniteSet(Upto(x)) /\ rank[x] \in 1..N
  <2> SUFFICES ASSUME NEW x \in S PROVE IsFiniteSet(Upto(x)) /\ rank[x] \in 1..N
    OBVIOUS
  <2>1. IsFiniteSet(Upto(x)) /\ Cardinality(Upto(x)) <= N /\ Cardinality(Upto(x)) \in Nat
    BY FS_Subset, FS_CardinalityType
  <2>2. x \in Upto(x)
    OBVIOUS
  <2>3. Cardinality(Upto(x)) # 0
    BY <2>1, <2>2, FS_EmptySet
  <2> QED BY <1>1, <2>1, <2>3
<1>3. \A x, z \in S : x < z => rank[x] < rank[z]
  <2> SUFFICES ASSUME NEW x \in S, NEW z \in S, x < z PROVE rank[x] < rank[z]
    OBVIOUS
  <2>1. Upto(x) \subseteq Upto(z) /\ Upto(x) # Upto(z)
    <3>1. z \in Upto(z) /\ z \notin Upto(x)
      OBVIOUS
    <3>2. \A y \in S : y <= x => y <= z
      OBVIOUS
    <3> QED BY <3>1, <3>2
  <2>2. Cardinality(Upto(x)) <= Cardinality(Upto(z)) /\ Cardinality(Upto(x)) # Cardinality(Upto(z))
    BY <1>2, <2>1, FS_Subset
  <2> QED BY <1>1, <1>2, <2>2
<1>4. rank \in Injection(S, 1..N)
  <2>1. rank \in [S -> 1..N]
    BY <1>2
  <2>2. \A x, z \in S : rank[x] = rank[z] => x = z
    <3> SUFFICES ASSUME NEW x \in S, NEW z \in S, rank[x] = rank[z], x # z PROVE FALSE
      OBVIOUS
    <3>1. rank[x] \in Nat /\ rank[z] \in Nat
      BY <1>2
    <3>2. x < z \/ z < x
      OBVIOUS
    <3> HIDE DEF rank
    <3> QED BY <1>3, <3>1, <3>2
  <2> HIDE DEF rank
  <2> QED BY <2>1, <2>2, Fun_IsInj
<1>5. rank \in Surjection(S, 1..N)
  <2>1. IsFiniteSet(1..N) /\ Cardinality(1..N) = N
    BY <1>1, FS_Interval
  <2> HIDE DEF rank
  <2> QED BY <1>4, <2>1, FS_Injection
<1>6. \A n \in 1..N : InOrder(S)[n] \in S /\ rank[InOrder(S)[n]] = n
  <2> SUFFICES ASSUME NEW n \in 1..N PROVE InOrder(S)[n] \in S /\ rank[InOrder(S)[n]] = n
    OBVIOUS
  <2>1. PICK x \in S : rank[x] = n
    <3> HIDE DEF rank
    <3>1. \A k \in 1..N : \E x \in S : rank[x] = k
      BY <1>5, Fun_SurjectionProperties
    <3> QED BY <3>1
  <2> QED BY <2>1 DEF InOrder
<1>7. \A m, n \in 1..N : m < n => InOrder(S)[m] < InOrder(S)[n]
  <2> SUFFICES ASSUME NEW m \in 1..N, NEW n \in 1..N, m < n PROVE InOrder(S)[m] < InOrder(S)[n]
    OBVIOUS
  <2>1. ~(InOrder(S)[n] < InOrder(S)[m]) /\ InOrder(S)[n] # InOrder(S)[m]
    <3> DEFINE a == InOrder(S)[m]
               b == InOrder(S)[n]
    <3>1. a \in S /\ b \in S /\ rank[a] = m /\ rank[b] = n
      BY <1>6
    <3> HIDE DEF rank, a, b
    <3>2. b < a => rank[b] < rank[a]
      BY <1>3, <3>1
    <3>3. ~(b < a) /\ a # b
      BY <3>1, <3>2
    <3> QED BY <3>3 DEF a, b
  <2>2. InOrder(S)[m] \in Nat /\ InOrder(S)[n] \in Nat
    BY <1>6
  <2> QED BY <2>1, <2>2
<1>8. \A x \in S : InOrder(S)[rank[x]] = x
  <2> HIDE DEF rank
  <2>1. \A x \in S : rank[x] \in 1..N
    BY <1>2
  <2> QED BY <1>4, <1>6, <2>1, Fun_InjectionProperties
<1> QED BY <1>1, <1>2, <1>6, <1>7, <1>8 DEF InOrder

LEMMA FunctionIsSeq ==
  ASSUME NEW T, NEW n \in Nat, NEW f \in [1..n -> T]
  PROVE  f \in Seq(T) /\ Len(f) = n /\ DOMAIN f = 1..n
<1>1. f \in Seq(T)
  BY SeqDef
<1>2. DOMAIN f = 1..Len(f) /\ Len(f) \in Nat /\ DOMAIN f = 1..n
  BY <1>1, LenProperties
<1> QED BY <1>1, <1>2

LEMMA LargestOf ==
  ASSUME NEW S \in SUBSET Nat, IsFiniteSet(S), S # {}
  PROVE  Max(S) \in S /\ \A x \in S : x <= Max(S)
<1> DEFINE N == Cardinality(S)
<1>1. N \in Nat /\ N # 0
  BY FS_CardinalityType, FS_EmptySet
<1>2. InOrder(S)[N] \in S
  BY <1>1, InOrderLists
<1>3. \A x \in S : x <= InOrder(S)[N]
  <2> SUFFICES ASSUME NEW x \in S PROVE x <= InOrder(S)[N]
    OBVIOUS
  <2>1. PICK n \in 1..N : InOrder(S)[n] = x
    BY InOrderLists
  <2>2. n = N \/ n < N
    BY <1>1
  <2>3. N \in 1..N
    BY <1>1
  <2>4. n < N => InOrder(S)[n] < InOrder(S)[N]
    BY <2>3, InOrderLists
  <2>5. InOrder(S)[N] \in Nat /\ x \in Nat
    BY <1>2
  <2>6. CASE n = N
    BY <2>1, <2>5, <2>6
  <2>7. CASE n < N
    BY <2>1, <2>4, <2>5, <2>7
  <2> QED BY <2>2, <2>6, <2>7
<1>4. \E m \in S : \A x \in S : m >= x
  BY <1>2, <1>3
<1>5. Max(S) \in S /\ \A x \in S : Max(S) >= x
  BY <1>4 DEF Max
<1> QED BY <1>5

(* The n smallest of a set, in ascending order.                             *)
LEMMA LowSeqLists ==
  ASSUME NEW S \in SUBSET Nat, IsFiniteSet(S), NEW n \in Nat, Cardinality(S) >= n
  PROVE  /\ LowSeq(S, n) \in Seq(S) /\ Len(LowSeq(S, n)) = n /\ DOMAIN LowSeq(S, n) = 1..n
         /\ \A a, b \in 1..n : LowSeq(S, n)[a] = LowSeq(S, n)[b] => a = b
<1> DEFINE N == Cardinality(S)
           L == Low(S, n)
<1>1. N \in Nat /\ InOrder(S) \in [1..N -> S]
  BY InOrderLists
<1>2. \A m \in 1..N : Cardinality({y \in S : y < InOrder(S)[m]}) = m - 1
  <2> SUFFICES ASSUME NEW m \in 1..N PROVE Cardinality({y \in S : y < InOrder(S)[m]}) = m - 1
    OBVIOUS
  <2> DEFINE x == InOrder(S)[m]
             B == {y \in S : y <= x}
  <2>1. x \in S /\ x \in Nat /\ x \in B
    <3>1. x \in S
      BY <1>1
    <3> HIDE DEF x
    <3> QED BY <3>1
  <2>2. Cardinality(B) = m
    BY InOrderLists
  <2>3. IsFiniteSet(B)
    BY FS_Subset
  <2>4. {y \in S : y < x} = B \ {x}
    <3> HIDE DEF x
    <3>1. \A y \in S : y < x <=> y <= x /\ y # x
      BY <2>1
    <3> QED BY <3>1
  <2> HIDE DEF B, x
  <2>5. Cardinality(B \ {x}) = Cardinality(B) - 1
    BY <2>1, <2>3, FS_RemoveElement
  <2>6. Cardinality({y \in S : y < x}) = m - 1
    BY <2>2, <2>4, <2>5
  <2> QED BY <2>6 DEF x
<1>3. L \in SUBSET S /\ L \in SUBSET Nat /\ IsFiniteSet(L)
  BY FS_Subset DEF Low
<1>4. \A m \in 1..N : InOrder(S)[m] \in L <=> m <= n
  <2> SUFFICES ASSUME NEW m \in 1..N PROVE InOrder(S)[m] \in L <=> m <= n
    OBVIOUS
  <2>1. InOrder(S)[m] \in L <=> m - 1 < n
    BY <1>1, <1>2 DEF Low
  <2> QED BY <1>1, <2>1
<1> DEFINE f == [m \in 1..n |-> InOrder(S)[m]]
<1>5. \A m \in 1..n : m \in 1..N
  BY <1>1
<1>6. f \in [1..n -> L]
  BY <1>4, <1>5
<1>7. \A a, b \in 1..n : f[a] = f[b] => a = b
  <2> SUFFICES ASSUME NEW a \in 1..n, NEW b \in 1..n, f[a] = f[b], a # b PROVE FALSE
    OBVIOUS
  <2>1. f[a] = InOrder(S)[a] /\ f[b] = InOrder(S)[b] /\ a \in 1..N /\ b \in 1..N
    BY <1>5
  <2>2. InOrder(S)[a] \in Nat /\ InOrder(S)[b] \in Nat
    BY <1>1, <2>1
  <2>3. a < b \/ b < a
    OBVIOUS
  <2>4. InOrder(S)[a] < InOrder(S)[b] \/ InOrder(S)[b] < InOrder(S)[a]
    BY <2>1, <2>3, InOrderLists
  <2> QED BY <2>1, <2>2, <2>4
<1>8. \A x \in L : \E m \in 1..n : f[m] = x
  <2> SUFFICES ASSUME NEW x \in L PROVE \E m \in 1..n : f[m] = x
    OBVIOUS
  <2>1. PICK m \in 1..N : InOrder(S)[m] = x
    BY <1>3, InOrderLists
  <2>2. m \in 1..n
    BY <1>4, <2>1
  <2> QED BY <2>1, <2>2
<1>9. Cardinality(L) = n
  <2>1. f \in Bijection(1..n, L)
    <3> HIDE DEF f, L
    <3> QED BY <1>6, <1>7, <1>8, Fun_IsBij
  <2>2. IsFiniteSet(1..n) /\ Cardinality(1..n) = n
    BY FS_Interval
  <2> HIDE DEF f, L
  <2>3. ExistsBijection(1..n, L)
    BY <2>1 DEF ExistsBijection
  <2> QED BY <2>2, <2>3, FS_Bijection
<1>10. /\ InOrder(L) \in [1..n -> L]
       /\ \A a, b \in 1..n : a < b => InOrder(L)[a] < InOrder(L)[b]
  <2> HIDE DEF L
  <2> QED BY <1>3, <1>9, InOrderLists
<1>11. \A a, b \in 1..n : InOrder(L)[a] = InOrder(L)[b] => a = b
  <2> HIDE DEF L
  <2> SUFFICES ASSUME NEW a \in 1..n, NEW b \in 1..n, InOrder(L)[a] = InOrder(L)[b], a # b PROVE FALSE
    OBVIOUS
  <2>1. InOrder(L)[a] \in Nat /\ InOrder(L)[b] \in Nat
    BY <1>3, <1>10
  <2>2. a < b \/ b < a
    OBVIOUS
  <2> QED BY <1>10, <2>1, <2>2
<1>12. LowSeq(S, n) = InOrder(L) /\ InOrder(L) \in [1..n -> S]
  BY <1>3, <1>10 DEF LowSeq
<1> HIDE DEF L
<1> QED BY <1>11, <1>12, FunctionIsSeq

LEMMA PlacesFinite ==
  ASSUME NEW T, NEW s \in Seq(T), NEW S \in SUBSET DOMAIN s
  PROVE  S \in SUBSET Nat /\ IsFiniteSet(S)
<1>1. DOMAIN s = 1..Len(s) /\ Len(s) \in Nat
  BY LenProperties
<1>2. IsFiniteSet(1..Len(s))
  BY <1>1, FS_Interval
<1> QED BY <1>1, <1>2, FS_Subset

(* Pick takes the elements at the given places, in their order.             *)
LEMMA PickElements ==
  ASSUME NEW T, NEW s \in Seq(T), NEW S \in SUBSET DOMAIN s
  PROVE  /\ Cardinality(S) \in Nat
         /\ Pick(s, S) \in Seq(T) /\ Len(Pick(s, S)) = Cardinality(S)
         /\ DOMAIN Pick(s, S) = 1..Cardinality(S)
         /\ InOrder(S) \in [1..Cardinality(S) -> S]
         /\ \A n \in 1..Cardinality(S) : Pick(s, S)[n] = s[InOrder(S)[n]]
<1>1. DOMAIN s = 1..Len(s) /\ Len(s) \in Nat /\ s \in [1..Len(s) -> T]
  BY LenProperties
<1>2. Cardinality(S) \in Nat /\ InOrder(S) \in [1..Cardinality(S) -> S]
  BY PlacesFinite, InOrderLists
<1>3. Pick(s, S) \in [1..Cardinality(S) -> T]
      /\ \A n \in 1..Cardinality(S) : Pick(s, S)[n] = s[InOrder(S)[n]]
  BY <1>1, <1>2 DEF Pick
<1> QED BY <1>2, <1>3, FunctionIsSeq

-------------------------------------------------------------------------------
(* The parser.                                                              *)
LEMMA EraseParts ==
  ASSUME NEW T, NEW s \in Seq(T), NEW k \in Nat \ {0}
  PROVE  /\ Erase(s, k) \in Seq(T)
         /\ k <= Len(s) => /\ Len(Erase(s, k)) = Len(s) - 1
                           /\ \A n \in 1..(Len(s) - 1) :
                                Erase(s, k)[n] = IF n < k THEN s[n] ELSE s[n + 1]
<1> DEFINE j == IF k <= Len(s) THEN k ELSE Len(s)
           a == SubSeq(s, 1, j - 1)
           b == SubSeq(s, j + 1, Len(s))
<1>1. Len(s) \in Nat /\ j \in Nat /\ j <= Len(s) /\ s \in [1..Len(s) -> T]
  BY LenProperties
<1>2. Erase(s, k) = a \o b
  BY DEF Erase, RemoveAt
<1>3. /\ a \in Seq(T) /\ (j # 0 => Len(a) = j - 1)
      /\ \A n \in 1..(j - 1) : a[n] = s[n]
  <2>1. \A n \in 1..(j - 1) : s[n] \in T
    BY <1>1
  <2> HIDE DEF j
  <2>2. /\ SubSeq(s, 1, j - 1) \in Seq(T)
        /\ Len(SubSeq(s, 1, j - 1)) = IF 1 <= j - 1 THEN (j - 1) - 1 + 1 ELSE 0
        /\ \A n \in 1..((j - 1) - 1 + 1) : SubSeq(s, 1, j - 1)[n] = s[1 + n - 1]
    BY <1>1, <2>1, SubSeqProperties
  <2>3. j # 0 => Len(SubSeq(s, 1, j - 1)) = j - 1
    BY <1>1, <2>2
  <2>4. (j - 1) - 1 + 1 = j - 1 /\ \A n \in 1..(j - 1) : 1 + n - 1 = n
    BY <1>1
  <2>5. \A n \in 1..(j - 1) : SubSeq(s, 1, j - 1)[n] = s[n]
    BY <2>2, <2>4
  <2> QED BY <2>2, <2>3, <2>5
<1>4. /\ b \in Seq(T) /\ Len(b) = Len(s) - j
      /\ \A n \in 1..(Len(s) - j) : b[n] = s[j + n]
  <2>1. \A n \in (j + 1)..Len(s) : s[n] \in T
    BY <1>1
  <2> HIDE DEF j
  <2>2. /\ SubSeq(s, j + 1, Len(s)) \in Seq(T)
        /\ Len(SubSeq(s, j + 1, Len(s))) = IF j + 1 <= Len(s) THEN Len(s) - (j + 1) + 1 ELSE 0
        /\ \A n \in 1..(Len(s) - (j + 1) + 1) : SubSeq(s, j + 1, Len(s))[n] = s[j + 1 + n - 1]
    BY <1>1, <2>1, SubSeqProperties
  <2>3. Len(SubSeq(s, j + 1, Len(s))) = Len(s) - j
    <3> DEFINE L == Len(SubSeq(s, j + 1, Len(s)))
    <3>1. L = IF j + 1 <= Len(s) THEN Len(s) - (j + 1) + 1 ELSE 0
      BY <2>2
    <3> HIDE DEF L
    <3>2. Len(s) \in Nat /\ j \in Nat /\ j <= Len(s)
      BY <1>1
    <3>3. ~(j + 1 <= Len(s)) => Len(s) - j = 0
      BY <3>2
    <3>4. Len(s) - (j + 1) + 1 = Len(s) - j
      BY <3>2
    <3> QED BY <3>1, <3>3, <3>4 DEF L
  <2>4. Len(s) - (j + 1) + 1 = Len(s) - j /\ \A n \in 1..(Len(s) - j) : j + 1 + n - 1 = j + n
    BY <1>1
  <2>5. \A n \in 1..(Len(s) - j) : SubSeq(s, j + 1, Len(s))[n] = s[j + n]
    BY <2>2, <2>4
  <2> QED BY <2>2, <2>3, <2>5
<1> HIDE DEF a, b
<1>5. /\ a \o b \in Seq(T) /\ Len(a \o b) = Len(a) + Len(b)
      /\ \A n \in 1..(Len(a) + Len(b)) : (a \o b)[n] = IF n <= Len(a) THEN a[n] ELSE b[n - Len(a)]
  BY <1>3, <1>4, ConcatProperties
<1>6. ASSUME k <= Len(s)
      PROVE  /\ Len(a \o b) = Len(s) - 1
             /\ \A n \in 1..(Len(s) - 1) : (a \o b)[n] = IF n < k THEN s[n] ELSE s[n + 1]
  <2>0. j = k
    BY <1>6
  <2> HIDE DEF j
  <2>1. Len(a) = k - 1 /\ Len(b) = Len(s) - k
    BY <2>0, <1>3, <1>4, <1>6
  <2>2. ASSUME NEW n \in 1..(Len(s) - 1)
        PROVE  (a \o b)[n] = IF n < k THEN s[n] ELSE s[n + 1]
    <3>0. n \in Nat /\ n <= Len(s) - 1 /\ n >= 1
      BY <1>1
    <3>1. CASE n < k
      <4>1. n \in 1..(j - 1) /\ n <= Len(a) /\ n \in 1..(Len(a) + Len(b))
        BY <1>1, <2>0, <2>1, <3>0, <3>1
      <4> QED BY <1>3, <1>5, <3>1, <4>1
    <3>2. CASE n >= k
      <4>1. n - (k - 1) \in 1..(Len(s) - k) /\ ~(n <= Len(a)) /\ n \in 1..(Len(a) + Len(b))
        BY <1>1, <2>1, <3>0, <3>2
      <4>2. (a \o b)[n] = b[n - (k - 1)]
        BY <1>5, <2>1, <4>1
      <4>3. b[n - (k - 1)] = s[k + (n - (k - 1))]
        BY <1>4, <2>0, <2>1, <4>1
      <4>4. k + (n - (k - 1)) = n + 1 /\ ~(n < k)
        BY <3>0, <3>2
      <4> QED BY <4>2, <4>3, <4>4
    <3>3. n < k \/ n >= k
      BY <3>0
    <3> QED BY <3>1, <3>2, <3>3
  <2>3. Len(a) + Len(b) = Len(s) - 1
    BY <1>1, <2>1
  <2> QED BY <1>5, <2>2, <2>3
<1> QED BY <1>2, <1>5, <1>6

(* The words are searched once and then lose one token after the other.     *)
Found(words) == InOrder(UserPipes(words))
Steps(words, left) ==
  /\ left[0] = words
  /\ \A n \in 1..Len(Found(words)) : left[n] = Erase(left[n - 1], Found(words)[n])
  /\ \A n \in 0..Len(Found(words)) : left[n] \in Seq(Token)
  /\ parse_user_pipe(words) = left[Len(Found(words))]

LEMMA Removals ==
  ASSUME NEW words \in Seq(Token)
  PROVE  \E left : Steps(words, left)
<1> DEFINE S     == UserPipes(words)
           found == InOrder(S)
           N     == Len(found)
<1>a. S \in SUBSET DOMAIN words /\ S \in SUBSET (Nat \ {0})
  BY LenProperties DEF UserPipes
<1>b. N = Cardinality(S) /\ N \in Nat /\ found \in [1..N -> S]
  <2> HIDE DEF S
  <2>1. Cardinality(S) \in Nat /\ found \in [1..Cardinality(S) -> S]
    BY <1>a, PlacesFinite, InOrderLists
  <2> QED BY <2>1, FunctionIsSeq
<1>c. \A n \in 1..N : found[n] \in Nat \ {0}
  <2> HIDE DEF S, found, N
  <2> QED BY <1>a, <1>b
<1> DEFINE Value(g, n) == IF n = 0 THEN words ELSE Erase(g[n - 1], found[n])
           Good(g, n)  == g = [m \in 0..n |-> Value(g, m)]
           Bad         == {n \in 0..N : ~\E g : Good(g, n)}
           rest        == CHOOSE g : Good(g, N)
<1>1. Bad = {}
  <2> SUFFICES ASSUME Bad # {} PROVE FALSE
    OBVIOUS
  <2>1. PICK n \in Bad : \A m \in Bad : n <= m
    <3>1. Bad \in SUBSET Nat
      OBVIOUS
    <3> HIDE DEF Bad
    <3> QED BY <3>1, SmallestOf
  <2>2. n \in 0..N /\ ~\E g : Good(g, n)
    OBVIOUS
  <2>3. CASE n = 0
    <3>1. Good([m \in 0..0 |-> words], 0)
      OBVIOUS
    <3> QED BY <2>2, <2>3, <3>1
  <2>4. CASE n # 0
    <3>1. n - 1 \in 0..N /\ n - 1 \notin Bad
      <4>1. n - 1 \in 0..N /\ ~(n <= n - 1)
        BY <2>2, <2>4
      <4> HIDE DEF Bad
      <4> QED BY <2>1, <4>1
    <3>2. PICK g : Good(g, n - 1)
      BY <3>1
    <3> DEFINE h == [m \in 0..n |-> IF m = n THEN Erase(g[n - 1], found[n]) ELSE g[m]]
    <3>3. \A m \in 0..n : h[m] = Value(h, m)
      <4> SUFFICES ASSUME NEW m \in 0..n PROVE h[m] = Value(h, m)
        OBVIOUS
      <4>1. CASE m = n
        <5>1. n - 1 \in 0..n /\ n - 1 # n
          BY <2>2, <2>4
        <5>2. h[n - 1] = g[n - 1] /\ h[n] = Erase(g[n - 1], found[n])
          BY <2>2, <5>1
        <5> QED BY <2>4, <4>1, <5>2
      <4>2. CASE m # n
        <5>1. m \in 0..(n - 1)
          BY <2>2, <4>2
        <5>2. h[m] = g[m] /\ g[m] = Value(g, m)
          BY <3>2, <4>2, <5>1
        <5>3. m # 0 => m - 1 \in 0..n /\ m - 1 # n
          BY <2>2, <5>1
        <5>4. m # 0 => h[m - 1] = g[m - 1]
          BY <5>3
        <5> QED BY <5>2, <5>4
      <4> QED BY <4>1, <4>2
    <3>4. Good(h, n)
      <4>1. h = [m \in 0..n |-> h[m]]
        OBVIOUS
      <4> HIDE DEF h
      <4> QED BY <3>3, <4>1
    <3> QED BY <2>2, <3>4
  <2> QED BY <2>3, <2>4
<1>2. Good(rest, N)
  <2>1. \E g : Good(g, N)
    BY <1>1
  <2> QED BY <2>1
<1>3. rest[0] = words /\ \A n \in 1..N : rest[n] = Erase(rest[n - 1], found[n])
  <2> HIDE DEF rest
  <2>1. \A n \in 0..N : rest[n] = Value(rest, n)
    BY <1>2
  <2> QED BY <2>1
<1>4. \A n \in 0..N : rest[n] \in Seq(Token)
  <2> DEFINE Wrong == {n \in 0..N : rest[n] \notin Seq(Token)}
  <2> HIDE DEF rest
  <2> SUFFICES ASSUME Wrong # {} PROVE FALSE
    OBVIOUS
  <2>1. PICK n \in Wrong : \A m \in Wrong : n <= m
    <3>1. Wrong \in SUBSET Nat
      OBVIOUS
    <3> HIDE DEF Wrong
    <3> QED BY <3>1, SmallestOf
  <2>2. n # 0
    BY <1>3
  <2>3. rest[n - 1] \in Seq(Token) /\ n \in 1..N
    BY <2>1, <2>2
  <2>4. found[n] \in Nat \ {0} /\ rest[n] = Erase(rest[n - 1], found[n])
    BY <1>3, <1>c, <2>3
  <2> HIDE DEF N, found
  <2>5. rest[n] \in Seq(Token)
    BY <2>3, <2>4, EraseParts
  <2> QED BY <2>5
<1>5. parse_user_pipe(words) = rest[N]
  BY DEF parse_user_pipe
<1>6. Steps(words, rest)
  <2>1. N = Len(Found(words)) /\ found = Found(words)
    BY DEF Found
  <2> HIDE DEF rest, N, found
  <2> QED BY <1>3, <1>4, <1>5, <2>1 DEF Steps
<1> QED BY <1>6

LEMMA ParserWords ==
  ASSUME NEW words \in Seq(Token)
  PROVE  parse_user_pipe(words) \in Seq(Token)
<1> DEFINE found == InOrder(UserPipes(words))
<1>1. UserPipes(words) \subseteq DOMAIN words
  BY DEF UserPipes
<1>2. Cardinality(UserPipes(words)) \in Nat /\ found \in [1..Cardinality(UserPipes(words)) -> UserPipes(words)]
  BY <1>1, PlacesFinite, InOrderLists
<1>3. Len(found) \in Nat
  BY <1>2, FunctionIsSeq
<1> HIDE DEF found
<1>4. Len(found) \in 0..Len(found)
  BY <1>3
<1> QED BY <1>4, Removals DEF found, Found, Steps

LEMMA NamedType ==
  ASSUME NEW words \in Seq(Token), NEW t
  PROVE  Named(words, t) \in Nat \cup {-1}
<1> DEFINE at == {k \in DOMAIN words : words[k].t = t}
<1>1. CASE at = {}
  BY <1>1 DEF Named
<1>2. CASE at # {}
  <2>1. at \in SUBSET Nat /\ IsFiniteSet(at) /\ at \in SUBSET DOMAIN words
    BY PlacesFinite
  <2> HIDE DEF at
  <2>2. Max(at) \in DOMAIN words
    BY <1>2, <2>1, LargestOf
  <2>3. words[Max(at)] \in Token
    BY <2>2, LenProperties
  <2>4. words[Max(at)].n \in Nat
    BY <2>3 DEF Token
  <2> QED BY <1>2, <2>4 DEF Named, at
<1> QED BY <1>1, <1>2

Types == {"NO_PIPE", "PIPE", "F_RED_PIPE", "NUM_PIPE"}
Cmd == [type : Types, num : Nat, rd : Nat \cup {-1}, wr : Nat \cup {-1},
        words : Seq(Token), typed : Seq(Token), exe : BOOLEAN, piped : BOOLEAN,
        fd : Pair, job : Nat \X Nat, seg : Nat, first : BOOLEAN]

LEMMA CommandType ==
  ASSUME NEW type \in Types, NEW num \in Nat, NEW words \in Seq(Token)
  PROVE  /\ Command(type, num, words) \in Cmd
         /\ Unparsed(type, words) \in Cmd
<1>1. UserPipes(words) \subseteq DOMAIN words
  BY DEF UserPipes
<1>2. Pick(words, DOMAIN words \ UserPipes(words)) \in Seq(Token)
  BY PickElements
<1>3. NoPair \in Pair /\ <<0, 0>> \in Nat \X Nat
  BY BoundAssumption DEF NoPair, Pair
<1>4. \A n \in Nat : Command(type, n, words) \in Cmd
  <2> SUFFICES ASSUME NEW n \in Nat PROVE Command(type, n, words) \in Cmd
    OBVIOUS
  <2>1. Named(words, "from") \in Nat \cup {-1} /\ Named(words, "to") \in Nat \cup {-1}
    BY NamedType
  <2> QED BY <1>2, <1>3, <2>1, ParserWords DEF Command, Cmd
<1>5. Command(type, 0, words) \in Cmd
  BY <1>4
<1>6. Unparsed(type, words) \in Cmd
  BY <1>5 DEF Unparsed, Cmd
<1> QED BY <1>4, <1>6

-------------------------------------------------------------------------------
(* The names split_by_pipe gives to its parts.                              *)
Seps(l)     == {k \in DOMAIN l : l[k].t \in {"|", "num", ">"}}
Inner(l)    == Seps(l) \cup {k + 1 : k \in {j \in Seps(l) : l[j].t = ">"}}
EndsIn(l)   == Inner(l) \cup ({Len(l) + 1} \ {k + 1 : k \in Inner(l)})
Past(l, k)  == Max({0} \cup {j \in Inner(l) : j < k})
Words(l, k) == SubSeq(l, Past(l, k) + 1, k - 1)
By(l, k)    == IF k \in Seps(l) THEN l[k].t ELSE IF k <= Len(l) THEN "file" ELSE "line"
Made(l, k)  == CASE By(l, k) = "line" -> Command("NO_PIPE", 0, Words(l, k))
                 [] By(l, k) = "file" -> Unparsed("F_RED_PIPE", <<l[k]>>)
                 [] By(l, k) = "|"    -> Command("PIPE", 0, Words(l, k))
                 [] By(l, k) = "num"  -> Command("NUM_PIPE", l[k].n, Words(l, k))
                 [] By(l, k) = ">"    -> Unparsed("PIPE", Words(l, k))
GoodLine(l) == /\ l \in Seq(Token) /\ Len(l) > 0
               /\ \A k \in DOMAIN l : l[k].t = ">" => k < Len(l) /\ l[k + 1].t \notin {"|", "num", ">"}

LEMMA SplitNames ==
  ASSUME NEW l
  PROVE  split_by_pipe(l) = [m \in 1..Cardinality(EndsIn(l)) |-> Made(l, InOrder(EndsIn(l))[m])]
BY DEF split_by_pipe, Made, By, Words, Past, EndsIn, Inner, Seps

LEMMA LineParts ==
  ASSUME NEW l, GoodLine(l)
  PROVE  /\ l \in Seq(Token) /\ Len(l) \in Nat /\ DOMAIN l = 1..Len(l)
         /\ \A k \in 1..Len(l) : l[k] \in Token
         /\ Seps(l) \subseteq 1..Len(l) /\ Inner(l) \subseteq 1..Len(l)
         /\ EndsIn(l) \subseteq 1..(Len(l) + 1)
         /\ EndsIn(l) \in SUBSET Nat /\ IsFiniteSet(EndsIn(l)) /\ EndsIn(l) # {}
         /\ \A k \in EndsIn(l) : k <= Len(l) => k \in Inner(l)
<1>1. l \in Seq(Token) /\ Len(l) \in Nat /\ DOMAIN l = 1..Len(l) /\ Len(l) > 0
      /\ \A k \in 1..Len(l) : l[k] \in Token
  BY LenProperties DEF GoodLine
<1>2. Seps(l) \subseteq 1..Len(l)
  BY <1>1 DEF Seps
<1>3. Inner(l) \subseteq 1..Len(l)
  <2>1. ASSUME NEW j \in Seps(l), l[j].t = ">" PROVE j + 1 \in 1..Len(l)
    <3>1. j \in 1..Len(l) /\ j < Len(l)
      BY <1>1, <1>2, <2>1 DEF GoodLine
    <3> QED BY <1>1, <3>1
  <2> QED BY <1>2, <2>1 DEF Inner
<1>4. EndsIn(l) \subseteq 1..(Len(l) + 1)
  BY <1>1, <1>3 DEF EndsIn
<1>5. EndsIn(l) # {}
  <2>1. CASE Inner(l) = {}
    <3>1. Len(l) + 1 \in EndsIn(l)
      BY <2>1 DEF EndsIn
    <3> QED BY <3>1
  <2>2. CASE Inner(l) # {}
    BY <2>2 DEF EndsIn
  <2> QED BY <2>1, <2>2
<1>6. IsFiniteSet(EndsIn(l)) /\ EndsIn(l) \in SUBSET Nat
  <2>1. IsFiniteSet(1..(Len(l) + 1))
    BY <1>1, FS_Interval
  <2>2. EndsIn(l) \in SUBSET Nat
    BY <1>1, <1>4
  <2> QED BY <1>4, <2>1, <2>2, FS_Subset
<1>7. \A k \in EndsIn(l) : k <= Len(l) => k \in Inner(l)
  BY <1>1 DEF EndsIn
<1> QED BY <1>1, <1>2, <1>3, <1>4, <1>5, <1>6, <1>7

(* The words of a command are a part of the line.                           *)
LEMMA WordsOfCommand ==
  ASSUME NEW l, GoodLine(l), NEW k \in EndsIn(l)
  PROVE  /\ Past(l, k) \in 0..(k - 1)
         /\ \A j \in Inner(l) : j < k => j <= Past(l, k)
         /\ Words(l, k) \in Seq(Token) /\ Len(Words(l, k)) = k - 1 - Past(l, k)
         /\ \A n \in 1..(k - 1 - Past(l, k)) : Words(l, k)[n] = l[Past(l, k) + n]
<1> DEFINE S == {0} \cup {j \in Inner(l) : j < k}
           a == Past(l, k)
<1>1. k \in 1..(Len(l) + 1) /\ Inner(l) \subseteq 1..Len(l) /\ Len(l) \in Nat /\ l \in Seq(Token)
      /\ \A n \in 1..Len(l) : l[n] \in Token
  BY LineParts
<1>2. S \in SUBSET Nat /\ IsFiniteSet(S) /\ S # {} /\ \A j \in S : j < k
  <2>1. S \subseteq 0..Len(l)
    BY <1>1
  <2>2. IsFiniteSet(0..Len(l))
    BY <1>1, FS_Interval
  <2>3. \A j \in S : j < k
    BY <1>1
  <2> HIDE DEF S
  <2> QED BY <2>1, <2>2, <2>3, FS_Subset DEF S
<1>3. a \in S /\ \A j \in S : j <= a
  <2>1. a = Max(S)
    BY DEF Past
  <2> HIDE DEF S, a
  <2> QED BY <1>2, <2>1, LargestOf
<1>4. a \in Nat /\ a < k /\ \A j \in Inner(l) : j < k => j <= a
  <2>1. a \in Nat /\ a < k
    <3> HIDE DEF S, a
    <3> QED BY <1>2, <1>3
  <2> QED BY <1>3, <2>1
<1> HIDE DEF a
<1>5. /\ SubSeq(l, a + 1, k - 1) \in Seq(Token)
      /\ Len(SubSeq(l, a + 1, k - 1)) = IF a + 1 <= k - 1 THEN (k - 1) - (a + 1) + 1 ELSE 0
      /\ \A n \in 1..((k - 1) - (a + 1) + 1) : SubSeq(l, a + 1, k - 1)[n] = l[(a + 1) + n - 1]
  <2>1. \A n \in (a + 1)..(k - 1) : l[n] \in Token
    BY <1>1, <1>4
  <2>2. a + 1 \in Int /\ k - 1 \in Int
    BY <1>1, <1>4
  <2> QED BY <2>1, <2>2, SubSeqProperties
<1>6. Len(SubSeq(l, a + 1, k - 1)) = k - 1 - a
  <2> DEFINE L == Len(SubSeq(l, a + 1, k - 1))
  <2>1. L = IF a + 1 <= k - 1 THEN (k - 1) - (a + 1) + 1 ELSE 0
    BY <1>5
  <2> HIDE DEF L
  <2>2. L = k - 1 - a
    BY <1>1, <1>4, <2>1
  <2> QED BY <2>2 DEF L
<1>7. \A n \in 1..(k - 1 - a) : SubSeq(l, a + 1, k - 1)[n] = l[a + n]
  <2>1. (k - 1) - (a + 1) + 1 = k - 1 - a /\ \A n \in 1..(k - 1 - a) : (a + 1) + n - 1 = a + n
    BY <1>1, <1>4
  <2> QED BY <1>5, <2>1
<1>8. Words(l, k) = SubSeq(l, a + 1, k - 1) /\ a \in 0..(k - 1)
  BY <1>1, <1>4 DEF Words, a
<1> QED BY <1>4, <1>5, <1>6, <1>7, <1>8 DEF a

(* What a command is made of depends on where it ends.                      *)
LEMMA MadeParts ==
  ASSUME NEW l, GoodLine(l), NEW k \in EndsIn(l)
  PROVE  /\ Made(l, k) \in Cmd
         /\ Made(l, k).type = "NUM_PIPE" <=> k \in Seps(l) /\ l[k].t = "num"
         /\ Made(l, k).type = "NUM_PIPE" => Made(l, k) = Command("NUM_PIPE", l[k].n, Words(l, k))
         /\ \/ \E type \in Types, num \in Nat : Made(l, k) = Command(type, num, Words(l, k))
            \/ k <= Len(l) /\ k \notin Seps(l) /\ Made(l, k) = Unparsed("F_RED_PIPE", <<l[k]>>)
            \/ k <= Len(l) /\ l[k].t = ">" /\ Made(l, k) = Unparsed("PIPE", Words(l, k))
         /\ Made(l, k).exe = FALSE /\ Made(l, k).piped = FALSE
<1>1. k \in 1..(Len(l) + 1) /\ Len(l) \in Nat /\ DOMAIN l = 1..Len(l) /\ Seps(l) \subseteq 1..Len(l)
      /\ \A n \in 1..Len(l) : l[n] \in Token
  BY LineParts
<1>2. Words(l, k) \in Seq(Token)
  BY WordsOfCommand
<1>3. \A type, num, words : /\ Command(type, num, words).type = type /\ Unparsed(type, words).type = type
                             /\ Command(type, num, words).exe = FALSE /\ Unparsed(type, words).exe = FALSE
                             /\ Command(type, num, words).piped = FALSE /\ Unparsed(type, words).piped = FALSE
  BY DEF Command, Unparsed
<1>4. CASE k > Len(l)
  <2>1. k \notin Seps(l)
    BY <1>1, <1>4
  <2>2. Made(l, k) = Command("NO_PIPE", 0, Words(l, k))
    BY <1>1, <1>4, <2>1 DEF Made, By
  <2>3. "NO_PIPE" \in Types /\ 0 \in Nat
    BY DEF Types
  <2>4. Made(l, k) \in Cmd
    BY <1>2, <2>2, <2>3, CommandType
  <2>5. Made(l, k).type = "NO_PIPE" /\ Made(l, k).exe = FALSE /\ Made(l, k).piped = FALSE
    BY <1>3, <2>2
  <2> QED BY <2>1, <2>2, <2>3, <2>4, <2>5
<1>5. CASE k <= Len(l) /\ k \notin Seps(l)
  <2>1. Made(l, k) = Unparsed("F_RED_PIPE", <<l[k]>>)
    BY <1>1, <1>5 DEF Made, By, Seps
  <2>2. <<l[k]>> \in Seq(Token)
    BY <1>1, <1>5
  <2>3. Made(l, k) \in Cmd
    BY <2>1, <2>2, CommandType DEF Types
  <2>4. Made(l, k).type = "F_RED_PIPE" /\ Made(l, k).exe = FALSE /\ Made(l, k).piped = FALSE
    BY <1>3, <2>1
  <2> QED BY <1>5, <2>1, <2>3, <2>4
<1>6. CASE k \in Seps(l)
  <2>1. k <= Len(l) /\ l[k] \in Token /\ l[k].t \in {"|", "num", ">"}
    BY <1>1, <1>6 DEF Seps
  <2>2. l[k].n \in Nat
    BY <2>1 DEF Token
  <2>3. CASE l[k].t = "|"
    <3>1. Made(l, k) = Command("PIPE", 0, Words(l, k))
      BY <1>1, <1>6, <2>1, <2>3 DEF Made, By
    <3> QED BY <1>2, <1>3, <2>3, <3>1, CommandType DEF Types
  <2>4. CASE l[k].t = "num"
    <3>1. Made(l, k) = Command("NUM_PIPE", l[k].n, Words(l, k))
      BY <1>1, <1>6, <2>1, <2>4 DEF Made, By
    <3> QED BY <1>2, <1>3, <1>6, <2>2, <2>4, <3>1, CommandType DEF Types
  <2>5. CASE l[k].t = ">"
    <3>1. Made(l, k) = Unparsed("PIPE", Words(l, k))
      BY <1>1, <1>6, <2>1, <2>5 DEF Made, By
    <3> QED BY <1>2, <1>3, <2>1, <2>5, <3>1, CommandType DEF Types
  <2> QED BY <2>1, <2>3, <2>4, <2>5
<1>7. k > Len(l) \/ (k <= Len(l) /\ k \notin Seps(l)) \/ k \in Seps(l)
  BY <1>1
<1> QED BY <1>4, <1>5, <1>6, <1>7

LEMMA SplitParts ==
  ASSUME NEW l, GoodLine(l)
  PROVE  /\ split_by_pipe(l) \in Seq(Cmd)
         /\ Len(split_by_pipe(l)) = Cardinality(EndsIn(l)) /\ Len(split_by_pipe(l)) \in Nat \ {0}
         /\ InOrder(EndsIn(l)) \in [1..Cardinality(EndsIn(l)) -> EndsIn(l)]
         /\ \A m \in 1..Cardinality(EndsIn(l)) : split_by_pipe(l)[m] = Made(l, InOrder(EndsIn(l))[m])
         /\ \A m \in 1..Cardinality(EndsIn(l)) : /\ split_by_pipe(l)[m].exe = FALSE
                                                /\ split_by_pipe(l)[m].piped = FALSE
<1> DEFINE N == Cardinality(EndsIn(l))
           f == InOrder(EndsIn(l))
<1>1. N \in Nat /\ f \in [1..N -> EndsIn(l)] /\ N # 0
  BY LineParts, InOrderLists, FS_EmptySet
<1>2. split_by_pipe(l) = [m \in 1..N |-> Made(l, f[m])]
  BY SplitNames
<1>3. \A m \in 1..N : Made(l, f[m]) \in Cmd /\ Made(l, f[m]).exe = FALSE /\ Made(l, f[m]).piped = FALSE
  BY <1>1, MadeParts
<1> HIDE DEF N, f
<1>4. split_by_pipe(l) \in [1..N -> Cmd]
  BY <1>2, <1>3
<1>5. split_by_pipe(l) \in Seq(Cmd) /\ Len(split_by_pipe(l)) = N
  BY <1>1, <1>4, FunctionIsSeq
<1>6. \A m \in 1..N : split_by_pipe(l)[m].exe = FALSE /\ split_by_pipe(l)[m].piped = FALSE
  BY <1>2, <1>3
<1> QED BY <1>1, <1>2, <1>5, <1>6 DEF N, f
-------------------------------------------------------------------------------
(* The table of descriptors.                                                *)
TabOK(t) == t \in [DOMAIN t -> Ends] /\ DOMAIN t \subseteq 0..MaxFd

LEMMA CloseParts ==
  ASSUME NEW t, NEW F
  PROVE  /\ DOMAIN Close(t, F) = DOMAIN t \ F
         /\ \A f \in DOMAIN t \ F : Close(t, F)[f] = t[f]
         /\ TabOK(t) => TabOK(Close(t, F))
<1>1. Close(t, F) = [f \in DOMAIN t \ F |-> t[f]]
  BY DEF Close, Restrict
<1> QED BY <1>1 DEF TabOK

LEMMA MergeParts ==
  ASSUME NEW t, NEW s
  PROVE  /\ DOMAIN Merge(t, s) = DOMAIN t \cup DOMAIN s
         /\ \A f \in DOMAIN s : Merge(t, s)[f] = s[f]
         /\ \A f \in DOMAIN t \ DOMAIN s : Merge(t, s)[f] = t[f]
         /\ TabOK(t) /\ TabOK(s) => TabOK(Merge(t, s))
<1>1. Merge(t, s) = [f \in DOMAIN t \cup DOMAIN s |-> IF f \in DOMAIN s THEN s[f] ELSE t[f]]
  BY DEF Merge
<1> QED BY <1>1 DEF TabOK

LEMMA AtType ==
  ASSUME NEW t, TabOK(t)
  PROVE  (\A f : At(t, f) \in Ends) /\ Range(t) \subseteq Ends
<1>1. Other \in Ends
  BY DEF Ends
<1> QED BY <1>1 DEF At, TabOK, Range

(* What is free can be counted, and the pairs made of it have two new       *)
(* numbers each and a pipe of their own.                                    *)
LEMMA FreeParts ==
  /\ FreeFd \in SUBSET Nat /\ IsFiniteSet(FreeFd) /\ Cardinality(FreeFd) \in Nat
  /\ FreePipes \in SUBSET Nat /\ IsFiniteSet(FreePipes) /\ Cardinality(FreePipes) \in Nat
  /\ FreePipes \subseteq Pipes /\ FreeFd \subseteq 0..MaxFd
<1>1. IsFiniteSet(0..MaxFd) /\ 0..MaxFd \subseteq Nat
  BY BoundAssumption, FS_Interval
<1>2. FreeFd \subseteq 0..MaxFd /\ FreePipes \subseteq Pipes
  BY DEF FreeFd, FreePipes
<1>3. IsFiniteSet(FreeFd) /\ IsFiniteSet(FreePipes)
  BY <1>1, <1>2, BoundAssumption, FS_Subset
<1>4. FreeFd \in SUBSET Nat /\ FreePipes \in SUBSET Nat
  BY <1>1, <1>2, BoundAssumption
<1> QED BY <1>2, <1>3, <1>4, FS_CardinalityType

LEMMA FreePairs == FreeFd \X FreeFd \subseteq Pair
<1>1. 0..MaxFd \subseteq -1..MaxFd
  BY BoundAssumption
<1>2. FreeFd \subseteq -1..MaxFd
  BY <1>1, FreeParts
<1> QED BY <1>2 DEF Pair

(* The numbers of different pairs are different.                            *)
Apart(pairs) == \A m, n \in DOMAIN pairs : \A a, b \in {1, 2} :
                  pairs[m][a] = pairs[n][b] => m = n /\ a = b

LEMMA PairsParts ==
  ASSUME NEW S, NEW n \in Nat, NEW fds \in Seq(S), Len(fds) = 2 * n,
         \A a, b \in 1..(2 * n) : fds[a] = fds[b] => a = b
  PROVE  /\ PairsIn(fds, n) \in Seq(S \X S) /\ Len(PairsIn(fds, n)) = n
         /\ DOMAIN PairsIn(fds, n) = 1..n
         /\ \A m \in 1..n : PairsIn(fds, n)[m] = <<fds[2 * m - 1], fds[2 * m]>>
         /\ Apart(PairsIn(fds, n))
<1>1. fds \in [1..(2 * n) -> S]
  BY LenProperties
<1>2. \A m \in 1..n : 2 * m - 1 \in 1..(2 * n) /\ 2 * m \in 1..(2 * n)
  OBVIOUS
<1>3. PairsIn(fds, n) = [m \in 1..n |-> <<fds[2 * m - 1], fds[2 * m]>>]
  BY DEF PairsIn
<1>4. \A m \in 1..n : <<fds[2 * m - 1], fds[2 * m]>> \in S \X S
  BY <1>1, <1>2
<1>5. PairsIn(fds, n) \in [1..n -> S \X S]
  BY <1>3, <1>4
<1>6. Apart(PairsIn(fds, n))
  <2> DEFINE P == PairsIn(fds, n)
  <2> SUFFICES ASSUME NEW m \in 1..n, NEW k \in 1..n, NEW a \in {1, 2}, NEW b \in {1, 2},
                      P[m][a] = P[k][b]
               PROVE  m = k /\ a = b
    BY <1>3 DEF Apart
  <2>1. P[m] = <<fds[2 * m - 1], fds[2 * m]>> /\ P[k] = <<fds[2 * k - 1], fds[2 * k]>>
    BY <1>3
  <2>2. P[m][a] = fds[2 * m - 2 + a] /\ P[k][b] = fds[2 * k - 2 + b]
    <3>1. 2 * m - 2 + 1 = 2 * m - 1 /\ 2 * m - 2 + 2 = 2 * m /\ 2 * k - 2 + 1 = 2 * k - 1 /\ 2 * k - 2 + 2 = 2 * k
      OBVIOUS
    <3> HIDE DEF P
    <3>2. P[m][1] = fds[2 * m - 2 + 1] /\ P[m][2] = fds[2 * m - 2 + 2]
      BY <2>1, <3>1
    <3>3. P[k][1] = fds[2 * k - 2 + 1] /\ P[k][2] = fds[2 * k - 2 + 2]
      BY <2>1, <3>1
    <3>4. P[m][a] = fds[2 * m - 2 + a]
      <4>1. CASE a = 1
        BY <3>2, <4>1
      <4>2. CASE a = 2
        BY <3>2, <4>2
      <4> QED BY <4>1, <4>2
    <3>5. P[k][b] = fds[2 * k - 2 + b]
      <4>1. CASE b = 1
        BY <3>3, <4>1
      <4>2. CASE b = 2
        BY <3>3, <4>2
      <4> QED BY <4>1, <4>2
    <3> QED BY <3>4, <3>5
  <2>3. 2 * m - 2 + a \in 1..(2 * n) /\ 2 * k - 2 + b \in 1..(2 * n)
    OBVIOUS
  <2>4. 2 * m - 2 + a = 2 * k - 2 + b
    <3> HIDE DEF P
    <3> QED BY <2>2, <2>3
  <2> QED BY <2>4
<1> QED BY <1>3, <1>5, <1>6, FunctionIsSeq

LEMMA EndsOfParts ==
  ASSUME NEW pairs \in Seq((0..MaxFd) \X (0..MaxFd)), Apart(pairs),
         Cardinality(FreePipes) >= Len(pairs)
  PROVE  LET id == LowSeq(FreePipes, Len(pairs))
         IN /\ DOMAIN EndsOf(pairs) = UNION {Both(pairs[m]) : m \in DOMAIN pairs}
            /\ TabOK(EndsOf(pairs))
            /\ id \in Seq(FreePipes) /\ Len(id) = Len(pairs)
            /\ \A m, n \in DOMAIN pairs : id[m] = id[n] => m = n
            /\ \A m \in DOMAIN pairs : /\ id[m] \in FreePipes
                                       /\ EndsOf(pairs)[pairs[m][1]] = <<id[m], "r">>
                                       /\ EndsOf(pairs)[pairs[m][2]] = <<id[m], "w">>
<1> DEFINE id == LowSeq(FreePipes, Len(pairs))
           D  == UNION {Both(pairs[m]) : m \in DOMAIN pairs}
<1>1. Len(pairs) \in Nat /\ DOMAIN pairs = 1..Len(pairs)
      /\ \A m \in DOMAIN pairs : pairs[m] \in (0..MaxFd) \X (0..MaxFd)
  BY LenProperties
<1>2. /\ id \in Seq(FreePipes) /\ Len(id) = Len(pairs) /\ DOMAIN id = 1..Len(pairs)
      /\ \A m, n \in 1..Len(pairs) : id[m] = id[n] => m = n
  BY <1>1, FreeParts, LowSeqLists
<1>3. \A m \in DOMAIN pairs : id[m] \in FreePipes
  <2> HIDE DEF id
  <2> QED BY <1>1, <1>2, LenProperties
<1> HIDE DEF id
<1>4. EndsOf(pairs) = [f \in D |-> LET m == CHOOSE m \in DOMAIN pairs : f \in Both(pairs[m])
                                   IN IF f = pairs[m][1] THEN <<id[m], "r">> ELSE <<id[m], "w">>]
  BY DEF EndsOf, id
<1>5. \A m \in DOMAIN pairs : /\ pairs[m][1] \in D /\ pairs[m][2] \in D
                              /\ EndsOf(pairs)[pairs[m][1]] = <<id[m], "r">>
                              /\ EndsOf(pairs)[pairs[m][2]] = <<id[m], "w">>
  <2> SUFFICES ASSUME NEW m \in DOMAIN pairs
               PROVE  /\ pairs[m][1] \in D /\ pairs[m][2] \in D
                      /\ EndsOf(pairs)[pairs[m][1]] = <<id[m], "r">>
                      /\ EndsOf(pairs)[pairs[m][2]] = <<id[m], "w">>
    OBVIOUS
  <2>1. pairs[m][1] \in D /\ pairs[m][2] \in D
    BY DEF Both
  <2>2. \A f \in Both(pairs[m]) : (CHOOSE k \in DOMAIN pairs : f \in Both(pairs[k])) = m
    <3> SUFFICES ASSUME NEW f \in Both(pairs[m]), NEW k \in DOMAIN pairs, f \in Both(pairs[k])
                 PROVE  k = m
      OBVIOUS
    <3>1. PICK a \in {1, 2} : f = pairs[m][a]
      BY DEF Both
    <3>2. PICK b \in {1, 2} : f = pairs[k][b]
      BY DEF Both
    <3>3. pairs[m][a] = pairs[k][b]
      BY <3>1, <3>2
    <3> HIDE DEF D
    <3> QED BY <3>3, Zenon DEF Apart
  <2>3. pairs[m][1] # pairs[m][2]
    BY DEF Apart
  <2>4. pairs[m][1] \in Both(pairs[m]) /\ pairs[m][2] \in Both(pairs[m])
    BY DEF Both
  <2>5. EndsOf(pairs)[pairs[m][1]] = <<id[m], "r">>
    BY <1>4, <2>1, <2>2, <2>4
  <2>6. EndsOf(pairs)[pairs[m][2]] = <<id[m], "w">>
    BY <1>4, <2>1, <2>2, <2>3, <2>4
  <2> QED BY <2>1, <2>5, <2>6
<1>6. DOMAIN EndsOf(pairs) = D
  BY <1>4
<1>7. TabOK(EndsOf(pairs))
  <2>1. D \subseteq 0..MaxFd
    BY <1>1 DEF Both
  <2>2. \A f \in D : EndsOf(pairs)[f] \in Ends
    <3> SUFFICES ASSUME NEW f \in D PROVE EndsOf(pairs)[f] \in Ends
      OBVIOUS
    <3>1. PICK m \in DOMAIN pairs : f = pairs[m][1] \/ f = pairs[m][2]
      BY DEF Both
    <3>2. <<id[m], "r">> \in Ends /\ <<id[m], "w">> \in Ends
      BY <1>3, FreeParts DEF Ends
    <3> QED BY <1>5, <3>1, <3>2
  <2>3. EndsOf(pairs) = [f \in D |-> EndsOf(pairs)[f]]
    BY <1>4
  <2> HIDE DEF D
  <2> QED BY <1>6, <2>1, <2>2, <2>3 DEF TabOK
<1> QED BY <1>1, <1>2, <1>3, <1>5, <1>6, <1>7 DEF id
-------------------------------------------------------------------------------
(* Types.                                                                   *)
Proc == [id : Job, kind : {"stage", "collect"}, reads : BOOLEAN, in : Ends, out : Ends,
         held : SUBSET Ends, want : SUBSET (Job \cup {None})]

TypeInv ==
  /\ pc \in {"read", "stage", "waitpre", "wait", "killed"}
  /\ cur \in User \cup {None} /\ i \in Nat
  /\ cmds \in [User -> Seq(Cmd)]
  /\ user_pipe \in [User -> [User -> Pair]]
  /\ TabOK(tab)
  /\ temp \in Seq(Pair) /\ temp_id \in 0..TempPipes /\ fresh \in BOOLEAN
  /\ stop_pipe \in BOOLEAN /\ last_pid \in Job \cup {None} /\ pre_pid \in Job \cup {None}
  /\ scratch \subseteq 0..MaxFd
  /\ data \in [Pipes -> SUBSET Job]
  /\ procs \subseteq Proc
  /\ lines \in 0..MaxLines /\ segs \in [User -> Nat]
  /\ owed \in [User -> SUBSET (Job \X Nat)]
  /\ made \in [User -> [User -> Job \cup {None}]]

(* Where the server is in its line: every command before the i-th was run   *)
(* or given up.                                                             *)
Done(c)  == c.exe /\ (c.type # "NUM_PIPE" => c.piped)
Progress ==
  /\ pc = "read" <=> cur = None
  /\ pc # "read" => i > 0 /\ Len(temp) = TempPipes /\ i <= Len(my) + 1
  /\ pc = "waitpre" => i <= Len(my) /\ Done(my[i])
  /\ pc = "wait" => i = Len(my) + 1
  /\ pc # "killed" => temp_id < TempPipes
  /\ \A u \in User : \A k \in DOMAIN cmds[u] : cmds[u][k].job \in Job
  /\ \A u \in User : \A k \in DOMAIN cmds[u] :
       u # cur => cmds[u][k].type = "NUM_PIPE" /\ cmds[u][k].exe
  /\ pc # "read" => \A k \in 1..(i - 1) : Done(my[k])
Typed == TypeInv /\ Progress

LEMMA CurUser ==
  ASSUME TypeInv, Progress, pc # "read"
  PROVE  /\ cur \in User /\ cur # None
         /\ my \in Seq(Cmd) /\ Len(my) \in Nat /\ DOMAIN my = 1..Len(my)
         /\ \A k \in 1..Len(my) : my[k] \in Cmd
         /\ AtStage => i \in 1..Len(my) /\ C \in Cmd
<1>1. cur \in User /\ cur # None
  BY DEF TypeInv, Progress
<1>2. my \in Seq(Cmd)
  BY <1>1 DEF TypeInv, my
<1>3. Len(my) \in Nat /\ DOMAIN my = 1..Len(my) /\ \A k \in 1..Len(my) : my[k] \in Cmd
  BY <1>2, LenProperties
<1>4. AtStage => i \in 1..Len(my)
  BY <1>3 DEF AtStage, Progress, TypeInv
<1> QED BY <1>1, <1>2, <1>3, <1>4 DEF C

LEMMA TypesInit ==
  ASSUME Init
  PROVE  TypeInv /\ Progress
<1>1. TabOK(tab)
  <2>1. Cardinality(User) \in Nat
    BY UserAssumption, FS_CardinalityType
  <2>2. Base \subseteq 0..MaxFd
    BY <2>1, BoundAssumption DEF Base
  <2>3. Other \in Ends
    BY DEF Ends
  <2> QED BY <2>2, <2>3 DEF Init, TabOK
<1>2. NoPair \in Pair
  BY BoundAssumption DEF NoPair, Pair
<1>3. << >> \in Seq(Cmd) /\ << >> \in Seq(Pair) /\ DOMAIN << >> = {}
  BY EmptySeq
<1>4. \A u \in User : DOMAIN cmds[u] = {}
  BY <1>3 DEF Init
<1>5. TypeInv
  BY <1>1, <1>2, <1>3, BoundAssumption DEF Init, TypeInv
<1>6. Progress
  BY <1>4, BoundAssumption DEF Init, Progress
<1> QED BY <1>5, <1>6

(* The names Start gives to its parts.                                      *)
NeedsFds(l)   == 3 + 2 * TempPipes + 2 * Len(split_by_pipe(l))
NewFds(l)     == LowSeq(FreeFd, NeedsFds(l))
NewPairs(l)   == PairsIn(SubSeq(NewFds(l), 4, Len(NewFds(l))), TempPipes + Len(split_by_pipe(l)))
SegOf(u, l, m) == segs[u] + 1 + Cardinality({k \in 1..(m - 1) : split_by_pipe(l)[k].type = "NUM_PIPE"})
NewCmds(u, l) == [m \in DOMAIN split_by_pipe(l) |->
                   [split_by_pipe(l)[m] EXCEPT
                      !.fd = NewPairs(l)[TempPipes + m], !.job = <<lines + 1, m>>,
                      !.seg = SegOf(u, l, m), !.first = m = 1 \/ SegOf(u, l, m) # SegOf(u, l, m - 1)]]

LEMMA StartNames ==
  ASSUME NEW u, NEW l, Start(u, l)
  PROVE  /\ pc = "read" /\ lines < MaxLines
         /\ Room(NeedsFds(l), TempPipes + Len(split_by_pipe(l)))
         /\ UsesUserPipe(l) /\ ~Mixed => cmds[u] = << >>
         /\ pc' = "stage" /\ cur' = u /\ i' = Len(cmds[u]) + 1
         /\ cmds' = [cmds EXCEPT ![u] = @ \o NewCmds(u, l)]
         /\ scratch' = {NewFds(l)[1], NewFds(l)[2]}
         /\ temp' = SubSeq(NewPairs(l), 1, TempPipes)
         /\ tab' = Merge(Merge(tab, [f \in {NewFds(l)[1], NewFds(l)[2], NewFds(l)[3]} |-> Other]),
                         EndsOf(NewPairs(l)))
         /\ data' = [p \in Pipes |-> IF p \in FreePipes THEN {} ELSE data[p]]
         /\ temp_id' = 0 /\ fresh' = TRUE /\ stop_pipe' = TRUE
         /\ last_pid' = None /\ pre_pid' = None
         /\ lines' = lines + 1
         /\ segs' = [segs EXCEPT ![u] = SegOf(u, l, Len(split_by_pipe(l)))]
         /\ UNCHANGED <<user_pipe, procs, owed, made>>
BY DEF Start, NeedsFds, NewFds, NewPairs, SegOf, NewCmds

(* What is opened for a line is new and used for one thing.                 *)
LEMMA NewParts ==
  ASSUME NEW l, GoodLine(l), Room(NeedsFds(l), TempPipes + Len(split_by_pipe(l)))
  PROVE  LET n == TempPipes + Len(split_by_pipe(l))
         IN /\ n \in Nat /\ TempPipes \in Nat /\ Len(split_by_pipe(l)) \in Nat
            /\ \A a \in 1..3 : NewFds(l)[a] \in FreeFd
            /\ \A a, b \in 1..3 : NewFds(l)[a] = NewFds(l)[b] => a = b
            /\ NewPairs(l) \in Seq(FreeFd \X FreeFd) /\ Len(NewPairs(l)) = n
            /\ DOMAIN NewPairs(l) = 1..n
            /\ \A m \in 1..n : \A e \in {1, 2} : NewPairs(l)[m][e] \in FreeFd
            /\ Apart(NewPairs(l))
            /\ \A a \in 1..3 : \A m \in 1..n : \A e \in {1, 2} : NewPairs(l)[m][e] # NewFds(l)[a]
<1> DEFINE n   == TempPipes + Len(split_by_pipe(l))
           N   == NeedsFds(l)
           fds == NewFds(l)
           ss  == SubSeq(fds, 4, Len(fds))
<1>1. n \in Nat /\ TempPipes \in Nat /\ Len(split_by_pipe(l)) \in Nat /\ N \in Nat /\ N = 3 + 2 * n
  BY SplitParts, BoundAssumption DEF NeedsFds
<1>2. Cardinality(FreeFd) >= N
  BY DEF Room
<1>3. /\ fds \in Seq(FreeFd) /\ Len(fds) = N /\ DOMAIN fds = 1..N
      /\ \A a, b \in 1..N : fds[a] = fds[b] => a = b
  <2> HIDE DEF N
  <2> QED BY <1>1, <1>2, FreeParts, LowSeqLists DEF NewFds, N
<1>4. \A a \in 1..N : fds[a] \in FreeFd
  <2> HIDE DEF N, fds
  <2> QED BY <1>3, LenProperties
<1> HIDE DEF N, fds, n
<1>5. /\ ss \in Seq(FreeFd) /\ Len(ss) = 2 * n
      /\ \A a \in 1..(2 * n) : ss[a] = fds[a + 3]
  <2>1. \A a \in 4..N : fds[a] \in FreeFd
    BY <1>1, <1>4
  <2>2. /\ SubSeq(fds, 4, N) \in Seq(FreeFd)
        /\ Len(SubSeq(fds, 4, N)) = IF 4 <= N THEN N - 4 + 1 ELSE 0
        /\ \A a \in 1..(N - 4 + 1) : SubSeq(fds, 4, N)[a] = fds[4 + a - 1]
    BY <1>1, <1>3, <2>1, SubSeqProperties
  <2>3. N - 4 + 1 = 2 * n /\ (4 <= N \/ N - 4 + 1 = 0) /\ \A a \in 1..(2 * n) : 4 + a - 1 = a + 3
    BY <1>1
  <2> QED BY <1>3, <2>2, <2>3
<1>6. \A a \in 1..(2 * n) : a + 3 \in 1..N
  BY <1>1
<1>7. \A a, b \in 1..(2 * n) : ss[a] = ss[b] => a = b
  <2> SUFFICES ASSUME NEW a \in 1..(2 * n), NEW b \in 1..(2 * n), ss[a] = ss[b] PROVE a = b
    OBVIOUS
  <2>1. fds[a + 3] = fds[b + 3]
    BY <1>5
  <2>2. a + 3 = b + 3
    BY <1>3, <1>6, <2>1
  <2> QED BY <1>1, <2>2
<1> HIDE DEF ss
<1>8. /\ PairsIn(ss, n) \in Seq(FreeFd \X FreeFd) /\ Len(PairsIn(ss, n)) = n
      /\ DOMAIN PairsIn(ss, n) = 1..n
      /\ \A m \in 1..n : PairsIn(ss, n)[m] = <<ss[2 * m - 1], ss[2 * m]>>
      /\ Apart(PairsIn(ss, n))
  BY <1>1, <1>5, <1>7, PairsParts
<1>9. \A m \in 1..n : \A e \in {1, 2} : \E a \in 4..N : PairsIn(ss, n)[m][e] = fds[a]
  <2> SUFFICES ASSUME NEW m \in 1..n, NEW e \in {1, 2}
               PROVE  \E a \in 4..N : PairsIn(ss, n)[m][e] = fds[a]
    OBVIOUS
  <2>1. 2 * m - 1 \in 1..(2 * n) /\ 2 * m \in 1..(2 * n) /\ 2 * m - 1 + 3 \in 4..N /\ 2 * m + 3 \in 4..N
    BY <1>1
  <2>2. PairsIn(ss, n)[m][1] = fds[2 * m - 1 + 3] /\ PairsIn(ss, n)[m][2] = fds[2 * m + 3]
    BY <1>5, <1>8, <2>1
  <2>3. CASE e = 1
    BY <2>1, <2>2, <2>3
  <2>4. CASE e = 2
    BY <2>1, <2>2, <2>4
  <2> QED BY <2>3, <2>4
<1>10. \A m \in 1..n : \A e \in {1, 2} : PairsIn(ss, n)[m][e] \in FreeFd
  <2> SUFFICES ASSUME NEW m \in 1..n, NEW e \in {1, 2} PROVE PairsIn(ss, n)[m][e] \in FreeFd
    OBVIOUS
  <2>1. PICK a \in 4..N : PairsIn(ss, n)[m][e] = fds[a]
    BY <1>9
  <2>2. a \in 1..N
    BY <1>1
  <2> QED BY <1>4, <2>1, <2>2
<1>11. \A a \in 1..3 : a \in 1..N
  BY <1>1
<1>12. \A a \in 1..3 : \A m \in 1..n : \A e \in {1, 2} : PairsIn(ss, n)[m][e] # fds[a]
  <2> SUFFICES ASSUME NEW a \in 1..3, NEW m \in 1..n, NEW e \in {1, 2}, PairsIn(ss, n)[m][e] = fds[a]
               PROVE  FALSE
    OBVIOUS
  <2>1. PICK b \in 4..N : PairsIn(ss, n)[m][e] = fds[b]
    BY <1>9
  <2>2. a \in 1..N /\ b \in 1..N /\ a # b
    BY <1>1
  <2> QED BY <1>3, <2>1, <2>2
<1>13. NewPairs(l) = PairsIn(ss, n)
  BY DEF NewPairs, ss, fds, n
<1>14. /\ \A a \in 1..3 : fds[a] \in FreeFd
       /\ \A a, b \in 1..3 : fds[a] = fds[b] => a = b
  BY <1>3, <1>4, <1>11
<1> QED BY <1>1, <1>8, <1>10, <1>12, <1>13, <1>14 DEF fds, n

NewCmdOK(u, l, m) ==
  /\ split_by_pipe(l)[m] \in Cmd
  /\ NewPairs(l)[TempPipes + m] \in Pair /\ <<lines + 1, m>> \in Job
  /\ NewCmds(u, l)[m].job = <<lines + 1, m>>
  /\ NewCmds(u, l)[m].fd = NewPairs(l)[TempPipes + m]
  /\ NewCmds(u, l)[m].seg = SegOf(u, l, m)
  /\ NewCmds(u, l)[m].first = (m = 1 \/ SegOf(u, l, m) # SegOf(u, l, m - 1))
  /\ NewCmds(u, l)[m].type = split_by_pipe(l)[m].type
  /\ NewCmds(u, l)[m].num = split_by_pipe(l)[m].num
  /\ NewCmds(u, l)[m].rd = split_by_pipe(l)[m].rd
  /\ NewCmds(u, l)[m].wr = split_by_pipe(l)[m].wr
  /\ NewCmds(u, l)[m].words = split_by_pipe(l)[m].words
  /\ NewCmds(u, l)[m].typed = split_by_pipe(l)[m].typed
  /\ ~NewCmds(u, l)[m].exe /\ ~NewCmds(u, l)[m].piped

LEMMA NewCmdsParts ==
  ASSUME NEW u \in User, NEW l, GoodLine(l), Typed, lines < MaxLines,
         Room(NeedsFds(l), TempPipes + Len(split_by_pipe(l)))
  PROVE  /\ Len(split_by_pipe(l)) \in Nat \ {0}
         /\ NewCmds(u, l) \in Seq(Cmd) /\ Len(NewCmds(u, l)) = Len(split_by_pipe(l))
         /\ \A m \in Nat : SegOf(u, l, m) \in Nat
         /\ \A m \in 1..Len(split_by_pipe(l)) : NewCmdOK(u, l, m)
<1> DEFINE new == split_by_pipe(l)
           N   == Len(new)
<1>1. new \in Seq(Cmd) /\ N \in Nat \ {0} /\ DOMAIN new = 1..N
      /\ \A m \in 1..N : new[m] \in Cmd /\ new[m].exe = FALSE /\ new[m].piped = FALSE
  BY SplitParts, LenProperties
<1>2. lines \in Nat /\ lines + 1 \in 1..MaxLines
  BY BoundAssumption DEF Typed, TypeInv
<1>3. \A m \in 1..N : NewPairs(l)[TempPipes + m] \in Pair /\ <<lines + 1, m>> \in Job
  <2> SUFFICES ASSUME NEW m \in 1..N PROVE NewPairs(l)[TempPipes + m] \in Pair /\ <<lines + 1, m>> \in Job
    OBVIOUS
  <2>1. /\ NewPairs(l) \in Seq(FreeFd \X FreeFd)
        /\ DOMAIN NewPairs(l) = 1..(TempPipes + N) /\ TempPipes \in Nat
    BY NewParts
  <2> HIDE DEF new, N
  <2>2. TempPipes + m \in 1..(TempPipes + N)
    BY <1>1, <2>1
  <2>3. NewPairs(l)[TempPipes + m] \in FreeFd \X FreeFd
    BY <2>1, <2>2, LenProperties
  <2> QED BY <1>1, <1>2, <2>3, FreePairs DEF Job
<1>4. \A m \in Nat : SegOf(u, l, m) \in Nat
  <2> SUFFICES ASSUME NEW m \in Nat PROVE SegOf(u, l, m) \in Nat
    OBVIOUS
  <2>1. IsFiniteSet(1..(m - 1))
    BY FS_Interval
  <2>2. Cardinality({k \in 1..(m - 1) : new[k].type = "NUM_PIPE"}) \in Nat
    BY <2>1, FS_Subset, FS_CardinalityType
  <2>3. segs[u] \in Nat
    BY DEF Typed, TypeInv
  <2> QED BY <2>2, <2>3 DEF SegOf
<1> HIDE DEF new, N
<1>5. \A m \in 1..N : NewCmds(u, l)[m] =
                      [new[m] EXCEPT
                         !.fd = NewPairs(l)[TempPipes + m], !.job = <<lines + 1, m>>,
                         !.seg = SegOf(u, l, m), !.first = m = 1 \/ SegOf(u, l, m) # SegOf(u, l, m - 1)]
  BY <1>1 DEF NewCmds, new
<1>6. \A m \in 1..N : NewCmds(u, l)[m] \in Cmd /\ ~NewCmds(u, l)[m].exe /\ ~NewCmds(u, l)[m].piped
  <2> SUFFICES ASSUME NEW m \in 1..N
               PROVE  NewCmds(u, l)[m] \in Cmd /\ ~NewCmds(u, l)[m].exe /\ ~NewCmds(u, l)[m].piped
    OBVIOUS
  <2>1. <<lines + 1, m>> \in Nat \X Nat
    BY <1>1, <1>2
  <2>2. SegOf(u, l, m) \in Nat
    BY <1>1, <1>4
  <2> DEFINE f == m = 1 \/ SegOf(u, l, m) # SegOf(u, l, m - 1)
  <2>3. f \in BOOLEAN
    OBVIOUS
  <2> HIDE DEF f
  <2>4. [new[m] EXCEPT !.fd = NewPairs(l)[TempPipes + m], !.job = <<lines + 1, m>>,
                       !.seg = SegOf(u, l, m), !.first = f] \in Cmd
    BY <1>1, <1>3, <2>1, <2>2, <2>3, ZenonT(60) DEF Cmd
  <2>5. /\ [new[m] EXCEPT !.fd = NewPairs(l)[TempPipes + m], !.job = <<lines + 1, m>>,
                          !.seg = SegOf(u, l, m), !.first = f].exe = FALSE
        /\ [new[m] EXCEPT !.fd = NewPairs(l)[TempPipes + m], !.job = <<lines + 1, m>>,
                          !.seg = SegOf(u, l, m), !.first = f].piped = FALSE
    BY <1>1 DEF Cmd
  <2> QED BY <1>5, <2>4, <2>5 DEF f
<1>7. NewCmds(u, l) \in Seq(Cmd) /\ Len(NewCmds(u, l)) = N
  <2>1. NewCmds(u, l) \in [1..N -> Cmd]
    BY <1>1, <1>6 DEF NewCmds, new
  <2> QED BY <1>1, <2>1, FunctionIsSeq
<1>8. \A m \in 1..N :
        /\ NewCmds(u, l)[m].job = <<lines + 1, m>>
        /\ NewCmds(u, l)[m].fd = NewPairs(l)[TempPipes + m]
        /\ NewCmds(u, l)[m].seg = SegOf(u, l, m)
        /\ NewCmds(u, l)[m].first = (m = 1 \/ SegOf(u, l, m) # SegOf(u, l, m - 1))
        /\ NewCmds(u, l)[m].type = new[m].type /\ NewCmds(u, l)[m].num = new[m].num
        /\ NewCmds(u, l)[m].rd = new[m].rd /\ NewCmds(u, l)[m].wr = new[m].wr
        /\ NewCmds(u, l)[m].words = new[m].words /\ NewCmds(u, l)[m].typed = new[m].typed
  <2> SUFFICES ASSUME NEW m \in 1..N
               PROVE
        /\ NewCmds(u, l)[m].job = <<lines + 1, m>>
        /\ NewCmds(u, l)[m].fd = NewPairs(l)[TempPipes + m]
        /\ NewCmds(u, l)[m].seg = SegOf(u, l, m)
        /\ NewCmds(u, l)[m].first = (m = 1 \/ SegOf(u, l, m) # SegOf(u, l, m - 1))
        /\ NewCmds(u, l)[m].type = new[m].type /\ NewCmds(u, l)[m].num = new[m].num
        /\ NewCmds(u, l)[m].rd = new[m].rd /\ NewCmds(u, l)[m].wr = new[m].wr
        /\ NewCmds(u, l)[m].words = new[m].words /\ NewCmds(u, l)[m].typed = new[m].typed
    OBVIOUS
  <2> DEFINE f == m = 1 \/ SegOf(u, l, m) # SegOf(u, l, m - 1)
             c == NewCmds(u, l)[m]
  <2>1. c = [new[m] EXCEPT !.fd = NewPairs(l)[TempPipes + m], !.job = <<lines + 1, m>>,
                           !.seg = SegOf(u, l, m), !.first = f]
    BY <1>5
  <2> HIDE DEF f, c
  <2>2. /\ c.job = <<lines + 1, m>> /\ c.fd = NewPairs(l)[TempPipes + m]
        /\ c.seg = SegOf(u, l, m) /\ c.first = f /\ c.type = new[m].type /\ c.num = new[m].num
        /\ c.rd = new[m].rd /\ c.wr = new[m].wr /\ c.words = new[m].words /\ c.typed = new[m].typed
    BY <1>1, <2>1 DEF Cmd
  <2> QED BY <2>2 DEF c, f
<1>9. \A m \in 1..N : NewCmdOK(u, l, m)
  BY <1>1, <1>3, <1>6, <1>8 DEF NewCmdOK, new
<1> QED BY <1>1, <1>4, <1>7, <1>9 DEF new, N

LEMMA GrowParts ==
  ASSUME NEW T, NEW s \in Seq(T), NEW t \in Seq(T)
  PROVE  /\ s \o t \in Seq(T) /\ Len(s \o t) = Len(s) + Len(t)
         /\ DOMAIN (s \o t) = 1..(Len(s) + Len(t))
         /\ \A k \in 1..Len(s) : (s \o t)[k] = s[k]
         /\ \A k \in 1..Len(t) : (s \o t)[Len(s) + k] = t[k]
         /\ \A k \in DOMAIN (s \o t) : k \in 1..Len(s) \/ k - Len(s) \in 1..Len(t)
<1>1. /\ s \o t \in Seq(T) /\ Len(s \o t) = Len(s) + Len(t) /\ Len(s) \in Nat /\ Len(t) \in Nat
      /\ \A k \in 1..(Len(s) + Len(t)) : (s \o t)[k] = IF k <= Len(s) THEN s[k] ELSE t[k - Len(s)]
  BY ConcatProperties, LenProperties
<1>2. DOMAIN (s \o t) = 1..(Len(s) + Len(t))
  BY <1>1, LenProperties
<1>3. \A k \in 1..Len(s) : (s \o t)[k] = s[k]
  BY <1>1
<1>4. \A k \in 1..Len(t) : (s \o t)[Len(s) + k] = t[k]
  <2> SUFFICES ASSUME NEW k \in 1..Len(t) PROVE (s \o t)[Len(s) + k] = t[k]
    OBVIOUS
  <2>1. Len(s) + k \in 1..(Len(s) + Len(t)) /\ ~(Len(s) + k <= Len(s)) /\ (Len(s) + k) - Len(s) = k
    BY <1>1
  <2> QED BY <1>1, <2>1
<1>5. \A k \in 1..(Len(s) + Len(t)) : k \in 1..Len(s) \/ k - Len(s) \in 1..Len(t)
  BY <1>1
<1> QED BY <1>1, <1>2, <1>3, <1>4, <1>5

LEMMA TypesStart ==
  ASSUME Typed, NEW u \in User, NEW l, GoodLine(l), Start(u, l)
  PROVE  TypeInv' /\ Progress'
<1> DEFINE N   == Len(split_by_pipe(l))
           old == cmds[u]
           new == NewCmds(u, l)
           s   == old \o new
<1>1. /\ pc = "read" /\ lines < MaxLines /\ cur = None
      /\ Room(NeedsFds(l), TempPipes + N)
      /\ pc' = "stage" /\ cur' = u /\ i' = Len(old) + 1
      /\ cmds' = [cmds EXCEPT ![u] = s]
  BY StartNames DEF Typed, Progress
<1>2. /\ N \in Nat \ {0} /\ new \in Seq(Cmd) /\ Len(new) = N
      /\ \A m \in Nat : SegOf(u, l, m) \in Nat
      /\ \A m \in 1..N : new[m].job \in Job /\ ~new[m].exe
  <2>1. /\ N \in Nat \ {0} /\ new \in Seq(Cmd) /\ Len(new) = N
        /\ \A m \in Nat : SegOf(u, l, m) \in Nat
    BY <1>1, NewCmdsParts
  <2>2. \A m \in 1..N : new[m].job = <<lines + 1, m>> /\ <<lines + 1, m>> \in Job /\ ~new[m].exe
    <3>1. \A m \in 1..N : NewCmdOK(u, l, m)
      BY <1>1, NewCmdsParts
    <3> QED BY <3>1 DEF NewCmdOK
  <2> HIDE DEF new, N
  <2>3. \A m \in 1..N : new[m].job \in Job
    BY <2>2
  <2> QED BY <2>1, <2>2, <2>3
<1>3. old \in Seq(Cmd) /\ Len(old) \in Nat /\ DOMAIN old = 1..Len(old)
  BY LenProperties DEF Typed, TypeInv
<1> HIDE DEF N, new, old
<1>4. /\ s \in Seq(Cmd) /\ Len(s) = Len(old) + N
      /\ DOMAIN s = 1..(Len(old) + N)
      /\ \A k \in 1..Len(old) : s[k] = old[k]
      /\ \A k \in 1..N : s[Len(old) + k] = new[k]
      /\ \A k \in DOMAIN s : k \in 1..Len(old) \/ k - Len(old) \in 1..N
  <2>1. /\ s \in Seq(Cmd) /\ Len(s) = Len(old) + Len(new)
        /\ DOMAIN s = 1..(Len(old) + Len(new))
        /\ \A k \in 1..Len(old) : s[k] = old[k]
        /\ \A k \in 1..Len(new) : s[Len(old) + k] = new[k]
        /\ \A k \in DOMAIN s : k \in 1..Len(old) \/ k - Len(old) \in 1..Len(new)
    BY <1>2, <1>3, GrowParts
  <2> HIDE DEF s
  <2> QED BY <1>2, <2>1
<1> HIDE DEF s
<1>5. cmds' \in [User -> Seq(Cmd)] /\ cmds'[u] = s /\ \A v \in User : v # u => cmds'[v] = cmds[v]
  BY <1>1, <1>4 DEF Typed, TypeInv
<1>6. TabOK(tab')
  <2>1. TabOK(tab)
    BY DEF Typed, TypeInv
  <2> DEFINE t == [f \in {NewFds(l)[1], NewFds(l)[2], NewFds(l)[3]} |-> Other]
  <2>2. TabOK(t)
    <3>1. Other \in Ends
      BY DEF Ends
    <3>2. {NewFds(l)[1], NewFds(l)[2], NewFds(l)[3]} \subseteq 0..MaxFd
      <4>1. \A a \in 1..3 : NewFds(l)[a] \in FreeFd
        BY <1>1, NewParts DEF N
      <4>2. 1 \in 1..3 /\ 2 \in 1..3 /\ 3 \in 1..3
        OBVIOUS
      <4>3. NewFds(l)[1] \in FreeFd /\ NewFds(l)[2] \in FreeFd /\ NewFds(l)[3] \in FreeFd
        BY <4>1, <4>2
      <4> QED BY <4>3, FreeParts
    <3> QED BY <3>1, <3>2 DEF TabOK
  <2>3. TabOK(EndsOf(NewPairs(l)))
    <3>1. /\ NewPairs(l) \in Seq(FreeFd \X FreeFd) /\ Apart(NewPairs(l)) /\ Len(NewPairs(l)) = TempPipes + N
      BY <1>1, NewParts DEF N
    <3>2. NewPairs(l) \in Seq((0..MaxFd) \X (0..MaxFd))
      <4>1. FreeFd \X FreeFd \subseteq (0..MaxFd) \X (0..MaxFd)
        BY FreeParts
      <4> QED BY <3>1, <4>1, SeqDef
    <3>3. Cardinality(FreePipes) >= Len(NewPairs(l))
      BY <1>1, <3>1 DEF Room
    <3> QED BY <3>1, <3>2, <3>3, EndsOfParts
  <2>4. tab' = Merge(Merge(tab, t), EndsOf(NewPairs(l)))
    BY StartNames
  <2> HIDE DEF t
  <2> QED BY <2>1, <2>2, <2>3, <2>4, MergeParts
<1>7. temp' \in Seq(Pair) /\ Len(temp') = TempPipes
  <2>1. /\ NewPairs(l) \in Seq(FreeFd \X FreeFd) /\ DOMAIN NewPairs(l) = 1..(TempPipes + N)
        /\ Len(NewPairs(l)) = TempPipes + N /\ TempPipes \in Nat
    BY <1>1, NewParts DEF N
  <2>2. FreeFd \X FreeFd \subseteq Pair
    BY FreePairs
  <2>3. \A m \in 1..TempPipes : NewPairs(l)[m] \in Pair
    <3>1. \A m \in 1..TempPipes : m \in 1..(TempPipes + N)
      BY <1>2, <2>1
    <3> QED BY <2>1, <2>2, <3>1, LenProperties
  <2>4. /\ SubSeq(NewPairs(l), 1, TempPipes) \in Seq(Pair)
        /\ Len(SubSeq(NewPairs(l), 1, TempPipes)) = IF 1 <= TempPipes THEN TempPipes - 1 + 1 ELSE 0
    BY <2>1, <2>3, SubSeqProperties
  <2>5. Len(SubSeq(NewPairs(l), 1, TempPipes)) = TempPipes
    BY <2>1, <2>4
  <2> QED BY <2>4, <2>5, StartNames
<1>8. TypeInv'
  <2>1. scratch' \subseteq 0..MaxFd
    <3>1. \A a \in 1..3 : NewFds(l)[a] \in FreeFd
      BY <1>1, NewParts DEF N
    <3>2. NewFds(l)[1] \in FreeFd /\ NewFds(l)[2] \in FreeFd
      BY <3>1
    <3>3. scratch' = {NewFds(l)[1], NewFds(l)[2]}
      BY StartNames
    <3> QED BY <3>2, <3>3, FreeParts
  <2>2. data' \in [Pipes -> SUBSET Job]
    BY StartNames DEF Typed, TypeInv
  <2>3. /\ temp_id' = 0 /\ fresh' = TRUE /\ stop_pipe' = TRUE /\ last_pid' = None /\ pre_pid' = None
        /\ lines' = lines + 1 /\ segs' = [segs EXCEPT ![u] = SegOf(u, l, N)]
        /\ UNCHANGED <<user_pipe, procs, owed, made>>
    BY StartNames DEF N
  <2>4. SegOf(u, l, N) \in Nat
    BY <1>2
  <2>5. lines' \in 0..MaxLines /\ 0 \in 0..TempPipes
    BY <1>1, <2>3, BoundAssumption DEF Typed, TypeInv
  <2>6. segs' \in [User -> Nat]
    BY <2>3, <2>4 DEF Typed, TypeInv
  <2>7. i' \in Nat
    BY <1>1, <1>3
  <2> QED BY <1>1, <1>5, <1>6, <1>7, <2>1, <2>2, <2>3, <2>5, <2>6, <2>7 DEF Typed, TypeInv
<1>9. Progress'
  <2>1. my' = s
    BY <1>1, <1>5 DEF my
  <2>2. u # None
    BY BoundAssumption
  <2>3. \A k \in 1..Len(old) : old[k].type = "NUM_PIPE" /\ old[k].exe /\ old[k].job \in Job
    BY <1>1, <1>3, <2>2 DEF Typed, Progress, old
  <2>4. \A k \in DOMAIN s : s[k].job \in Job
    <3> SUFFICES ASSUME NEW k \in DOMAIN s PROVE s[k].job \in Job
      OBVIOUS
    <3>1. CASE k \in 1..Len(old)
      BY <1>4, <2>3, <3>1
    <3>2. CASE k - Len(old) \in 1..N
      <4>1. Len(old) + (k - Len(old)) = k
        BY <1>3, <1>4
      <4> QED BY <1>2, <1>4, <3>2, <4>1
    <3> QED BY <1>4, <3>1, <3>2
  <2>5. \A k \in 1..(i' - 1) : Done(s[k])
    <3>1. i' - 1 = Len(old)
      BY <1>1, <1>3
    <3> QED BY <1>4, <2>3, <3>1 DEF Done
  <2>6. \A v \in User : \A k \in DOMAIN cmds'[v] : cmds'[v][k].job \in Job
    BY <1>5, <2>4 DEF Typed, Progress
  <2>7. \A v \in User : \A k \in DOMAIN cmds'[v] :
          v # u => cmds'[v][k].type = "NUM_PIPE" /\ cmds'[v][k].exe
    <3>1. \A v \in User : v # cur
      BY <1>1, BoundAssumption
    <3> QED BY <1>5, <3>1 DEF Typed, Progress
  <2>8. i' > 0 /\ i' <= Len(s) + 1
    <3>1. i' = Len(old) + 1 /\ Len(s) = Len(old) + N
      BY <1>1, <1>4
    <3>2. N \in Nat /\ N > 0 /\ Len(old) \in Nat
      BY <1>2, <1>3
    <3> QED BY <3>1, <3>2
  <2>9. temp_id' < TempPipes
    BY StartNames, BoundAssumption
  <2> QED BY <1>1, <1>7, <2>1, <2>2, <2>5, <2>6, <2>7, <2>8, <2>9 DEF Progress
<1> QED BY <1>8, <1>9

-------------------------------------------------------------------------------
(* What the steps leave of the commands of the line.                        *)
Kept(c, d) == /\ c.type = d.type /\ c.rd = d.rd /\ c.wr = d.wr /\ c.words = d.words
              /\ c.typed = d.typed /\ c.fd = d.fd /\ c.job = d.job /\ c.seg = d.seg
              /\ c.first = d.first

LEMMA DownType ==
  ASSUME NEW n \in Nat
  PROVE  Down(n) \in Nat /\ Down(n) <= n
BY DEF Down

LEMMA ReduceParts ==
  ASSUME NEW s \in Seq(Cmd)
  PROVE  /\ reduce_num_pipes(s) \in Seq(Cmd) /\ Len(reduce_num_pipes(s)) = Len(s)
         /\ \A k \in 1..Len(s) :
              /\ reduce_num_pipes(s)[k] \in Cmd
              /\ Kept(reduce_num_pipes(s)[k], s[k])
              /\ reduce_num_pipes(s)[k].exe = s[k].exe /\ reduce_num_pipes(s)[k].piped = s[k].piped
              /\ reduce_num_pipes(s)[k].num =
                   IF C.type = "NUM_PIPE" /\ k <= i THEN Down(s[k].num) ELSE s[k].num
<1>1. DOMAIN s = 1..Len(s) /\ Len(s) \in Nat /\ \A k \in 1..Len(s) : s[k] \in Cmd
  BY LenProperties
<1>2. CASE C.type # "NUM_PIPE"
  <2>1. reduce_num_pipes(s) = s
    BY <1>2 DEF reduce_num_pipes
  <2> QED BY <1>1, <1>2, <2>1 DEF Kept
<1>3. CASE C.type = "NUM_PIPE"
  <2> DEFINE r == reduce_num_pipes(s)
  <2>1. r = [k \in 1..Len(s) |-> IF k <= i THEN [s[k] EXCEPT !.num = Down(@)] ELSE s[k]]
    BY <1>1, <1>3 DEF reduce_num_pipes
  <2> HIDE DEF r
  <2>2. \A k \in 1..Len(s) :
          /\ r[k] \in Cmd /\ Kept(r[k], s[k]) /\ r[k].exe = s[k].exe /\ r[k].piped = s[k].piped
          /\ r[k].num = IF k <= i THEN Down(s[k].num) ELSE s[k].num
    <3> SUFFICES ASSUME NEW k \in 1..Len(s)
                 PROVE  /\ r[k] \in Cmd /\ Kept(r[k], s[k]) /\ r[k].exe = s[k].exe
                        /\ r[k].piped = s[k].piped
                        /\ r[k].num = IF k <= i THEN Down(s[k].num) ELSE s[k].num
      OBVIOUS
    <3>1. s[k] \in Cmd /\ s[k].num \in Nat
      BY <1>1 DEF Cmd
    <3>2. Down(s[k].num) \in Nat
      BY <3>1, DownType
    <3>3. CASE k <= i
      <4>1. r[k] = [s[k] EXCEPT !.num = Down(@)]
        BY <2>1, <3>3
      <4> QED BY <3>1, <3>2, <3>3, <4>1 DEF Cmd, Kept
    <3>4. CASE ~(k <= i)
      BY <2>1, <3>1, <3>4 DEF Kept
    <3> QED BY <3>3, <3>4
  <2>3. r \in [1..Len(s) -> Cmd]
    BY <2>1, <2>2
  <2>4. r \in Seq(Cmd) /\ Len(r) = Len(s)
    BY <1>1, <2>3, FunctionIsSeq
  <2> QED BY <1>3, <2>2, <2>4 DEF r
<1> QED BY <1>2, <1>3

Mark(s, j, p) == [s EXCEPT ![j].exe = TRUE, ![j].piped = p]

LEMMA MarkParts ==
  ASSUME NEW s \in Seq(Cmd), NEW j \in 1..Len(s), NEW p \in BOOLEAN
  PROVE  /\ Mark(s, j, p) \in Seq(Cmd) /\ Len(Mark(s, j, p)) = Len(s)
         /\ Mark(s, j, p)[j] \in Cmd /\ Kept(Mark(s, j, p)[j], s[j])
         /\ Mark(s, j, p)[j].num = s[j].num
         /\ Mark(s, j, p)[j].exe = TRUE /\ Mark(s, j, p)[j].piped = p
         /\ \A k \in 1..Len(s) : k # j => Mark(s, j, p)[k] = s[k]
<1> DEFINE t == [s EXCEPT ![j].exe = TRUE, ![j].piped = p]
<1>1. s \in [1..Len(s) -> Cmd] /\ Len(s) \in Nat /\ s[j] \in Cmd
  BY LenProperties
<1>2. t[j] = [s[j] EXCEPT !.exe = TRUE, !.piped = p] /\ \A k \in 1..Len(s) : k # j => t[k] = s[k]
  BY <1>1
<1>3. t[j] \in Cmd /\ Kept(t[j], s[j]) /\ t[j].num = s[j].num /\ t[j].exe = TRUE /\ t[j].piped = p
  <2> HIDE DEF t
  <2> QED BY <1>1, <1>2 DEF Cmd, Kept
<1>4. t = [k \in 1..Len(s) |-> t[k]]
  BY <1>1
<1>5. t \in [1..Len(s) -> Cmd]
  <2> HIDE DEF t
  <2> QED BY <1>1, <1>2, <1>3, <1>4
<1>6. t \in Seq(Cmd) /\ Len(t) = Len(s)
  <2> HIDE DEF t
  <2> QED BY <1>1, <1>5, FunctionIsSeq
<1> HIDE DEF t
<1>7. Mark(s, j, p) = t
  BY DEF Mark, t
<1> QED BY <1>2, <1>3, <1>6, <1>7

(* The commands of the line may be marked, but stay what they are.          *)
LEMMA CmdsUpdate ==
  ASSUME Typed, pc # "read", cur' = cur, NEW s \in Seq(Cmd), Len(s) = Len(my),
         \A k \in 1..Len(s) : Kept(s[k], my[k]),
         \A k \in 1..Len(s) : Done(my[k]) => Done(s[k]),
         cmds' = [cmds EXCEPT ![cur] = s]
  PROVE  /\ cmds' \in [User -> Seq(Cmd)] /\ my' = s
         /\ \A v \in User : v # cur => cmds'[v] = cmds[v]
         /\ \A u \in User : \A k \in DOMAIN cmds'[u] : cmds'[u][k].job \in Job
         /\ \A u \in User : \A k \in DOMAIN cmds'[u] :
              u # cur => cmds'[u][k].type = "NUM_PIPE" /\ cmds'[u][k].exe
         /\ \A k \in 1..(i - 1) : Done(my'[k])
<1>1. cur \in User /\ my \in Seq(Cmd) /\ Len(my) \in Nat /\ DOMAIN my = 1..Len(my)
  BY CurUser DEF Typed
<1>2. cmds' \in [User -> Seq(Cmd)] /\ cmds'[cur] = s /\ \A v \in User : v # cur => cmds'[v] = cmds[v]
  BY <1>1 DEF Typed, TypeInv
<1>3. my' = s
  BY <1>2 DEF my
<1>4. DOMAIN s = 1..Len(my)
  BY LenProperties
<1>5. \A k \in DOMAIN s : s[k].job \in Job
  <2>1. \A k \in 1..Len(my) : my[k].job \in Job
    BY <1>1 DEF Typed, Progress, my
  <2> QED BY <1>4, <2>1 DEF Kept
<1>6. i <= Len(my) + 1 /\ i \in Nat /\ \A k \in 1..(i - 1) : Done(my[k])
  BY DEF Typed, Progress, TypeInv
<1>7. \A k \in 1..(i - 1) : Done(s[k])
  BY <1>1, <1>6
<1> QED BY <1>2, <1>3, <1>5, <1>7 DEF Typed, Progress

(* The cat that collects a number pipe.                                     *)
Collector(j) ==
  LET pair == temp[NextTemp + 1]
      kept == Close(tab, Both(my[j].fd) \cup Both(pair))
      in   == At(tab, my[j].fd[1])
      out  == At(tab, pair[2])
  IN [id |-> my[j].job, kind |-> "collect", reads |-> TRUE, in |-> in,
      out |-> out, held |-> Range(kept) \cup {in, out}, want |-> {}]

LEMMA CollectNames ==
  ASSUME Typed, Collect
  PROVE  /\ AtStage /\ temp_id' = NextTemp /\ fresh' = FALSE
         /\ UNCHANGED <<cur, i, temp, stop_pipe, last_pid, pre_pid, scratch, user_pipe, data, ghost>>
         /\ \E j \in 1..(i - 1) :
              /\ Due(cur, j) /\ \A k \in 1..(j - 1) : ~Due(cur, k)
              /\ \/ NextTemp >= TempPipes /\ pc' = "killed" /\ UNCHANGED <<cmds, tab, procs>>
                 \/ /\ NextTemp < TempPipes /\ pc' = pc
                    /\ procs' = procs \cup {Collector(j)}
                    /\ cmds' = [cmds EXCEPT ![cur] = [@ EXCEPT ![j].piped = TRUE]]
                    /\ tab' = Close(tab, Both(my[j].fd))
<1>1. AtStage /\ UNCHANGED <<cur, i, temp, stop_pipe, last_pid, pre_pid, scratch, user_pipe, data, ghost>>
  BY DEF Collect
<1>2. PICK j \in {j \in 1..(i - 1) : Due(cur, j) /\ \A k \in 1..(j - 1) : ~Due(cur, k)} :
       /\ temp_id' = NextTemp /\ fresh' = FALSE
       /\ \/ NextTemp >= TempPipes /\ pc' = "killed" /\ UNCHANGED <<cmds, tab, procs>>
          \/ /\ NextTemp < TempPipes /\ pc' = pc
             /\ procs' = procs \cup {Collector(j)}
             /\ cmds' = [cmds EXCEPT ![cur][j].piped = TRUE]
             /\ tab' = Close(tab, Both(my[j].fd))
  BY DEF Collect, Collector
<1> QED BY <1>1, <1>2

LEMMA CollectCmds ==
  ASSUME Typed, AtStage, cur' = cur, NEW j \in 1..(i - 1),
         cmds' = [cmds EXCEPT ![cur] = [@ EXCEPT ![j].piped = TRUE]]
  PROVE  /\ cmds' \in [User -> Seq(Cmd)] /\ my' \in Seq(Cmd) /\ Len(my') = Len(my)
         /\ \A v \in User : v # cur => cmds'[v] = cmds[v]
         /\ \A k \in 1..Len(my) :
              /\ my[k] \in Cmd /\ my'[k] \in Cmd /\ Kept(my'[k], my[k])
              /\ my'[k].num = my[k].num /\ my'[k].exe = my[k].exe
              /\ k # j => my'[k] = my[k]
         /\ my'[j].piped = TRUE
         /\ \A u \in User : \A k \in DOMAIN cmds'[u] : cmds'[u][k].job \in Job
         /\ \A u \in User : \A k \in DOMAIN cmds'[u] :
              u # cur => cmds'[u][k].type = "NUM_PIPE" /\ cmds'[u][k].exe
         /\ \A k \in 1..(i - 1) : Done(my'[k])
<1>1. pc = "stage" /\ cur \in User /\ cur # None /\ my \in Seq(Cmd) /\ Len(my) \in Nat /\ DOMAIN my = 1..Len(my)
      /\ i \in 1..Len(my) /\ \A k \in 1..Len(my) : my[k] \in Cmd
  BY CurUser DEF Typed, AtStage
<1>2. j \in 1..Len(my)
  BY <1>1
<1> DEFINE s == [my EXCEPT ![j].piped = TRUE]
<1>3. my[j] \in Cmd /\ my \in [1..Len(my) -> Cmd]
  BY <1>1, <1>2, LenProperties
<1>4. s[j] = [my[j] EXCEPT !.piped = TRUE] /\ \A k \in 1..Len(my) : k # j => s[k] = my[k]
  BY <1>2, <1>3
<1>5. s = [k \in 1..Len(my) |-> s[k]]
  BY <1>3
<1>6. cmds' = [cmds EXCEPT ![cur] = s]
  BY DEF my
<1> HIDE DEF s
<1>7. s[j] \in Cmd /\ Kept(s[j], my[j]) /\ s[j].piped = TRUE /\ s[j].exe = my[j].exe /\ s[j].num = my[j].num
  BY <1>3, <1>4 DEF Cmd, Kept
<1>8. s \in [1..Len(my) -> Cmd]
  BY <1>1, <1>4, <1>5, <1>7
<1>9. s \in Seq(Cmd) /\ Len(s) = Len(my)
  BY <1>1, <1>8, FunctionIsSeq
<1>10. \A k \in 1..Len(my) : s[k] \in Cmd /\ Kept(s[k], my[k]) /\ s[k].num = my[k].num /\ s[k].exe = my[k].exe
  <2> SUFFICES ASSUME NEW k \in 1..Len(my)
               PROVE  s[k] \in Cmd /\ Kept(s[k], my[k]) /\ s[k].num = my[k].num /\ s[k].exe = my[k].exe
    OBVIOUS
  <2>1. CASE k = j
    BY <1>7, <2>1
  <2>2. CASE k # j
    BY <1>1, <1>4, <2>2 DEF Kept
  <2> QED BY <2>1, <2>2
<1>11. \A k \in 1..Len(my) : Done(my[k]) => Done(s[k])
  BY <1>4, <1>7 DEF Done, Kept
<1>12. /\ cmds' \in [User -> Seq(Cmd)] /\ my' = s
       /\ \A v \in User : v # cur => cmds'[v] = cmds[v]
       /\ \A u \in User : \A k \in DOMAIN cmds'[u] : cmds'[u][k].job \in Job
       /\ \A u \in User : \A k \in DOMAIN cmds'[u] :
            u # cur => cmds'[u][k].type = "NUM_PIPE" /\ cmds'[u][k].exe
       /\ \A k \in 1..(i - 1) : Done(my'[k])
  <2>1. pc # "read"
    BY <1>1
  <2>2. \A k \in 1..Len(s) : Kept(s[k], my[k])
    BY <1>9, <1>10
  <2>3. \A k \in 1..Len(s) : Done(my[k]) => Done(s[k])
    BY <1>9, <1>11
  <2> QED BY <1>6, <1>9, <2>1, <2>2, <2>3, CmdsUpdate
<1> QED BY <1>1, <1>4, <1>7, <1>9, <1>10, <1>12

LEMMA TypesCollect ==
  ASSUME Typed, Collect
  PROVE  TypeInv' /\ Progress'
<1>1. /\ AtStage /\ temp_id' = NextTemp /\ fresh' = FALSE
      /\ UNCHANGED <<cur, i, temp, stop_pipe, last_pid, pre_pid, scratch, user_pipe, data, ghost>>
  BY CollectNames
<1>2. pc = "stage" /\ cur \in User /\ cur # None /\ my \in Seq(Cmd) /\ Len(my) \in Nat /\ DOMAIN my = 1..Len(my)
      /\ i \in 1..Len(my) /\ \A k \in 1..Len(my) : my[k] \in Cmd
  BY <1>1, CurUser DEF Typed, AtStage
<1>3. NextTemp \in 0..TempPipes
  BY <1>2, BoundAssumption DEF NextTemp, Typed, TypeInv, Progress
<1>4. PICK j \in 1..(i - 1) :
         /\ Due(cur, j) /\ \A k \in 1..(j - 1) : ~Due(cur, k)
         /\ \/ NextTemp >= TempPipes /\ pc' = "killed" /\ UNCHANGED <<cmds, tab, procs>>
            \/ /\ NextTemp < TempPipes /\ pc' = pc
               /\ procs' = procs \cup {Collector(j)}
               /\ cmds' = [cmds EXCEPT ![cur] = [@ EXCEPT ![j].piped = TRUE]]
               /\ tab' = Close(tab, Both(my[j].fd))
  BY CollectNames
<1>5. CASE NextTemp >= TempPipes /\ pc' = "killed" /\ UNCHANGED <<cmds, tab, procs>>
  <2>1. TypeInv'
    BY <1>1, <1>3, <1>5 DEF Typed, TypeInv, ghost, TabOK
  <2>2. my' = my
    BY <1>1, <1>5 DEF my
  <2>3. Progress'
    BY <1>1, <1>2, <1>5, <2>2 DEF Typed, Progress
  <2> QED BY <2>1, <2>3
<1>6. CASE /\ NextTemp < TempPipes /\ pc' = pc
           /\ procs' = procs \cup {Collector(j)}
           /\ cmds' = [cmds EXCEPT ![cur] = [@ EXCEPT ![j].piped = TRUE]]
           /\ tab' = Close(tab, Both(my[j].fd))
  <2>1. j \in 1..Len(my)
    BY <1>2
  <2>4. /\ cmds' \in [User -> Seq(Cmd)] /\ Len(my') = Len(my)
        /\ \A u \in User : \A k \in DOMAIN cmds'[u] : cmds'[u][k].job \in Job
        /\ \A u \in User : \A k \in DOMAIN cmds'[u] :
             u # cur => cmds'[u][k].type = "NUM_PIPE" /\ cmds'[u][k].exe
        /\ \A k \in 1..(i - 1) : Done(my'[k])
    BY <1>1, <1>6, CollectCmds
  <2>5. Collector(j) \in Proc
    <3> DEFINE pair == temp[NextTemp + 1]
               kept == Close(tab, Both(my[j].fd) \cup Both(pair))
    <3>1. TabOK(tab)
      BY DEF Typed, TypeInv
    <3>2. TabOK(kept)
      BY <3>1, CloseParts
    <3>3. Range(kept) \subseteq Ends
      BY <3>2, AtType
    <3>4. At(tab, my[j].fd[1]) \in Ends /\ At(tab, pair[2]) \in Ends
      BY <3>1, AtType
    <3>5. my[j].job \in Job
      BY <1>2, <2>1 DEF Typed, Progress, my
    <3> HIDE DEF pair
    <3> QED BY <3>3, <3>4, <3>5 DEF Collector, Proc, pair
  <2>6. TabOK(tab')
    BY <1>6, CloseParts DEF Typed, TypeInv
  <2>7. TypeInv'
    BY <1>1, <1>2, <1>3, <1>6, <2>4, <2>5, <2>6 DEF Typed, TypeInv, ghost
  <2>8. Progress'
    BY <1>1, <1>2, <1>6, <2>4 DEF Typed, Progress
  <2> QED BY <2>7, <2>8
<1> QED BY <1>4, <1>5, <1>6

(* What a stage does to the commands, whether it fails or forks.            *)
LEMMA StageCmds ==
  ASSUME Typed, AtStage, cur' = cur, NEW p \in BOOLEAN, C.type # "NUM_PIPE" => p = TRUE,
         cmds' = [cmds EXCEPT ![cur] = Mark(reduce_num_pipes(my), i, p)]
  PROVE  /\ cur \in User /\ cur # None /\ i \in 1..Len(my) /\ Len(my) \in Nat
         /\ cmds' \in [User -> Seq(Cmd)] /\ my' \in Seq(Cmd) /\ Len(my') = Len(my)
         /\ \A v \in User : v # cur => cmds'[v] = cmds[v]
         /\ \A k \in 1..Len(my) :
              /\ my[k] \in Cmd /\ my'[k] \in Cmd /\ Kept(my'[k], my[k])
              /\ my'[k].num = IF C.type = "NUM_PIPE" /\ k <= i THEN Down(my[k].num) ELSE my[k].num
              /\ k # i => my'[k].exe = my[k].exe /\ my'[k].piped = my[k].piped
         /\ my'[i].exe = TRUE /\ my'[i].piped = p
         /\ \A u \in User : \A k \in DOMAIN cmds'[u] : cmds'[u][k].job \in Job
         /\ \A u \in User : \A k \in DOMAIN cmds'[u] :
              u # cur => cmds'[u][k].type = "NUM_PIPE" /\ cmds'[u][k].exe
         /\ \A k \in 1..i : Done(my'[k])
<1>1. pc = "stage" /\ cur \in User /\ cur # None /\ my \in Seq(Cmd) /\ Len(my) \in Nat /\ DOMAIN my = 1..Len(my)
      /\ i \in 1..Len(my) /\ \A k \in 1..Len(my) : my[k] \in Cmd
  BY CurUser DEF Typed, AtStage
<1> DEFINE r == reduce_num_pipes(my)
           s == Mark(r, i, p)
<1>2. /\ r \in Seq(Cmd) /\ Len(r) = Len(my)
      /\ \A k \in 1..Len(my) :
           /\ r[k] \in Cmd /\ Kept(r[k], my[k]) /\ r[k].exe = my[k].exe /\ r[k].piped = my[k].piped
           /\ r[k].num = IF C.type = "NUM_PIPE" /\ k <= i THEN Down(my[k].num) ELSE my[k].num
  BY <1>1, ReduceParts
<1>3. cmds' = [cmds EXCEPT ![cur] = s]
  OBVIOUS
<1> HIDE DEF r
<1>4. /\ s \in Seq(Cmd) /\ Len(s) = Len(r) /\ s[i] \in Cmd /\ Kept(s[i], r[i]) /\ s[i].num = r[i].num
      /\ s[i].exe = TRUE /\ s[i].piped = p
      /\ \A k \in 1..Len(r) : k # i => s[k] = r[k]
  <2>1. i \in 1..Len(r) /\ r \in Seq(Cmd) /\ TRUE \in BOOLEAN /\ FALSE \in BOOLEAN
    BY <1>1, <1>2
  <2>2. CASE p = TRUE
    <3>1. /\ Mark(r, i, TRUE) \in Seq(Cmd) /\ Len(Mark(r, i, TRUE)) = Len(r)
          /\ Mark(r, i, TRUE)[i] \in Cmd /\ Kept(Mark(r, i, TRUE)[i], r[i])
          /\ Mark(r, i, TRUE)[i].num = r[i].num
          /\ Mark(r, i, TRUE)[i].exe = TRUE /\ Mark(r, i, TRUE)[i].piped = TRUE
          /\ \A k \in 1..Len(r) : k # i => Mark(r, i, TRUE)[k] = r[k]
      BY <2>1, MarkParts
    <3> QED BY <2>2, <3>1, Zenon
  <2>3. CASE p = FALSE
    <3>1. /\ Mark(r, i, FALSE) \in Seq(Cmd) /\ Len(Mark(r, i, FALSE)) = Len(r)
          /\ Mark(r, i, FALSE)[i] \in Cmd /\ Kept(Mark(r, i, FALSE)[i], r[i])
          /\ Mark(r, i, FALSE)[i].num = r[i].num
          /\ Mark(r, i, FALSE)[i].exe = TRUE /\ Mark(r, i, FALSE)[i].piped = FALSE
          /\ \A k \in 1..Len(r) : k # i => Mark(r, i, FALSE)[k] = r[k]
      BY <2>1, MarkParts
    <3> QED BY <2>3, <3>1, Zenon
  <2> QED BY <2>2, <2>3
<1> HIDE DEF s
<1>5. \A k \in 1..Len(my) :
        /\ s[k] \in Cmd /\ Kept(s[k], my[k])
        /\ s[k].num = IF C.type = "NUM_PIPE" /\ k <= i THEN Down(my[k].num) ELSE my[k].num
        /\ k # i => s[k].exe = my[k].exe /\ s[k].piped = my[k].piped
  <2> SUFFICES ASSUME NEW k \in 1..Len(my)
               PROVE  /\ s[k] \in Cmd /\ Kept(s[k], my[k])
                      /\ s[k].num = IF C.type = "NUM_PIPE" /\ k <= i THEN Down(my[k].num) ELSE my[k].num
                      /\ k # i => s[k].exe = my[k].exe /\ s[k].piped = my[k].piped
    OBVIOUS
  <2>1. CASE k = i
    BY <1>2, <1>4, <2>1 DEF Kept
  <2>2. CASE k # i
    BY <1>2, <1>4, <2>2
  <2> QED BY <2>1, <2>2
<1>6. C = my[i]
  BY DEF C
<1>7. \A k \in 1..Len(my) : Done(my[k]) => Done(s[k])
  <2> SUFFICES ASSUME NEW k \in 1..Len(my), Done(my[k]) PROVE Done(s[k])
    OBVIOUS
  <2>1. Kept(s[k], my[k])
    BY <1>5
  <2>2. CASE k = i
    BY <1>4, <1>6, <2>1, <2>2 DEF Kept, Done
  <2>3. CASE k # i
    BY <1>5, <2>1, <2>3 DEF Kept, Done
  <2> QED BY <2>2, <2>3
<1>8. Done(s[i])
  <2>1. Kept(s[i], my[i])
    BY <1>1, <1>5
  <2> QED BY <1>4, <1>6, <2>1 DEF Done, Kept
<1>9. /\ cmds' \in [User -> Seq(Cmd)] /\ my' = s
      /\ \A v \in User : v # cur => cmds'[v] = cmds[v]
      /\ \A u \in User : \A k \in DOMAIN cmds'[u] : cmds'[u][k].job \in Job
      /\ \A u \in User : \A k \in DOMAIN cmds'[u] :
           u # cur => cmds'[u][k].type = "NUM_PIPE" /\ cmds'[u][k].exe
      /\ \A k \in 1..(i - 1) : Done(my'[k])
  <2>1. Len(s) = Len(my) /\ s \in Seq(Cmd)
    BY <1>2, <1>4
  <2>2. \A k \in 1..Len(s) : Kept(s[k], my[k])
    BY <1>5, <2>1
  <2>3. \A k \in 1..Len(s) : Done(my[k]) => Done(s[k])
    BY <1>7, <2>1
  <2> QED BY <1>1, <1>3, <2>1, <2>2, <2>3, CmdsUpdate
<1>10. \A k \in 1..i : Done(my'[k])
  <2> SUFFICES ASSUME NEW k \in 1..i PROVE Done(my'[k])
    OBVIOUS
  <2>1. k = i \/ k \in 1..(i - 1)
    BY <1>1
  <2> QED BY <1>8, <1>9, <2>1
<1> QED BY <1>1, <1>2, <1>4, <1>5, <1>9, <1>10

LEMMA StageFailsCmds ==
  ASSUME Typed, StageFails
  PROVE  /\ AtStage /\ cur' = cur /\ i' = i
         /\ cmds' = [cmds EXCEPT ![cur] = Mark(reduce_num_pipes(my), i, TRUE)]
         /\ pc' = "waitpre" /\ UNCHANGED <<line, user_pipe, tab, data, procs, ghost>>
         /\ ~(CanRead /\ CanWrite) /\ (\A j \in 1..(i - 1) : ~Due(cur, j))
BY DEF StageFails, Collected, Mark, my, line

LEMMA TypesStageFails ==
  ASSUME Typed, StageFails
  PROVE  TypeInv' /\ Progress'
<1>1. /\ AtStage /\ cur' = cur /\ i' = i /\ pc' = "waitpre"
      /\ cmds' = [cmds EXCEPT ![cur] = Mark(reduce_num_pipes(my), i, TRUE)]
      /\ UNCHANGED <<line, user_pipe, tab, data, procs, ghost>>
  BY StageFailsCmds
<1>2. /\ cur \in User /\ cur # None /\ i \in 1..Len(my) /\ Len(my) \in Nat
      /\ cmds' \in [User -> Seq(Cmd)] /\ Len(my') = Len(my)
      /\ \A u \in User : \A k \in DOMAIN cmds'[u] : cmds'[u][k].job \in Job
      /\ \A u \in User : \A k \in DOMAIN cmds'[u] :
           u # cur => cmds'[u][k].type = "NUM_PIPE" /\ cmds'[u][k].exe
      /\ \A k \in 1..i : Done(my'[k])
  BY <1>1, StageCmds
<1>3. TypeInv'
  BY <1>1, <1>2 DEF Typed, TypeInv, ghost, line, TabOK
<1>4. Done(my'[i]) /\ \A k \in 1..(i - 1) : Done(my'[k])
  BY <1>2
<1>5. Progress'
  BY <1>1, <1>2, <1>4 DEF Typed, Progress, line, AtStage
<1> QED BY <1>3, <1>5

LEMMA TypesWaitPre ==
  ASSUME Typed, WaitPre
  PROVE  TypeInv' /\ Progress'
<1>1. /\ pc = "waitpre" /\ pc' = "stage" /\ i' = i + 1 /\ fresh' = TRUE
      /\ UNCHANGED <<cur, temp, temp_id, stop_pipe, last_pid, pre_pid, scratch,
                     cmds, user_pipe, tab, data, procs, ghost>>
  BY DEF WaitPre, NextStage
<1>2. cur \in User /\ my' = my /\ Len(my) \in Nat /\ i \in Nat /\ i > 0 /\ i <= Len(my) /\ Done(my[i])
      /\ \A k \in 1..(i - 1) : Done(my[k])
  BY <1>1, CurUser DEF Typed, TypeInv, Progress, my
<1>3. TypeInv'
  BY <1>1, <1>2 DEF Typed, TypeInv, ghost, TabOK
<1>4. \A k \in 1..(i' - 1) : Done(my'[k])
  <2> SUFFICES ASSUME NEW k \in 1..(i' - 1) PROVE Done(my[k])
    BY <1>2
  <2>1. k = i \/ k \in 1..(i - 1)
    BY <1>1, <1>2
  <2> QED BY <1>2, <2>1
<1>5. Progress'
  BY <1>1, <1>2, <1>4 DEF Typed, Progress
<1> QED BY <1>3, <1>5

LEMMA TypesEndLine ==
  ASSUME Typed, EndLine
  PROVE  TypeInv' /\ Progress'
<1>1. /\ pc = "stage" /\ i > Len(my) /\ pc' = "wait" /\ tab' = Close(tab, close_pipe \cup close_temp_pipe)
      /\ UNCHANGED <<line, cmds, user_pipe, data, procs, ghost>>
  BY DEF EndLine
<1>2. TabOK(tab')
  BY <1>1, CloseParts DEF Typed, TypeInv
<1>3. my' = my /\ i' = i
  BY <1>1 DEF my, line
<1>4. TypeInv'
  BY <1>1, <1>2 DEF Typed, TypeInv, ghost, line
<1>5. i = Len(my) + 1
  <2>1. Len(my) \in Nat
    BY <1>1, CurUser DEF Typed
  <2>2. i \in Nat /\ i <= Len(my) + 1
    BY <1>1 DEF Typed, Progress, TypeInv
  <2> QED BY <1>1, <2>1, <2>2
<1>6. Progress'
  BY <1>1, <1>3, <1>5 DEF Typed, Progress, line
<1> QED BY <1>4, <1>6

(* The names StageForks gives to its parts.                                 *)
ForkPairs == IF C.wr = -1 THEN << >> ELSE <<LowSeq(FreeFd, 2)>>
ForkUp    == IF C.wr = -1 THEN user_pipe ELSE [user_pipe EXCEPT ![cur][C.wr] = ForkPairs[1]]
ForkTab   == Merge(tab, EndsOf(ForkPairs))
ForkChild == Child(ForkTab, ForkUp)
Forked    == [id |-> C.job, kind |-> "stage", reads |-> Reads(C), want |-> Wanted,
              in |-> ForkChild.in, out |-> ForkChild.out, held |-> ForkChild.held]

LEMMA StageForksNames ==
  ASSUME StageForks
  PROVE  /\ AtStage /\ CanRead /\ CanWrite /\ (\A j \in 1..(i - 1) : ~Due(cur, j))
         /\ C.wr # -1 => Room(2, 1)
         /\ procs' = procs \cup {Forked}
         /\ tab' = Close(ForkTab, ParentCloses(ForkUp))
         /\ user_pipe' = IF C.rd = -1 THEN ForkUp ELSE [ForkUp EXCEPT ![C.rd][cur] = NoPair]
         /\ data' = IF ForkPairs = << >> THEN data ELSE [data EXCEPT ![Min(FreePipes)] = {}]
         /\ cmds' = [cmds EXCEPT ![cur] = Mark(reduce_num_pipes(my), i, is_piped)]
         /\ last_pid' = IF C.type \in {"NO_PIPE", "F_RED_PIPE"} THEN C.job ELSE last_pid
         /\ stop_pipe' = (C.type = "NUM_PIPE")
         /\ pre_pid' = C.job /\ i' = i + 1 /\ fresh' = TRUE
         /\ owed' = [owed EXCEPT ![cur] = {o \in @ : o[2] > C.seg}
                       \cup (IF C.type = "NUM_PIPE" THEN {<<C.job, C.seg + C.num>>} ELSE {})]
         /\ made' = IF C.wr = -1 THEN made ELSE [made EXCEPT ![cur][C.wr] = C.job]
         /\ UNCHANGED <<pc, cur, temp, temp_id, scratch, lines, segs>>
BY DEF StageForks, Collected, NextStage, ForkPairs, ForkUp, ForkTab, ForkChild, Forked, Mark, my

LEMMA StageForksCmds ==
  ASSUME Typed, StageForks
  PROVE  /\ cur \in User /\ cur # None /\ i \in 1..Len(my) /\ Len(my) \in Nat
         /\ cmds' \in [User -> Seq(Cmd)] /\ my' \in Seq(Cmd) /\ Len(my') = Len(my)
         /\ \A v \in User : v # cur => cmds'[v] = cmds[v]
         /\ \A k \in 1..Len(my) :
              /\ my[k] \in Cmd /\ my'[k] \in Cmd /\ Kept(my'[k], my[k])
              /\ my'[k].num = IF C.type = "NUM_PIPE" /\ k <= i THEN Down(my[k].num) ELSE my[k].num
              /\ k # i => my'[k].exe = my[k].exe /\ my'[k].piped = my[k].piped
         /\ my'[i].exe = TRUE /\ (my'[i].piped <=> C.type # "NUM_PIPE")
         /\ \A u \in User : \A k \in DOMAIN cmds'[u] : cmds'[u][k].job \in Job
         /\ \A u \in User : \A k \in DOMAIN cmds'[u] :
              u # cur => cmds'[u][k].type = "NUM_PIPE" /\ cmds'[u][k].exe
         /\ \A k \in 1..i : Done(my'[k])
<1>1. AtStage /\ cur' = cur /\ cmds' = [cmds EXCEPT ![cur] = Mark(reduce_num_pipes(my), i, is_piped)]
  BY StageForksNames
<1>2. CASE C.type # "NUM_PIPE"
  <2>1. is_piped = TRUE
    BY <1>2 DEF is_piped
  <2>2. cmds' = [cmds EXCEPT ![cur] = Mark(reduce_num_pipes(my), i, TRUE)]
    BY <1>1, <2>1, Zenon
  <2> QED BY <1>1, <1>2, <2>2, StageCmds
<1>3. CASE C.type = "NUM_PIPE"
  <2>1. is_piped = FALSE
    BY <1>3 DEF is_piped
  <2>2. cmds' = [cmds EXCEPT ![cur] = Mark(reduce_num_pipes(my), i, FALSE)]
    BY <1>1, <2>1, Zenon
  <2> QED BY <1>1, <1>3, <2>2, StageCmds
<1> QED BY <1>2, <1>3

LEMMA PairSeq ==
  ASSUME NEW T, NEW s \in Seq(T), Len(s) = 2
  PROVE  s \in T \X T /\ s = <<s[1], s[2]>> /\ s[1] \in T /\ s[2] \in T
<1>1. s \in [1..2 -> T]
  BY LenProperties
<1>2. 1..2 = {1, 2}
  OBVIOUS
<1>3. s = [k \in {1, 2} |-> s[k]] /\ s[1] \in T /\ s[2] \in T
  BY <1>1, <1>2
<1>4. s = <<s[1], s[2]>>
  BY <1>3
<1> QED BY <1>3, <1>4

LEMMA ForkParts ==
  ASSUME C.wr # -1 => Room(2, 1)
  PROVE  /\ C.wr # -1 => /\ LowSeq(FreeFd, 2) \in FreeFd \X FreeFd
                         /\ LowSeq(FreeFd, 2)[1] \in FreeFd /\ LowSeq(FreeFd, 2)[2] \in FreeFd
                         /\ LowSeq(FreeFd, 2)[1] # LowSeq(FreeFd, 2)[2]
         /\ ForkPairs \in Seq((0..MaxFd) \X (0..MaxFd)) /\ Apart(ForkPairs)
         /\ Cardinality(FreePipes) >= Len(ForkPairs)
         /\ Len(ForkPairs) = IF C.wr = -1 THEN 0 ELSE 1
         /\ C.wr # -1 => ForkPairs[1] = LowSeq(FreeFd, 2)
<1>1. CASE C.wr = -1
  <2>1. ForkPairs = << >>
    BY <1>1 DEF ForkPairs
  <2>2. Len(ForkPairs) = 0 /\ DOMAIN ForkPairs = {} /\ ForkPairs \in Seq((0..MaxFd) \X (0..MaxFd))
    BY <2>1, EmptySeq
  <2> QED BY <1>1, <2>2, FreeParts DEF Apart
<1>2. CASE C.wr # -1
  <2> DEFINE p == LowSeq(FreeFd, 2)
  <2>1. Cardinality(FreeFd) >= 2 /\ Cardinality(FreePipes) >= 1
    BY <1>2 DEF Room
  <2>2. p \in Seq(FreeFd) /\ Len(p) = 2 /\ \A a, b \in 1..2 : p[a] = p[b] => a = b
    BY <2>1, FreeParts, LowSeqLists
  <2> HIDE DEF p
  <2>3. p \in FreeFd \X FreeFd /\ p[1] \in FreeFd /\ p[2] \in FreeFd
    BY <2>2, PairSeq
  <2>4. p[1] # p[2]
    BY <2>2
  <2>5. ForkPairs = <<p>>
    BY <1>2 DEF ForkPairs, p
  <2>6. p \in (0..MaxFd) \X (0..MaxFd)
    BY <2>3, FreeParts
  <2>7. ForkPairs \in Seq((0..MaxFd) \X (0..MaxFd)) /\ Len(ForkPairs) = 1 /\ DOMAIN ForkPairs = {1}
        /\ ForkPairs[1] = p
    BY <2>5, <2>6
  <2>8. Apart(ForkPairs)
    BY <2>4, <2>7 DEF Apart
  <2> QED BY <1>2, <2>1, <2>3, <2>4, <2>7, <2>8 DEF p
<1> QED BY <1>1, <1>2

LEMMA ChildType ==
  ASSUME NEW t, TabOK(t), NEW up
  PROVE  Child(t, up).in \in Ends /\ Child(t, up).out \in Ends /\ Child(t, up).held \subseteq Ends
<1> DEFINE t0 == close_unused_pipe_in_child(t)
<1>1. TabOK(t0)
  BY CloseParts DEF close_unused_pipe_in_child
<1>2. Other \in Ends
  BY DEF Ends
<1> HIDE DEF t0
<1>3. CASE C.type = "F_RED_PIPE"
  <2>1. Child(t, up) = exe_f_red(t0)
    BY <1>3 DEF Child, t0
  <2>2. \A F, f : At(Close(t0, F), f) \in Ends /\ Range(Close(t0, F)) \subseteq Ends
    BY <1>1, CloseParts, AtType
  <2> QED BY <1>2, <2>1, <2>2 DEF exe_f_red
<1>4. CASE C.type # "F_RED_PIPE"
  <2>1. Child(t, up) = exe_command(t0, up)
    BY <1>4 DEF Child, t0
  <2> DEFINE from == CASE C.rd # -1               -> up[C.rd][cur][1]
                       [] C.rd = -1 /\ stop_pipe  -> temp[temp_id + 1][1]
                       [] C.rd = -1 /\ ~stop_pipe -> my[i - 1].fd[1]
             in   == At(t0, from)
             t1   == Close(t0, {from} \cup Both(temp[temp_id + 1]))
             to   == CASE C.wr # -1                          -> {up[cur][C.wr][2]}
                       [] C.wr = -1 /\ C.type = "NO_PIPE"    -> {}
                       [] C.wr = -1 /\ C.type # "NO_PIPE"    -> {C.fd[2]}
             out  == IF to = {} THEN Other ELSE At(t1, Max(to))
  <2>2. exe_command(t0, up) = [in |-> in, out |-> out, held |-> Range(Close(t1, to)) \cup {in, out}]
    BY DEF exe_command
  <2> HIDE DEF from, to
  <2>3. in \in Ends /\ TabOK(t1)
    BY <1>1, CloseParts, AtType
  <2> HIDE DEF in, t1
  <2>4. out \in Ends
    BY <1>2, <2>3, AtType
  <2>5. Range(Close(t1, to)) \subseteq Ends
    BY <2>3, CloseParts, AtType
  <2> HIDE DEF out
  <2> QED BY <2>1, <2>2, <2>3, <2>4, <2>5
<1> QED BY <1>3, <1>4

LEMMA TypesStageForks ==
  ASSUME Typed, StageForks
  PROVE  TypeInv' /\ Progress'
<1>1. pc = "stage" /\ cur \in User /\ cur # None /\ my \in Seq(Cmd) /\ Len(my) \in Nat /\ DOMAIN my = 1..Len(my)
      /\ i \in 1..Len(my) /\ i \in Nat /\ C \in Cmd /\ AtStage
  <2>1. AtStage
    BY StageForksNames
  <2> QED BY <2>1, CurUser DEF Typed, AtStage, TypeInv
<1>2. C.job \in Job /\ (C.rd # -1 => C.rd \in User) /\ (C.wr # -1 => C.wr \in User)
  <2>1. CanRead /\ CanWrite
    BY StageForksNames
  <2>2. C.job \in Job
    BY <1>1 DEF Typed, Progress, my, C
  <2> QED BY <2>1, <2>2 DEF CanRead, CanWrite
<1>3. UNCHANGED <<pc, cur, temp, temp_id, scratch, lines, segs>> /\ i' = i + 1 /\ fresh' = TRUE
      /\ pre_pid' = C.job /\ stop_pipe' = (C.type = "NUM_PIPE")
      /\ last_pid' = (IF C.type \in {"NO_PIPE", "F_RED_PIPE"} THEN C.job ELSE last_pid)
  BY StageForksNames
<1>8. /\ cmds' \in [User -> Seq(Cmd)] /\ Len(my') = Len(my)
      /\ \A u \in User : \A k \in DOMAIN cmds'[u] : cmds'[u][k].job \in Job
      /\ \A u \in User : \A k \in DOMAIN cmds'[u] :
           u # cur => cmds'[u][k].type = "NUM_PIPE" /\ cmds'[u][k].exe
      /\ \A k \in 1..i : Done(my'[k])
  BY <1>1, <1>3, StageForksCmds
<1>10. Progress'
  <2>1. \A k \in 1..(i' - 1) : Done(my'[k])
    BY <1>1, <1>3, <1>8
  <2>2. i' > 0 /\ i' <= Len(my') + 1
    BY <1>1, <1>3, <1>8
  <2> QED BY <1>1, <1>3, <1>8, <2>1, <2>2 DEF Typed, Progress
<1>11. TabOK(ForkTab)
  <2>1. C.wr # -1 => Room(2, 1)
    BY StageForksNames
  <2>2. TabOK(EndsOf(ForkPairs))
    BY <2>1, ForkParts, EndsOfParts
  <2> QED BY <2>2, MergeParts DEF ForkTab, Typed, TypeInv
<1>12. ForkUp \in [User -> [User -> Pair]]
  <2>1. C.wr # -1 => ForkPairs[1] \in Pair
    <3>1. C.wr # -1 => Room(2, 1)
      BY StageForksNames
    <3> QED BY <3>1, ForkParts, FreePairs
  <2> QED BY <1>1, <1>2, <2>1 DEF ForkUp, Typed, TypeInv
<1>13. user_pipe' \in [User -> [User -> Pair]]
  <2>1. NoPair \in Pair
    BY BoundAssumption DEF NoPair, Pair
  <2>2. user_pipe' = IF C.rd = -1 THEN ForkUp ELSE [ForkUp EXCEPT ![C.rd][cur] = NoPair]
    BY StageForksNames
  <2> QED BY <1>1, <1>2, <1>12, <2>1, <2>2
<1>14. Forked \in Proc
  <2>1. ForkChild.in \in Ends /\ ForkChild.out \in Ends /\ ForkChild.held \subseteq Ends
    BY <1>11, ChildType DEF ForkChild
  <2>2. Wanted \subseteq Job \cup {None}
    <3>1. CASE C.rd # -1
      BY <1>1, <1>2, <3>1 DEF Wanted, Typed, TypeInv
    <3>2. CASE C.rd = -1 /\ C.first
      <4>1. owed[cur] \subseteq Job \X Nat
        BY <1>1 DEF Typed, TypeInv
      <4> QED BY <3>2, <4>1 DEF Wanted
    <3>3. CASE C.rd = -1 /\ ~C.first
      <4>1. pre_pid \in Job \cup {None}
        BY DEF Typed, TypeInv
      <4> QED BY <3>3, <4>1 DEF Wanted
    <3> QED BY <3>1, <3>2, <3>3
  <2>3. Reads(C) \in BOOLEAN
    BY DEF Reads
  <2> QED BY <1>2, <2>1, <2>2, <2>3 DEF Forked, Proc
<1>15. TypeInv'
  <2>1. TabOK(tab')
    <3>1. tab' = Close(ForkTab, ParentCloses(ForkUp))
      BY StageForksNames
    <3> QED BY <1>11, <3>1, CloseParts
  <2>2. data' \in [Pipes -> SUBSET Job]
    BY StageForksNames DEF Typed, TypeInv
  <2>3. owed' \in [User -> SUBSET (Job \X Nat)]
    <3>1. C.seg + C.num \in Nat
      <4>1. C.seg \in Nat /\ C.num \in Nat
        BY <1>1 DEF Cmd
      <4> QED BY <4>1
    <3>2. owed' = [owed EXCEPT ![cur] = {o \in @ : o[2] > C.seg}
                     \cup (IF C.type = "NUM_PIPE" THEN {<<C.job, C.seg + C.num>>} ELSE {})]
      BY StageForksNames
    <3>3. owed \in [User -> SUBSET (Job \X Nat)]
      BY DEF Typed, TypeInv
    <3> QED BY <1>1, <1>2, <3>1, <3>2, <3>3
  <2>4. made' \in [User -> [User -> Job \cup {None}]]
    <3>1. made' = IF C.wr = -1 THEN made ELSE [made EXCEPT ![cur][C.wr] = C.job]
      BY StageForksNames
    <3> QED BY <1>1, <1>2, <3>1 DEF Typed, TypeInv
  <2>5. procs' \subseteq Proc
    BY <1>14, StageForksNames DEF Typed, TypeInv
  <2>6. i' \in Nat /\ stop_pipe' \in BOOLEAN /\ last_pid' \in Job \cup {None} /\ pre_pid' \in Job \cup {None}
    BY <1>1, <1>2, <1>3 DEF Typed, TypeInv
  <2> QED BY <1>3, <1>8, <1>13, <2>1, <2>2, <2>3, <2>4, <2>5, <2>6 DEF Typed, TypeInv
<1> QED BY <1>10, <1>15

LEMMA ReduceNlParts ==
  ASSUME NEW s \in Seq(Cmd)
  PROVE  /\ reduce_num_by_nl(s) \in Seq(Cmd) /\ Len(reduce_num_by_nl(s)) = Len(s)
         /\ \A k \in 1..Len(s) :
              /\ reduce_num_by_nl(s)[k] \in Cmd
              /\ Kept(reduce_num_by_nl(s)[k], s[k])
              /\ reduce_num_by_nl(s)[k].exe = s[k].exe /\ reduce_num_by_nl(s)[k].piped = s[k].piped
              /\ reduce_num_by_nl(s)[k].num =
                   IF s[Len(s)].type = "NUM_PIPE" THEN s[k].num ELSE Down(s[k].num)
<1>1. DOMAIN s = 1..Len(s) /\ Len(s) \in Nat /\ \A k \in 1..Len(s) : s[k] \in Cmd
  BY LenProperties
<1>2. CASE s[Len(s)].type = "NUM_PIPE"
  <2>1. reduce_num_by_nl(s) = s
    BY <1>2 DEF reduce_num_by_nl
  <2> QED BY <1>1, <1>2, <2>1 DEF Kept
<1>3. CASE s[Len(s)].type # "NUM_PIPE"
  <2> DEFINE r == reduce_num_by_nl(s)
  <2>1. r = [k \in 1..Len(s) |-> [s[k] EXCEPT !.num = Down(@)]]
    BY <1>1, <1>3 DEF reduce_num_by_nl
  <2> HIDE DEF r
  <2>2. \A k \in 1..Len(s) :
          /\ r[k] \in Cmd /\ Kept(r[k], s[k]) /\ r[k].exe = s[k].exe /\ r[k].piped = s[k].piped
          /\ r[k].num = Down(s[k].num)
    <3> SUFFICES ASSUME NEW k \in 1..Len(s)
                 PROVE  /\ r[k] \in Cmd /\ Kept(r[k], s[k]) /\ r[k].exe = s[k].exe
                        /\ r[k].piped = s[k].piped /\ r[k].num = Down(s[k].num)
      OBVIOUS
    <3>1. s[k] \in Cmd /\ s[k].num \in Nat
      BY <1>1 DEF Cmd
    <3>2. Down(s[k].num) \in Nat
      BY <3>1, DownType
    <3>3. r[k] = [s[k] EXCEPT !.num = Down(@)]
      BY <2>1
    <3> QED BY <3>1, <3>2, <3>3 DEF Cmd, Kept
  <2>3. r \in [1..Len(s) -> Cmd]
    BY <2>1, <2>2
  <2>4. r \in Seq(Cmd) /\ Len(r) = Len(s)
    BY <1>1, <2>3, FunctionIsSeq
  <2> QED BY <1>3, <2>2, <2>4 DEF r
<1> QED BY <1>2, <1>3

(* What the last step of a line keeps.                                      *)
Remaining == {k \in DOMAIN reduce_num_by_nl(my) : ~reduce_num_by_nl(my)[k].piped}

LEMMA ReapNames ==
  ASSUME Reap
  PROVE  /\ pc = "wait" /\ ~Running(last_pid)
         /\ cmds' = [cmds EXCEPT ![cur] = Pick(reduce_num_by_nl(my), Remaining)]
         /\ tab' = Close(tab, scratch)
         /\ pc' = "read" /\ cur' = None /\ i' = 0
         /\ temp' = << >> /\ temp_id' = 0 /\ fresh' = TRUE /\ scratch' = {}
         /\ stop_pipe' = TRUE /\ last_pid' = None /\ pre_pid' = None
         /\ UNCHANGED <<user_pipe, data, procs, ghost>>
BY DEF Reap, Remaining, my

(* A kept command is one of the line's, run but not yet collected.          *)
LEMMA ReapParts ==
  ASSUME Typed, Reap
  PROVE  /\ cur \in User /\ cur # None /\ my \in Seq(Cmd)
         /\ cmds' \in [User -> Seq(Cmd)]
         /\ \A v \in User : v # cur => cmds'[v] = cmds[v]
         /\ Remaining \in SUBSET (1..Len(my)) /\ Remaining = {k \in 1..Len(my) : ~my[k].piped}
         /\ DOMAIN cmds'[cur] = 1..Cardinality(Remaining) /\ Cardinality(Remaining) \in Nat
         /\ Len(cmds'[cur]) = Cardinality(Remaining)
         /\ InOrder(Remaining) \in [1..Cardinality(Remaining) -> Remaining]
         /\ \A n \in 1..Cardinality(Remaining) :
              LET k == InOrder(Remaining)[n]
              IN /\ k \in 1..Len(my) /\ ~my[k].piped /\ my[k].exe /\ my[k].type = "NUM_PIPE"
                 /\ cmds'[cur][n] \in Cmd /\ Kept(cmds'[cur][n], my[k])
                 /\ cmds'[cur][n].exe = my[k].exe /\ cmds'[cur][n].piped = my[k].piped
                 /\ cmds'[cur][n].num = IF my[Len(my)].type = "NUM_PIPE" THEN my[k].num ELSE Down(my[k].num)
<1>1. pc = "wait" /\ cur \in User /\ cur # None /\ my \in Seq(Cmd) /\ Len(my) \in Nat /\ DOMAIN my = 1..Len(my)
      /\ i = Len(my) + 1
  <2>1. pc = "wait"
    BY ReapNames
  <2> QED BY <2>1, CurUser DEF Typed, Progress
<1>2. \A k \in 1..Len(my) : Done(my[k])
  <2>1. \A k \in 1..(i - 1) : Done(my[k])
    BY <1>1 DEF Typed, Progress
  <2>2. i - 1 = Len(my)
    BY <1>1
  <2> QED BY <2>1, <2>2
<1> DEFINE r == reduce_num_by_nl(my)
           S == Remaining
<1>3. /\ r \in Seq(Cmd) /\ Len(r) = Len(my)
      /\ \A k \in 1..Len(my) :
           /\ r[k] \in Cmd /\ Kept(r[k], my[k]) /\ r[k].exe = my[k].exe /\ r[k].piped = my[k].piped
           /\ r[k].num = IF my[Len(my)].type = "NUM_PIPE" THEN my[k].num ELSE Down(my[k].num)
  BY <1>1, ReduceNlParts
<1>4. S = {k \in DOMAIN r : ~r[k].piped}
  BY DEF Remaining
<1>5. cmds' = [cmds EXCEPT ![cur] = Pick(r, S)]
  BY ReapNames
<1> HIDE DEF r, S
<1>6. DOMAIN r = 1..Len(my)
  BY <1>3, LenProperties
<1>7. S \in SUBSET DOMAIN r /\ S = {k \in 1..Len(my) : ~my[k].piped}
  BY <1>3, <1>4, <1>6
<1>8. /\ Cardinality(S) \in Nat
      /\ Pick(r, S) \in Seq(Cmd) /\ Len(Pick(r, S)) = Cardinality(S)
      /\ DOMAIN Pick(r, S) = 1..Cardinality(S)
      /\ InOrder(S) \in [1..Cardinality(S) -> S]
      /\ \A n \in 1..Cardinality(S) : Pick(r, S)[n] = r[InOrder(S)[n]]
  BY <1>3, <1>7, PickElements
<1>9. cmds' \in [User -> Seq(Cmd)] /\ cmds'[cur] = Pick(r, S)
      /\ \A v \in User : v # cur => cmds'[v] = cmds[v]
  BY <1>1, <1>5, <1>8 DEF Typed, TypeInv
<1>10. \A n \in 1..Cardinality(S) :
          LET k == InOrder(S)[n]
          IN /\ k \in 1..Len(my) /\ ~my[k].piped /\ my[k].exe /\ my[k].type = "NUM_PIPE"
             /\ cmds'[cur][n] \in Cmd /\ Kept(cmds'[cur][n], my[k])
             /\ cmds'[cur][n].exe = my[k].exe /\ cmds'[cur][n].piped = my[k].piped
             /\ cmds'[cur][n].num = IF my[Len(my)].type = "NUM_PIPE" THEN my[k].num ELSE Down(my[k].num)
  <2> SUFFICES ASSUME NEW n \in 1..Cardinality(S), NEW k, k = InOrder(S)[n]
               PROVE  /\ k \in 1..Len(my) /\ ~my[k].piped /\ my[k].exe /\ my[k].type = "NUM_PIPE"
                      /\ cmds'[cur][n] = r[k]
    BY <1>3
  <2>1. k \in S /\ cmds'[cur][n] = r[k]
    BY <1>8, <1>9
  <2>2. k \in 1..Len(my) /\ ~my[k].piped
    BY <1>7, <2>1
  <2> QED BY <1>2, <2>1, <2>2 DEF Done
<1> QED BY <1>1, <1>7, <1>8, <1>9, <1>10 DEF S

LEMMA TypesReap ==
  ASSUME Typed, Reap
  PROVE  TypeInv' /\ Progress'
<1>1. /\ pc = "wait" /\ tab' = Close(tab, scratch)
      /\ pc' = "read" /\ cur' = None /\ i' = 0
      /\ temp' = << >> /\ temp_id' = 0 /\ fresh' = TRUE /\ scratch' = {}
      /\ stop_pipe' = TRUE /\ last_pid' = None /\ pre_pid' = None
      /\ UNCHANGED <<user_pipe, data, procs, ghost>>
  BY ReapNames
<1>2. cur \in User /\ cmds' \in [User -> Seq(Cmd)] /\ \A v \in User : v # cur => cmds'[v] = cmds[v]
  BY ReapParts
<1>3. TabOK(tab')
  BY <1>1, CloseParts DEF Typed, TypeInv
<1>4. TypeInv'
  <2>1. << >> \in Seq(Pair)
    BY EmptySeq
  <2> QED BY <1>1, <1>2, <1>3, <2>1, BoundAssumption DEF Typed, TypeInv, ghost
<1>5. \A n \in DOMAIN cmds'[cur] : /\ cmds'[cur][n].job \in Job /\ cmds'[cur][n].exe
                                   /\ cmds'[cur][n].type = "NUM_PIPE"
  <2> SUFFICES ASSUME NEW n \in 1..Cardinality(Remaining)
               PROVE  /\ cmds'[cur][n].job \in Job /\ cmds'[cur][n].exe /\ cmds'[cur][n].type = "NUM_PIPE"
    BY ReapParts
  <2> DEFINE k == InOrder(Remaining)[n]
  <2>1. /\ k \in 1..Len(my) /\ my[k].exe /\ my[k].type = "NUM_PIPE"
        /\ Kept(cmds'[cur][n], my[k]) /\ cmds'[cur][n].exe = my[k].exe
    BY ReapParts
  <2> HIDE DEF k
  <2>2. my[k].job \in Job
    <3>1. DOMAIN my = 1..Len(my)
      BY ReapParts, LenProperties
    <3> QED BY <1>2, <2>1, <3>1 DEF Typed, Progress, my
  <2> QED BY <2>1, <2>2 DEF Kept
<1>6. \A v \in User : \A n \in DOMAIN cmds'[v] :
         cmds'[v][n].job \in Job /\ cmds'[v][n].exe /\ cmds'[v][n].type = "NUM_PIPE"
  BY <1>2, <1>5 DEF Typed, Progress
<1>7. Progress'
  BY <1>1, <1>6, BoundAssumption DEF Progress
<1> QED BY <1>4, <1>7

LEMMA TypesFinish ==
  ASSUME Typed, NEW p \in procs, Finish(p)
  PROVE  TypeInv' /\ Progress'
<1>1. p \in Proc /\ p.id \in Job /\ p.in \in Ends
  BY DEF Typed, TypeInv, Proc
<1>2. UNCHANGED <<pc, line, cmds, user_pipe, tab, ghost>> /\ procs' = procs \ {p} /\ CanEnd(p)
  BY DEF Finish
<1>3. Got(p) \subseteq Job
  <2>1. p.in # Other => p.in[1] \in Pipes
    BY <1>1 DEF Ends
  <2> QED BY <2>1 DEF Got, Typed, TypeInv
<1>4. data' \in [Pipes -> SUBSET Job]
  <2>1. data' = [q \in Pipes |->
                IF p.reads /\ q = p.in[1] THEN {}
                ELSE IF q = p.out[1] /\ <<q, "r">> \in Held
                     THEN data[q] \cup (IF p.kind = "collect" THEN Got(p) ELSE {p.id})
                     ELSE data[q]]
    BY DEF Finish
  <2>2. \A q \in Pipes : data[q] \subseteq Job
    BY DEF Typed, TypeInv
  <2> QED BY <1>1, <1>3, <2>1, <2>2
<1>5. TypeInv'
  BY <1>2, <1>4 DEF Typed, TypeInv, line, ghost, TabOK
<1>6. my' = my
  BY <1>2 DEF my, line
<1>7. Progress'
  BY <1>2, <1>6 DEF Typed, Progress, line
<1> QED BY <1>5, <1>7

LEMMA TypesStep ==
  ASSUME Typed, [Next]_vars
  PROVE  Typed'
<1>1. \A u \in User : \A l \in Inputs[u] : GoodLine(l)
  BY InputAssumption DEF GoodLine
<1>2. ASSUME NEW u \in User, NEW l \in Inputs[u], Start(u, l) PROVE Typed'
  BY <1>1, <1>2, TypesStart DEF Typed
<1>3. CASE Collect
  BY <1>3, TypesCollect DEF Typed
<1>4. CASE StageFails
  BY <1>4, TypesStageFails DEF Typed
<1>5. CASE WaitPre
  BY <1>5, TypesWaitPre DEF Typed
<1>6. CASE StageForks
  BY <1>6, TypesStageForks DEF Typed
<1>7. CASE EndLine
  BY <1>7, TypesEndLine DEF Typed
<1>8. CASE Reap
  BY <1>8, TypesReap DEF Typed
<1>9. ASSUME NEW p \in procs, Finish(p) PROVE Typed'
  BY <1>9, TypesFinish DEF Typed
<1>10. CASE UNCHANGED vars
  <2>1. my' = my
    BY <1>10 DEF vars, line, my
  <2> QED BY <1>10, <2>1 DEF Typed, TypeInv, Progress, vars, line, ghost, TabOK
<1> QED BY <1>2, <1>3, <1>4, <1>5, <1>6, <1>7, <1>8, <1>9, <1>10 DEF Next, Server

THEOREM TypedAlways == Spec => []Typed
<1>1. Init => Typed
  BY TypesInit DEF Typed
<1>2. Typed /\ [Next]_vars => Typed'
  BY TypesStep
<1> QED BY <1>1, <1>2, PTL DEF Spec

(* What TypeOK says, for every line a user may type.                        *)
THEOREM TypeCorrect == Spec => []TypeOK
<1>1. Typed => TypeOK
  <2> SUFFICES ASSUME Typed PROVE TypeOK
    OBVIOUS
  <2>1. ASSUME NEW u \in User, NEW k \in DOMAIN cmds[u] PROVE CommandOK(cmds[u][k])
    <3>1. cmds[u] \in Seq(Cmd)
      BY DEF Typed, TypeInv
    <3>2. cmds[u][k] \in Cmd
      BY <3>1, LenProperties
    <3>3. cmds[u][k].job \in Job
      BY DEF Typed, Progress
    <3> QED BY <3>2, <3>3 DEF CommandOK, Cmd, Types
  <2>2. ASSUME NEW u \in User, u # cur
        PROVE  \A k \in DOMAIN cmds[u] : cmds[u][k].type = "NUM_PIPE" /\ cmds[u][k].exe
    BY <2>2 DEF Typed, Progress
  <2>3. DOMAIN tab \subseteq 0..MaxFd /\ Range(tab) \subseteq Ends
    BY AtType DEF Typed, TypeInv, TabOK
  <2>4. \A p \in procs : p.id \in Job /\ p.held \subseteq Ends /\ {p.in, p.out} \subseteq Ends
    BY DEF Typed, TypeInv, Proc
  <2> QED BY <2>1, <2>2, <2>3, <2>4 DEF Typed, TypeInv, TypeOK
<1> QED BY <1>1, TypedAlways, PTL

-------------------------------------------------------------------------------
(* The commands of a line when it starts: those that were kept and new ones.*)
LEMMA StartCmds ==
  ASSUME Typed, NEW u \in User, NEW l, GoodLine(l), Start(u, l)
  PROVE  /\ cmds[u] \in Seq(Cmd) /\ Len(cmds[u]) \in Nat /\ Len(split_by_pipe(l)) \in Nat \ {0}
         /\ i' = Len(cmds[u]) + 1 /\ cur' = u /\ my' \in Seq(Cmd)
         /\ Len(my') = Len(cmds[u]) + Len(split_by_pipe(l))
         /\ \A k \in 1..Len(cmds[u]) : my'[k] = cmds[u][k]
         /\ \A k \in 1..Len(split_by_pipe(l)) : my'[Len(cmds[u]) + k] = NewCmds(u, l)[k]
         /\ \A k \in 1..Len(my') : k \in 1..Len(cmds[u]) \/ k - Len(cmds[u]) \in 1..Len(split_by_pipe(l))
         /\ \A v \in User : v # u => cmds'[v] = cmds[v]
         /\ \A m \in 1..Len(split_by_pipe(l)) : NewCmdOK(u, l, m)
<1> DEFINE N   == Len(split_by_pipe(l))
           old == cmds[u]
           new == NewCmds(u, l)
           s   == old \o new
<1>1. /\ lines < MaxLines /\ Room(NeedsFds(l), TempPipes + N)
      /\ cur' = u /\ i' = Len(old) + 1
      /\ cmds' = [cmds EXCEPT ![u] = s]
  BY StartNames
<1>2. /\ N \in Nat \ {0} /\ new \in Seq(Cmd) /\ Len(new) = N
      /\ \A m \in 1..N : NewCmdOK(u, l, m)
  BY <1>1, NewCmdsParts
<1>3. old \in Seq(Cmd) /\ Len(old) \in Nat
  BY LenProperties DEF Typed, TypeInv
<1> HIDE DEF N, new, old
<1>4. /\ s \in Seq(Cmd) /\ Len(s) = Len(old) + Len(new)
      /\ DOMAIN s = 1..(Len(old) + Len(new))
      /\ \A k \in 1..Len(old) : s[k] = old[k]
      /\ \A k \in 1..Len(new) : s[Len(old) + k] = new[k]
      /\ \A k \in DOMAIN s : k \in 1..Len(old) \/ k - Len(old) \in 1..Len(new)
  BY <1>2, <1>3, GrowParts
<1> HIDE DEF s
<1>5. cmds'[u] = s /\ \A v \in User : v # u => cmds'[v] = cmds[v]
  BY <1>1 DEF Typed, TypeInv
<1>6. my' = s
  BY <1>1, <1>5 DEF my
<1> QED BY <1>1, <1>2, <1>3, <1>4, <1>5, <1>6 DEF N, new, old

-------------------------------------------------------------------------------
(* Segments: a command begins one exactly behind a number pipe.             *)
Follows(c, d) == /\ d.first <=> c.type = "NUM_PIPE"
               /\ d.seg = c.seg + (IF c.type = "NUM_PIPE" THEN 1 ELSE 0)

LEMMA SegSteps ==
  ASSUME NEW u \in User, NEW l, GoodLine(l), Typed, lines < MaxLines,
         Room(NeedsFds(l), TempPipes + Len(split_by_pipe(l)))
  PROVE  /\ NewCmds(u, l)[1].first
         /\ \A m \in 1..(Len(split_by_pipe(l)) - 1) : Follows(NewCmds(u, l)[m], NewCmds(u, l)[m + 1])
<1> DEFINE N == Len(split_by_pipe(l))
           S(m) == {k \in 1..(m - 1) : split_by_pipe(l)[k].type = "NUM_PIPE"}
<1>1. /\ N \in Nat \ {0} /\ \A m \in 1..N : NewCmdOK(u, l, m)
      /\ \A m \in Nat : SegOf(u, l, m) \in Nat
  BY NewCmdsParts
<1>2. NewCmds(u, l)[1].first
  <2>1. NewCmdOK(u, l, 1)
    BY <1>1
  <2> QED BY <2>1 DEF NewCmdOK
<1>3. ASSUME NEW m \in 1..(N - 1) PROVE Follows(NewCmds(u, l)[m], NewCmds(u, l)[m + 1])
  <2>0. m \in 1..N /\ m + 1 \in 1..N /\ m \in Nat /\ m + 1 \in Nat
    BY <1>1, <1>3
  <2>1. NewCmdOK(u, l, m) /\ NewCmdOK(u, l, m + 1)
    BY <1>1, <2>0
  <2>2. SegOf(u, l, m) \in Nat
    BY <1>1, <2>0
  <2>3. IsFiniteSet(S(m))
    <3>1. m - 1 \in Int /\ 1 \in Int
      BY <2>0
    <3>2. IsFiniteSet(1..(m - 1))
      BY <3>1, FS_Interval
    <3>3. S(m) \subseteq 1..(m - 1)
      OBVIOUS
    <3> QED BY <3>2, <3>3, FS_Subset
  <2>4. SegOf(u, l, m + 1) = SegOf(u, l, m)
          + (IF split_by_pipe(l)[m].type = "NUM_PIPE" THEN 1 ELSE 0)
    <3>0. segs[u] \in Nat
      BY DEF Typed, TypeInv
    <3>1. CASE split_by_pipe(l)[m].type = "NUM_PIPE"
      <4>1. S(m + 1) = S(m) \cup {m} /\ m \notin S(m)
        BY <2>0, <3>1
      <4>2. Cardinality(S(m) \cup {m}) = Cardinality(S(m)) + 1 /\ Cardinality(S(m)) \in Nat
        BY <2>3, <4>1, FS_AddElement, FS_CardinalityType
      <4>3. SegOf(u, l, m + 1) = segs[u] + 1 + Cardinality(S(m + 1))
            /\ SegOf(u, l, m) = segs[u] + 1 + Cardinality(S(m))
        BY DEF SegOf
      <4>4. Cardinality(S(m + 1)) = Cardinality(S(m)) + 1
        BY <4>1, <4>2
      <4> HIDE DEF S
      <4>5. segs[u] + 1 + (Cardinality(S(m)) + 1) = (segs[u] + 1 + Cardinality(S(m))) + 1
        BY <3>0, <4>2
      <4>6. SegOf(u, l, m + 1) = SegOf(u, l, m) + 1
        BY <4>3, <4>4, <4>5
      <4> QED BY <3>1, <4>6
    <3>2. CASE split_by_pipe(l)[m].type # "NUM_PIPE"
      <4>1. S(m + 1) = S(m)
        BY <2>0, <3>2
      <4>3. SegOf(u, l, m + 1) = segs[u] + 1 + Cardinality(S(m + 1))
            /\ SegOf(u, l, m) = segs[u] + 1 + Cardinality(S(m))
        BY DEF SegOf
      <4> HIDE DEF S
      <4> QED BY <2>2, <3>2, <4>1, <4>3
    <3> QED BY <3>1, <3>2
  <2>5. NewCmds(u, l)[m + 1].first <=> split_by_pipe(l)[m].type = "NUM_PIPE"
    <3>1. NewCmds(u, l)[m + 1].first = (m + 1 = 1 \/ SegOf(u, l, m + 1) # SegOf(u, l, m + 1 - 1))
      <4>1. NewCmdOK(u, l, m + 1)
        BY <2>1
      <4>2. /\ split_by_pipe(l)[m + 1] \in Cmd
            /\ NewPairs(l)[TempPipes + (m + 1)] \in Pair /\ <<lines + 1, m + 1>> \in Job
            /\ NewCmds(u, l)[m + 1].job = <<lines + 1, m + 1>>
            /\ NewCmds(u, l)[m + 1].fd = NewPairs(l)[TempPipes + (m + 1)]
            /\ NewCmds(u, l)[m + 1].seg = SegOf(u, l, m + 1)
            /\ NewCmds(u, l)[m + 1].first = (m + 1 = 1 \/ SegOf(u, l, m + 1) # SegOf(u, l, m + 1 - 1))
        BY <4>1 DEF NewCmdOK
      <4> QED BY <4>2
    <3>2. m + 1 # 1 /\ m + 1 - 1 = m
      BY <2>0
    <3>3. NewCmds(u, l)[m + 1].first = (SegOf(u, l, m + 1) # SegOf(u, l, m))
      BY <3>1, <3>2
    <3>4. SegOf(u, l, m + 1) # SegOf(u, l, m) <=> split_by_pipe(l)[m].type = "NUM_PIPE"
      BY <2>2, <2>4
    <3> QED BY <3>3, <3>4
  <2>6. /\ NewCmds(u, l)[m].type = split_by_pipe(l)[m].type
        /\ NewCmds(u, l)[m].seg = SegOf(u, l, m) /\ NewCmds(u, l)[m + 1].seg = SegOf(u, l, m + 1)
    BY <2>1 DEF NewCmdOK
  <2> QED BY <2>4, <2>5, <2>6 DEF Follows
<1> QED BY <1>2, <1>3

(* The commands of the line from the one that is served on.                 *)
AheadOf(s, j) == /\ \A k \in 1..Len(s) : k >= j => s[k].job[1] = lines
                 /\ \A k \in 1..(Len(s) - 1) : k >= j => Follows(s[k], s[k + 1])
Ahead == pc # "read" => AheadOf(my, i)

(* The segments of the line up to command j, that begin with b: one         *)
(* temporary pipe at most is taken for each, by its first command.          *)
SegsTo(s, j) == {s[k].seg : k \in {k \in 1..j : s[k].job[1] = lines}}
NoneDue(j)   == \A k \in 1..j : ~Due(cur, k)
Taken(b) ==
  /\ b <= my[i].seg /\ b..my[i].seg \subseteq SegsTo(my, i)
  /\ temp_id <= my[i].seg - b + 1
  /\ pc # "killed" => /\ fresh /\ my[i].first => temp_id <= my[i].seg - b
                      /\ pc = "stage" /\ ~my[i].first => NoneDue(i - 1)
                      /\ pc = "waitpre" /\ my[i].type # "NUM_PIPE" => NoneDue(i)
  /\ pc = "killed" => temp_id >= TempPipes
TakenInv == pc \in {"stage", "waitpre", "killed"} /\ i <= Len(my) => \E b \in Nat : Taken(b)
PoolInv  == Ahead /\ TakenInv /\ (pc = "killed" => i <= Len(my))

SameLine == /\ lines' = lines /\ cur' = cur /\ my' \in Seq(Cmd) /\ Len(my') = Len(my)
            /\ \A k \in 1..Len(my) : Kept(my'[k], my[k])

LEMMA AheadKept ==
  ASSUME Typed, pc # "read", Ahead, SameLine, i' \in Nat, i' >= i
  PROVE  Ahead'
<1>1. Len(my) \in Nat /\ i \in Nat
  BY CurUser DEF Typed, TypeInv
<1>2. \A k \in 1..Len(my) : k >= i => my[k].job[1] = lines
  BY DEF Ahead, AheadOf
<1>3. \A k \in 1..(Len(my) - 1) : k >= i => Follows(my[k], my[k + 1])
  BY DEF Ahead, AheadOf
<1>4. \A k \in 1..Len(my') : k >= i' => my'[k].job[1] = lines'
  <2> SUFFICES ASSUME NEW k \in 1..Len(my'), k >= i' PROVE my'[k].job[1] = lines'
    OBVIOUS
  <2>1. k \in 1..Len(my) /\ k >= i
    BY <1>1 DEF SameLine
  <2> QED BY <1>2, <2>1 DEF SameLine, Kept
<1>5. \A k \in 1..(Len(my') - 1) : k >= i' => Follows(my'[k], my'[k + 1])
  <2> SUFFICES ASSUME NEW k \in 1..(Len(my') - 1), k >= i' PROVE Follows(my'[k], my'[k + 1])
    OBVIOUS
  <2>1. k \in 1..(Len(my) - 1) /\ k >= i /\ k \in 1..Len(my) /\ k + 1 \in 1..Len(my)
    BY <1>1 DEF SameLine
  <2>2. Kept(my'[k], my[k]) /\ Kept(my'[k + 1], my[k + 1])
    BY <2>1 DEF SameLine
  <2> QED BY <1>3, <2>1, <2>2 DEF Follows, Kept
<1> QED BY <1>4, <1>5 DEF Ahead, AheadOf

LEMMA SegsKept ==
  ASSUME SameLine, Len(my) \in Nat, NEW j \in Nat, j <= Len(my)
  PROVE  SegsTo(my, j)' = SegsTo(my, j) /\ SegsTo(my', j) = SegsTo(my, j)
<1>1. \A k \in 1..j : my'[k].job = my[k].job /\ my'[k].seg = my[k].seg
  BY DEF SameLine, Kept
<1>2. {k \in 1..j : my'[k].job[1] = lines} = {k \in 1..j : my[k].job[1] = lines}
  BY <1>1
<1>3. {my'[k].seg : k \in {k \in 1..j : my'[k].job[1] = lines}}
        = {my[k].seg : k \in {k \in 1..j : my[k].job[1] = lines}}
  BY <1>1, <1>2
<1> QED BY <1>3 DEF SegsTo, SameLine

LEMMA PoolStart ==
  ASSUME Typed, NEW u \in User, NEW l, GoodLine(l), Start(u, l)
  PROVE  PoolInv'
<1> DEFINE N == Len(split_by_pipe(l))
           o == Len(cmds[u])
           new == NewCmds(u, l)
<1>1. /\ o \in Nat /\ N \in Nat \ {0} /\ i' = o + 1 /\ cur' = u /\ Len(my') = o + N
      /\ \A k \in 1..N : my'[o + k] = new[k]
      /\ \A k \in 1..N : NewCmdOK(u, l, k)
  BY StartCmds
<1>2. /\ pc' = "stage" /\ temp_id' = 0 /\ lines' = lines + 1 /\ lines < MaxLines
      /\ Room(NeedsFds(l), TempPipes + N)
  BY StartNames
<1>3. new[1].first /\ \A m \in 1..(N - 1) : Follows(new[m], new[m + 1])
  BY <1>2, SegSteps
<1>4. \A m \in 1..N : new[m].job[1] = lines' /\ new[m].seg \in Nat
  <2> SUFFICES ASSUME NEW m \in 1..N PROVE new[m].job[1] = lines' /\ new[m].seg \in Nat
    OBVIOUS
  <2>1. NewCmdOK(u, l, m)
    BY <1>1
  <2>2. \A n \in Nat : SegOf(u, l, n) \in Nat
    BY <1>2, NewCmdsParts
  <2>3. m \in Nat
    BY <1>1
  <2> QED BY <1>2, <2>1, <2>2, <2>3 DEF NewCmdOK
<1> HIDE DEF N, o, new
<1>5. \A k \in 1..Len(my') : k >= i' => my'[k].job[1] = lines'
  <2> SUFFICES ASSUME NEW k \in 1..Len(my'), k >= i' PROVE my'[k].job[1] = lines'
    OBVIOUS
  <2>1. k - o \in 1..N /\ o + (k - o) = k
    BY <1>1
  <2> QED BY <1>1, <1>4, <2>1
<1>6. \A k \in 1..(Len(my') - 1) : k >= i' => Follows(my'[k], my'[k + 1])
  <2> SUFFICES ASSUME NEW k \in 1..(Len(my') - 1), k >= i' PROVE Follows(my'[k], my'[k + 1])
    OBVIOUS
  <2>1. k - o \in 1..(N - 1) /\ k - o \in 1..N /\ k - o + 1 \in 1..N
        /\ o + (k - o) = k /\ o + (k - o + 1) = k + 1
    BY <1>1
  <2>2. my'[k] = new[k - o] /\ my'[k + 1] = new[k - o + 1]
    BY <1>1, <2>1
  <2> QED BY <1>3, <2>1, <2>2
<1>7. TakenInv'
  <2>0. PICK b \in Nat : b = new[1].seg
    BY <1>1, <1>4
  <2>1. my'[i'] = new[1] /\ 1 \in 1..N /\ i' \in 1..i' /\ i' \in Nat
    BY <1>1
  <2>2. b \in Nat /\ my'[i'].seg = b /\ my'[i'].first /\ my'[i'].job[1] = lines'
    BY <1>3, <1>4, <2>0, <2>1
  <2>3. b \in SegsTo(my, i)'
    BY <2>1, <2>2 DEF SegsTo
  <2>4. b..b = {b} /\ b <= b /\ 0 <= b - b + 1 /\ 0 <= b - b
    BY <2>2
  <2>5. (b <= my[i].seg /\ b..my[i].seg \subseteq SegsTo(my, i))'
    BY <2>2, <2>3, <2>4
  <2>6. (temp_id <= my[i].seg - b + 1 /\ temp_id <= my[i].seg - b)'
    BY <1>2, <2>2, <2>4
  <2>7. Taken(b)'
    BY <1>2, <2>2, <2>5, <2>6 DEF Taken
  <2> QED BY <2>2, <2>7 DEF TakenInv
<1> QED BY <1>2, <1>5, <1>6, <1>7 DEF PoolInv, Ahead, AheadOf

LEMMA PoolCollect ==
  ASSUME Typed, PoolInv, Collect
  PROVE  PoolInv'
<1>1. /\ AtStage /\ temp_id' = NextTemp /\ fresh' = FALSE
      /\ UNCHANGED <<cur, i, temp, stop_pipe, last_pid, pre_pid, scratch, user_pipe, data, ghost>>
  BY CollectNames
<1>2. pc = "stage" /\ cur \in User /\ my \in Seq(Cmd) /\ Len(my) \in Nat /\ DOMAIN my = 1..Len(my)
      /\ i \in 1..Len(my) /\ i \in Nat /\ \A k \in 1..Len(my) : my[k] \in Cmd
  BY <1>1, CurUser DEF Typed, AtStage
<1>3. PICK j \in 1..(i - 1) :
         /\ Due(cur, j) /\ \A k \in 1..(j - 1) : ~Due(cur, k)
         /\ \/ NextTemp >= TempPipes /\ pc' = "killed" /\ UNCHANGED <<cmds, tab, procs>>
            \/ /\ NextTemp < TempPipes /\ pc' = pc
               /\ procs' = procs \cup {Collector(j)}
               /\ cmds' = [cmds EXCEPT ![cur] = [@ EXCEPT ![j].piped = TRUE]]
               /\ tab' = Close(tab, Both(my[j].fd))
  BY CollectNames
<1>4. PICK b \in Nat : Taken(b)
  BY <1>2 DEF PoolInv, TakenInv
<1>5. my[i].first
  BY <1>2, <1>3, <1>4 DEF Taken, NoneDue
<1>6. temp_id \in Nat /\ my[i].seg \in Nat /\ NextTemp <= my[i].seg - b + 1
  <2>1. temp_id \in Nat /\ my[i].seg \in Nat
    BY <1>2, BoundAssumption DEF Typed, TypeInv, Cmd
  <2>2. CASE fresh
    <3>1. temp_id <= my[i].seg - b
      BY <1>2, <1>4, <1>5, <2>2 DEF Taken
    <3> QED BY <2>1, <2>2, <3>1 DEF NextTemp
  <2>3. CASE ~fresh
    BY <1>4, <2>1, <2>3 DEF Taken, NextTemp
  <2> QED BY <2>1, <2>2, <2>3
<1>7. SameLine
  <2>1. lines' = lines /\ cur' = cur
    BY <1>1 DEF ghost
  <2>2. CASE UNCHANGED cmds
    BY <1>1, <1>2, <2>1, <2>2 DEF SameLine, my, Kept
  <2>3. CASE cmds' = [cmds EXCEPT ![cur] = [@ EXCEPT ![j].piped = TRUE]]
    BY <1>1, <2>1, <2>3, CollectCmds DEF SameLine
  <2> QED BY <1>3, <2>2, <2>3
<1>8. Ahead'
  <2>1. i' \in Nat /\ i' >= i /\ pc # "read"
    BY <1>1, <1>2
  <2> QED BY <1>7, <2>1, AheadKept DEF PoolInv
<1>9. SegsTo(my, i)' = SegsTo(my, i)
  <2>1. SegsTo(my, i)' = SegsTo(my', i)
    BY <1>1, <1>7 DEF SegsTo, SameLine
  <2> QED BY <1>2, <1>7, <2>1, SegsKept
<1>10. my'[i'].seg = my[i].seg /\ my'[i'].first = my[i].first /\ Len(my') = Len(my)
  BY <1>1, <1>2, <1>7 DEF SameLine, Kept
<1>11. pc' = "stage" \/ (pc' = "killed" /\ temp_id' >= TempPipes)
  BY <1>1, <1>2, <1>3
<1>12. Taken(b)'
  BY <1>1, <1>4, <1>5, <1>6, <1>9, <1>10, <1>11 DEF Taken
<1> QED BY <1>1, <1>2, <1>8, <1>10, <1>12 DEF PoolInv, TakenInv

(* The next command takes the line on by a segment behind a number pipe.    *)
LEMMA PoolNext ==
  ASSUME Typed, PoolInv, pc \in {"stage", "waitpre"}, SameLine, i <= Len(my),
         i' = i + 1, pc' = "stage", temp_id' = temp_id,
         my[i].type # "NUM_PIPE" => NoneDue(i - 1)'
  PROVE  PoolInv'
<1>1. /\ cur \in User /\ my \in Seq(Cmd) /\ Len(my) \in Nat /\ i \in 1..Len(my) /\ i \in Nat
      /\ \A k \in 1..Len(my) : my[k] \in Cmd
  <2>1. pc # "read"
    OBVIOUS
  <2>2. cur \in User /\ my \in Seq(Cmd) /\ Len(my) \in Nat /\ \A k \in 1..Len(my) : my[k] \in Cmd
    BY <2>1, CurUser, LenProperties DEF Typed
  <2>3. i \in Nat /\ i > 0
    BY <2>1 DEF Typed, TypeInv, Progress
  <2> QED BY <2>2, <2>3
<1>2. Ahead'
  <2>1. i' \in Nat /\ i' >= i /\ pc # "read"
    BY <1>1
  <2> QED BY <2>1, AheadKept DEF PoolInv
<1>3. ASSUME i + 1 <= Len(my) PROVE TakenInv'
  <2>1. PICK b \in Nat : Taken(b)
    BY <1>1 DEF PoolInv, TakenInv
  <2>2. i \in 1..(Len(my) - 1) /\ i + 1 \in 1..Len(my)
    BY <1>1, <1>3
  <2>3. Follows(my[i], my[i + 1]) /\ my[i + 1].job[1] = lines
    BY <1>1, <2>2 DEF PoolInv, Ahead, AheadOf
  <2>4. /\ my'[i'].seg = my[i + 1].seg /\ my'[i'].first = my[i + 1].first /\ Len(my') = Len(my)
    BY <2>2 DEF SameLine, Kept
  <2>5. SegsTo(my, i)' = SegsTo(my, i + 1)
    <3>1. SegsTo(my, i)' = SegsTo(my', i + 1)
      BY DEF SegsTo, SameLine
    <3> QED BY <1>1, <2>2, <3>1, SegsKept
  <2>6. SegsTo(my, i) \cup {my[i + 1].seg} \subseteq SegsTo(my, i + 1)
    <3>1. {k \in 1..i : my[k].job[1] = lines} \cup {i + 1} \subseteq {k \in 1..(i + 1) : my[k].job[1] = lines}
      BY <1>1, <2>3
    <3> QED BY <3>1 DEF SegsTo
  <2>7. my[i].seg \in Nat /\ my[i + 1].seg \in Nat /\ temp_id \in Nat
    <3>1. my[i] \in Cmd /\ my[i + 1] \in Cmd
      BY <1>1, <2>2
    <3>2. my[i].seg \in Nat /\ my[i + 1].seg \in Nat
      <4>1. \A c \in Cmd : c.seg \in Nat
        BY DEF Cmd
      <4> QED BY <3>1, <4>1
    <3>3. temp_id \in 0..TempPipes /\ TempPipes \in Nat
      BY BoundAssumption DEF Typed, TypeInv
    <3>4. temp_id \in Nat
      BY <3>3
    <3> QED BY <3>2, <3>4
  <2>8. my[i + 1].seg = my[i].seg + (IF my[i].type = "NUM_PIPE" THEN 1 ELSE 0)
        /\ (my[i + 1].first <=> my[i].type = "NUM_PIPE")
    BY <2>3 DEF Follows
  <2>9. b <= my[i].seg /\ b..my[i].seg \subseteq SegsTo(my, i) /\ temp_id <= my[i].seg - b + 1
    BY <2>1 DEF Taken
  <2>10. b <= my[i + 1].seg /\ b..my[i + 1].seg \subseteq SegsTo(my, i + 1)
    <3>1. b..my[i + 1].seg \subseteq b..my[i].seg \cup {my[i + 1].seg}
      BY <2>7, <2>8
    <3> QED BY <2>6, <2>7, <2>8, <2>9, <3>1
  <2>11. temp_id <= my[i + 1].seg - b + 1 /\ (my[i + 1].first => temp_id <= my[i + 1].seg - b)
    BY <2>7, <2>8, <2>9
  <2>12. ~my[i + 1].first => NoneDue(i - 1)'
    BY <2>8
  <2> QED BY <2>4, <2>5, <2>10, <2>11, <2>12 DEF Taken, TakenInv
<1> QED BY <1>1, <1>2, <1>3 DEF PoolInv, TakenInv, SameLine


LEMMA PoolStageFails ==
  ASSUME Typed, PoolInv, StageFails
  PROVE  PoolInv'
<1>1. /\ AtStage /\ cur' = cur /\ i' = i /\ pc' = "waitpre"
      /\ cmds' = [cmds EXCEPT ![cur] = Mark(reduce_num_pipes(my), i, TRUE)]
      /\ UNCHANGED <<line, user_pipe, tab, data, procs, ghost>>
      /\ \A j \in 1..(i - 1) : ~Due(cur, j)
  BY StageFailsCmds
<1>2. /\ cur \in User /\ i \in 1..Len(my) /\ Len(my) \in Nat
      /\ my' \in Seq(Cmd) /\ Len(my') = Len(my)
      /\ \A k \in 1..Len(my) :
           /\ my[k] \in Cmd /\ my'[k] \in Cmd /\ Kept(my'[k], my[k])
           /\ my'[k].num = IF C.type = "NUM_PIPE" /\ k <= i THEN Down(my[k].num) ELSE my[k].num
           /\ k # i => my'[k].exe = my[k].exe /\ my'[k].piped = my[k].piped
  BY <1>1, StageCmds
<1>3. SameLine /\ lines' = lines /\ temp_id' = temp_id
  BY <1>1, <1>2 DEF SameLine, ghost, line
<1>4. pc = "stage" /\ i \in Nat
  BY <1>1, <1>2 DEF AtStage
<1>5. Ahead'
  <2>1. i' \in Nat /\ i' >= i /\ pc # "read"
    BY <1>1, <1>4
  <2> QED BY <1>3, <2>1, AheadKept DEF PoolInv
<1>6. PICK b \in Nat : Taken(b)
  BY <1>2, <1>4 DEF PoolInv, TakenInv
<1>7. SegsTo(my, i)' = SegsTo(my, i)
  <2>1. SegsTo(my, i)' = SegsTo(my', i)
    BY <1>1, <1>3 DEF SegsTo
  <2> QED BY <1>2, <1>3, <1>4, <2>1, SegsKept
<1>8. my'[i'].seg = my[i].seg /\ my'[i'].first = my[i].first /\ my'[i'].type = my[i].type
  BY <1>1, <1>2 DEF Kept
<1>9. my[i].type # "NUM_PIPE" => NoneDue(i)'
  <2> SUFFICES ASSUME my[i].type # "NUM_PIPE", NEW k \in 1..i PROVE ~Due(cur, k)'
    BY <1>1 DEF NoneDue
  <2>1. k \in 1..Len(my) /\ C = my[i]
    BY <1>2 DEF C
  <2>2. Kept(my'[k], my[k]) /\ my'[k].num = my[k].num /\ (k # i => my'[k].piped = my[k].piped)
    BY <1>2, <2>1
  <2>3. Due(cur, k)' => my'[k].type = "NUM_PIPE" /\ ~my'[k].piped /\ my'[k].num = 0
    BY DEF Due, my
  <2>4. my[k].type = "NUM_PIPE" /\ ~my[k].piped /\ my[k].num = 0 => Due(cur, k)
    BY DEF Due, my
  <2>5. CASE k = i
    BY <2>2, <2>3, <2>5 DEF Kept
  <2>6. CASE k # i
    <3>1. k \in 1..(i - 1)
      BY <1>4, <2>6
    <3> QED BY <1>1, <2>2, <2>3, <2>4, <2>6, <3>1 DEF Kept
  <2> QED BY <2>5, <2>6
<1>10. (fresh' <=> fresh) /\ pc' = "waitpre"
  BY <1>1 DEF line
<1>11. Taken(b)'
  BY <1>3, <1>4, <1>6, <1>7, <1>8, <1>9, <1>10 DEF Taken
<1> QED BY <1>5, <1>10, <1>11 DEF PoolInv, TakenInv

LEMMA PoolWaitPre ==
  ASSUME Typed, PoolInv, WaitPre
  PROVE  PoolInv'
<1>1. /\ pc = "waitpre" /\ pc' = "stage" /\ i' = i + 1 /\ fresh' = TRUE
      /\ UNCHANGED <<cur, temp, temp_id, stop_pipe, last_pid, pre_pid, scratch,
                     cmds, user_pipe, tab, data, procs, ghost>>
  BY DEF WaitPre, NextStage
<1>2. my' = my /\ my \in Seq(Cmd) /\ Len(my) \in Nat /\ i \in Nat /\ i > 0 /\ i <= Len(my)
  BY <1>1, CurUser DEF Typed, TypeInv, Progress, my
<1>3. SameLine
  BY <1>1, <1>2 DEF SameLine, ghost, Kept
<1>4. PICK b \in Nat : Taken(b)
  BY <1>1, <1>2 DEF PoolInv, TakenInv
<1>5. my[i].type # "NUM_PIPE" => NoneDue(i - 1)'
  <2>1. i' - 1 = i
    BY <1>1, <1>2
  <2>2. \A k : Due(cur, k)' <=> Due(cur, k)
    BY <1>1 DEF Due
  <2> QED BY <1>1, <1>4, <2>1, <2>2 DEF Taken, NoneDue
<1> QED BY <1>1, <1>2, <1>3, <1>5, PoolNext

LEMMA PoolStageForks ==
  ASSUME Typed, PoolInv, StageForks
  PROVE  PoolInv'
<1>1. /\ AtStage /\ i' = i + 1 /\ UNCHANGED <<pc, cur, temp, temp_id, scratch, lines, segs>>
      /\ \A j \in 1..(i - 1) : ~Due(cur, j)
  BY StageForksNames
<1>2. /\ cur \in User /\ i \in 1..Len(my) /\ Len(my) \in Nat
      /\ my' \in Seq(Cmd) /\ Len(my') = Len(my)
      /\ \A k \in 1..Len(my) :
           /\ my[k] \in Cmd /\ my'[k] \in Cmd /\ Kept(my'[k], my[k])
           /\ my'[k].num = IF C.type = "NUM_PIPE" /\ k <= i THEN Down(my[k].num) ELSE my[k].num
           /\ k # i => my'[k].exe = my[k].exe /\ my'[k].piped = my[k].piped
  BY StageForksCmds
<1>3. SameLine
  BY <1>1, <1>2 DEF SameLine
<1>4. pc = "stage" /\ i \in Nat /\ i <= Len(my)
  BY <1>1, <1>2 DEF AtStage
<1>5. my[i].type # "NUM_PIPE" => NoneDue(i - 1)'
  <2> SUFFICES ASSUME my[i].type # "NUM_PIPE", NEW k \in 1..i PROVE ~Due(cur, k)'
    BY <1>1, <1>4 DEF NoneDue
  <2>1. k \in 1..Len(my) /\ C = my[i]
    BY <1>2 DEF C
  <2>2. Kept(my'[k], my[k]) /\ my'[k].num = my[k].num /\ (k # i => my'[k].piped = my[k].piped)
    BY <1>2, <2>1
  <2>3. Due(cur, k)' => my'[k].type = "NUM_PIPE" /\ ~my'[k].piped /\ my'[k].num = 0
    BY DEF Due, my
  <2>4. my[k].type = "NUM_PIPE" /\ ~my[k].piped /\ my[k].num = 0 => Due(cur, k)
    BY DEF Due, my
  <2>5. CASE k = i
    BY <2>2, <2>3, <2>5 DEF Kept
  <2>6. CASE k # i
    <3>1. k \in 1..(i - 1)
      BY <1>4, <2>6
    <3> QED BY <1>1, <2>2, <2>3, <2>4, <2>6, <3>1 DEF Kept
  <2> QED BY <2>5, <2>6
<1> QED BY <1>1, <1>3, <1>4, <1>5, PoolNext

LEMMA PoolEndLine ==
  ASSUME Typed, PoolInv, EndLine
  PROVE  PoolInv'
<1>1. /\ pc = "stage" /\ pc' = "wait" /\ UNCHANGED <<line, cmds, user_pipe, data, procs, ghost>>
  BY DEF EndLine
<1>2. my' = my /\ my \in Seq(Cmd) /\ i' = i /\ i \in Nat
  BY <1>1, CurUser DEF Typed, TypeInv, my, line
<1>3. SameLine
  BY <1>1, <1>2 DEF SameLine, ghost, line, Kept
<1>4. Ahead'
  BY <1>1, <1>2, <1>3, AheadKept DEF PoolInv
<1> QED BY <1>1, <1>4 DEF PoolInv, TakenInv

LEMMA PoolSame ==
  ASSUME PoolInv, UNCHANGED <<pc, line, cmds, ghost>>
  PROVE  PoolInv'
<1>1. my' = my
  BY DEF line, my
<1>2. \A k : Due(cur, k)' <=> Due(cur, k)
  BY DEF Due, line
<1>3. \A s, j : AheadOf(s, j)' <=> AheadOf(s, j)
  BY DEF AheadOf, ghost
<1> QED BY <1>1, <1>2, <1>3 DEF PoolInv, Ahead, AheadOf, TakenInv, Taken, SegsTo, NoneDue, line, ghost

LEMMA PoolStep ==
  ASSUME Typed, PoolInv, [Next]_vars
  PROVE  PoolInv'
<1>1. ASSUME NEW u \in User, NEW l \in Inputs[u], Start(u, l) PROVE PoolInv'
  <2>1. GoodLine(l)
    BY InputAssumption DEF GoodLine
  <2> QED BY <1>1, <2>1, PoolStart
<1>2. CASE Reap
  BY <1>2, ReapNames DEF PoolInv, Ahead, TakenInv
<1>3. ASSUME NEW p \in procs, Finish(p) PROVE PoolInv'
  BY <1>3, PoolSame DEF Finish
<1>4. CASE UNCHANGED vars
  BY <1>4, PoolSame DEF vars
<1> QED BY <1>1, <1>2, <1>3, <1>4, PoolCollect, PoolStageFails, PoolWaitPre, PoolStageForks,
           PoolEndLine DEF Next, Server

(* A line runs out of temporary pipes only if it has as many segments.      *)
THEOREM PoolSuffices == Spec => []PoolLimit
<1>1. Init => PoolInv
  BY DEF Init, PoolInv, Ahead, TakenInv
<1>2. Typed /\ PoolInv /\ [Next]_vars => PoolInv'
  BY PoolStep
<1>3. Typed /\ PoolInv => PoolLimit
  <2> SUFFICES ASSUME Typed, PoolInv, pc = "killed"
               PROVE  Cardinality({my[j].seg : j \in ThisLine}) >= TempPipes
    BY DEF PoolLimit
  <2>1. i \in 1..Len(my) /\ my \in Seq(Cmd) /\ Len(my) \in Nat /\ \A k \in 1..Len(my) : my[k] \in Cmd
    <3>1. my \in Seq(Cmd) /\ Len(my) \in Nat /\ \A k \in 1..Len(my) : my[k] \in Cmd
      BY CurUser DEF Typed
    <3>2. i \in Nat /\ i > 0 /\ i <= Len(my)
      BY DEF Typed, TypeInv, Progress, PoolInv
    <3> QED BY <3>1, <3>2
  <2>2. PICK b \in Nat : Taken(b)
    BY <2>1 DEF PoolInv, TakenInv
  <2> DEFINE n == my[i].seg
             S == {my[j].seg : j \in ThisLine}
  <2>3. n \in Nat /\ temp_id \in Nat /\ TempPipes \in Nat
    <3>1. my[i] \in Cmd
      BY <2>1
    <3>2. temp_id \in 0..TempPipes /\ TempPipes \in Nat
      BY BoundAssumption DEF Typed, TypeInv
    <3> QED BY <3>1, <3>2 DEF Cmd
  <2>4. /\ b <= n /\ b..n \subseteq S /\ TempPipes <= n - b + 1
    BY <2>2, <2>3 DEF Taken, SegsTo, ThisLine
  <2>5. IsFiniteSet(S)
    <3>1. IsFiniteSet(1..i)
      BY <2>1, FS_Interval
    <3>2. IsFiniteSet(ThisLine)
      BY <3>1, FS_Subset DEF ThisLine
    <3> DEFINE f == [j \in ThisLine |-> my[j].seg]
    <3>3. f \in Surjection(ThisLine, S)
      BY DEF Surjection
    <3> QED BY <3>2, <3>3, FS_Surjection
  <2> HIDE DEF n, S
  <2>6. Cardinality(b..n) = n - b + 1
    BY <2>3, <2>4, FS_Interval
  <2>7. Cardinality(b..n) <= Cardinality(S) /\ Cardinality(S) \in Nat
    BY <2>4, <2>5, FS_Subset, FS_CardinalityType
  <2> QED BY <2>3, <2>4, <2>6, <2>7 DEF S
<1> QED BY <1>1, <1>2, <1>3, TypedAlways, PTL DEF Spec

-------------------------------------------------------------------------------
(* Words.  The tokens of user pipes are removed by places that were found   *)
(* before the first one was: this is right if all of them but the first     *)
(* stand at the end of the command.                                         *)
LateBy(w, a, z) == /\ a \in 1..z /\ z \in 1..Len(w)
                   /\ UserPipes(w) = {a} \cup (z + 1)..Len(w)
Late(w) == UserPipes(w) = {} \/ \E a, z \in 1..Len(w) : LateBy(w, a, z)

LEMMA OrderOfAll ==
  ASSUME NEW z \in Nat
  PROVE  /\ Cardinality(1..z) = z
         /\ \A n \in 1..z : InOrder(1..z)[n] = n
<1>1. IsFiniteSet(1..z) /\ Cardinality(1..z) = z /\ 1..z \in SUBSET Nat
  BY FS_Interval
<1>2. ASSUME NEW n \in 1..z PROVE InOrder(1..z)[n] = n
  <2> DEFINE x == InOrder(1..z)[n]
  <2>1. x \in 1..z /\ Cardinality({y \in 1..z : y <= x}) = n
    BY <1>1, InOrderLists
  <2> HIDE DEF x
  <2>2. {y \in 1..z : y <= x} = 1..x /\ x \in Nat
    BY <2>1
  <2>3. Cardinality(1..x) = x
    BY <2>2, FS_Interval
  <2> QED BY <2>1, <2>2, <2>3 DEF x
<1> QED BY <1>1, <1>2

LEMMA OrderWithGap ==
  ASSUME NEW z \in Nat, NEW a \in 1..z
  PROVE  /\ Cardinality((1..z) \ {a}) = z - 1
         /\ \A n \in 1..(z - 1) : InOrder((1..z) \ {a})[n] = IF n < a THEN n ELSE n + 1
<1> DEFINE S == (1..z) \ {a}
<1>1. IsFiniteSet(1..z) /\ Cardinality(1..z) = z
  BY FS_Interval
<1>2. IsFiniteSet(S) /\ Cardinality(S) = z - 1 /\ S \in SUBSET Nat
  <2>1. a \in 1..z
    OBVIOUS
  <2>2. IsFiniteSet((1..z) \ {a}) /\ Cardinality((1..z) \ {a}) = Cardinality(1..z) - 1
    BY <1>1, <2>1, FS_RemoveElement
  <2> QED BY <1>1, <2>2
<1>3. ASSUME NEW n \in 1..(z - 1) PROVE InOrder(S)[n] = IF n < a THEN n ELSE n + 1
  <2> DEFINE x == InOrder(S)[n]
  <2>0. n \in 1..Cardinality(S)
    BY <1>2
  <2>1. x \in S /\ Cardinality({y \in S : y <= x}) = n
    <3> HIDE DEF S
    <3> QED BY <1>2, <2>0, InOrderLists
  <2> HIDE DEF x
  <2>2. x \in Nat /\ x # a /\ a \in Nat /\ n \in Nat
    BY <2>1
  <2>3. IsFiniteSet(1..x) /\ Cardinality(1..x) = x
    BY <2>2, FS_Interval
  <2>4. CASE x < a
    <3>1. {y \in S : y <= x} = 1..x
      BY <2>1, <2>2, <2>4
    <3>2. x = n
      BY <2>1, <2>3, <3>1
    <3> QED BY <2>4, <3>2 DEF x
  <2>5. CASE x > a
    <3>1. {y \in S : y <= x} = (1..x) \ {a} /\ a \in 1..x
      BY <2>1, <2>2, <2>5
    <3>2. Cardinality((1..x) \ {a}) = x - 1
      BY <2>3, <3>1, FS_RemoveElement
    <3>3. x = n + 1 /\ ~(n < a)
      BY <2>1, <2>2, <2>5, <3>1, <3>2
    <3> QED BY <3>3 DEF x
  <2> QED BY <2>2, <2>4, <2>5
<1> QED BY <1>2, <1>3

LEMMA SameSeq ==
  ASSUME NEW T, NEW s \in Seq(T), NEW t \in Seq(T), Len(s) = Len(t),
         \A n \in 1..Len(s) : s[n] = t[n]
  PROVE  s = t
<1>1. s \in [1..Len(s) -> T] /\ t \in [1..Len(s) -> T]
  BY LenProperties
<1> QED BY <1>1

LEMMA FirstFound ==
  ASSUME NEW w \in Seq(Token), NEW a, NEW z, LateBy(w, a, z)
  PROVE  /\ Len(Found(w)) = 1 + Len(w) - z /\ Len(Found(w)) \in Nat
         /\ Found(w)[1] = a /\ \A n \in 2..Len(Found(w)) : Found(w)[n] \in Nat /\ Found(w)[n] > z
<1> DEFINE S == UserPipes(w)
           f == InOrder(S)
           N == Cardinality(S)
<1>1. Len(w) \in Nat /\ a \in Nat /\ z \in Nat /\ a <= z /\ z <= Len(w) /\ a >= 1
      /\ S = {a} \cup (z + 1)..Len(w)
  BY LenProperties DEF LateBy
<1>2. S \in SUBSET Nat /\ IsFiniteSet(S)
  BY PlacesFinite DEF UserPipes
<1>3. N = 1 + Len(w) - z
  <2>1. IsFiniteSet((z + 1)..Len(w)) /\ Cardinality((z + 1)..Len(w)) = Len(w) - z
    <3>1. z + 1 \in Int /\ Len(w) \in Int
      BY <1>1
    <3>2. IsFiniteSet((z + 1)..Len(w))
          /\ Cardinality((z + 1)..Len(w)) = IF z + 1 > Len(w) THEN 0 ELSE Len(w) - (z + 1) + 1
      BY <3>1, FS_Interval
    <3> QED BY <1>1, <3>2
  <2>2. a \notin (z + 1)..Len(w)
    BY <1>1
  <2>3. Cardinality((z + 1)..Len(w) \cup {a}) = Len(w) - z + 1
    BY <2>1, <2>2, FS_AddElement
  <2>4. S = (z + 1)..Len(w) \cup {a}
    BY <1>1
  <2> HIDE DEF S
  <2>5. N = Len(w) - z + 1
    BY <2>3, <2>4
  <2> HIDE DEF N
  <2> QED BY <1>1, <2>5
<1> HIDE DEF S
<1>4. /\ N \in Nat /\ f \in [1..N -> S]
      /\ \A m, n \in 1..N : m < n => f[m] < f[n]
      /\ \A x \in S : \E n \in 1..N : f[n] = x
  BY <1>2, InOrderLists
<1>5. Len(f) = N
  BY <1>4, FunctionIsSeq
<1> HIDE DEF f, N
<1>6. f[1] = a
  <2>1. PICK n \in 1..N : f[n] = a
    BY <1>1, <1>4
  <2>2. 1 \in 1..N /\ f[1] \in S
    BY <1>4, <2>1
  <2>3. ~(f[1] < a)
    BY <1>1, <2>2
  <2>4. n = 1 \/ 1 < n
    BY <2>1
  <2> QED BY <1>4, <2>1, <2>2, <2>3, <2>4
<1>7. ASSUME NEW n \in 2..N PROVE f[n] \in Nat /\ f[n] > z
  <2>1. n \in 1..N /\ 1 \in 1..N /\ 1 < n
    BY <1>4
  <2>2. f[n] \in S /\ f[1] < f[n]
    BY <1>4, <2>1
  <2>3. f[n] # a
    BY <1>1, <1>6, <2>2
  <2> QED BY <1>1, <2>2, <2>3
<1> QED BY <1>3, <1>4, <1>5, <1>6, <1>7 DEF Found, f, S

LEMMA ErasedBehind ==
  ASSUME NEW s \in Seq(Token), NEW k \in Nat \ {0}, NEW z \in Nat \ {0}, Len(s) >= z, k >= z
  PROVE  /\ Len(Erase(s, k)) = Len(s) - 1
         /\ \A p \in 1..(z - 1) : Erase(s, k)[p] = s[p]
<1>0. Len(s) \in Nat /\ Len(s) # 0
  BY LenProperties
<1>1. ASSUME NEW j \in Nat \ {0}, j <= Len(s), j >= z
      PROVE  Len(Erase(s, j)) = Len(s) - 1 /\ \A p \in 1..(z - 1) : Erase(s, j)[p] = s[p]
  <2>1. /\ Len(Erase(s, j)) = Len(s) - 1
        /\ \A n \in 1..(Len(s) - 1) : Erase(s, j)[n] = IF n < j THEN s[n] ELSE s[n + 1]
    BY <1>1, EraseParts
  <2>2. \A p \in 1..(z - 1) : p \in 1..(Len(s) - 1) /\ p < j
    BY <1>0, <1>1
  <2> QED BY <2>1, <2>2
<1>2. CASE k <= Len(s)
  BY <1>1, <1>2
<1>3. CASE ~(k <= Len(s))
  <2>1. Erase(s, k) = Erase(s, Len(s))
    BY <1>0, <1>3 DEF Erase
  <2>2. Len(s) \in Nat \ {0} /\ Len(s) <= Len(s)
    BY <1>0
  <2> QED BY <1>1, <2>1, <2>2
<1> QED BY <1>2, <1>3

LEMMA RestKept ==
  ASSUME NEW w \in Seq(Token), NEW a, NEW z, LateBy(w, a, z), NEW left, Steps(w, left)
  PROVE  \A n \in 1..Len(Found(w)) :
           /\ Len(left[n]) = Len(w) - n
           /\ \A p \in 1..(z - 1) : left[n][p] = IF p < a THEN w[p] ELSE w[p + 1]
<1> DEFINE N == Len(Found(w))
           Right(n) == /\ Len(left[n]) = Len(w) - n
                       /\ \A p \in 1..(z - 1) : left[n][p] = IF p < a THEN w[p] ELSE w[p + 1]
           Wrong == {n \in 1..N : ~Right(n)}
<1>1. /\ N = 1 + Len(w) - z /\ N \in Nat /\ Found(w)[1] = a
      /\ \A n \in 2..N : Found(w)[n] \in Nat /\ Found(w)[n] > z
  BY FirstFound
<1>2. Len(w) \in Nat /\ a \in Nat /\ z \in Nat /\ a <= z /\ z <= Len(w) /\ a >= 1
  BY LenProperties DEF LateBy
<1>3. /\ left[0] = w
      /\ \A n \in 1..N : left[n] = Erase(left[n - 1], Found(w)[n])
      /\ \A n \in 0..N : left[n] \in Seq(Token)
  BY DEF Steps
<1> HIDE DEF N
<1>4. N >= 1 => Right(1)
  <2> SUFFICES ASSUME N >= 1 PROVE Right(1)
    OBVIOUS
  <2>1. left[1] = Erase(w, a)
    BY <1>1, <1>3
  <2>2. /\ Len(Erase(w, a)) = Len(w) - 1
        /\ \A n \in 1..(Len(w) - 1) : Erase(w, a)[n] = IF n < a THEN w[n] ELSE w[n + 1]
    <3>1. a \in Nat \ {0} /\ a <= Len(w)
      BY <1>2
    <3> QED BY <3>1, EraseParts
  <2>3. \A p \in 1..(z - 1) : p \in 1..(Len(w) - 1)
    BY <1>2
  <2> QED BY <2>1, <2>2, <2>3
<1>5. ASSUME NEW n \in 2..N, Right(n - 1) PROVE Right(n)
  <2>1. n - 1 \in 0..N /\ n \in 1..N /\ n \in Nat
    BY <1>1
  <2>2. left[n] = Erase(left[n - 1], Found(w)[n]) /\ left[n - 1] \in Seq(Token)
    BY <1>3, <2>1
  <2>3. Len(left[n - 1]) = Len(w) - (n - 1) /\ Len(left[n - 1]) >= z
    BY <1>1, <1>2, <1>5, <2>1
  <2>4. Found(w)[n] \in Nat \ {0} /\ Found(w)[n] >= z /\ z \in Nat \ {0}
    BY <1>1, <1>2
  <2>5. /\ Len(Erase(left[n - 1], Found(w)[n])) = Len(left[n - 1]) - 1
        /\ \A p \in 1..(z - 1) : Erase(left[n - 1], Found(w)[n])[p] = left[n - 1][p]
    BY <2>2, <2>3, <2>4, ErasedBehind
  <2>6. Len(w) - (n - 1) - 1 = Len(w) - n
    BY <1>2, <2>1
  <2> QED BY <1>5, <2>2, <2>3, <2>5, <2>6
<1>6. Wrong = {}
  <2> SUFFICES ASSUME Wrong # {} PROVE FALSE
    OBVIOUS
  <2>0. Wrong \in SUBSET Nat
    BY <1>1
  <2>1. PICK n \in Wrong : \A m \in Wrong : n <= m
    <3> HIDE DEF Wrong
    <3> QED BY <2>0, SmallestOf
  <2>2. n \in 1..N /\ ~Right(n)
    BY <2>1
  <2> HIDE DEF Right
  <2>3. n # 1
    BY <1>1, <1>4, <2>2
  <2>4. n \in 2..N /\ n - 1 \in 1..N /\ ~(n <= n - 1)
    BY <1>1, <2>2, <2>3
  <2>5. Right(n - 1)
    BY <2>1, <2>4
  <2> QED BY <1>5, <2>2, <2>4, <2>5
<1> QED BY <1>6 DEF N

LEMMA LateIsTyped ==
  ASSUME NEW w \in Seq(Token), Late(w)
  PROVE  parse_user_pipe(w) = Pick(w, DOMAIN w \ UserPipes(w))
<1> DEFINE S == DOMAIN w \ UserPipes(w)
<1>1. /\ Pick(w, S) \in Seq(Token) /\ Len(Pick(w, S)) = Cardinality(S)
      /\ \A n \in 1..Cardinality(S) : Pick(w, S)[n] = w[InOrder(S)[n]]
  BY PickElements
<1>2. PICK left : Steps(w, left)
  BY Removals
<1>3. DOMAIN w = 1..Len(w) /\ Len(w) \in Nat /\ parse_user_pipe(w) \in Seq(Token)
  BY LenProperties, ParserWords
<1>4. CASE UserPipes(w) = {}
  <2>1. S = 1..Len(w)
    BY <1>3, <1>4
  <2>2. Cardinality(S) = Len(w) /\ \A n \in 1..Len(w) : InOrder(S)[n] = n
    BY <1>3, <2>1, OrderOfAll
  <2>3. Len(Found(w)) = 0
    <3>1. Cardinality({}) = 0 /\ {} \in SUBSET Nat /\ IsFiniteSet({})
      BY FS_EmptySet
    <3>2. InOrder({}) \in [1..0 -> {}]
      BY <3>1, InOrderLists
    <3>3. Found(w) = InOrder({})
      BY <1>4 DEF Found
    <3> QED BY <3>2, <3>3, FunctionIsSeq
  <2>4. parse_user_pipe(w) = w
    BY <1>2, <2>3 DEF Steps
  <2> HIDE DEF S
  <2> QED BY <1>1, <2>2, <2>4, SameSeq DEF S
<1>5. CASE \E a, z \in 1..Len(w) : LateBy(w, a, z)
  <2>0. PICK a \in 1..Len(w), z \in 1..Len(w) : LateBy(w, a, z)
    BY <1>5
  <2>1. a \in 1..z /\ z \in Nat /\ z <= Len(w) /\ UserPipes(w) = {a} \cup (z + 1)..Len(w)
    BY <1>3, <2>0 DEF LateBy
  <2>2. S = (1..z) \ {a}
    BY <1>3, <2>1
  <2> HIDE DEF S
  <2>3. /\ Cardinality(S) = z - 1
        /\ \A n \in 1..(z - 1) : InOrder(S)[n] = IF n < a THEN n ELSE n + 1
    <3>1. /\ Cardinality((1..z) \ {a}) = z - 1
          /\ \A n \in 1..(z - 1) : InOrder((1..z) \ {a})[n] = IF n < a THEN n ELSE n + 1
      BY <2>1, OrderWithGap
    <3> QED BY <2>2, <3>1
  <2> DEFINE N == Len(Found(w))
             p == parse_user_pipe(w)
  <2>4. N = 1 + Len(w) - z /\ N \in 1..N
    <3>1. N = 1 + Len(w) - z
      BY <2>0, FirstFound
    <3> HIDE DEF N
    <3> QED BY <1>3, <2>1, <3>1
  <2>5. p = left[N]
    BY <1>2 DEF Steps
  <2>6. /\ Len(left[N]) = Len(w) - N
        /\ \A n \in 1..(z - 1) : left[N][n] = IF n < a THEN w[n] ELSE w[n + 1]
    <3>1. \A n \in 1..Len(Found(w)) :
             /\ Len(left[n]) = Len(w) - n
             /\ \A m \in 1..(z - 1) : left[n][m] = IF m < a THEN w[m] ELSE w[m + 1]
      BY <1>2, <2>0, RestKept
    <3> QED BY <2>4, <3>1
  <2> HIDE DEF N, p
  <2>7. Len(p) = z - 1
    BY <1>3, <2>1, <2>4, <2>5, <2>6
  <2>8. \A n \in 1..(z - 1) : p[n] = w[InOrder(S)[n]]
    BY <2>3, <2>5, <2>6
  <2>9. p \in Seq(Token)
    BY <1>3 DEF p
  <2>10. p = Pick(w, S)
    BY <1>1, <2>3, <2>7, <2>8, <2>9, SameSeq
  <2> QED BY <2>10 DEF p, S
<1> QED BY <1>4, <1>5 DEF Late

(* The lines of which the words are right: user pipes but the first stand   *)
(* last in a command, and none stands in front of ">" or for a file.        *)
LateLine(l) == \A k \in EndsIn(l) :
                 /\ Late(Words(l, k))
                 /\ k <= Len(l) /\ l[k].t = ">" => UserPipes(Words(l, k)) = {}
                 /\ k <= Len(l) /\ k \notin Seps(l) => ~IsUserPipe(l[k])
LateLines   == \A u \in User : \A l \in Inputs[u] : LateLine(l)

LEMMA MadeTyped ==
  ASSUME NEW l, GoodLine(l), LateLine(l), NEW k \in EndsIn(l)
  PROVE  Made(l, k).words = Made(l, k).typed
<1>1. \A type, num, w : /\ Command(type, num, w).words = parse_user_pipe(w)
                        /\ Command(type, num, w).typed = Pick(w, DOMAIN w \ UserPipes(w))
                        /\ Unparsed(type, w).words = w
                        /\ Unparsed(type, w).typed = Pick(w, DOMAIN w \ UserPipes(w))
  BY DEF Command, Unparsed
<1>2. Words(l, k) \in Seq(Token)
  BY WordsOfCommand
<1>3. ASSUME NEW w \in Seq(Token), UserPipes(w) = {} PROVE w = Pick(w, DOMAIN w \ UserPipes(w))
  <2>1. parse_user_pipe(w) = Pick(w, DOMAIN w \ UserPipes(w))
    BY <1>3, LateIsTyped DEF Late
  <2>2. Len(Found(w)) = 0
    <3>1. Cardinality({}) = 0 /\ {} \in SUBSET Nat /\ IsFiniteSet({})
      BY FS_EmptySet
    <3>2. InOrder({}) \in [1..0 -> {}]
      BY <3>1, InOrderLists
    <3>3. Found(w) = InOrder({})
      BY <1>3 DEF Found
    <3> QED BY <3>2, <3>3, FunctionIsSeq
  <2>3. parse_user_pipe(w) = w
    BY <2>2, Removals DEF Steps
  <2> QED BY <2>1, <2>3
<1>4. CASE \E type \in Types, num \in Nat : Made(l, k) = Command(type, num, Words(l, k))
  <2>1. parse_user_pipe(Words(l, k)) = Pick(Words(l, k), DOMAIN Words(l, k) \ UserPipes(Words(l, k)))
    BY <1>2, LateIsTyped DEF LateLine
  <2> QED BY <1>1, <1>4, <2>1
<1>5. CASE k <= Len(l) /\ k \notin Seps(l) /\ Made(l, k) = Unparsed("F_RED_PIPE", <<l[k]>>)
  <2>1. l[k] \in Token /\ ~IsUserPipe(l[k])
    <3>1. k \in 1..(Len(l) + 1) /\ Len(l) \in Nat /\ \A n \in 1..Len(l) : l[n] \in Token
      BY LineParts
    <3> QED BY <1>5, <3>1 DEF LateLine
  <2>2. <<l[k]>> \in Seq(Token) /\ UserPipes(<<l[k]>>) = {}
    BY <2>1 DEF UserPipes
  <2>3. <<l[k]>> = Pick(<<l[k]>>, DOMAIN <<l[k]>> \ UserPipes(<<l[k]>>))
    BY <1>3, <2>2
  <2>4. \A w : Unparsed("F_RED_PIPE", w).words = w
              /\ Unparsed("F_RED_PIPE", w).typed = Pick(w, DOMAIN w \ UserPipes(w))
    BY <1>1
  <2> QED BY <1>5, <2>3, <2>4
<1>6. CASE k <= Len(l) /\ l[k].t = ">" /\ Made(l, k) = Unparsed("PIPE", Words(l, k))
  <2>1. UserPipes(Words(l, k)) = {}
    BY <1>6 DEF LateLine
  <2>2. Words(l, k) = Pick(Words(l, k), DOMAIN Words(l, k) \ UserPipes(Words(l, k)))
    BY <1>2, <1>3, <2>1
  <2>3. \A w : Unparsed("PIPE", w).words = w
              /\ Unparsed("PIPE", w).typed = Pick(w, DOMAIN w \ UserPipes(w))
    BY <1>1
  <2> QED BY <1>6, <2>2, <2>3
<1> QED BY <1>4, <1>5, <1>6, MadeParts

LEMMA TypedKept ==
  ASSUME Typed, AsTyped, pc # "read", SameLine, \A v \in User : v # cur => cmds'[v] = cmds[v]
  PROVE  AsTyped'
<1>1. DOMAIN my = 1..Len(my) /\ DOMAIN my' = 1..Len(my) /\ cur' = cur
  BY CurUser, LenProperties DEF Typed, SameLine
<1>2. \A k \in DOMAIN my' : my'[k].words = my'[k].typed
  <2>1. \A k \in DOMAIN my : my[k].words = my[k].typed
    BY CurUser DEF Typed, AsTyped, my
  <2> QED BY <1>1, <2>1 DEF SameLine, Kept
<1> QED BY <1>1, <1>2 DEF AsTyped, my

LEMMA TypedStart ==
  ASSUME Typed, AsTyped, NEW u \in User, NEW l, GoodLine(l), LateLine(l), Start(u, l)
  PROVE  AsTyped'
<1> DEFINE N == Len(split_by_pipe(l))
           o == Len(cmds[u])
<1>1. /\ o \in Nat /\ N \in Nat \ {0} /\ cur' = u /\ my' \in Seq(Cmd) /\ Len(my') = o + N
      /\ \A k \in 1..o : my'[k] = cmds[u][k]
      /\ \A k \in 1..N : my'[o + k] = NewCmds(u, l)[k]
      /\ \A k \in 1..Len(my') : k \in 1..o \/ k - o \in 1..N
      /\ \A v \in User : v # u => cmds'[v] = cmds[v]
      /\ \A k \in 1..N : NewCmdOK(u, l, k)
      /\ cmds[u] \in Seq(Cmd)
  BY StartCmds
<1>2. \A k \in 1..N : NewCmds(u, l)[k].words = NewCmds(u, l)[k].typed
  <2> SUFFICES ASSUME NEW k \in 1..N PROVE NewCmds(u, l)[k].words = NewCmds(u, l)[k].typed
    OBVIOUS
  <2>1. split_by_pipe(l)[k] = Made(l, InOrder(EndsIn(l))[k]) /\ InOrder(EndsIn(l))[k] \in EndsIn(l)
    BY SplitParts
  <2>2. split_by_pipe(l)[k].words = split_by_pipe(l)[k].typed
    BY <2>1, MadeTyped
  <2> QED BY <1>1, <2>2 DEF NewCmdOK
<1>3. \A k \in 1..o : cmds[u][k].words = cmds[u][k].typed
  BY <1>1, LenProperties DEF AsTyped
<1> HIDE DEF N, o
<1>4. ASSUME NEW k \in DOMAIN my' PROVE my'[k].words = my'[k].typed
  <2>1. k \in 1..Len(my')
    BY <1>1, LenProperties
  <2>2. CASE k \in 1..o
    BY <1>1, <1>3, <2>2
  <2>3. CASE k - o \in 1..N
    <3>1. o + (k - o) = k
      BY <1>1, <2>1
    <3> QED BY <1>1, <1>2, <2>3, <3>1
  <2> QED BY <1>1, <2>1, <2>2, <2>3
<1>5. my' = cmds'[u]
  BY <1>1 DEF my
<1> QED BY <1>1, <1>4, <1>5 DEF AsTyped

LEMMA TypedNext ==
  ASSUME LateLines, Typed, AsTyped, [Next]_vars
  PROVE  AsTyped'
<1>1. ASSUME NEW u \in User, NEW l \in Inputs[u], Start(u, l) PROVE AsTyped'
  <2>1. GoodLine(l) /\ LateLine(l)
    BY InputAssumption DEF GoodLine, LateLines
  <2> QED BY <1>1, <2>1, TypedStart
<1>2. CASE Collect
  <2>1. AtStage /\ UNCHANGED <<cur, ghost>> /\ pc # "read"
    BY <1>2, CollectNames DEF AtStage
  <2>2. CASE UNCHANGED cmds
    BY <2>2 DEF AsTyped
  <2>3. ASSUME NEW j \in 1..(i - 1), cmds' = [cmds EXCEPT ![cur] = [@ EXCEPT ![j].piped = TRUE]]
        PROVE  AsTyped'
    <3>1. SameLine /\ \A v \in User : v # cur => cmds'[v] = cmds[v]
      BY <2>1, <2>3, CollectCmds DEF SameLine, ghost
    <3> QED BY <2>1, <3>1, TypedKept
  <2> QED BY <1>2, <2>2, <2>3, CollectNames
<1>3. CASE StageFails
  <2>1. AtStage /\ cur' = cur /\ lines' = lines /\ pc # "read"
        /\ cmds' = [cmds EXCEPT ![cur] = Mark(reduce_num_pipes(my), i, TRUE)]
    BY <1>3, StageFailsCmds DEF ghost, AtStage
  <2>2. SameLine /\ \A v \in User : v # cur => cmds'[v] = cmds[v]
    BY <2>1, StageCmds DEF SameLine
  <2> QED BY <2>1, <2>2, TypedKept
<1>4. CASE StageForks
  <2>1. pc # "read" /\ UNCHANGED <<cur, lines>>
    BY <1>4, StageForksNames DEF AtStage
  <2>2. SameLine /\ \A v \in User : v # cur => cmds'[v] = cmds[v]
    BY <1>4, <2>1, StageForksCmds DEF SameLine
  <2> QED BY <2>1, <2>2, TypedKept
<1>5. CASE Reap
  <2>1. /\ cur \in User /\ \A v \in User : v # cur => cmds'[v] = cmds[v]
        /\ DOMAIN cmds'[cur] = 1..Cardinality(Remaining)
        /\ \A n \in 1..Cardinality(Remaining) : \E k \in 1..Len(my) : Kept(cmds'[cur][n], my[k])
    <3>1. /\ cur \in User /\ \A v \in User : v # cur => cmds'[v] = cmds[v]
          /\ DOMAIN cmds'[cur] = 1..Cardinality(Remaining)
      BY <1>5, ReapParts
    <3>2. ASSUME NEW n \in 1..Cardinality(Remaining)
          PROVE  InOrder(Remaining)[n] \in 1..Len(my) /\ Kept(cmds'[cur][n], my[InOrder(Remaining)[n]])
      BY <1>5, ReapParts
    <3> QED BY <3>1, <3>2
  <2>2. \A k \in 1..Len(my) : my[k].words = my[k].typed
    <3>1. DOMAIN my = 1..Len(my)
      BY <1>5, ReapNames, CurUser DEF Typed
    <3> QED BY <2>1, <3>1 DEF AsTyped, my
  <2>3. \A n \in DOMAIN cmds'[cur] : cmds'[cur][n].words = cmds'[cur][n].typed
    BY <2>1, <2>2 DEF Kept
  <2> QED BY <2>1, <2>3 DEF AsTyped
<1>6. ASSUME UNCHANGED cmds PROVE AsTyped'
  BY <1>6 DEF AsTyped
<1>7. WaitPre \/ EndLine \/ (\E p \in procs : Finish(p)) \/ UNCHANGED vars => UNCHANGED cmds
  BY DEF WaitPre, EndLine, Finish, vars
<1> QED BY <1>1, <1>2, <1>3, <1>4, <1>5, <1>6, <1>7 DEF Next, Server

(* Commands are run with the words that were typed, if of the user pipes of *)
(* a command all but the first are its last words.                          *)
THEOREM WordsAreTyped == ASSUME LateLines PROVE Spec => []AsTyped
<1>1. Init => AsTyped
  BY DEF Init, AsTyped
<1>2. Typed /\ AsTyped /\ [Next]_vars => AsTyped'
  BY TypedNext
<1> QED BY <1>1, <1>2, TypedAlways, PTL DEF Spec
===============================================================================
