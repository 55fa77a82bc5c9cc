----------------------------- MODULE Favorites_proofs -----------------------------
(***************************************************************************)
(* Proofs about the quality menus.  What the operators of FormatSelection  *)
(* compute is proved for all formats and rules: the sets they choose from  *)
(* are finite and their keys differ, so there is always a first element    *)
(* and an order of all, and a loop over a sequence is a function that      *)
(* exists, by induction on its length.                                     *)
(***************************************************************************)
EXTENDS Favorites, FiniteSetTheorems, WellFoundedInduction, TLAPS

-----------------------------------------------------------------------------
(***************************************************************************)
(* Induction.  The library states it for operators; here it is stated for  *)
(* sets of numbers.                                                        *)
(***************************************************************************)
LEMMA LeastNatural ==
    ASSUME NEW S \in SUBSET Nat, S # {}
    PROVE  \E n \in S : \A m \in S : n <= m
<1>1. \E n \in S : \A m \in S : ~(<<m, n>> \in OpToRel(<, Nat))
  BY NatLessThanWellFounded, WFMin
<1>2. PICK n \in S : \A m \in S : ~(<<m, n>> \in OpToRel(<, Nat))
  BY <1>1
<1>3. ASSUME NEW m \in S PROVE n <= m
  <2>1. <<m, n>> \in Nat \X Nat /\ <<m, n>>[1] = m /\ <<m, n>>[2] = n
    OBVIOUS
  <2>2. m < n => <<m, n>> \in OpToRel(<, Nat)
    BY <2>1 DEF OpToRel
  <2>3. m \in Nat /\ n \in Nat /\ ~(m < n)
    BY <1>2, <2>2
  <2>4. QED
    BY <2>3
<1>4. QED
  BY <1>3

LEMMA NaturalInduction ==
    ASSUME NEW S, 0 \in S, \A n \in Nat : n \in S => n + 1 \in S
    PROVE  Nat \subseteq S
<1> SUFFICES ASSUME Nat \ S # {} PROVE FALSE
  OBVIOUS
<1>1. PICK n \in Nat \ S : \A m \in Nat \ S : n <= m
  BY LeastNatural
<1>2. n # 0
  BY <1>1
<1>3. n - 1 \in Nat /\ n - 1 \in S
  BY <1>1, <1>2
<1>4. QED
  BY <1>1, <1>3

\* Up to a bound.
LEMMA BoundedInduction ==
    ASSUME NEW N \in Nat, NEW S, 0 \in S, \A n \in 1..N : n - 1 \in S => n \in S
    PROVE  0..N \subseteq S
<1> DEFINE T == {n \in Nat : n <= N => n \in S}
<1>1. 0 \in T
  OBVIOUS
<1>2. ASSUME NEW n \in Nat, n \in T PROVE n + 1 \in T
  <2>1. CASE n + 1 <= N
    <3>1. n + 1 \in 1..N /\ (n + 1) - 1 = n /\ n \in S
      BY <1>2, <2>1
    <3>2. QED
      BY <3>1
  <2>2. CASE ~(n + 1 <= N)
    BY <2>2
  <2>3. QED
    BY <2>1, <2>2
<1>3. Nat \subseteq T
  <2> HIDE DEF T
  <2>1. QED BY <1>1, <1>2, NaturalInduction
<1>4. QED
  BY <1>3

-----------------------------------------------------------------------------
(***************************************************************************)
(* Loops: from base, step[n] is applied for n = 1, 2 and so on.            *)
(***************************************************************************)
CanLoop(N, A, base, step) == N \in Nat /\ base \in A /\ step \in [1..N -> [A -> A]]
IsLoop(g, N, A, base, step) ==
    /\ g \in [0..N -> A] /\ g[0] = base
    /\ \A n \in 1..N : g[n] = step[n][g[n - 1]]

LEMMA LoopExists ==
    ASSUME NEW N, NEW A, NEW base, NEW step, CanLoop(N, A, base, step)
    PROVE  \E g : IsLoop(g, N, A, base, step)
<1>0. N \in Nat /\ base \in A /\ step \in [1..N -> [A -> A]]
  BY DEF CanLoop
<1> DEFINE Ok(h, n) == h[0] = base /\ \A i \in 1..n : h[i] = step[i][h[i - 1]]
           S == {n \in 0..N : \E h \in [0..n -> A] : Ok(h, n)}
<1>1. 0 \in S
  <2> DEFINE h == [i \in 0..0 |-> base]
  <2>1. h \in [0..0 -> A] /\ h[0] = base /\ 1..0 = {}
    BY <1>0
  <2> HIDE DEF h
  <2>2. QED
    BY <2>1, <1>0
<1>2. ASSUME NEW n \in 1..N, n - 1 \in S PROVE n \in S
  <2>1. PICK h \in [0..(n - 1) -> A] : Ok(h, n - 1)
    BY <1>2
  <2> DEFINE k == [i \in 0..n |-> IF i < n THEN h[i] ELSE step[n][h[n - 1]]]
  <2>2. n \in Nat /\ n - 1 \in 0..(n - 1) /\ h[n - 1] \in A /\ step[n] \in [A -> A]
    BY <1>0
  <2>3. k \in [0..n -> A]
    BY <2>2
  <2>4. k[0] = base /\ k[n] = step[n][h[n - 1]] /\ \A i \in 0..(n - 1) : k[i] = h[i]
    BY <2>1, <2>2
  <2> HIDE DEF k
  <2>5. ASSUME NEW i \in 1..n PROVE k[i] = step[i][k[i - 1]]
    <3>1. i - 1 \in 0..(n - 1) /\ k[i - 1] = h[i - 1]
      BY <2>2, <2>4
    <3>2. CASE i = n
      BY <3>1, <3>2, <2>4
    <3>3. CASE i # n
      <4>1. i \in 1..(n - 1) /\ i \in 0..(n - 1)
        BY <3>3, <2>2
      <4>2. QED
        BY <4>1, <3>1, <2>1, <2>4
    <3>4. QED
      BY <3>2, <3>3
  <2>6. Ok(k, n)
    BY <2>4, <2>5
  <2> HIDE DEF Ok
  <2>7. QED
    BY <2>3, <2>6
<1>3. 0..N \subseteq S
  <2> HIDE DEF S
  <2>1. QED BY <1>0, <1>1, <1>2, BoundedInduction
<1>4. PICK g \in [0..N -> A] : Ok(g, N)
  BY <1>0, <1>3
<1>5. QED
  BY <1>4 DEF IsLoop

-----------------------------------------------------------------------------
(***************************************************************************)
(* The order of keys, which are sequences of integers of one length.       *)
(***************************************************************************)
LEMMA NeverBeforeItself ==
    ASSUME NEW a \in Seq(Int)
    PROVE  ~Before(a, a)
BY DEF Before

LEMMA IntegersOf ==
    ASSUME NEW a \in Seq(Int)
    PROVE  DOMAIN a = 1..Len(a) /\ \A k \in 1..Len(a) : a[k] \in Int
OBVIOUS

LEMMA BeforeIsTransitive ==
    ASSUME NEW a \in Seq(Int), NEW b \in Seq(Int), NEW c \in Seq(Int),
           Len(a) = Len(b), Len(b) = Len(c), Before(a, b), Before(b, c)
    PROVE  Before(a, c)
<1>0. DOMAIN a = 1..Len(a) /\ DOMAIN b = 1..Len(a)
  OBVIOUS
<1>1. PICK i \in 1..Len(a) : a[i] < b[i] /\ \A k \in 1..(i - 1) : a[k] = b[k]
  BY <1>0 DEF Before
<1>2. PICK j \in 1..Len(a) : b[j] < c[j] /\ \A k \in 1..(j - 1) : b[k] = c[k]
  BY <1>0 DEF Before
<1>3. DOMAIN a = 1..Len(a) /\ \A k \in 1..Len(a) : a[k] \in Int /\ b[k] \in Int /\ c[k] \in Int
  <2>1. DOMAIN a = 1..Len(a) /\ \A k \in 1..Len(a) : a[k] \in Int
    BY IntegersOf
  <2>2. \A k \in 1..Len(b) : b[k] \in Int
    BY IntegersOf
  <2>3. \A k \in 1..Len(c) : c[k] \in Int
    BY IntegersOf
  <2>4. QED
    BY <2>1, <2>2, <2>3
<1>4. CASE i < j
  <2>1. a[i] < c[i] /\ \A k \in 1..(i - 1) : a[k] = c[k]
    <3>1. i \in 1..(j - 1) /\ \A k \in 1..(i - 1) : k \in 1..(j - 1)
      BY <1>4
    <3>2. b[i] = c[i] /\ \A k \in 1..(i - 1) : b[k] = c[k]
      BY <3>1, <1>2
    <3>3. QED
      BY <3>2, <1>1
  <2>2. QED
    BY <2>1, <1>3 DEF Before
<1>5. CASE j < i
  <2>1. a[j] < c[j] /\ \A k \in 1..(j - 1) : a[k] = c[k]
    BY <1>1, <1>2, <1>3, <1>5
  <2>2. QED
    BY <2>1, <1>3 DEF Before
<1>6. CASE i = j
  <2>1. a[i] < c[i] /\ \A k \in 1..(i - 1) : a[k] = c[k]
    BY <1>1, <1>2, <1>3, <1>6
  <2>2. QED
    BY <2>1, <1>3 DEF Before
<1>7. QED
  BY <1>4, <1>5, <1>6

LEMMA BeforeIsTotal ==
    ASSUME NEW a \in Seq(Int), NEW b \in Seq(Int), Len(a) = Len(b), a # b
    PROVE  Before(a, b) \/ Before(b, a)
<1> DEFINE D == {i \in 1..Len(a) : a[i] # b[i]}
<1>1. D # {}
  <2>1. a \in [1..Len(a) -> Int] /\ b \in [1..Len(a) -> Int]
    OBVIOUS
  <2>2. (\A i \in 1..Len(a) : a[i] = b[i]) => a = b
    BY <2>1
  <2>3. QED
    BY <2>2
<1>2. D \in SUBSET Nat
  OBVIOUS
<1>3. PICK i \in D : \A m \in D : i <= m
  <2> HIDE DEF D
  <2>1. QED BY <1>1, <1>2, LeastNatural
<1>4. /\ i \in 1..Len(a) /\ a[i] # b[i] /\ a[i] \in Int /\ b[i] \in Int
      /\ DOMAIN a = 1..Len(a) /\ DOMAIN b = 1..Len(a)
  BY <1>3
<1>5. \A k \in 1..(i - 1) : a[k] = b[k]
  BY <1>3, <1>4
<1>6. a[i] < b[i] \/ b[i] < a[i]
  BY <1>4
<1>7. QED
  BY <1>4, <1>5, <1>6 DEF Before

(***************************************************************************)
(* Finite sets whose elements have different keys.                         *)
(***************************************************************************)
HaveKeys(S, key) ==
    /\ IsFiniteSet(S)
    /\ \A x \in S : key[x] \in Seq(Int)
    /\ \A x, y \in S : Len(key[x]) = Len(key[y])
    /\ \A x, y \in S : x # y => key[x] # key[y]

LEMMA KeysOrder ==
    ASSUME NEW S, NEW key, HaveKeys(S, key)
    PROVE  /\ \A x \in S : ~Before(key[x], key[x])
           /\ \A x, y \in S : x # y => Before(key[x], key[y]) \/ Before(key[y], key[x])
           /\ \A x, y, z \in S : Before(key[x], key[y]) /\ Before(key[y], key[z]) => Before(key[x], key[z])
           /\ \A x, y \in S : Before(key[x], key[y]) => ~Before(key[y], key[x])
<1>1. \A x \in S : ~Before(key[x], key[x])
  BY NeverBeforeItself DEF HaveKeys
<1>2. \A x, y \in S : x # y => Before(key[x], key[y]) \/ Before(key[y], key[x])
  BY BeforeIsTotal DEF HaveKeys
<1>3. \A x, y, z \in S : Before(key[x], key[y]) /\ Before(key[y], key[z]) => Before(key[x], key[z])
  BY BeforeIsTransitive DEF HaveKeys
<1>4. QED
  BY <1>1, <1>2, <1>3

\* A smaller set of the same elements.
LEMMA PartHasKeys ==
    ASSUME NEW S, NEW key, HaveKeys(S, key), NEW T \in SUBSET S, NEW part,
           \A x \in T : part[x] = key[x]
    PROVE  HaveKeys(T, part)
BY FS_Subset DEF HaveKeys

Earlier(S, key, x) == {y \in S : Before(key[y], key[x])}
Rank(S, key, x) == Cardinality(Earlier(S, key, x))

LEMMA RankGrows ==
    ASSUME NEW S, NEW key, HaveKeys(S, key)
    PROVE  /\ Cardinality(S) \in Nat
           /\ \A x \in S : Rank(S, key, x) \in 0..(Cardinality(S) - 1)
           /\ \A x, y \in S : Rank(S, key, x) < Rank(S, key, y) <=> Before(key[x], key[y])
           /\ \A x, y \in S : Rank(S, key, x) = Rank(S, key, y) => x = y
<1>1. IsFiniteSet(S) /\ Cardinality(S) \in Nat
  BY FS_CardinalityType DEF HaveKeys
<1>2. ASSUME NEW x \in S PROVE Rank(S, key, x) \in 0..(Cardinality(S) - 1)
  <2>1. Earlier(S, key, x) \in SUBSET S
    BY DEF Earlier
  <2>2. x \notin Earlier(S, key, x)
    BY KeysOrder DEF Earlier
  <2>3. IsFiniteSet(Earlier(S, key, x)) /\ Rank(S, key, x) <= Cardinality(S) /\ Rank(S, key, x) # Cardinality(S)
    BY <1>1, <2>1, <2>2, FS_Subset DEF Rank
  <2>4. Rank(S, key, x) \in Nat
    BY <2>3, FS_CardinalityType DEF Rank
  <2>5. QED
    BY <2>3, <2>4, <1>1
<1>3. ASSUME NEW x \in S, NEW y \in S, Before(key[x], key[y])
      PROVE  Rank(S, key, x) < Rank(S, key, y)
  <2>1. Earlier(S, key, x) \in SUBSET Earlier(S, key, y)
    BY <1>3, KeysOrder DEF Earlier
  <2>2. x \in Earlier(S, key, y) /\ x \notin Earlier(S, key, x)
    BY <1>3, KeysOrder DEF Earlier
  <2>3. IsFiniteSet(Earlier(S, key, y))
    BY <1>1, FS_Subset DEF Earlier
  <2>4. Rank(S, key, x) <= Rank(S, key, y) /\ Rank(S, key, x) # Rank(S, key, y)
    BY <2>1, <2>2, <2>3, FS_Subset DEF Rank
  <2>5. Rank(S, key, x) \in Nat /\ Rank(S, key, y) \in Nat
    BY <1>1, <1>2
  <2>6. QED
    BY <2>4, <2>5
<1>4. ASSUME NEW x \in S, NEW y \in S
      PROVE  /\ Rank(S, key, x) < Rank(S, key, y) => Before(key[x], key[y])
             /\ Rank(S, key, x) = Rank(S, key, y) => x = y
  <2>1. Rank(S, key, x) \in Nat /\ Rank(S, key, y) \in Nat
    BY <1>1, <1>2
  <2>2. CASE x = y
    BY <2>1, <2>2
  <2>3. CASE x # y
    <3>1. Before(key[x], key[y]) \/ Before(key[y], key[x])
      BY <2>3, KeysOrder
    <3>2. Before(key[y], key[x]) => Rank(S, key, y) < Rank(S, key, x)
      BY <1>3
    <3>3. Before(key[x], key[y]) => Rank(S, key, x) < Rank(S, key, y)
      BY <1>3
    <3>4. QED
      BY <2>1, <2>3, <3>1, <3>2, <3>3
  <2>4. QED
    BY <2>2, <2>3
<1>5. QED
  BY <1>1, <1>2, <1>3, <1>4

\* A set that is not empty has a first element, and only one.
LEMMA FirstIs ==
    ASSUME NEW S, NEW key, HaveKeys(S, key), S # {}
    PROVE  /\ First(S, key) \in S
           /\ \A y \in S \ {First(S, key)} : Before(key[First(S, key)], key[y])
           /\ \A x \in S : (\A y \in S \ {x} : Before(key[x], key[y])) => x = First(S, key)
<1> DEFINE ranks == {Rank(S, key, x) : x \in S}
           Leads(x) == \A y \in S \ {x} : Before(key[x], key[y])
<1>1. ranks \in SUBSET Nat /\ ranks # {}
  BY RankGrows
<1>2. PICK n \in ranks : \A m \in ranks : n <= m
  <2> HIDE DEF ranks
  <2>1. QED BY <1>1, LeastNatural
<1>3. PICK x \in S : n = Rank(S, key, x)
  BY <1>2
<1>4. ASSUME NEW y \in S \ {x} PROVE Before(key[x], key[y])
  <2>1. Rank(S, key, x) <= Rank(S, key, y) /\ Rank(S, key, x) # Rank(S, key, y)
    BY <1>2, <1>3, RankGrows
  <2>2. Rank(S, key, x) \in Nat /\ Rank(S, key, y) \in Nat
    BY RankGrows
  <2>3. QED
    BY <2>1, <2>2, RankGrows
<1>5. \E z \in S : Leads(z)
  BY <1>4
<1>6. First(S, key) = CHOOSE z \in S : Leads(z)
  BY DEF First
<1>7. First(S, key) \in S /\ Leads(First(S, key))
  <2> HIDE DEF Leads
  <2>1. QED BY <1>5, <1>6
<1>8. ASSUME NEW z \in S, Leads(z) PROVE z = First(S, key)
  <2>1. z # First(S, key) => Before(key[z], key[First(S, key)]) /\ Before(key[First(S, key)], key[z])
    BY <1>7, <1>8
  <2>2. QED
    BY <2>1, <1>7, KeysOrder
<1>9. QED
  BY <1>7, <1>8

\* The elements of a set in order: each once, and in order.
LEMMA SortedIs ==
    ASSUME NEW S, NEW key, HaveKeys(S, key), NEW s, s = Sorted(S, key)
    PROVE  /\ Cardinality(S) \in Nat
           /\ s \in Seq(S) /\ Len(s) = Cardinality(S) /\ DOMAIN s = 1..Cardinality(S)
           /\ \A x \in S : \E i \in 1..Cardinality(S) : s[i] = x
           /\ \A i, j \in 1..Cardinality(S) : i < j <=> Before(key[s[i]], key[s[j]])
           /\ \A i, j \in 1..Cardinality(S) : s[i] = s[j] => i = j
           /\ \A i \in 1..Cardinality(S) : Rank(S, key, s[i]) = i - 1
<1> DEFINE n == Cardinality(S)
           f == [x \in S |-> Rank(S, key, x) + 1]
<1>1. n \in Nat /\ IsFiniteSet(S) /\ IsFiniteSet(1..n) /\ Cardinality(1..n) = n
  <2>1. n \in Nat /\ IsFiniteSet(S)
    BY RankGrows DEF HaveKeys
  <2>2. IsFiniteSet(1..n) /\ Cardinality(1..n) = IF 1 > n THEN 0 ELSE n - 1 + 1
    <3> HIDE DEF n
    <3>1. QED BY <2>1, FS_Interval
  <2>3. QED
    BY <2>1, <2>2
<1>2. f \in Injection(S, 1..n)
  <2>1. \A x \in S : f[x] \in 1..n
    BY <1>1, RankGrows
  <2>2. \A x, y \in S : f[x] = f[y] => x = y
    <3>1. \A x \in S : Rank(S, key, x) \in Nat
      BY <1>1, RankGrows
    <3>2. QED
      BY <3>1, RankGrows
  <2>3. QED
    BY <2>1, <2>2 DEF Injection, IsInjective
<1>3. f \in Surjection(S, 1..n)
  <2> HIDE DEF f
  <2>1. QED BY <1>1, <1>2, FS_Injection
<1>4. ASSUME NEW i \in 1..n PROVE \E x \in S : Rank(S, key, x) = i - 1
  <2>1. PICK x \in S : f[x] = i
    BY <1>3 DEF Surjection
  <2>2. Rank(S, key, x) \in Nat /\ Rank(S, key, x) + 1 = i
    BY <1>1, <2>1, RankGrows
  <2>3. QED
    BY <2>2
<1>5. ASSUME NEW i \in 1..n PROVE s[i] \in S /\ Rank(S, key, s[i]) = i - 1
  <2>1. s[i] = CHOOSE x \in S : Rank(S, key, x) = i - 1
    BY DEF Sorted, Rank, Earlier
  <2>2. QED
    BY <1>4, <2>1
<1>6. s \in Seq(S) /\ Len(s) = n /\ DOMAIN s = 1..n
  <2> DEFINE Nth(i) == CHOOSE x \in S : Cardinality({y \in S : Before(key[y], key[x])}) = i - 1
  <2>1. s = [i \in 1..n |-> Nth(i)]
    BY DEF Sorted
  <2> HIDE DEF Nth
  <2>2. s = [i \in 1..n |-> s[i]]
    BY <2>1
  <2>3. QED
    BY <1>1, <1>5, <2>2
<1>7. ASSUME NEW x \in S PROVE \E i \in 1..n : s[i] = x
  <2>1. Rank(S, key, x) + 1 \in 1..n
    BY <1>1, RankGrows
  <2>2. s[Rank(S, key, x) + 1] \in S /\ Rank(S, key, s[Rank(S, key, x) + 1]) = Rank(S, key, x)
    BY <1>1, <2>1, <1>5, RankGrows
  <2>3. s[Rank(S, key, x) + 1] = x
    BY <2>2, RankGrows
  <2>4. QED
    BY <2>1, <2>3
<1>8. ASSUME NEW i \in 1..n, NEW j \in 1..n
      PROVE  /\ i < j <=> Before(key[s[i]], key[s[j]])
             /\ s[i] = s[j] => i = j
  <2>1. i < j <=> Rank(S, key, s[i]) < Rank(S, key, s[j])
    BY <1>1, <1>5
  <2>2. s[i] \in S /\ s[j] \in S
    BY <1>5
  <2>3. s[i] = s[j] => i = j
    BY <1>1, <1>5
  <2>4. QED
    BY <2>1, <2>2, <2>3, RankGrows
<1>9. QED
  BY <1>1, <1>5, <1>6, <1>7, <1>8

\* There is one order: a sequence of the elements of S in order is Sorted(S).
Ascends(s, n, S, key) ==
    /\ n \in Nat /\ s \in [1..n -> S]
    /\ \A x \in S : \E i \in 1..n : s[i] = x
    /\ \A i, j \in 1..n : i < j => Before(key[s[i]], key[s[j]])

LEMMA SortedIsUnique ==
    ASSUME NEW S, NEW key, HaveKeys(S, key), NEW n, NEW s, Ascends(s, n, S, key)
    PROVE  n = Cardinality(S) /\ s = Sorted(S, key)
<1>0. /\ n \in Nat /\ s \in [1..n -> S]
      /\ \A x \in S : \E i \in 1..n : s[i] = x
      /\ \A i, j \in 1..n : i < j => Before(key[s[i]], key[s[j]])
  BY DEF Ascends
<1>1. \A i, j \in 1..n : s[i] = s[j] => i = j
  <2>1. \A i, j \in 1..n : i < j => s[i] # s[j]
    BY <1>0, KeysOrder
  <2>2. QED
    BY <1>0, <2>1
<1>2. ASSUME NEW i \in 0..n PROVE IsFiniteSet(1..i) /\ Cardinality(1..i) = i
  <2>1. IsFiniteSet(1..i) /\ Cardinality(1..i) = IF 1 > i THEN 0 ELSE i - 1 + 1
    BY <1>0, FS_Interval
  <2>2. QED
    BY <2>1
<1>3. n = Cardinality(S)
  <2>1. s \in Bijection(1..n, S)
    BY <1>0, <1>1 DEF Bijection, Injection, Surjection, IsInjective
  <2>2. QED
    BY <1>0, <2>1, <1>2, FS_Bijection DEF ExistsBijection
<1>4. ASSUME NEW i \in 1..n PROVE Rank(S, key, s[i]) = i - 1
  <2> DEFINE f == [j \in 1..(i - 1) |-> s[j]]
  <2>1. ASSUME NEW y \in S PROVE y \in Earlier(S, key, s[i]) <=> \E j \in 1..(i - 1) : y = s[j]
    <3>1. PICK j \in 1..n : y = s[j]
      BY <1>0
    <3>2. j < i <=> Before(key[y], key[s[i]])
      BY <1>0, <3>1, KeysOrder
    <3>3. QED
      BY <1>0, <3>1, <3>2, <1>1 DEF Earlier
  <2>2. f \in Bijection(1..(i - 1), Earlier(S, key, s[i]))
    <3>1. \A j \in 1..(i - 1) : f[j] = s[j] /\ s[j] \in S /\ f[j] \in Earlier(S, key, s[i])
      BY <1>0, <2>1
    <3>2. \A j, k \in 1..(i - 1) : f[j] = f[k] => j = k
      BY <1>0, <1>1
    <3>3. \A y \in Earlier(S, key, s[i]) : \E j \in 1..(i - 1) : f[j] = y
      BY <2>1 DEF Earlier
    <3> HIDE DEF f
    <3>4. f \in [1..(i - 1) -> Earlier(S, key, s[i])]
      BY <3>1 DEF f
    <3>5. QED
      BY <3>2, <3>3, <3>4 DEF Bijection, Injection, Surjection, IsInjective
  <2>3. i - 1 \in 0..n
    BY <1>0
  <2>4. QED
    <3> HIDE DEF f
    <3>1. QED BY <2>2, <2>3, <1>2, FS_Bijection DEF ExistsBijection, Rank
<1>5. ASSUME NEW i \in 1..n PROVE s[i] = Sorted(S, key)[i]
  <2> DEFINE t == Sorted(S, key)
  <2>1. t[i] \in S /\ Rank(S, key, t[i]) = i - 1
    <3>1. t \in Seq(S) /\ DOMAIN t = 1..n /\ Rank(S, key, t[i]) = i - 1
      BY <1>3, SortedIs
    <3>2. QED
      BY <1>0, <3>1
  <2>2. QED
    BY <1>0, <1>4, <2>1, RankGrows
<1>6. Sorted(S, key) \in [1..n -> S]
  <2>1. Sorted(S, key) \in Seq(S) /\ Len(Sorted(S, key)) = n
    BY <1>3, SortedIs
  <2>2. QED
    BY <1>0, <2>1
<1>7. s = Sorted(S, key)
  BY <1>0, <1>5, <1>6
<1>8. QED
  BY <1>3, <1>7

LEMMA TheFirstDecides ==
    ASSUME NEW a, NEW b, DOMAIN a = 1..2, a[1] < b[1]
    PROVE  Before(a, b)
<1>1. 1 \in DOMAIN a /\ 1..(1 - 1) = {}
  OBVIOUS
<1>2. QED
  BY <1>1 DEF Before

-----------------------------------------------------------------------------
(***************************************************************************)
(* Pages.                                                                  *)
(***************************************************************************)
LEMMA Multiples ==
    ASSUME NEW a \in Nat, NEW b \in Nat, NEW size \in Nat, a <= b
    PROVE  a * size <= b * size
<1>1. PICK c \in Nat : b = a + c
  <2>1. b - a \in Nat /\ b = a + (b - a)
    OBVIOUS
  <2>2. QED
    BY <2>1
<1>2. b * size = a * size + c * size /\ c * size \in Nat /\ a * size \in Nat
  BY <1>1
<1>3. QED
  BY <1>2

\* As many pages as it takes, and no more.
LEMMA PagesAreEnough ==
    ASSUME NEW n \in Nat, NEW size \in Nat \ {0}
    PROVE  /\ Pages(n, size) \in Nat \ {0}
           /\ n <= Pages(n, size) * size
           /\ n > 0 => (Pages(n, size) - 1) * size < n
<1>1. CASE n = 0
  BY <1>1 DEF Pages
<1>2. CASE n > 0
  <2> DEFINE q == (n + size - 1) \div size
  <2>1. q \in Nat /\ q * size <= n + size - 1 /\ n + size - 1 < q * size + size
    OBVIOUS
  <2>2. Pages(n, size) = q
    BY <1>2 DEF Pages
  <2> HIDE DEF q
  <2>3. q # 0
    BY <2>1, <1>2
  <2>4. (q - 1) * size = q * size - size
    BY <2>1
  <2>5. q * size \in Nat
    BY <2>1
  <2>6. QED
    BY <2>1, <2>2, <2>3, <2>4, <2>5
<1>3. QED
  BY <1>1, <1>2

End(list, k, size) == IF k * size < Len(list) THEN k * size ELSE Len(list)

\* A page that exists is a piece of the list.
LEMMA PageIs ==
    ASSUME NEW S, NEW list \in Seq(S), NEW size \in Nat \ {0}, NEW k \in 0..(Pages(Len(list), size) - 1)
    PROVE  /\ OnPage(list, k, size) = SubSeq(list, k * size + 1, End(list, k + 1, size))
           /\ k * size \in Nat
           /\ list # <<>> => k * size < Len(list)
           /\ list = <<>> => k = 0
           /\ End(list, k, size) = k * size
           /\ End(list, k + 1, size) \in (k * size)..Len(list)
           /\ End(list, k + 1, size) - k * size <= size
<1> DEFINE n == Pages(Len(list), size)
<1>0. Len(list) \in Nat
  OBVIOUS
<1>1. n \in Nat \ {0} /\ Len(list) \in Nat /\ Len(list) <= n * size /\ k \in Nat
      /\ (Len(list) > 0 => (n - 1) * size < Len(list))
  <2>1. n \in Nat \ {0} /\ Len(list) <= n * size /\ (Len(list) > 0 => (n - 1) * size < Len(list))
    BY <1>0, PagesAreEnough
  <2>2. k \in Nat
    BY <2>1
  <2>3. QED
    BY <1>0, <2>1, <2>2
<1>2. k * size \in Nat /\ (k + 1) * size = k * size + size /\ k * size <= (n - 1) * size
      /\ (n - 1) * size \in Nat
  BY <1>1, Multiples
<1>3. Clamped(k, Len(list), size) = k
  BY <1>1 DEF Clamped
<1>4. OnPage(list, k, size) = SubSeq(list, k * size + 1, End(list, k + 1, size))
  BY <1>2, <1>3 DEF OnPage, End
<1>5. Len(list) = 0 => list = <<>> /\ n = 1
  BY DEF Pages
<1>6. list # <<>> => k * size < Len(list)
  BY <1>1, <1>2, <1>5
<1>7. list = <<>> => k = 0 /\ k * size = 0
  <2>1. list = <<>> => Len(list) = 0
    OBVIOUS
  <2>2. QED
    BY <1>5, <2>1, <1>1
<1> HIDE DEF n
<1>8. k * size <= Len(list)
  BY <1>1, <1>2, <1>6, <1>7
<1>9. End(list, k, size) = k * size
  BY <1>1, <1>2, <1>8 DEF End
<1>10. /\ End(list, k + 1, size) \in (k * size)..Len(list)
       /\ End(list, k + 1, size) - k * size <= size
  BY <1>1, <1>2, <1>8 DEF End
<1>11. QED
  BY <1>2, <1>4, <1>6, <1>7, <1>9, <1>10

LEMMA Pieces ==
    ASSUME NEW S, NEW list \in Seq(S), NEW a \in 0..Len(list), NEW b \in a..Len(list)
    PROVE  /\ SubSeq(list, 1, a) \o SubSeq(list, a + 1, b) = SubSeq(list, 1, b)
           /\ SubSeq(list, a + 1, b) \in Seq(S) /\ Len(SubSeq(list, a + 1, b)) = b - a
           /\ SubSeq(list, 1, Len(list)) = list
           /\ SubSeq(list, 1, 0) = <<>>
OBVIOUS

\* What FlattenSeq computes is there, and its steps are concatenations.
LEMMA FlattenIs ==
    ASSUME NEW S, NEW parts \in Seq(Seq(S)), Len(parts) > 0
    PROVE  \E flat : /\ FlattenSeq(parts) = flat[Len(parts)]
                     /\ flat[1] = parts[1]
                     /\ \A i \in 2..Len(parts) : flat[i] = flat[i - 1] \o parts[i]
<1> DEFINE n == Len(parts)
           step == [i \in 1..n |-> [s \in Seq(S) |-> s \o parts[i]]]
           Is(g) == g = [i \in 1..n |-> IF i = 1 THEN parts[i] ELSE g[i - 1] \o parts[i]]
<1>1. n \in Nat /\ n > 0 /\ n # 0 /\ \A i \in 1..n : parts[i] \in Seq(S)
  OBVIOUS
<1>0. FlattenSeq(parts) = (CHOOSE g : Is(g))[n]
  <2>1. Len(parts) # 0
    OBVIOUS
  <2>2. QED
    BY <2>1, Zenon DEF FlattenSeq
<1> HIDE DEF n
<1>2. step \in [1..n -> [Seq(S) -> Seq(S)]]
  BY <1>1
<1>3. \E g : Is(g)
  <2>1. PICK h \in [0..n -> Seq(S)] : h[0] = <<>> /\ \A i \in 1..n : h[i] = step[i][h[i - 1]]
    <3>1. CanLoop(n, Seq(S), <<>>, step)
      BY <1>1, <1>2 DEF CanLoop
    <3> HIDE DEF step
    <3>2. PICK h : IsLoop(h, n, Seq(S), <<>>, step)
      BY <3>1, LoopExists
    <3>3. QED
      BY <3>2 DEF IsLoop
  <2>2. ASSUME NEW i \in 1..n PROVE h[i] = h[i - 1] \o parts[i]
    <3>1. i - 1 \in 0..n /\ h[i - 1] \in Seq(S)
      BY <1>1
    <3>2. step[i][h[i - 1]] = h[i - 1] \o parts[i]
      BY <3>1
    <3>3. QED
      BY <2>1, <3>2
  <2> DEFINE g == [i \in 1..n |-> h[i]]
  <2>3. \A i \in 1..n : g[i] = IF i = 1 THEN parts[i] ELSE g[i - 1] \o parts[i]
    <3>1. h[1] = parts[1]
      <4>1. 1 \in 1..n /\ 1 - 1 = 0
        BY <1>1
      <4>2. h[1] = h[0] \o parts[1]
        BY <4>1, <2>2
      <4>3. QED
        BY <4>1, <4>2, <2>1, <1>1
    <3>2. ASSUME NEW i \in 1..n, i # 1 PROVE g[i] = g[i - 1] \o parts[i]
      <4>1. i - 1 \in 1..n
        BY <3>2, <1>1
      <4>2. QED
        BY <4>1, <2>2
    <3>3. QED
      BY <3>1, <3>2
  <2>4. Is(g)
    <3>1. g = [i \in 1..n |-> g[i]]
      OBVIOUS
    <3> HIDE DEF g
    <3>2. QED
      BY <2>3, <3>1
  <2>5. QED
    <3> HIDE DEF Is
    <3>1. QED BY <2>4
<1> DEFINE f == CHOOSE g : Is(g)
<1>4. FlattenSeq(parts) = f[n]
  BY <1>0
<1>5. Is(f)
  <2> HIDE DEF Is
  <2>1. QED BY <1>3
<1>6. PICK h : FlattenSeq(parts) = h[n] /\ Is(h)
  <2> HIDE DEF Is
  <2>1. FlattenSeq(parts) = f[n] /\ Is(f)
    BY <1>4, <1>5
  <2> HIDE DEF f
  <2>2. QED
    BY <2>1
<1>7. h[1] = parts[1] /\ \A i \in 2..n : h[i] = h[i - 1] \o parts[i]
  <2>1. ASSUME NEW i \in 1..n PROVE h[i] = IF i = 1 THEN parts[i] ELSE h[i - 1] \o parts[i]
    BY <1>6
  <2>2. 1 \in 1..n /\ \A i \in 2..n : i \in 1..n /\ i # 1
    BY <1>1
  <2>3. QED
    BY <2>1, <2>2
<1>8. QED
  BY <1>6, <1>7 DEF n

\* All pages one after the other are the list.
LEMMA PagesAreTheList ==
    ASSUME NEW S, NEW list \in Seq(S), NEW size \in Nat \ {0}
    PROVE  FlattenSeq([k \in 1..Pages(Len(list), size) |-> OnPage(list, k - 1, size)]) = list
<1> DEFINE n == Pages(Len(list), size)
           parts == [k \in 1..n |-> OnPage(list, k - 1, size)]
<1>1. n \in Nat \ {0} /\ Len(list) \in Nat /\ Len(list) <= n * size
  BY PagesAreEnough
<1>2. ASSUME NEW k \in 1..n
      PROVE  /\ parts[k] = SubSeq(list, End(list, k - 1, size) + 1, End(list, k, size))
             /\ End(list, k - 1, size) \in 0..Len(list)
             /\ End(list, k, size) \in End(list, k - 1, size)..Len(list)
             /\ parts[k] \in Seq(S)
  <2>1. k - 1 \in 0..(n - 1) /\ (k - 1) + 1 = k
    BY <1>1
  <2>2. /\ OnPage(list, k - 1, size) = SubSeq(list, (k - 1) * size + 1, End(list, k, size))
        /\ (k - 1) * size \in Nat
        /\ End(list, k - 1, size) = (k - 1) * size
        /\ End(list, k, size) \in ((k - 1) * size)..Len(list)
    BY <2>1, PageIs
  <2>3. parts[k] = SubSeq(list, End(list, k - 1, size) + 1, End(list, k, size))
    BY <2>2
  <2>4. End(list, k - 1, size) \in 0..Len(list) /\ End(list, k, size) \in End(list, k - 1, size)..Len(list)
    BY <1>1, <2>2
  <2>5. parts[k] \in Seq(S)
    <3> DEFINE a == End(list, k - 1, size)
               b == End(list, k, size)
    <3>1. a \in 0..Len(list) /\ b \in a..Len(list) /\ parts[k] = SubSeq(list, a + 1, b)
      BY <2>3, <2>4
    <3> HIDE DEF a, b, parts
    <3>2. QED
      BY <3>1, Pieces
  <2>6. QED
    BY <2>3, <2>4, <2>5
<1>3. parts \in Seq(Seq(S)) /\ Len(parts) = n
  <2> HIDE DEF n
  <2>1. \A k \in 1..n : OnPage(list, k - 1, size) \in Seq(S)
    BY <1>2
  <2>2. QED
    BY <1>1, <2>1
<1> HIDE DEF parts
<1>4. PICK flat : /\ FlattenSeq(parts) = flat[n] /\ flat[1] = parts[1]
                  /\ \A i \in 2..n : flat[i] = flat[i - 1] \o parts[i]
  <2>1. Len(parts) > 0
    BY <1>1, <1>3
  <2>2. PICK flat : /\ FlattenSeq(parts) = flat[Len(parts)] /\ flat[1] = parts[1]
                    /\ \A i \in 2..Len(parts) : flat[i] = flat[i - 1] \o parts[i]
    BY <1>3, <2>1, FlattenIs
  <2>3. QED
    BY <2>2, <1>3
<1> HIDE DEF n
<1> DEFINE T == {i \in 0..n : i = 0 \/ flat[i] = SubSeq(list, 1, End(list, i, size))}
<1>5. 0 \in T
  BY <1>1
<1>6. ASSUME NEW i \in 1..n, i - 1 \in T PROVE i \in T
  <2>1. CASE i = 1
    <3>1. End(list, 0, size) = 0
      BY <1>1 DEF End
    <3>2. parts[1] = SubSeq(list, 1, End(list, 1, size))
      <4>1. 1 \in 1..n /\ 1 - 1 = 0 /\ 0 + 1 = 1
        BY <1>1
      <4>2. parts[1] = SubSeq(list, End(list, 1 - 1, size) + 1, End(list, 1, size))
        BY <4>1, <1>2
      <4>3. QED
        BY <4>1, <4>2, <3>1
    <3>3. QED
      BY <2>1, <3>2, <1>4
  <2>2. CASE i # 1
    <3>1. i \in 2..n /\ flat[i - 1] = SubSeq(list, 1, End(list, i - 1, size))
      BY <2>2, <1>6, <1>1
    <3>2. flat[i] = SubSeq(list, 1, End(list, i - 1, size))
                    \o SubSeq(list, End(list, i - 1, size) + 1, End(list, i, size))
      BY <3>1, <1>2, <1>4
    <3> DEFINE a == End(list, i - 1, size)
               b == End(list, i, size)
    <3>3. a \in 0..Len(list) /\ b \in a..Len(list)
      BY <1>2
    <3>4. SubSeq(list, 1, a) \o SubSeq(list, a + 1, b) = SubSeq(list, 1, b)
      <4> HIDE DEF a, b
      <4>1. QED BY <3>3, Pieces
    <3>5. flat[i] = SubSeq(list, 1, b)
      BY <3>2, <3>4
    <3>6. i \in 0..n
      BY <1>1
    <3>7. QED
      BY <3>5, <3>6
  <2>3. QED
    BY <2>1, <2>2
<1>7. 0..n \subseteq T
  <2> HIDE DEF T, n
  <2>1. QED BY <1>1, <1>5, <1>6, BoundedInduction
<1>8. n \in 0..n /\ n # 0
  BY <1>1
<1>9. flat[n] = SubSeq(list, 1, End(list, n, size))
  BY <1>7, <1>8
<1>10. End(list, n, size) = Len(list)
  BY <1>1 DEF End
<1>11. flat[n] = list
  BY <1>9, <1>10
<1>12. QED
  BY <1>4, <1>11 DEF parts, n

\* Whatever page is asked for, what is shown is right.
LEMMA EveryPageIsRight ==
    ASSUME NEW S, NEW list \in Seq(S), NEW size \in Nat \ {0}, NEW asked \in Nat
    PROVE  LET n == Pages(Len(list), size)
               page(k) == OnPage(list, k, size)
           IN  /\ OnPage(list, asked, size) = <<>> <=> list = <<>>
               /\ Len(OnPage(list, asked, size)) <= size
               /\ OnPage(list, asked, size) = page(IF asked < n THEN asked ELSE n - 1)
               /\ FlattenSeq([k \in 1..n |-> page(k - 1)]) = list
<1> DEFINE n == Pages(Len(list), size)
           c == IF asked < n THEN asked ELSE n - 1
<1>1. n \in Nat \ {0} /\ Len(list) \in Nat
  BY PagesAreEnough
<1>2. c \in 0..(n - 1)
  BY <1>1
<1>3. Clamped(asked, Len(list), size) = c /\ Clamped(c, Len(list), size) = c
  BY <1>1, <1>2 DEF Clamped
<1>4. OnPage(list, asked, size) = OnPage(list, c, size)
  BY <1>3 DEF OnPage
<1>5. /\ OnPage(list, c, size) = SubSeq(list, c * size + 1, End(list, c + 1, size))
      /\ c * size \in Nat
      /\ list # <<>> => c * size < Len(list)
      /\ End(list, c + 1, size) \in (c * size)..Len(list)
      /\ End(list, c + 1, size) - c * size <= size
  BY <1>2, PageIs
<1>6. Len(OnPage(list, c, size)) = End(list, c + 1, size) - c * size
  <2> DEFINE a == c * size
             b == End(list, c + 1, size)
  <2>1. a \in 0..Len(list) /\ b \in a..Len(list) /\ OnPage(list, c, size) = SubSeq(list, a + 1, b)
    BY <1>1, <1>5
  <2> HIDE DEF a, b
  <2>2. Len(SubSeq(list, a + 1, b)) = b - a
    BY <2>1, Pieces
  <2>3. QED
    BY <2>1, <2>2 DEF a, b
<1>7. Len(OnPage(list, asked, size)) <= size
  BY <1>4, <1>5, <1>6
<1>8. list = <<>> => OnPage(list, c, size) = <<>>
  BY <1>5
<1>9. list # <<>> => OnPage(list, c, size) # <<>>
  <2>1. list # <<>> => End(list, c + 1, size) > c * size
    <3>1. (c + 1) * size = c * size + size
      BY <1>2, <1>1
    <3>2. QED
      BY <3>1, <1>5 DEF End
  <2>2. QED
    BY <2>1, <1>5, <1>6
<1>10. QED
  BY <1>4, <1>7, <1>8, <1>9, PagesAreTheList

-----------------------------------------------------------------------------
(***************************************************************************)
(* Sequences without some values.                                          *)
(***************************************************************************)
\* Without, step by step.
IsFiltering(h, values, dropped, S) ==
    /\ h \in [0..Len(values) -> Seq(S)] /\ h[0] = <<>>
    /\ \A n \in 1..Len(values) :
          h[n] = IF values[n] \in dropped THEN h[n - 1] ELSE Append(h[n - 1], values[n])

LEMMA WithoutIs ==
    ASSUME NEW S, NEW values \in Seq(S), NEW dropped
    PROVE  \E h : IsFiltering(h, values, dropped, S) /\ Without(values, dropped) = h[Len(values)]
<1> DEFINE N == Len(values)
           Is(g) == g = [n \in 0..N |->
                            IF n = 0 THEN <<>>
                            ELSE IF values[n] \in dropped THEN g[n - 1] ELSE Append(g[n - 1], values[n])]
           step == [n \in 1..N |-> [s \in Seq(S) |-> IF values[n] \in dropped THEN s ELSE Append(s, values[n])]]
<1>1. N \in Nat /\ \A n \in 1..N : values[n] \in S
  OBVIOUS
<1>2. Without(values, dropped) = (CHOOSE g : Is(g))[N]
  BY Zenon DEF Without
<1> HIDE DEF N
<1>3. step \in [1..N -> [Seq(S) -> Seq(S)]]
  BY <1>1
<1>4. \E g : Is(g)
  <2>1. PICK h : IsLoop(h, N, Seq(S), <<>>, step)
    <3>1. CanLoop(N, Seq(S), <<>>, step)
      BY <1>1, <1>3 DEF CanLoop
    <3> HIDE DEF step
    <3>2. QED
      BY <3>1, LoopExists
  <2>2. h \in [0..N -> Seq(S)] /\ h[0] = <<>>
    BY <2>1 DEF IsLoop
  <2>3. ASSUME NEW n \in 1..N
        PROVE  h[n] = IF values[n] \in dropped THEN h[n - 1] ELSE Append(h[n - 1], values[n])
    <3>1. n - 1 \in 0..N /\ h[n - 1] \in Seq(S)
      BY <1>1, <2>2
    <3>2. step[n][h[n - 1]] = IF values[n] \in dropped THEN h[n - 1] ELSE Append(h[n - 1], values[n])
      BY <3>1
    <3>3. h[n] = step[n][h[n - 1]]
      BY <2>1 DEF IsLoop
    <3>4. QED
      BY <3>2, <3>3
  <2>4. \A n \in 0..N : h[n] = IF n = 0 THEN <<>>
                               ELSE IF values[n] \in dropped THEN h[n - 1] ELSE Append(h[n - 1], values[n])
    <3>1. \A n \in 0..N : n = 0 \/ n \in 1..N
      BY <1>1
    <3>2. QED
      BY <2>2, <2>3, <3>1
  <2>5. h = [n \in 0..N |-> h[n]]
    BY <2>2
  <2>6. Is(h)
    BY <2>4, <2>5
  <2>7. QED
    <3> HIDE DEF Is
    <3>1. QED BY <2>6
<1> DEFINE f == CHOOSE g : Is(g)
<1>5. Is(f)
  <2> HIDE DEF Is
  <2>1. QED BY <1>4
<1>6. PICK h : Without(values, dropped) = h[N] /\ Is(h)
  <2> HIDE DEF Is
  <2>1. Without(values, dropped) = f[N] /\ Is(f)
    BY <1>2, <1>5
  <2> HIDE DEF f
  <2>2. QED
    BY <2>1
<1> HIDE DEF f
<1>7. /\ h[0] = <<>>
      /\ \A n \in 1..N : h[n] = IF values[n] \in dropped THEN h[n - 1] ELSE Append(h[n - 1], values[n])
  <2>1. \A n \in 0..N : h[n] = IF n = 0 THEN <<>>
                               ELSE IF values[n] \in dropped THEN h[n - 1] ELSE Append(h[n - 1], values[n])
    BY <1>6
  <2>2. 0 \in 0..N /\ \A n \in 1..N : n \in 0..N /\ n # 0
    BY <1>1
  <2>3. QED
    BY <2>1, <2>2
<1> DEFINE T == {n \in 0..N : h[n] \in Seq(S)}
<1>8. 0 \in T
  <2>1. 0 \in 0..N /\ <<>> \in Seq(S)
    BY <1>1
  <2>2. h[0] \in Seq(S)
    BY <2>1, <1>7
  <2>3. QED
    BY <2>1, <2>2
<1>9. ASSUME NEW n \in 1..N, n - 1 \in T PROVE n \in T
  <2>1. h[n - 1] \in Seq(S) /\ values[n] \in S /\ n \in 0..N
    BY <1>1, <1>9
  <2>2. Append(h[n - 1], values[n]) \in Seq(S)
    BY <2>1
  <2>3. QED
    BY <2>1, <2>2, <1>7
<1>10. 0..N \subseteq T
  <2> HIDE DEF T
  <2>1. QED BY <1>1, <1>8, <1>9, BoundedInduction
<1>11. DOMAIN h = 0..N /\ h = [n \in 0..N |-> h[n]]
  BY <1>6
<1>12. h \in [0..N -> Seq(S)]
  BY <1>10, <1>11
<1>13. QED
  BY <1>6, <1>7, <1>12 DEF IsFiltering, N

\* What is left: the other values, each once if it was there once.
LEMMA WithoutLeaves ==
    ASSUME NEW S, NEW values \in Seq(S), NEW dropped
    PROVE  LET w == Without(values, dropped) IN
           /\ w \in Seq(S)
           /\ \A i \in DOMAIN w : \E j \in DOMAIN values : w[i] = values[j]
           /\ \A i \in DOMAIN w : w[i] \notin dropped
           /\ IsInjective(values) => IsInjective(w)
<1> DEFINE N == Len(values)
<1>0. N \in Nat /\ DOMAIN values = 1..N /\ \A n \in 1..N : values[n] \in S
  OBVIOUS
<1>1. PICK h : IsFiltering(h, values, dropped, S) /\ Without(values, dropped) = h[N]
  BY WithoutIs
<1> HIDE DEF N
<1>2. /\ h \in [0..N -> Seq(S)] /\ h[0] = <<>>
      /\ \A n \in 1..N : h[n] = IF values[n] \in dropped THEN h[n - 1] ELSE Append(h[n - 1], values[n])
  BY <1>1 DEF IsFiltering, N
<1> DEFINE Left(s, n) == /\ \A i \in 1..Len(s) : (\E j \in 1..n : s[i] = values[j]) /\ s[i] \notin dropped
                         /\ IsInjective(values) => \A i, j \in 1..Len(s) : s[i] = s[j] => i = j
           T == {n \in 0..N : Left(h[n], n)}
<1>3. 0 \in T
  BY <1>0, <1>2
<1>4. ASSUME NEW n \in 1..N, n - 1 \in T PROVE n \in T
  <2> DEFINE s == h[n - 1]
  <2>1. /\ s \in Seq(S) /\ h[n] \in Seq(S) /\ n \in 0..N /\ n \in Nat /\ values[n] \in S
        /\ \A j \in 1..(n - 1) : j \in 1..n /\ j \in 1..N /\ j # n
    BY <1>0, <1>2
  <2>2. Left(s, n - 1)
    BY <1>4
  <2>3. CASE values[n] \in dropped
    <3>1. h[n] = s
      BY <2>3, <1>2
    <3>2. Left(s, n)
      BY <2>1, <2>2
    <3>3. QED
      BY <3>1, <3>2, <2>1
  <2>4. CASE values[n] \notin dropped
    <3> DEFINE t == Append(s, values[n])
    <3>1. h[n] = t
      BY <2>4, <1>2
    <3>2. /\ Len(s) \in Nat /\ Len(t) = Len(s) + 1 /\ t[Len(s) + 1] = values[n]
          /\ \A i \in 1..Len(s) : t[i] = s[i]
          /\ \A i \in 1..(Len(s) + 1) : i = Len(s) + 1 \/ i \in 1..Len(s)
      BY <2>1
    <3> HIDE DEF s, t
    <3>3. \A i \in 1..Len(t) : (\E j \in 1..n : t[i] = values[j]) /\ t[i] \notin dropped
      BY <3>2, <2>1, <2>2, <2>4
    <3>4. ASSUME IsInjective(values), NEW i \in 1..Len(s) PROVE s[i] # values[n]
      <4>1. PICK j \in 1..(n - 1) : s[i] = values[j]
        BY <2>2
      <4>2. QED
        BY <4>1, <3>4, <2>1, <1>0 DEF IsInjective
    <3>5. IsInjective(values) => \A i, j \in 1..Len(t) : t[i] = t[j] => i = j
      BY <3>2, <3>4, <2>2
    <3>6. Left(t, n)
      BY <3>3, <3>5
    <3>7. QED
      BY <3>1, <3>6, <2>1
  <2>5. QED
    BY <2>3, <2>4
<1>5. 0..N \subseteq T
  <2> HIDE DEF T
  <2>1. QED BY <1>0, <1>3, <1>4, BoundedInduction
<1>6. N \in 0..N /\ h[N] \in Seq(S)
  BY <1>0, <1>2
<1>7. Left(h[N], N)
  BY <1>5, <1>6
<1>8. DOMAIN h[N] = 1..Len(h[N])
  BY <1>6
<1>9. QED
  BY <1>0, <1>1, <1>6, <1>7, <1>8 DEF IsInjective

\* Two sequences that differ by the exchange of two neighbours, one of which
\* is left out.
AreExchanged(a, b, i, x) ==
    /\ Len(a) = Len(b) /\ i \in 1..(Len(a) - 1)
    /\ a[i] = b[i + 1] /\ a[i + 1] = b[i] /\ (a[i] = x) # (a[i + 1] = x)
    /\ \A k \in 1..Len(a) : k # i /\ k # i + 1 => a[k] = b[k]

LEMMA WithoutANeighbour ==
    ASSUME NEW S, NEW a \in Seq(S), NEW b \in Seq(S), NEW x, NEW i, AreExchanged(a, b, i, x)
    PROVE  Without(a, {x}) = Without(b, {x})
<1> DEFINE N == Len(a)
<1>0. N \in Nat /\ i \in Nat /\ i + 1 \in 1..N /\ i \in 1..N
  BY DEF AreExchanged
<1>e. /\ Len(b) = N /\ a[i] = b[i + 1] /\ a[i + 1] = b[i] /\ (a[i] = x) # (a[i + 1] = x)
      /\ \A k \in 1..N : k # i /\ k # i + 1 => a[k] = b[k]
  BY DEF AreExchanged
<1>1. PICK f : IsFiltering(f, a, {x}, S) /\ Without(a, {x}) = f[N]
  BY WithoutIs
<1>2. PICK g : IsFiltering(g, b, {x}, S) /\ Without(b, {x}) = g[N]
  BY <1>e, WithoutIs
<1> HIDE DEF N
<1>3. f[0] = <<>> /\ \A n \in 1..N : f[n] = IF a[n] = x THEN f[n - 1] ELSE Append(f[n - 1], a[n])
  BY <1>1 DEF IsFiltering, N
<1>4. g[0] = <<>> /\ \A n \in 1..N : g[n] = IF b[n] = x THEN g[n - 1] ELSE Append(g[n - 1], b[n])
  BY <1>2, <1>e DEF IsFiltering
<1> DEFINE T == {n \in 0..N : n = i \/ f[n] = g[n]}
<1>5. 0 \in T
  BY <1>0, <1>3, <1>4
<1>6. ASSUME NEW n \in 1..N, n - 1 \in T, i - 1 \in T PROVE n \in T
  <2>1. n \in 0..N /\ n \in Nat
    BY <1>0
  <2>2. CASE n = i
    BY <2>1, <2>2
  <2>3. CASE n = i + 1
    <3>1. n - 1 = i /\ i - 1 # i
      BY <1>0, <2>3
    <3>2. f[i - 1] = g[i - 1]
      BY <1>6, <3>1
    <3>3. f[i] = (IF a[i] = x THEN f[i - 1] ELSE Append(f[i - 1], a[i]))
          /\ f[n] = (IF a[n] = x THEN f[i] ELSE Append(f[i], a[n]))
      BY <1>0, <1>3, <3>1
    <3>4. g[i] = (IF b[i] = x THEN g[i - 1] ELSE Append(g[i - 1], b[i]))
          /\ g[n] = (IF b[n] = x THEN g[i] ELSE Append(g[i], b[n]))
      BY <1>0, <1>4, <3>1
    <3>5. f[n] = g[n]
      BY <2>3, <3>2, <3>3, <3>4, <1>e
    <3>6. QED
      BY <2>1, <3>5
  <2>4. CASE n # i /\ n # i + 1
    <3>1. n - 1 # i
      BY <1>0, <2>1, <2>4
    <3>2. f[n - 1] = g[n - 1] /\ a[n] = b[n]
      BY <1>6, <1>e, <3>1, <2>4
    <3>3. QED
      BY <2>1, <3>2, <1>3, <1>4
  <2>5. QED
    BY <2>2, <2>3, <2>4
<1> DEFINE U == {n \in 0..N : \A m \in 0..n : m \in T}
<1>7. 0 \in U
  BY <1>0, <1>5
<1>8. ASSUME NEW n \in 1..N, n - 1 \in U PROVE n \in U
  <2>1. n \in 0..N /\ n - 1 \in 0..(n - 1) /\ \A m \in 0..n : m = n \/ m \in 0..(n - 1)
    BY <1>0
  <2>2. \A m \in 0..(n - 1) : m \in T
    BY <1>8
  <2>3. n \in T
    <3>1. CASE n < i
      <4>1. n - 1 # i /\ n # i /\ n # i + 1 /\ n \in 1..N
        BY <1>0, <3>1
      <4>2. n - 1 \in T
        BY <2>1, <2>2
      <4>3. f[n - 1] = g[n - 1] /\ a[n] = b[n]
        BY <1>e, <4>1, <4>2
      <4>4. QED
        BY <2>1, <4>1, <4>3, <1>3, <1>4
    <3>2. CASE n >= i
      <4>1. n - 1 \in T /\ i - 1 \in T
        BY <1>0, <2>1, <2>2, <3>2
      <4>2. QED
        <5> HIDE DEF T
        <5>1. QED BY <4>1, <1>6
    <3>3. QED
      BY <1>0, <2>1, <3>1, <3>2
  <2>4. QED
    <3> HIDE DEF T
    <3>1. QED BY <2>1, <2>2, <2>3
<1>9. 0..N \subseteq U
  <2> HIDE DEF U
  <2>1. QED BY <1>0, <1>7, <1>8, BoundedInduction
<1>10. N \in 0..N /\ N # i
  BY <1>0
<1>11. f[N] = g[N]
  BY <1>9, <1>10
<1>12. QED
  BY <1>1, <1>2, <1>11

-----------------------------------------------------------------------------
(***************************************************************************)
(* Rows of the table of rules, and the copies of them handlers hold.       *)
(***************************************************************************)
Offered == {AnyValue, BestValue} \cup {c[2] : c \in Criteria}
AllWants == {w \in [ToSet(Dimensions) -> Seq(Offered)] : \A d \in ToSet(Dimensions) : Exclusive(w[d], d)}
Rows == [id : RuleIds, priority : Nat, enabled : BOOLEAN, wants : AllWants, created : Nat]

TableOK(R) ==
    /\ IsFiniteSet(R)
    /\ \A r \in R : r \in Rows /\ r.created # 0
    /\ \A r, q \in R : r # q => r.id # q.id /\ r.created # q.created

-----------------------------------------------------------------------------
(***************************************************************************)
(* Recommendations.                                                        *)
(***************************************************************************)
LEMMA ElementsOf ==
    ASSUME NEW S, NEW s \in Seq(S)
    PROVE  IsFiniteSet(ToSet(s)) /\ ToSet(s) \subseteq S
<1>1. s \in Surjection(1..Len(s), ToSet(s))
  BY DEF Surjection, ToSet
<1>2. IsFiniteSet(1..Len(s))
  BY FS_Interval
<1>3. QED
  BY <1>1, <1>2, FS_Surjection DEF ToSet

LEMMA DimensionsAre ==
    ToSet(Dimensions) = {"codec", "resolution", "fps", "container"}
<1>1. DOMAIN Dimensions = 1..4
  BY DEF Dimensions
<1>2. /\ Dimensions[1] = "codec" /\ Dimensions[2] = "resolution"
      /\ Dimensions[3] = "fps" /\ Dimensions[4] = "container"
  BY DEF Dimensions
<1>3. QED
  BY <1>1, <1>2 DEF ToSet

\* The formats of a session.
LEMMA VideosAre ==
    ASSUME NEW s \in Sessions
    PROVE  /\ IsFiniteSet(Videos(Formats[s])) /\ Videos(Formats[s]) \subseteq ToSet(Formats[s])
           /\ \A f \in ToSet(Formats[s]) : f # None /\ f.id \in Int /\ get_format_by_key(s, f.id) = f
           /\ \A f, g \in ToSet(Formats[s]) : f.id = g.id => f = g
           /\ \A f \in Videos(Formats[s]) :
                 f.resolution \in Int /\ f.fps \in Int /\ f.rate \in Int /\ f.size \in Int /\ f.id \in Int
<1>1. Formats[s] \in Seq(ToSet(Formats[s]))
  BY FormatsAssumption
<1>2. Videos(Formats[s]) \subseteq ToSet(Formats[s])
  BY DEF Videos
<1>3. IsFiniteSet(Videos(Formats[s]))
  BY <1>1, <1>2, ElementsOf, FS_Subset
<1>4. \A f \in ToSet(Formats[s]) : f # None /\ f.id \in Int
  BY FormatsAssumption
<1>5. \A f, g \in ToSet(Formats[s]) : f.id = g.id => f = g
  <2> SUFFICES ASSUME NEW f \in ToSet(Formats[s]), NEW g \in ToSet(Formats[s]), f.id = g.id PROVE f = g
    OBVIOUS
  <2>1. PICK i \in DOMAIN Formats[s], j \in DOMAIN Formats[s] : f = Formats[s][i] /\ g = Formats[s][j]
    BY DEF ToSet
  <2>2. i = j
    BY <2>1, FormatsAssumption
  <2>3. QED
    BY <2>1, <2>2
<1>6. \A f \in ToSet(Formats[s]) : get_format_by_key(s, f.id) = f
  BY <1>5 DEF get_format_by_key
<1>7. \A f \in Videos(Formats[s]) :
         f.resolution \in Int /\ f.fps \in Int /\ f.rate \in Int /\ f.size \in Int /\ f.id \in Int
  <2>1. \A f \in Videos(Formats[s]) : f \in ToSet(Formats[s]) /\ f.video
    BY DEF Videos
  <2>2. QED
    BY <2>1, FormatsAssumption
<1>8. QED
  BY <1>2, <1>3, <1>4, <1>5, <1>6, <1>7

LEMMA RanksAreKeys ==
    ASSUME NEW s \in Sessions, NEW strategy, NEW S \in SUBSET Videos(Formats[s])
    PROVE  HaveKeys(S, [f \in S |-> _rank(f, strategy)])
<1> DEFINE key == [f \in S |-> _rank(f, strategy)]
<1>1. IsFiniteSet(S)
  BY VideosAre, FS_Subset
<1>2. ASSUME NEW f \in S
      PROVE  f.resolution \in Int /\ f.fps \in Int /\ f.rate \in Int /\ f.size \in Int /\ f.id \in Int
  BY VideosAre
<1>3. ASSUME NEW f \in S
      PROVE  /\ strategy = "smallest" => key[f] = <<f.size, -f.resolution, -f.fps, f.id>>
             /\ strategy = "ready" => key[f] = <<IF f.audio \/ ~f.separate THEN 0 ELSE 1,
                                                -f.resolution, -f.fps, -f.rate, f.id>>
             /\ strategy \notin {"smallest", "ready"} =>
                   key[f] = <<-f.resolution, -f.fps, -f.rate, IF f.audio THEN 0 ELSE 1, f.id>>
  BY DEF _rank, BestFirst
<1>4. \A f, g \in S : f.id = g.id => f = g
  BY VideosAre
<1> HIDE DEF key
<1>5. CASE strategy = "smallest"
  <2>1. ASSUME NEW f \in S PROVE key[f] \in Seq(Int) /\ Len(key[f]) = 4 /\ key[f][4] = f.id
    <3>1. key[f] = <<f.size, -f.resolution, -f.fps, f.id>>
      BY <1>3, <1>5
    <3>2. f.size \in Int /\ -f.resolution \in Int /\ -f.fps \in Int /\ -f.rate \in Int /\ f.id \in Int
      BY <1>2
    <3>3. QED
      BY <3>1, <3>2
  <2>2. QED
    BY <1>1, <1>4, <2>1 DEF HaveKeys, key
<1>6. CASE strategy = "ready"
  <2>1. ASSUME NEW f \in S PROVE key[f] \in Seq(Int) /\ Len(key[f]) = 5 /\ key[f][5] = f.id
    <3>1. key[f] = <<IF f.audio \/ ~f.separate THEN 0 ELSE 1,
                    -f.resolution, -f.fps, -f.rate, f.id>>
      BY <1>3, <1>6
    <3>2. f.size \in Int /\ -f.resolution \in Int /\ -f.fps \in Int /\ -f.rate \in Int /\ f.id \in Int
      BY <1>2
    <3>3. QED
      BY <3>1, <3>2
  <2>2. QED
    BY <1>1, <1>4, <2>1 DEF HaveKeys, key
<1>7. CASE strategy \notin {"smallest", "ready"}
  <2>1. ASSUME NEW f \in S PROVE key[f] \in Seq(Int) /\ Len(key[f]) = 5 /\ key[f][5] = f.id
    <3>1. key[f] = <<-f.resolution, -f.fps, -f.rate, IF f.audio THEN 0 ELSE 1, f.id>>
      BY <1>3, <1>7
    <3>2. f.size \in Int /\ -f.resolution \in Int /\ -f.fps \in Int /\ -f.rate \in Int /\ f.id \in Int
      BY <1>2
    <3>3. QED
      BY <3>1, <3>2
  <2>2. QED
    BY <1>1, <1>4, <2>1 DEF HaveKeys, key
<1>8. QED
  BY <1>5, <1>6, <1>7

\* What rules are matched by.
MatchRules(R) ==
    /\ IsFiniteSet(R)
    /\ \A r \in R : r.id \in Int /\ r.priority \in Int
    /\ \A r \in R : /\ r.wants["codec"] \in Seq(Offered) /\ r.wants["resolution"] \in Seq(Offered)
                    /\ r.wants["fps"] \in Seq(Offered) /\ r.wants["container"] \in Seq(Offered)
    /\ \A r, q \in R : r.id = q.id => r = q

LEMMA CombinationsAreFinite ==
    ASSUME NEW R, MatchRules(R)
    PROVE  IsFiniteSet(Combinations(R))
<1> DEFINE Of(r) == {<<r, c, s, f, k>> : c \in DOMAIN r.wants["codec"], s \in DOMAIN r.wants["resolution"],
                                         f \in DOMAIN r.wants["fps"], k \in DOMAIN r.wants["container"]}
           of == [r \in R |-> Of(r)]
<1>1. ASSUME NEW r \in R PROVE IsFiniteSet(Of(r))
  <2> DEFINE A == DOMAIN r.wants["codec"]
             B == DOMAIN r.wants["resolution"]
             C == DOMAIN r.wants["fps"]
             D == DOMAIN r.wants["container"]
             h == [x \in (A \X B) \X (C \X D) |-> <<r, x[1][1], x[1][2], x[2][1], x[2][2]>>]
  <2>1. IsFiniteSet(A) /\ IsFiniteSet(B) /\ IsFiniteSet(C) /\ IsFiniteSet(D)
    <3>1. \A v \in Seq(Offered) : IsFiniteSet(DOMAIN v)
      <4>1. \A v \in Seq(Offered) : DOMAIN v = 1..Len(v) /\ Len(v) \in Nat
        OBVIOUS
      <4>2. QED
        BY <4>1, FS_Interval
    <3>2. QED
      BY <3>1 DEF MatchRules
  <2> HIDE DEF A, B, C, D
  <2>2. IsFiniteSet(A \X B) /\ IsFiniteSet(C \X D)
    BY <2>1, FS_Product
  <2>3. IsFiniteSet((A \X B) \X (C \X D))
    <3> DEFINE P == A \X B
               Q == C \X D
    <3>1. IsFiniteSet(P) /\ IsFiniteSet(Q)
      BY <2>2
    <3> HIDE DEF P, Q
    <3>2. IsFiniteSet(P \X Q)
      BY <3>1, FS_Product
    <3>3. QED
      BY <3>2 DEF P, Q
  <2> DEFINE T == {<<r, c, s, f, k>> : c \in A, s \in B, f \in C, k \in D}
  <2>4. \A x \in (A \X B) \X (C \X D) : h[x] \in T
    OBVIOUS
  <2>5. ASSUME NEW t \in T PROVE \E x \in (A \X B) \X (C \X D) : h[x] = t
    <3>1. PICK c \in A, s \in B, f \in C, k \in D : t = <<r, c, s, f, k>>
      OBVIOUS
    <3> DEFINE x == << <<c, s>>, <<f, k>> >>
    <3>2. x \in (A \X B) \X (C \X D) /\ x[1][1] = c /\ x[1][2] = s /\ x[2][1] = f /\ x[2][2] = k
      OBVIOUS
    <3>3. h[x] = t
      BY <3>1, <3>2
    <3>4. QED
      BY <3>2, <3>3
  <2>6. h \in Surjection((A \X B) \X (C \X D), T)
    <3>1. h \in [(A \X B) \X (C \X D) -> T]
      BY <2>4
    <3> HIDE DEF h, T
    <3>2. QED
      BY <3>1, <2>5 DEF Surjection
  <2>7. IsFiniteSet(T)
    <3> DEFINE P == (A \X B) \X (C \X D)
    <3> HIDE DEF h, T
    <3>1. h \in Surjection(P, T) /\ IsFiniteSet(P)
      BY <2>3, <2>6
    <3> HIDE DEF P
    <3>2. QED
      BY <3>1, FS_Surjection
  <2>8. QED
    BY <2>7 DEF A, B, C, D
<1> HIDE DEF Of
<1> DEFINE All == {Of(r) : r \in R}
<1>2. of \in Surjection(R, All)
  BY DEF Surjection
<1>3. IsFiniteSet(All)
  <2> HIDE DEF of, All
  <2>1. QED BY <1>2, FS_Surjection DEF MatchRules
<1>4. IsFiniteSet(UNION All)
  <2>1. \A T \in All : IsFiniteSet(T)
    BY <1>1
  <2> HIDE DEF All
  <2>2. QED
    BY <1>3, <2>1, FS_UNION
<1>5. QED
  BY <1>4 DEF Of, Combinations

\* A combination, taken apart.
LEMMA CombinationIs ==
    ASSUME NEW R, MatchRules(R)
    PROVE  /\ \A x \in Combinations(R) :
                 /\ x[1] \in R
                 /\ x[2] \in DOMAIN x[1].wants["codec"] /\ x[3] \in DOMAIN x[1].wants["resolution"]
                 /\ x[4] \in DOMAIN x[1].wants["fps"] /\ x[5] \in DOMAIN x[1].wants["container"]
                 /\ x = <<x[1], x[2], x[3], x[4], x[5]>>
                 /\ x[2] \in Int /\ x[3] \in Int /\ x[4] \in Int /\ x[5] \in Int
           /\ \A r \in R : \A c \in DOMAIN r.wants["codec"], s \in DOMAIN r.wants["resolution"],
                              f \in DOMAIN r.wants["fps"], k \in DOMAIN r.wants["container"] :
                 <<r, c, s, f, k>> \in Combinations(R)
<1>1. ASSUME NEW x \in Combinations(R)
      PROVE  /\ x[1] \in R
             /\ x[2] \in DOMAIN x[1].wants["codec"] /\ x[3] \in DOMAIN x[1].wants["resolution"]
             /\ x[4] \in DOMAIN x[1].wants["fps"] /\ x[5] \in DOMAIN x[1].wants["container"]
             /\ x = <<x[1], x[2], x[3], x[4], x[5]>>
             /\ x[2] \in Int /\ x[3] \in Int /\ x[4] \in Int /\ x[5] \in Int
  <2>0. PICK r \in R :
            \E c \in DOMAIN r.wants["codec"], s \in DOMAIN r.wants["resolution"],
               f \in DOMAIN r.wants["fps"], k \in DOMAIN r.wants["container"] : x = <<r, c, s, f, k>>
    BY DEF Combinations
  <2>1. PICK c \in DOMAIN r.wants["codec"], s \in DOMAIN r.wants["resolution"],
             f \in DOMAIN r.wants["fps"], k \in DOMAIN r.wants["container"] : x = <<r, c, s, f, k>>
    BY <2>0
  <2>2. \A v \in Seq(Offered) : DOMAIN v \subseteq Int
    OBVIOUS
  <2>3. c \in Int /\ s \in Int /\ f \in Int /\ k \in Int
    BY <2>2 DEF MatchRules
  <2>4. QED
    BY <2>1, <2>3
<1>2. QED
  BY <1>1 DEF Combinations

TurnKey(R) == [c \in Combinations(R) |-> <<c[1].priority, c[1].id, c[2], c[3], c[4], c[5]>>]

LEMMA TurnHasKeys ==
    ASSUME NEW R, MatchRules(R)
    PROVE  HaveKeys(Combinations(R), TurnKey(R))
<1> DEFINE C == Combinations(R)
           key == TurnKey(R)
<1>1. ASSUME NEW c \in C
      PROVE  /\ key[c] = <<c[1].priority, c[1].id, c[2], c[3], c[4], c[5]>>
             /\ c[1] \in R /\ c = <<c[1], c[2], c[3], c[4], c[5]>>
             /\ c[1].priority \in Int /\ c[1].id \in Int
             /\ c[2] \in Int /\ c[3] \in Int /\ c[4] \in Int /\ c[5] \in Int
  <2>1. c[1] \in R /\ c = <<c[1], c[2], c[3], c[4], c[5]>>
        /\ c[2] \in Int /\ c[3] \in Int /\ c[4] \in Int /\ c[5] \in Int
    BY CombinationIs
  <2>2. c[1].priority \in Int /\ c[1].id \in Int
    BY <2>1 DEF MatchRules
  <2>3. key[c] = <<c[1].priority, c[1].id, c[2], c[3], c[4], c[5]>>
    BY DEF TurnKey
  <2>4. QED
    BY <2>1, <2>2, <2>3
<1> HIDE DEF C, key
<1>2. ASSUME NEW c \in C PROVE key[c] \in Seq(Int) /\ Len(key[c]) = 6
  <2>1. key[c] = <<c[1].priority, c[1].id, c[2], c[3], c[4], c[5]>>
    BY <1>1
  <2>2. /\ c[1].priority \in Int /\ c[1].id \in Int
        /\ c[2] \in Int /\ c[3] \in Int /\ c[4] \in Int /\ c[5] \in Int
    BY <1>1
  <2>3. QED
    BY <2>1, <2>2
<1>3. ASSUME NEW c \in C, NEW e \in C, key[c] = key[e] PROVE c = e
  <2>1. c[1].id = e[1].id /\ c[2] = e[2] /\ c[3] = e[3] /\ c[4] = e[4] /\ c[5] = e[5]
    <3>1. /\ key[c][2] = c[1].id /\ key[c][3] = c[2] /\ key[c][4] = c[3] /\ key[c][5] = c[4] /\ key[c][6] = c[5]
          /\ key[e][2] = e[1].id /\ key[e][3] = e[2] /\ key[e][4] = e[3] /\ key[e][5] = e[4] /\ key[e][6] = e[5]
      BY <1>1
    <3>2. QED
      BY <3>1, <1>3
  <2>2. c[1] = e[1]
    BY <1>1, <2>1 DEF MatchRules
  <2>3. c = <<c[1], c[2], c[3], c[4], c[5]>> /\ e = <<e[1], e[2], e[3], e[4], e[5]>>
    BY <1>1
  <2>4. QED
    BY <2>1, <2>2, <2>3
<1>4. IsFiniteSet(C)
  BY CombinationsAreFinite DEF C
<1>5. HaveKeys(C, key)
  BY <1>2, <1>3, <1>4 DEF HaveKeys
<1>6. QED
  BY <1>5 DEF C, key

\* What a combination asks for.
Meets(f, c) ==
    /\ Fits(f, "codec", c[1].wants["codec"][c[2]])
    /\ Fits(f, "resolution", c[1].wants["resolution"][c[3]])
    /\ Fits(f, "fps", c[1].wants["fps"][c[4]])
    /\ Fits(f, "container", c[1].wants["container"][c[5]])

LEMMA MatchesIs ==
    ASSUME NEW f, NEW c
    PROVE  matches_rule(f, Wanted(c)) <=> Meets(f, c)
<1> DEFINE w == Wanted(c)
<1>1. /\ DOMAIN w = {"codec", "resolution", "fps", "container"}
      /\ w["codec"] = <<c[1].wants["codec"][c[2]]>>
      /\ w["resolution"] = <<c[1].wants["resolution"][c[3]]>>
      /\ w["fps"] = <<c[1].wants["fps"][c[4]]>>
      /\ w["container"] = <<c[1].wants["container"][c[5]]>>
  BY DimensionsAre DEF Wanted
<1>2. \A v : ToSet(<<v>>) = {v}
  BY DEF ToSet
<1> HIDE DEF w
<1>3. matches_rule(f, w) <=> \A d \in DOMAIN w : \E v \in ToSet(w[d]) : Fits(f, d, v)
  BY DEF matches_rule
<1>4. /\ ToSet(w["codec"]) = {c[1].wants["codec"][c[2]]}
      /\ ToSet(w["resolution"]) = {c[1].wants["resolution"][c[3]]}
      /\ ToSet(w["fps"]) = {c[1].wants["fps"][c[4]]}
      /\ ToSet(w["container"]) = {c[1].wants["container"][c[5]]}
  BY <1>1, <1>2
<1>5. QED
  BY <1>1, <1>3, <1>4 DEF Meets, w

\* The best of the source for a combination.
IsBest(f, c, formats, strategy) ==
    /\ f \in Videos(formats) /\ Meets(f, c)
    /\ \A g \in Videos(formats) \ {f} : Meets(g, c) => Before(_rank(f, strategy), _rank(g, strategy))

LEMMA WinnerIs ==
    ASSUME NEW s \in Sessions, NEW strategy, NEW c
    PROVE  LET w == Winner(Formats[s], c, strategy) IN
           /\ w = None \/ w \in Videos(Formats[s])
           /\ \A f : f # None => (f = w <=> IsBest(f, c, Formats[s], strategy))
<1> DEFINE V == Videos(Formats[s])
           S == {f \in V : matches_rule(f, Wanted(c))}
           key == [f \in S |-> _rank(f, strategy)]
           w == Winner(Formats[s], c, strategy)
<1>1. S \in SUBSET V /\ \A f \in V : f \in S <=> Meets(f, c)
  BY MatchesIs
<1>2. HaveKeys(S, key)
  <2> HIDE DEF S
  <2>1. QED BY <1>1, RanksAreKeys
<1>3. w = IF S = {} THEN None ELSE First(S, key)
  BY DEF Winner
<1>4. \A f \in V : f # None
  BY VideosAre
<1>5. \A f \in S : key[f] = _rank(f, strategy)
  OBVIOUS
<1> HIDE DEF S, key, w, V
<1>6. CASE S = {}
  <2>1. w = None
    BY <1>3, <1>6
  <2>2. \A f : ~IsBest(f, c, Formats[s], strategy)
    BY <1>1, <1>6 DEF IsBest, V
  <2>3. QED
    BY <2>1, <2>2 DEF w
<1>7. CASE S # {}
  <2>1. /\ w \in S
        /\ \A y \in S \ {w} : Before(key[w], key[y])
        /\ \A x \in S : (\A y \in S \ {x} : Before(key[x], key[y])) => x = w
    BY <1>2, <1>3, <1>7, FirstIs
  <2>2. w \in V /\ IsBest(w, c, Formats[s], strategy)
    BY <1>1, <1>5, <2>1 DEF IsBest, V
  <2>3. ASSUME NEW f, IsBest(f, c, Formats[s], strategy) PROVE f = w
    <3>1. f \in S /\ \A y \in S \ {f} : Before(key[f], key[y])
      BY <1>1, <1>5, <2>3 DEF IsBest, V
    <3>2. QED
      BY <2>1, <3>1
  <2>4. QED
    BY <2>2, <2>3 DEF w, V
<1>8. QED
  BY <1>6, <1>7

\* The best for a rule is the best for one of its combinations.
LEMMA BestForIs ==
    ASSUME NEW R, MatchRules(R), NEW r \in R, NEW formats, NEW strategy, NEW f \in Videos(formats)
    PROVE  IsBestFor(f, r, formats, strategy) <=>
              \E c \in Combinations(R) : c[1] = r /\ IsBest(f, c, formats, strategy)
<1> DEFINE D == {"codec", "resolution", "fps", "container"}
           W == {w \in [D -> UNION {ToSet(r.wants[d]) : d \in D}] : \A d \in D : w[d] \in ToSet(r.wants[d])}
           All(g, w) == \A d \in D : Fits(g, d, w[d])
           Best(w) == /\ All(f, w)
                      /\ \A g \in Videos(formats) \ {f} : All(g, w) => Before(_rank(f, strategy), _rank(g, strategy))
<1>1. IsBestFor(f, r, formats, strategy) <=> \E w \in W : Best(w)
  BY DimensionsAre DEF IsBestFor
<1>2. ASSUME NEW w \in W, Best(w)
      PROVE  \E c \in Combinations(R) : c[1] = r /\ IsBest(f, c, formats, strategy)
  <2>1. \A d \in D : \E i \in DOMAIN r.wants[d] : w[d] = r.wants[d][i]
    BY DEF ToSet
  <2>2. PICK i1 \in DOMAIN r.wants["codec"] : w["codec"] = r.wants["codec"][i1]
    BY <2>1
  <2>3. PICK i2 \in DOMAIN r.wants["resolution"] : w["resolution"] = r.wants["resolution"][i2]
    BY <2>1
  <2>4. PICK i3 \in DOMAIN r.wants["fps"] : w["fps"] = r.wants["fps"][i3]
    BY <2>1
  <2>5. PICK i4 \in DOMAIN r.wants["container"] : w["container"] = r.wants["container"][i4]
    BY <2>1
  <2> DEFINE c == <<r, i1, i2, i3, i4>>
  <2>6. c \in Combinations(R) /\ c[1] = r /\ c[2] = i1 /\ c[3] = i2 /\ c[4] = i3 /\ c[5] = i4
    BY CombinationIs
  <2> HIDE DEF c
  <2>7. \A g : All(g, w) <=> Meets(g, c)
    BY <2>2, <2>3, <2>4, <2>5, <2>6 DEF Meets
  <2>8. IsBest(f, c, formats, strategy)
    BY <1>2, <2>7 DEF IsBest
  <2>9. QED
    BY <2>6, <2>8
<1>3. ASSUME NEW c \in Combinations(R), c[1] = r, IsBest(f, c, formats, strategy)
      PROVE  \E w \in W : Best(w)
  <2> DEFINE w == [d \in D |-> r.wants[d][CASE d = "codec" -> c[2] [] d = "resolution" -> c[3]
                                            [] d = "fps" -> c[4] [] OTHER -> c[5]]]
  <2>1. /\ c[2] \in DOMAIN r.wants["codec"] /\ c[3] \in DOMAIN r.wants["resolution"]
        /\ c[4] \in DOMAIN r.wants["fps"] /\ c[5] \in DOMAIN r.wants["container"]
    BY <1>3, CombinationIs
  <2>2. /\ w["codec"] = r.wants["codec"][c[2]] /\ w["resolution"] = r.wants["resolution"][c[3]]
        /\ w["fps"] = r.wants["fps"][c[4]] /\ w["container"] = r.wants["container"][c[5]]
    OBVIOUS
  <2>3. DOMAIN w = D /\ w = [d \in D |-> w[d]]
    OBVIOUS
  <2> HIDE DEF w
  <2>4. \A d \in D : w[d] \in ToSet(r.wants[d])
    BY <2>1, <2>2 DEF ToSet
  <2>5. w \in W
    BY <2>3, <2>4
  <2>6. \A g : All(g, w) <=> Meets(g, c)
    BY <1>3, <2>2 DEF Meets
  <2>7. Best(w)
    BY <1>3, <2>6 DEF IsBest
  <2>8. QED
    BY <2>5, <2>7
<1>4. QED
  <2> HIDE DEF W, Best
  <2>1. QED BY <1>1, <1>2, <1>3

\* match, step by step.
IsMatching(h, turn, formats, strategy, S) ==
    /\ h \in [0..Len(turn) -> Seq(S)] /\ h[0] = <<>>
    /\ \A n \in 1..Len(turn) :
          LET fmt == Winner(formats, turn[n], strategy)
          IN  h[n] = IF fmt = None \/ Contains(h[n - 1], fmt) THEN h[n - 1] ELSE Append(h[n - 1], fmt)

LEMMA MatchLoop ==
    ASSUME NEW s \in Sessions, NEW rules_, NEW strategy, NEW C, InTurn(Enabled(rules_)) \in Seq(C)
    PROVE  LET turn == InTurn(Enabled(rules_)) IN
           \E h : /\ IsMatching(h, turn, Formats[s], strategy, Videos(Formats[s]))
                  /\ match(Formats[s], rules_, strategy) = h[Len(turn)]
<1> DEFINE turn == InTurn(Enabled(rules_))
           N == Len(turn)
           S == Videos(Formats[s])
           W(n) == Winner(Formats[s], turn[n], strategy)
           Is(g) == g = [n \in 0..N |->
                            IF n = 0 THEN <<>>
                            ELSE IF W(n) = None \/ Contains(g[n - 1], W(n)) THEN g[n - 1]
                                 ELSE Append(g[n - 1], W(n))]
           step == [n \in 1..N |-> [x \in Seq(S) |-> IF W(n) = None \/ Contains(x, W(n)) THEN x ELSE Append(x, W(n))]]
<1>1. N \in Nat
  OBVIOUS
<1>2. match(Formats[s], rules_, strategy) = (CHOOSE g : Is(g))[N]
  BY Zenon DEF match
<1>3. \A n \in 1..N : W(n) = None \/ W(n) \in S
  BY WinnerIs
<1> HIDE DEF N, S, W, turn
<1>4. step \in [1..N -> [Seq(S) -> Seq(S)]]
  BY <1>1, <1>3
<1>5. \E g : Is(g)
  <2>1. PICK h : IsLoop(h, N, Seq(S), <<>>, step)
    <3>1. CanLoop(N, Seq(S), <<>>, step)
      BY <1>1, <1>4 DEF CanLoop
    <3> HIDE DEF step
    <3>2. QED
      BY <3>1, LoopExists
  <2>2. h \in [0..N -> Seq(S)] /\ h[0] = <<>>
    BY <2>1 DEF IsLoop
  <2>3. ASSUME NEW n \in 1..N
        PROVE  h[n] = IF W(n) = None \/ Contains(h[n - 1], W(n)) THEN h[n - 1] ELSE Append(h[n - 1], W(n))
    <3>1. n - 1 \in 0..N /\ h[n - 1] \in Seq(S)
      BY <1>1, <2>2
    <3>2. step[n][h[n - 1]] = IF W(n) = None \/ Contains(h[n - 1], W(n)) THEN h[n - 1] ELSE Append(h[n - 1], W(n))
      BY <3>1
    <3>3. h[n] = step[n][h[n - 1]]
      BY <2>1 DEF IsLoop
    <3>4. QED
      BY <3>2, <3>3
  <2>4. \A n \in 0..N : h[n] = IF n = 0 THEN <<>>
                               ELSE IF W(n) = None \/ Contains(h[n - 1], W(n)) THEN h[n - 1]
                                    ELSE Append(h[n - 1], W(n))
    <3>1. \A n \in 0..N : n = 0 \/ n \in 1..N
      BY <1>1
    <3>2. QED
      BY <2>2, <2>3, <3>1
  <2>5. h = [n \in 0..N |-> h[n]]
    BY <2>2
  <2>6. Is(h)
    BY <2>4, <2>5
  <2>7. QED
    <3> HIDE DEF Is
    <3>1. QED BY <2>6
<1> DEFINE f == CHOOSE g : Is(g)
<1>6. Is(f)
  <2> HIDE DEF Is
  <2>1. QED BY <1>5
<1>7. PICK h : match(Formats[s], rules_, strategy) = h[N] /\ Is(h)
  <2> HIDE DEF Is
  <2>1. match(Formats[s], rules_, strategy) = f[N] /\ Is(f)
    BY <1>2, <1>6
  <2> HIDE DEF f
  <2>2. QED
    BY <2>1
<1> HIDE DEF f
<1>8. /\ h[0] = <<>>
      /\ \A n \in 1..N : h[n] = IF W(n) = None \/ Contains(h[n - 1], W(n)) THEN h[n - 1]
                                ELSE Append(h[n - 1], W(n))
  <2>1. \A n \in 0..N : h[n] = IF n = 0 THEN <<>>
                               ELSE IF W(n) = None \/ Contains(h[n - 1], W(n)) THEN h[n - 1]
                                    ELSE Append(h[n - 1], W(n))
    BY <1>7
  <2>2. 0 \in 0..N /\ \A n \in 1..N : n \in 0..N /\ n # 0
    BY <1>1
  <2>3. QED
    BY <2>1, <2>2
<1> DEFINE T == {n \in 0..N : h[n] \in Seq(S)}
<1>9. 0 \in T
  <2>1. 0 \in 0..N /\ <<>> \in Seq(S)
    BY <1>1
  <2>2. h[0] \in Seq(S)
    BY <2>1, <1>8
  <2>3. QED
    BY <2>1, <2>2
<1>10. ASSUME NEW n \in 1..N, n - 1 \in T PROVE n \in T
  <2>1. h[n - 1] \in Seq(S) /\ n \in 0..N /\ (W(n) = None \/ W(n) \in S)
    BY <1>1, <1>3, <1>10
  <2>2. W(n) \in S => Append(h[n - 1], W(n)) \in Seq(S)
    BY <2>1
  <2>3. QED
    BY <2>1, <2>2, <1>8
<1>11. 0..N \subseteq T
  <2> HIDE DEF T
  <2>1. QED BY <1>1, <1>9, <1>10, BoundedInduction
<1>12. DOMAIN h = 0..N /\ h = [n \in 0..N |-> h[n]]
  BY <1>7
<1>13. h \in [0..N -> Seq(S)]
  BY <1>11, <1>12
<1>14. IsMatching(h, turn, Formats[s], strategy, S)
  BY <1>8, <1>13 DEF IsMatching, N, W
<1>15. QED
  BY <1>7, <1>14 DEF N, S, turn

\* What the loop has collected from the first n of the values w: each once, in
\* the order of its first appearance.
Collected(x, w, n) ==
    /\ \A i \in 1..Len(x) : \E m \in 1..n : x[i] = w[m]
    /\ \A m \in 1..n : w[m] # None => \E i \in 1..Len(x) : x[i] = w[m]
    /\ \A i, j \in 1..Len(x) : x[i] = x[j] => i = j
    /\ \A i, j \in 1..Len(x) : i < j => \A m \in 1..n : w[m] = x[j] => \E l \in 1..(m - 1) : x[i] = w[l]

LEMMA CollectingIs ==
    ASSUME NEW S, NEW N \in Nat, NEW w, NEW h \in [0..N -> Seq(S)], h[0] = <<>>,
           \A n \in 1..N : w[n] = None \/ w[n] \in S,
           \A n \in 1..N : h[n] = IF w[n] = None \/ Contains(h[n - 1], w[n]) THEN h[n - 1]
                                  ELSE Append(h[n - 1], w[n]),
           None \notin S
    PROVE  Collected(h[N], w, N)
<1> DEFINE T == {n \in 0..N : Collected(h[n], w, n)}
<1>1. 0 \in T
  BY DEF Collected
<1>2. ASSUME NEW n \in 1..N, n - 1 \in T PROVE n \in T
  <2> DEFINE x == h[n - 1]
  <2>1. /\ n \in 0..N /\ n \in Nat /\ n - 1 \in 0..N /\ x \in Seq(S) /\ Len(x) \in Nat
        /\ \A m \in 1..n : m \in 1..(n - 1) \/ m = n
        /\ \A m \in 1..(n - 1) : m \in 1..n /\ m \in Nat
    OBVIOUS
  <2>2. Collected(x, w, n - 1)
    BY <1>2
  <2>3. /\ \A i \in 1..Len(x) : \E m \in 1..(n - 1) : x[i] = w[m]
        /\ \A m \in 1..(n - 1) : w[m] # None => \E i \in 1..Len(x) : x[i] = w[m]
        /\ \A i, j \in 1..Len(x) : x[i] = x[j] => i = j
        /\ \A i, j \in 1..Len(x) : i < j => \A m \in 1..(n - 1) : w[m] = x[j] => \E l \in 1..(m - 1) : x[i] = w[l]
    BY <2>2 DEF Collected
  <2> HIDE DEF x
  <2>4. CASE w[n] = None \/ \E i \in 1..Len(x) : x[i] = w[n]
    <3>1. h[n] = x
      BY <2>4 DEF x, Contains
    <3>2. \A i \in 1..Len(x) : \E m \in 1..n : x[i] = w[m]
      BY <2>1, <2>3
    <3>3. \A m \in 1..n : w[m] # None => \E i \in 1..Len(x) : x[i] = w[m]
      BY <2>1, <2>3, <2>4
    <3>4. ASSUME NEW i \in 1..Len(x), NEW j \in 1..Len(x), i < j, NEW m \in 1..n, w[m] = x[j]
          PROVE  \E l \in 1..(m - 1) : x[i] = w[l]
      <4>1. CASE m \in 1..(n - 1)
        BY <4>1, <3>4, <2>3
      <4>2. CASE m = n
        <5>1. PICK k \in 1..(n - 1) : x[j] = w[k]
          BY <2>3
        <5>2. PICK l \in 1..(k - 1) : x[i] = w[l]
          BY <5>1, <3>4, <2>3
        <5>3. l \in 1..(m - 1)
          BY <4>2, <2>1
        <5>4. QED
          BY <5>2, <5>3
      <4>3. QED
        BY <4>1, <4>2, <2>1
    <3>5. Collected(x, w, n)
      BY <2>3, <3>2, <3>3, <3>4 DEF Collected
    <3>6. QED
      BY <3>1, <3>5, <2>1
  <2>5. CASE w[n] # None /\ ~\E i \in 1..Len(x) : x[i] = w[n]
    <3> DEFINE y == Append(x, w[n])
    <3>1. h[n] = y
      BY <2>5 DEF x, Contains
    <3>2. w[n] \in S
      BY <2>5
    <3>3. /\ y \in Seq(S) /\ Len(y) = Len(x) + 1 /\ y[Len(x) + 1] = w[n]
          /\ \A i \in 1..Len(x) : y[i] = x[i]
          /\ \A i \in 1..Len(y) : i \in 1..Len(x) \/ i = Len(x) + 1
          /\ Len(x) + 1 \in 1..Len(y) /\ \A i \in 1..Len(x) : i \in 1..Len(y) /\ i < Len(x) + 1
      <4>1. Len(x) \in Nat /\ x \in Seq(S)
        BY <2>1
      <4>2. y \in Seq(S) /\ Len(y) = Len(x) + 1
        BY <4>1, <3>2
      <4>3. y[Len(x) + 1] = w[n] /\ \A i \in 1..Len(x) : y[i] = x[i]
        BY <4>1, <3>2
      <4>4. /\ \A i \in 1..(Len(x) + 1) : i \in 1..Len(x) \/ i = Len(x) + 1
            /\ Len(x) + 1 \in 1..(Len(x) + 1)
            /\ \A i \in 1..Len(x) : i \in 1..(Len(x) + 1) /\ i < Len(x) + 1
        BY <4>1
      <4>5. QED
        BY <4>2, <4>3, <4>4
    <3> HIDE DEF y
    <3>4. ASSUME NEW i \in 1..Len(y) PROVE \E m \in 1..n : y[i] = w[m]
      <4>1. CASE i \in 1..Len(x)
        <5>1. PICK m \in 1..(n - 1) : x[i] = w[m]
          BY <4>1, <2>3
        <5>2. m \in 1..n /\ y[i] = w[m]
          BY <4>1, <5>1, <2>1, <3>3
        <5>3. QED
          BY <5>2
      <4>2. CASE i = Len(x) + 1
        <5>1. n \in 1..n /\ y[i] = w[n]
          BY <4>2, <2>1, <3>3
        <5>2. QED
          BY <5>1
      <4>3. QED
        BY <4>1, <4>2, <3>3
    <3>5. ASSUME NEW m \in 1..n, w[m] # None PROVE \E i \in 1..Len(y) : y[i] = w[m]
      <4>1. CASE m = n
        BY <4>1, <3>3
      <4>2. CASE m \in 1..(n - 1)
        <5>1. PICK i \in 1..Len(x) : x[i] = w[m]
          BY <4>2, <3>5, <2>3
        <5>2. i \in 1..Len(y) /\ y[i] = w[m]
          BY <5>1, <3>3
        <5>3. QED
          BY <5>2
      <4>3. QED
        BY <4>1, <4>2, <2>1
    <3>6. ASSUME NEW i \in 1..Len(y), NEW j \in 1..Len(y), y[i] = y[j] PROVE i = j
      <4>1. (i \in 1..Len(x) \/ i = Len(x) + 1) /\ (j \in 1..Len(x) \/ j = Len(x) + 1)
        BY <3>3
      <4>2. CASE i \in 1..Len(x) /\ j \in 1..Len(x)
        BY <4>2, <3>6, <3>3, <2>3
      <4>3. CASE i \in 1..Len(x) /\ j = Len(x) + 1
        BY <4>3, <3>6, <3>3, <2>5
      <4>4. CASE i = Len(x) + 1 /\ j \in 1..Len(x)
        BY <4>4, <3>6, <3>3, <2>5
      <4>5. QED
        BY <4>1, <4>2, <4>3, <4>4
    <3>7. ASSUME NEW i \in 1..Len(y), NEW j \in 1..Len(y), i < j, NEW m \in 1..n, w[m] = y[j]
          PROVE  \E l \in 1..(m - 1) : y[i] = w[l]
      <4>0. i \in 1..Len(x) /\ y[i] = x[i]
        <5>1. i \in 1..Len(x) \/ i = Len(x) + 1
          BY <3>3
        <5>2. j \in 1..Len(x) \/ j = Len(x) + 1
          BY <3>3
        <5>3. Len(x) \in Nat /\ i < j
          BY <2>1, <3>7
        <5>4. i \in 1..Len(x)
          BY <5>1, <5>2, <5>3
        <5>5. QED
          BY <5>4, <3>3
      <4>1. CASE j \in 1..Len(x)
        <5>1. y[j] = x[j] /\ m # n
          BY <4>1, <2>5, <3>3, <3>7
        <5>2. QED
          BY <5>1, <4>0, <4>1, <3>7, <2>1, <2>3
      <4>2. CASE j = Len(x) + 1
        <5>1. m = n
          <6>1. CASE m \in 1..(n - 1)
            <7>1. \E k \in 1..Len(x) : x[k] = w[m]
              BY <6>1, <4>2, <3>3, <3>7, <2>3, <2>5
            <7>2. QED
              BY <7>1, <4>2, <3>3, <3>7, <2>5
          <6>2. QED
            BY <6>1, <2>1
        <5>2. QED
          BY <5>1, <4>0, <2>3
      <4>3. QED
        BY <4>1, <4>2, <3>3
    <3>8. Collected(y, w, n)
      BY <3>4, <3>5, <3>6, <3>7 DEF Collected
    <3>9. QED
      BY <3>1, <3>8, <2>1
  <2>6. QED
    BY <2>4, <2>5
<1>3. 0..N \subseteq T
  <2> HIDE DEF T
  <2>1. QED BY <1>1, <1>2, BoundedInduction
<1>4. N \in 0..N
  OBVIOUS
<1>5. QED
  BY <1>3, <1>4

\* The key of a rule, and the order of the first rules two combinations have.
RuleKey(r) == <<r.priority, r.id>>

LEMMA RuleKeys ==
    ASSUME NEW R, MatchRules(R), NEW T \in SUBSET R
    PROVE  HaveKeys(T, [r \in T |-> <<r.priority, r.id>>])
<1> DEFINE key == [r \in T |-> <<r.priority, r.id>>]
<1>1. IsFiniteSet(T)
  BY FS_Subset DEF MatchRules
<1>2. ASSUME NEW r \in T
      PROVE  key[r] = <<r.priority, r.id>> /\ key[r] \in Seq(Int) /\ Len(key[r]) = 2 /\ key[r][2] = r.id
  <2>1. r.priority \in Int /\ r.id \in Int
    BY DEF MatchRules
  <2>2. QED
    BY <2>1
<1> HIDE DEF key
<1>3. \A r, q \in T : r # q => key[r] # key[q]
  BY <1>2 DEF MatchRules
<1>4. QED
  BY <1>1, <1>2, <1>3 DEF HaveKeys, key

LEMMA TurnIsByRule ==
    ASSUME NEW R, MatchRules(R), NEW c \in Combinations(R), NEW e \in Combinations(R),
           Before(TurnKey(R)[c], TurnKey(R)[e])
    PROVE  ~Before(RuleKey(e[1]), RuleKey(c[1]))
<1>1. TurnKey(R)[c] = <<c[1].priority, c[1].id, c[2], c[3], c[4], c[5]>>
      /\ TurnKey(R)[e] = <<e[1].priority, e[1].id, e[2], e[3], e[4], e[5]>>
  BY DEF TurnKey
<1>2. c[1] \in R /\ e[1] \in R
  BY CombinationIs
<1>3. c[1].priority \in Int /\ c[1].id \in Int /\ e[1].priority \in Int /\ e[1].id \in Int
  BY <1>2 DEF MatchRules
<1> DEFINE a == TurnKey(R)[c]
           b == TurnKey(R)[e]
<1>4. /\ DOMAIN a = 1..6 /\ a[1] = c[1].priority /\ a[2] = c[1].id
      /\ b[1] = e[1].priority /\ b[2] = e[1].id
  BY <1>1
<1> HIDE DEF a, b
<1>5. PICK i \in 1..6 : a[i] < b[i] /\ \A j \in 1..(i - 1) : a[j] = b[j]
  BY <1>4 DEF Before, a, b
<1>6. \/ a[1] < b[1]
      \/ a[1] = b[1] /\ a[2] < b[2]
      \/ a[1] = b[1] /\ a[2] = b[2]
  <2>1. i = 1 \/ i = 2 \/ (1 \in 1..(i - 1) /\ 2 \in 1..(i - 1))
    OBVIOUS
  <2>2. i = 2 => 1 \in 1..(i - 1)
    OBVIOUS
  <2>3. QED
    BY <1>5, <2>1, <2>2
<1>7. SUFFICES ASSUME Before(RuleKey(e[1]), RuleKey(c[1])) PROVE FALSE
  OBVIOUS
<1> DEFINE p == RuleKey(e[1])
           q == RuleKey(c[1])
<1>8. DOMAIN p = 1..2 /\ p[1] = b[1] /\ p[2] = b[2] /\ q[1] = a[1] /\ q[2] = a[2]
  BY <1>4 DEF RuleKey
<1> HIDE DEF p, q
<1>9. b[1] < a[1] \/ (b[1] = a[1] /\ b[2] < a[2])
  <2>1. PICK j \in 1..2 : p[j] < q[j] /\ \A k \in 1..(j - 1) : p[k] = q[k]
    BY <1>7, <1>8 DEF Before, p, q
  <2>2. j = 1 \/ (j = 2 /\ 1 \in 1..(j - 1))
    OBVIOUS
  <2>3. QED
    BY <1>8, <2>1, <2>2
<1>10. a[1] \in Int /\ a[2] \in Int /\ b[1] \in Int /\ b[2] \in Int
  BY <1>3, <1>4
<1>11. QED
  BY <1>6, <1>9, <1>10

\* FavoriteMatcher.match recommends what the rules ask for.
LEMMA MatchIs ==
    ASSUME NEW s \in Sessions, NEW R, MatchRules(R), NEW strategy
    PROVE  /\ match(Formats[s], R, strategy) \in Seq(Videos(Formats[s]))
           /\ IsRecommendation(match(Formats[s], R, strategy), Formats[s], R, strategy)
<1> DEFINE F == Formats[s]
           V == Videos(F)
           E == Enabled(R)
           C == Combinations(E)
           key == TurnKey(E)
           turn == InTurn(E)
           N == Len(turn)
           w == [n \in 1..N |-> Winner(F, turn[n], strategy)]
           m == match(F, R, strategy)
           by == [f \in V |-> {r \in R : r.enabled /\ IsBestFor(f, r, F, strategy)}]
<1>1. E \in SUBSET R /\ MatchRules(E) /\ \A r \in R : r \in E <=> r.enabled
  <2>1. E \in SUBSET R /\ \A r \in R : r \in E <=> r.enabled
    BY DEF Enabled
  <2> HIDE DEF E
  <2>2. IsFiniteSet(E)
    BY <2>1, FS_Subset DEF MatchRules
  <2>3. QED
    BY <2>1, <2>2 DEF MatchRules
<1>2. turn = Sorted(C, key)
  BY DEF InTurn, TurnKey
<1> HIDE DEF turn, E
<1>3. /\ N \in Nat /\ turn \in Seq(C) /\ DOMAIN turn = 1..N
      /\ \A c \in C : \E i \in 1..N : turn[i] = c
      /\ \A i, j \in 1..N : i < j <=> Before(key[turn[i]], key[turn[j]])
  <2>1. HaveKeys(C, key)
    BY <1>1, TurnHasKeys
  <2> HIDE DEF C, key
  <2>2. /\ Cardinality(C) \in Nat /\ turn \in Seq(C) /\ Len(turn) = Cardinality(C) /\ DOMAIN turn = 1..Cardinality(C)
        /\ \A c \in C : \E i \in 1..Cardinality(C) : turn[i] = c
        /\ \A i, j \in 1..Cardinality(C) : i < j <=> Before(key[turn[i]], key[turn[j]])
    <3> HIDE DEF N
    <3>1. PICK t : t = turn
      OBVIOUS
    <3>2. HaveKeys(C, key) /\ t = Sorted(C, key)
      BY <1>2, <2>1, <3>1
    <3>3. /\ Cardinality(C) \in Nat /\ t \in Seq(C) /\ Len(t) = Cardinality(C) /\ DOMAIN t = 1..Cardinality(C)
          /\ \A c \in C : \E i \in 1..Cardinality(C) : t[i] = c
          /\ \A i, j \in 1..Cardinality(C) : i < j <=> Before(key[t[i]], key[t[j]])
      <4>1. Cardinality(C) \in Nat /\ t \in Seq(C) /\ Len(t) = Cardinality(C) /\ DOMAIN t = 1..Cardinality(C)
        BY <3>2, SortedIs
      <4>2. \A c \in C : \E i \in 1..Cardinality(C) : t[i] = c
        BY <3>2, SortedIs
      <4>3. \A i, j \in 1..Cardinality(C) : i < j <=> Before(key[t[i]], key[t[j]])
        BY <3>2, SortedIs
      <4>4. QED
        BY <4>1, <4>2, <4>3
    <3>4. QED
      BY <3>1, <3>3
  <2>3. QED
    BY <2>2
<1>4. PICK h : IsMatching(h, turn, F, strategy, V) /\ m = h[N]
  <2>1. InTurn(Enabled(R)) \in Seq(C)
    BY <1>3 DEF turn, E
  <2> HIDE DEF C
  <2>2. \E h : /\ IsMatching(h, InTurn(Enabled(R)), F, strategy, V)
               /\ m = h[Len(InTurn(Enabled(R)))]
    BY <2>1, MatchLoop
  <2>3. QED
    BY <2>2 DEF turn, E
<1>5. None \notin V
  BY VideosAre
<1> HIDE DEF N, C, V
<1>6. h \in [0..N -> Seq(V)] /\ m \in Seq(V)
  <2>1. h \in [0..N -> Seq(V)] /\ N \in 0..N
    BY <1>3, <1>4 DEF IsMatching, N
  <2>2. QED
    BY <2>1, <1>4
<1>7. \A n \in 1..N : w[n] = None \/ w[n] \in V
  BY WinnerIs DEF V
<1>8. Collected(m, w, N)
  <2>1. h[0] = <<>> /\ \A n \in 1..N : h[n] = IF w[n] = None \/ Contains(h[n - 1], w[n]) THEN h[n - 1]
                                              ELSE Append(h[n - 1], w[n])
    BY <1>4 DEF IsMatching, N
  <2> HIDE DEF w
  <2>2. Collected(h[N], w, N)
    BY <1>3, <1>5, <1>6, <1>7, <2>1, CollectingIs
  <2>3. QED
    BY <2>2, <1>4
<1>9. ASSUME NEW f \in V, NEW r
      PROVE  r \in by[f] <=> \E n \in 1..N : turn[n][1] = r /\ w[n] = f
  <2>1. r \in by[f] <=> r \in E /\ IsBestFor(f, r, F, strategy)
    BY <1>1
  <2>2. r \in E => (IsBestFor(f, r, F, strategy) <=> \E c \in C : c[1] = r /\ IsBest(f, c, F, strategy))
    BY <1>1, BestForIs DEF C, V
  <2>3. \A c \in C : c[1] \in E
    BY <1>1, CombinationIs DEF C
  <2>4. \A n \in 1..N : turn[n] \in C /\ (w[n] = f <=> IsBest(f, turn[n], F, strategy))
    <3>1. \A n \in 1..N : turn[n] \in C
      BY <1>3
    <3>2. f # None
      BY <1>5
    <3>3. QED
      BY <3>1, <3>2, WinnerIs
  <2>5. r \in by[f] <=> \E c \in C : c[1] = r /\ IsBest(f, c, F, strategy)
    <3> HIDE DEF by
    <3>1. QED BY <2>1, <2>2, <2>3
  <2> HIDE DEF by, w
  <2>6. QED
    BY <2>4, <2>5, <1>3
<1>10. \A f \in V : by[f] \in SUBSET R
  OBVIOUS
<1> DEFINE rank == [f \in V |-> [q \in by[f] |-> <<q.priority, q.id>>]]
           OfTheFirst(f) == LET r == First(by[f], [q \in by[f] |-> <<q.priority, q.id>>])
                            IN  <<r.priority, r.id>>
<1> HIDE DEF w, by, m
<1>11. m \in Seq(V) /\ Len(m) \in Nat /\ DOMAIN m = 1..Len(m)
  BY <1>6
<1>12. ToSet(m) = {f \in V : by[f] # {}}
  <2>1. ASSUME NEW f \in ToSet(m) PROVE f \in V /\ by[f] # {}
    <3>1. PICK i \in 1..Len(m) : f = m[i]
      BY <1>11 DEF ToSet
    <3>2. f \in V
      BY <3>1, <1>11
    <3>3. PICK n \in 1..N : w[n] = f
      BY <3>1, <1>8 DEF Collected
    <3>4. QED
      BY <3>2, <3>3, <1>9
  <2>2. ASSUME NEW f \in V, by[f] # {} PROVE f \in ToSet(m)
    <3>1. PICK n \in 1..N : w[n] = f
      BY <2>2, <1>9
    <3>2. \E i \in 1..Len(m) : m[i] = f
      BY <3>1, <1>5, <1>8 DEF Collected
    <3>3. QED
      BY <3>2, <1>11 DEF ToSet
  <2>3. QED
    BY <2>1, <2>2
<1>13. IsInjective(m)
  BY <1>8, <1>11 DEF Collected, IsInjective
<1>14. ASSUME NEW f \in V, by[f] # {}
       PROVE  \E r \in by[f] : /\ OfTheFirst(f) = RuleKey(r)
                               /\ \A q \in by[f] \ {r} : Before(RuleKey(r), RuleKey(q))
  <2> DEFINE B == by[f]
             k == [q \in B |-> <<q.priority, q.id>>]
             r == First(B, k)
  <2>1. HaveKeys(B, k)
    BY <1>10, RuleKeys
  <2>2. \A q \in B : k[q] = RuleKey(q)
    BY DEF RuleKey
  <2>3. OfTheFirst(f) = RuleKey(r)
    BY DEF RuleKey
  <2> HIDE DEF k, B
  <2>4. r \in B /\ \A q \in B \ {r} : Before(k[r], k[q])
    BY <2>1, <1>14, FirstIs DEF B
  <2>5. QED
    BY <2>2, <2>3, <2>4 DEF B
<1>15. ASSUME NEW i \in DOMAIN m, NEW j \in DOMAIN m, i < j
       PROVE  ~Before(OfTheFirst(m[j]), OfTheFirst(m[i]))
  <2>1. m[i] \in V /\ m[j] \in V /\ i \in 1..Len(m) /\ j \in 1..Len(m)
    BY <1>11
  <2>2. by[m[i]] # {} /\ by[m[j]] # {}
    BY <1>12 DEF ToSet
  <2>3. PICK a \in by[m[i]] : /\ OfTheFirst(m[i]) = RuleKey(a)
                              /\ \A q \in by[m[i]] \ {a} : Before(RuleKey(a), RuleKey(q))
    BY <2>1, <2>2, <1>14
  <2>4. PICK b \in by[m[j]] : OfTheFirst(m[j]) = RuleKey(b)
    BY <2>1, <2>2, <1>14
  <2>5. PICK n \in 1..N : turn[n][1] = b /\ w[n] = m[j]
    BY <2>1, <1>9
  <2>6. PICK l \in 1..(n - 1) : w[l] = m[i]
    BY <2>1, <2>5, <1>8, <1>15 DEF Collected
  <2>7. l \in 1..N /\ l < n
    BY <2>6, <1>3
  <2> DEFINE c == turn[l][1]
  <2>8. c \in by[m[i]]
    BY <2>1, <2>6, <2>7, <1>9
  <2>9. ~Before(RuleKey(b), RuleKey(c))
    <3>1. turn[l] \in C /\ turn[n] \in C
      BY <2>7, <1>3
    <3>2. Before(key[turn[l]], key[turn[n]])
      BY <2>7, <1>3
    <3>3. QED
      BY <3>1, <3>2, <2>5, <1>1, TurnIsByRule DEF C
  <2> HIDE DEF c
  <2>10. a \in R /\ b \in R /\ c \in R
    BY <2>1, <2>3, <2>4, <2>8, <1>10
  <2>11. SUFFICES ASSUME Before(RuleKey(b), RuleKey(a)) PROVE FALSE
    <3> HIDE DEF OfTheFirst
    <3>1. QED BY <2>3, <2>4
  <2>12. CASE c = a
    BY <2>9, <2>11, <2>12
  <2>13. CASE c # a
    <3>1. Before(RuleKey(a), RuleKey(c))
      BY <2>3, <2>8, <2>13
    <3>2. Before(RuleKey(b), RuleKey(c))
      <4> DEFINE k == [q \in R |-> <<q.priority, q.id>>]
      <4>1. HaveKeys(R, k)
        BY RuleKeys
      <4>2. k[a] = RuleKey(a) /\ k[b] = RuleKey(b) /\ k[c] = RuleKey(c)
        BY <2>10 DEF RuleKey
      <4> HIDE DEF k
      <4>3. QED
        BY <4>1, <4>2, <3>1, <2>10, <2>11, KeysOrder
    <3>3. QED
      BY <3>2, <2>9
  <2>14. QED
    BY <2>12, <2>13
<1>16. IsRecommendation(m, F, R, strategy)
  <2>1. /\ ToSet(m) = {f \in V : by[f] # {}}
        /\ IsInjective(m)
        /\ \A i, j \in DOMAIN m : i < j => ~Before(OfTheFirst(m[j]), OfTheFirst(m[i]))
    BY <1>12, <1>13, <1>15
  <2>2. QED
    BY <2>1 DEF IsRecommendation, by, V
<1>17. QED
  BY <1>11, <1>16 DEF V, m

-----------------------------------------------------------------------------
(***************************************************************************)
(* The companion of a video.                                               *)
(***************************************************************************)
LEMMA CompanionIs ==
    ASSUME NEW s \in Sessions, NEW video, select_default_audio(Formats[s], video) # None
    PROVE  video.separate /\ IsCompanion(select_default_audio(Formats[s], video), Tracks(s))
<1> DEFINE F == Formats[s]
           T == AudioTracks(F)
           key == [i \in T |-> Append(AudioScore(F[i]), i)]
           a == select_default_audio(F, video)
           i1 == First(T, key)
<1>1. /\ F \in Seq(ToSet(F)) /\ DOMAIN F = 1..Len(F) /\ Len(F) \in Nat
      /\ \A i \in 1..Len(F) : F[i] \in ToSet(F)
  BY FormatsAssumption DEF ToSet
<1>2. T \in SUBSET (1..Len(F)) /\ IsFiniteSet(T)
  <2>1. T \in SUBSET (1..Len(F))
    BY <1>1 DEF AudioTracks
  <2> HIDE DEF T
  <2>2. IsFiniteSet(1..Len(F))
    BY <1>1, FS_Interval
  <2>3. QED
    BY <2>1, <2>2, FS_Subset
<1>3. ASSUME NEW i \in T
      PROVE  /\ F[i].commentary \in {0, 1} /\ F[i].original \in {0, 1}
             /\ F[i].default \in Int /\ F[i].language \in Int /\ F[i].quality \in Int
             /\ F[i].audio /\ ~F[i].video
  <2>1. F[i] \in ToSet(F) /\ F[i].audio /\ ~F[i].video
    BY <1>1, <1>2 DEF AudioTracks
  <2>2. QED
    BY <2>1, FormatsAssumption
<1>4. ASSUME NEW i \in T
      PROVE  /\ key[i] \in Seq(Int) /\ Len(key[i]) = 6 /\ key[i][6] = i
             /\ key[i][1] = F[i].commentary /\ key[i][2] = -F[i].original
             /\ key[i][3] = -F[i].default /\ key[i][4] = -F[i].language
  <2>1. key[i] = Append(<<F[i].commentary, -F[i].original, -F[i].default, -F[i].language, -F[i].quality>>, i)
    BY DEF AudioScore
  <2>2. /\ F[i].commentary \in Int /\ -F[i].original \in Int /\ -F[i].default \in Int
        /\ -F[i].language \in Int /\ -F[i].quality \in Int /\ i \in Int
    BY <1>2, <1>3
  <2> HIDE DEF key
  <2>3. QED
    BY <2>1, <2>2
<1>5. ~video.audio /\ video.separate /\ T # {} /\ a = F[i1]
  BY DEF select_default_audio
<1> HIDE DEF T, key
<1>6. HaveKeys(T, key)
  BY <1>2, <1>4 DEF HaveKeys
<1>7. i1 \in T /\ \A j \in T \ {i1} : Before(key[i1], key[j])
  BY <1>5, <1>6, FirstIs
<1> HIDE DEF i1, a
<1>8. Tracks(s) = {F[i] : i \in T}
  BY DEF Tracks, T
<1>9. a \in Tracks(s)
  BY <1>5, <1>7, <1>8
<1>10. ASSUME NEW j \in T, j # i1
       PROVE  \/ F[i1].commentary < F[j].commentary
              \/ F[i1].commentary = F[j].commentary /\ F[i1].original >= F[j].original
  <2>1. DOMAIN key[i1] = 1..6
    BY <1>4, <1>7
  <2>2. PICK k \in 1..6 : key[i1][k] < key[j][k] /\ \A l \in 1..(k - 1) : key[i1][l] = key[j][l]
    BY <2>1, <1>7, <1>10 DEF Before
  <2>3. k = 1 \/ (k = 2 /\ 1 \in 1..(k - 1)) \/ (1 \in 1..(k - 1) /\ 2 \in 1..(k - 1))
    OBVIOUS
  <2>4. \/ key[i1][1] < key[j][1]
        \/ key[i1][1] = key[j][1] /\ (key[i1][2] < key[j][2] \/ key[i1][2] = key[j][2])
    BY <2>2, <2>3
  <2>5. /\ F[i1].commentary \in Int /\ F[j].commentary \in Int
        /\ F[i1].original \in Int /\ F[j].original \in Int
    BY <1>3, <1>7
  <2>6. /\ key[i1][1] = F[i1].commentary /\ key[i1][2] = -F[i1].original
        /\ key[j][1] = F[j].commentary /\ key[j][2] = -F[j].original
    BY <1>4, <1>7
  <2> DEFINE c == F[i1].commentary
             d == F[j].commentary
             o == F[i1].original
             q == F[j].original
  <2>7. /\ c \in Int /\ d \in Int /\ o \in Int /\ q \in Int
        /\ c < d \/ (c = d /\ (-o < -q \/ -o = -q))
    BY <2>4, <2>5, <2>6
  <2> HIDE DEF c, d, o, q
  <2>8. c < d \/ (c = d /\ o >= q)
    BY <2>7
  <2>9. QED
    BY <2>8 DEF c, d, o, q
<1> DEFINE spoken == {f \in Tracks(s) : f.commentary = 0}
           originals == {f \in spoken : f.original = 1}
<1>11. spoken # {} => a \in spoken
  <2>1. SUFFICES ASSUME NEW j \in T, F[j].commentary = 0 PROVE F[i1].commentary = 0
    BY <1>5, <1>8, <1>9
  <2>2. QED
    BY <2>1, <1>3, <1>7, <1>10
<1>12. originals # {} => a \in originals
  <2>1. SUFFICES ASSUME NEW j \in T, F[j].commentary = 0, F[j].original = 1
                 PROVE  F[i1].commentary = 0 /\ F[i1].original = 1
    BY <1>5, <1>8, <1>9
  <2>2. CASE j = i1
    BY <2>1, <2>2
  <2>3. CASE j # i1
    <3>1. F[i1].commentary \in {0, 1} /\ F[i1].original \in {0, 1}
      BY <1>3, <1>7
    <3>2. QED
      BY <2>1, <2>3, <3>1, <1>10
  <2>4. QED
    BY <2>2, <2>3
<1>13. ASSUME NEW f \in Tracks(s), Alike(f, a) PROVE f.language <= a.language
  <2>1. PICK j \in T : f = F[j]
    BY <1>8
  <2>2. CASE j = i1
    BY <1>3, <1>5, <1>7, <2>1, <2>2
  <2>3. CASE j # i1
    <3>0. /\ F[j].commentary = F[i1].commentary /\ F[j].original = F[i1].original
          /\ F[j].default = F[i1].default
      <4>1. /\ f.commentary = a.commentary /\ f.original = a.original /\ f.default = a.default
        BY <1>13 DEF Alike
      <4>2. QED
        BY <4>1, <1>5, <2>1
    <3>1. /\ DOMAIN key[i1] = 1..6
          /\ key[i1][1] = key[j][1] /\ key[i1][2] = key[j][2] /\ key[i1][3] = key[j][3]
      <4>1. DOMAIN key[i1] = 1..6
        BY <1>4, <1>7
      <4>2. /\ key[i1][1] = F[i1].commentary /\ key[i1][2] = -F[i1].original /\ key[i1][3] = -F[i1].default
            /\ key[j][1] = F[j].commentary /\ key[j][2] = -F[j].original /\ key[j][3] = -F[j].default
        BY <1>4, <1>7
      <4>3. QED
        BY <3>0, <4>1, <4>2
    <3>2. PICK k \in 1..6 : key[i1][k] < key[j][k] /\ \A l \in 1..(k - 1) : key[i1][l] = key[j][l]
      BY <1>7, <2>3, <3>1 DEF Before
    <3>3. key[i1][1] \in Int /\ key[i1][2] \in Int /\ key[i1][3] \in Int
      BY <1>4, <1>7
    <3>4. k = 4 \/ 4 \in 1..(k - 1)
      BY <3>1, <3>2, <3>3
    <3>5. key[i1][4] < key[j][4] \/ key[i1][4] = key[j][4]
      BY <3>2, <3>4
    <3>6. /\ key[i1][4] = -a.language /\ key[j][4] = -f.language
          /\ a.language \in Int /\ f.language \in Int
      BY <1>3, <1>4, <1>5, <1>7, <2>1
    <3> DEFINE la == a.language
               lf == f.language
    <3>7. la \in Int /\ lf \in Int /\ (-la < -lf \/ -la = -lf)
      BY <3>5, <3>6
    <3> HIDE DEF la, lf
    <3>8. lf <= la
      BY <3>7
    <3>9. QED
      BY <3>8 DEF la, lf
  <2>4. QED
    BY <2>2, <2>3
<1>14. IsCompanion(a, Tracks(s))
  BY <1>9, <1>11, <1>12, <1>13 DEF IsCompanion
<1>15. QED
  BY <1>5, <1>14 DEF a

-----------------------------------------------------------------------------
(***************************************************************************)
(* What handlers make of rows.                                             *)
(***************************************************************************)
LEMMA MaxIs ==
    ASSUME NEW S \in SUBSET Nat, IsFiniteSet(S), S # {}
    PROVE  Max(S) \in S /\ \A y \in S : Max(S) >= y
<1> DEFINE key == [x \in S |-> <<-x>>]
<1>1. \A x \in S : key[x] \in Seq(Int) /\ Len(key[x]) = 1 /\ key[x][1] = -x /\ x \in Nat
  OBVIOUS
<1> HIDE DEF key
<1>2. HaveKeys(S, key)
  BY <1>1 DEF HaveKeys
<1>3. PICK m \in S : \A y \in S \ {m} : Before(key[m], key[y])
  <2>1. First(S, key) \in S /\ \A y \in S \ {First(S, key)} : Before(key[First(S, key)], key[y])
    BY <1>2, FirstIs
  <2>2. QED
    BY <2>1
<1>4. ASSUME NEW y \in S PROVE m >= y
  <2>1. CASE y = m
    BY <2>1
  <2>2. CASE y # m
    <3>1. PICK i \in DOMAIN key[m] : key[m][i] < key[y][i]
      BY <1>3, <2>2 DEF Before
    <3>2. DOMAIN key[m] = 1..1
      <4>1. key[m] \in Seq(Int) /\ Len(key[m]) = 1
        BY <1>1
      <4>2. QED
        BY <4>1
    <3>3. i = 1
      BY <3>1, <3>2
    <3>4. -m < -y /\ m \in Nat /\ y \in Nat
      BY <1>1, <3>1, <3>3
    <3>5. QED
      BY <3>4
  <2>3. QED
    BY <2>1, <2>2
<1>5. Max(S) = CHOOSE x \in S : \A y \in S : x >= y
  BY DEF Max
<1>6. QED
  BY <1>4, <1>5

LEMMA RowsMatch ==
    ASSUME NEW R \in SUBSET Rows, IsFiniteSet(R), \A r, q \in R : r.id = q.id => r = q
    PROVE  MatchRules(R)
<1>1. \A r \in R : r \in Rows
  OBVIOUS
<1>2. ASSUME NEW r \in R PROVE r.id \in Int /\ r.priority \in Int
  <2>1. r.id \in RuleIds /\ r.priority \in Nat
    BY <1>1 DEF Rows
  <2>2. r.id \in Int
    BY <2>1, RuleIdAssumption
  <2>3. QED
    BY <2>1, <2>2
<1>3. \A w \in AllWants : /\ w["codec"] \in Seq(Offered) /\ w["resolution"] \in Seq(Offered)
                          /\ w["fps"] \in Seq(Offered) /\ w["container"] \in Seq(Offered)
  BY DimensionsAre DEF AllWants
<1>4. \A r \in R : r.wants \in AllWants
  BY <1>1 DEF Rows
<1>5. QED
  BY <1>2, <1>3, <1>4 DEF MatchRules

\* The orders of a table.
LEMMA ListedHasKeys ==
    ASSUME NEW R, TableOK(R)
    PROVE  HaveKeys(R, [r \in R |-> <<r.priority, r.created>>])
<1> DEFINE key == [r \in R |-> <<r.priority, r.created>>]
<1>1. ASSUME NEW r \in R PROVE key[r] \in Seq(Int) /\ Len(key[r]) = 2 /\ key[r][2] = r.created
  <2>1. r \in Rows
    BY DEF TableOK
  <2>2. r.priority \in Int /\ r.created \in Int
    BY <2>1 DEF Rows
  <2>3. QED
    BY <2>2
<1> HIDE DEF key
<1>2. \A r, q \in R : r # q => key[r] # key[q]
  BY <1>1 DEF TableOK
<1>3. QED
  BY <1>1, <1>2 DEF HaveKeys, TableOK, key

LEMMA ListedIs ==
    ASSUME NEW R, TableOK(R)
    PROVE  /\ Listed(R) \in Seq(R) /\ Len(Listed(R)) = Cardinality(R) /\ Cardinality(R) \in Nat
           /\ DOMAIN Listed(R) = 1..Len(Listed(R))
           /\ \A i \in DOMAIN Listed(R) : Listed(R)[i] \in R
           /\ \A x \in R : \E i \in DOMAIN Listed(R) : Listed(R)[i] = x
           /\ \A i, j \in DOMAIN Listed(R) : Listed(R)[i].id = Listed(R)[j].id => i = j
<1> DEFINE key == [r \in R |-> <<r.priority, r.created>>]
<1>1. PICK s : s = Listed(R)
  OBVIOUS
<1>2. HaveKeys(R, key) /\ s = Sorted(R, key)
  BY <1>1, ListedHasKeys DEF Listed
<1> HIDE DEF key
<1>3. /\ Cardinality(R) \in Nat
      /\ s \in Seq(R) /\ Len(s) = Cardinality(R) /\ DOMAIN s = 1..Cardinality(R)
  BY <1>2, SortedIs
<1>4. \A x \in R : \E i \in 1..Cardinality(R) : s[i] = x
  BY <1>2, SortedIs
<1>5. \A i, j \in 1..Cardinality(R) : s[i] = s[j] => i = j
  BY <1>2, SortedIs
<1>6. \A i \in DOMAIN s : s[i] \in R
  BY <1>3
<1>7. \A i, j \in DOMAIN s : s[i].id = s[j].id => i = j
  BY <1>3, <1>5, <1>6 DEF TableOK
<1>8. QED
  BY <1>1, <1>3, <1>4, <1>6, <1>7

\* A row that is saved replaces the one with its identifier, or is the youngest.
LEMMA SavedIs ==
    ASSUME NEW R, TableOK(R), NEW r \in Rows
    PROVE  /\ TableOK(Saved(r, R))
           /\ \E row \in Rows :
                 /\ row.id = r.id /\ row.priority = r.priority /\ row.created # 0
                 /\ Saved(r, R) = {x \in R : x.id # r.id} \cup {row}
           /\ Cardinality(Saved(r, R)) = IF \E x \in R : x.id = r.id THEN Cardinality(R)
                                         ELSE Cardinality(R) + 1
<1> DEFINE made == {0} \cup {q.created : q \in R}
           Row == IF ById(r.id, R) = {} THEN [r EXCEPT !.created = 1 + Max(made)]
                  ELSE [r EXCEPT !.created = (CHOOSE q \in ById(r.id, R) : TRUE).created]
           rest == {x \in R : x.id # r.id}
<1>1. IsFiniteSet(R) /\ \A x \in R : x \in Rows /\ x.created \in Nat /\ x.created # 0
  BY DEF TableOK, Rows
<1>2. made \in SUBSET Nat /\ IsFiniteSet(made) /\ made # {}
  <2> DEFINE times == {q.created : q \in R}
             f == [q \in R |-> q.created]
  <2>1. f \in Surjection(R, times)
    BY DEF Surjection
  <2>2. IsFiniteSet(times)
    <3> HIDE DEF f, times
    <3>1. QED BY <1>1, <2>1, FS_Surjection
  <2>3. IsFiniteSet({0})
    BY FS_Singleton
  <2>4. IsFiniteSet(made)
    <3> HIDE DEF times
    <3>1. IsFiniteSet({0} \cup times)
      BY <2>2, <2>3, FS_Union
    <3>2. QED
      BY <3>1 DEF times
  <2>5. QED
    BY <1>1, <2>4
<1>3. Max(made) \in Nat /\ \A x \in R : Max(made) >= x.created
  <2>1. Max(made) \in made /\ \A y \in made : Max(made) >= y
    <3> HIDE DEF made
    <3>1. QED BY <1>2, MaxIs
  <2>2. \A x \in R : x.created \in made
    OBVIOUS
  <2>3. QED
    BY <1>2, <2>1, <2>2
<1> HIDE DEF made
<1>4. /\ Row \in Rows /\ Row.id = r.id /\ Row.priority = r.priority /\ Row.created # 0
      /\ \A x \in rest : x.created # Row.created
  <2>1. CASE ById(r.id, R) = {}
    <3>1. Row = [r EXCEPT !.created = 1 + Max(made)]
      BY <2>1
    <3>2. Row \in Rows /\ Row.id = r.id /\ Row.priority = r.priority /\ Row.created = 1 + Max(made)
      BY <3>1, <1>3 DEF Rows
    <3>3. ASSUME NEW x \in rest PROVE x.created # 1 + Max(made)
      <4>1. x.created \in Nat /\ Max(made) \in Nat /\ Max(made) >= x.created
        BY <1>1, <1>3
      <4>2. QED
        BY <4>1
    <3>4. 1 + Max(made) # 0
      BY <1>3
    <3> HIDE DEF Row, rest
    <3>5. QED
      BY <3>2, <3>3, <3>4
  <2>2. CASE ById(r.id, R) # {}
    <3>1. PICK q \in R : /\ q = (CHOOSE z \in ById(r.id, R) : TRUE) /\ q.id = r.id
      BY <2>2 DEF ById
    <3>2. Row = [r EXCEPT !.created = q.created]
      BY <2>2, <3>1
    <3>3. Row \in Rows /\ Row.id = r.id /\ Row.priority = r.priority /\ Row.created = q.created
      BY <3>2, <1>1 DEF Rows
    <3>4. \A x \in rest : x # q /\ x \in R
      BY <3>1
    <3>5. QED
      BY <3>1, <3>3, <3>4, <1>1 DEF TableOK
  <2>3. QED
    BY <2>1, <2>2
<1>5. Saved(r, R) = rest \cup {Row}
  <2>1. R \ ById(r.id, R) = rest
    BY DEF ById
  <2>2. QED
    BY <2>1 DEF Saved, made
<1>6. IsFiniteSet(rest) /\ IsFiniteSet(rest \cup {Row})
  <2>1. rest \in SUBSET R
    OBVIOUS
  <2> HIDE DEF rest, Row
  <2>2. IsFiniteSet(rest)
    BY <1>1, <2>1, FS_Subset
  <2>3. QED
    BY <2>2, FS_AddElement
<1>7. TableOK(Saved(r, R))
  <2> HIDE DEF Row
  <2>1. \A x \in rest : x \in R /\ x.id # r.id
    OBVIOUS
  <2>2. \A x \in rest \cup {Row} : x \in Rows /\ x.created # 0
    BY <1>1, <1>4, <2>1
  <2>3. \A x, y \in rest \cup {Row} : x # y => x.id # y.id /\ x.created # y.created
    BY <1>4, <2>1 DEF TableOK
  <2>4. QED
    BY <1>5, <1>6, <2>2, <2>3 DEF TableOK
<1>8. Cardinality(Saved(r, R)) = IF \E x \in R : x.id = r.id THEN Cardinality(R) ELSE Cardinality(R) + 1
  <2>1. Row \notin rest
    BY <1>4
  <2>2. Cardinality(rest \cup {Row}) = Cardinality(rest) + 1
    <3> HIDE DEF Row, rest
    <3>1. QED BY <1>6, <2>1, FS_AddElement
  <2>3. CASE \E x \in R : x.id = r.id
    <3>1. PICK x \in R : x.id = r.id
      BY <2>3
    <3>2. rest = R \ {x}
      BY <3>1 DEF TableOK
    <3>3. Cardinality(R \ {x}) = Cardinality(R) - 1
      BY <1>1, FS_RemoveElement
    <3>4. Cardinality(R) \in Nat
      BY <1>1, FS_CardinalityType
    <3>5. Cardinality(rest) = Cardinality(R) - 1
      BY <3>2, <3>3
    <3> HIDE DEF Row, rest
    <3>6. Cardinality(rest \cup {Row}) = Cardinality(R)
      BY <2>2, <3>4, <3>5
    <3>7. QED
      BY <1>5, <2>3, <3>6
  <2>4. CASE ~\E x \in R : x.id = r.id
    <3>1. rest = R
      BY <2>4
    <3>2. QED
      BY <1>5, <2>2, <2>4, <3>1
  <2>5. QED
    BY <2>3, <2>4
<1>9. QED
  BY <1>4, <1>5, <1>7, <1>8

LEMMA OneValueIsExclusive ==
    ASSUME NEW d, NEW v \in {AnyValue, BestValue}
    PROVE  <<v>> \in Seq(Offered) /\ Exclusive(<<v>>, d)
<1>1. <<v>> \in Seq(Offered) /\ <<v>> # <<>> /\ DOMAIN <<v>> = {1}
  BY DEF Offered
<1>2. IsInjective(<<v>>)
  BY <1>1 DEF IsInjective
<1>3. QED
  BY <1>1, <1>2 DEF Exclusive

LEMMA NewRuleIs ==
    ASSUME NEW id \in RuleIds, NEW n \in Nat
    PROVE  Rule(id, n) \in Rows /\ Rule(id, n).id = id /\ Rule(id, n).priority = n
<1>1. AnyWants \in AllWants
  <2>1. ASSUME NEW d \in ToSet(Dimensions)
        PROVE  (IF d = "fps" THEN <<BestValue>> ELSE <<AnyValue>>) \in Seq(Offered)
               /\ Exclusive(IF d = "fps" THEN <<BestValue>> ELSE <<AnyValue>>, d)
    BY OneValueIsExclusive
  <2>2. QED
    BY <2>1 DEF AnyWants, AllWants
<1>2. QED
  BY <1>1 DEF Rule, Rows

\* A press on a value: "any" stays exclusive with specific values.
LEMMA ToggledIs ==
    ASSUME NEW c \in Criteria, ~Wildcard(c[1], c[2]), NEW values \in Seq(Offered), Exclusive(values, c[1])
    PROVE  Toggled(values, c[2]) \in Seq(Offered) /\ Exclusive(Toggled(values, c[2]), c[1])
<1> DEFINE d == c[1]
           v == c[2]
           drop == {AnyValue, BestValue, v}
           w == Without(values, drop)
           specific == Values(d) \ {AnyValue, BestValue}
<1>1. v \in specific /\ v \in Offered
  <2>1. v # AnyValue /\ v # BestValue
    BY CriteriaAssumption DEF Wildcard
  <2>2. v \in Values(d) /\ v \in Offered
    BY DEF Values, Offered
  <2>3. QED
    BY <2>1, <2>2
<1>2. /\ w \in Seq(Offered) /\ DOMAIN w = 1..Len(w) /\ Len(w) \in Nat
      /\ \A i \in DOMAIN w : \E j \in DOMAIN values : w[i] = values[j]
      /\ \A i \in DOMAIN w : w[i] \notin drop
      /\ IsInjective(w)
  <2> HIDE DEF drop
  <2>1. IsInjective(values)
    BY DEF Exclusive
  <2>2. w \in Seq(Offered) /\ (\A i \in DOMAIN w : \E j \in DOMAIN values : w[i] = values[j])
        /\ (\A i \in DOMAIN w : w[i] \notin drop) /\ IsInjective(w)
    BY <2>1, WithoutLeaves
  <2> HIDE DEF w
  <2>3. QED
    BY <2>2
<1>3. ASSUME NEW i \in DOMAIN w PROVE w[i] \in specific
  <2>1. PICK j \in DOMAIN values : w[i] = values[j]
    BY <1>2
  <2>2. w[i] # AnyValue /\ w[i] # BestValue
    BY <1>2
  <2>3. CASE \E u \in {AnyValue, BestValue} : values = <<u>>
    <3>1. PICK u \in {AnyValue, BestValue} : values = <<u>>
      BY <2>3
    <3>2. values[j] = u
      BY <3>1
    <3>3. QED
      BY <2>1, <2>2, <3>2
  <2>4. CASE ToSet(values) \subseteq specific
    BY <2>1, <2>4 DEF ToSet
  <2>5. QED
    BY <2>3, <2>4 DEF Exclusive
<1> HIDE DEF w, specific, drop
<1>4. w # <<>> => Exclusive(w, d)
  <2>1. ToSet(w) \subseteq specific
    BY <1>3 DEF ToSet
  <2>2. QED
    BY <1>2, <2>1 DEF Exclusive, specific
<1>5. Append(w, v) \in Seq(Offered) /\ Exclusive(Append(w, v), d)
  <2> DEFINE a == Append(w, v)
  <2>1. /\ a \in Seq(Offered) /\ a # <<>> /\ Len(a) = Len(w) + 1 /\ DOMAIN a = 1..(Len(w) + 1)
        /\ a[Len(w) + 1] = v /\ \A i \in 1..Len(w) : a[i] = w[i]
        /\ \A i \in DOMAIN a : i = Len(w) + 1 \/ i \in 1..Len(w)
    <3>1. w \in Seq(Offered) /\ v \in Offered
      BY <1>1, <1>2
    <3> HIDE DEF v
    <3>2. a \in Seq(Offered) /\ Len(a) = Len(w) + 1 /\ Len(w) \in Nat
      BY <3>1
    <3>3. a # <<>> /\ DOMAIN a = 1..(Len(w) + 1)
      BY <3>2
    <3>4. a[Len(w) + 1] = v /\ \A i \in 1..Len(w) : a[i] = w[i]
      BY <3>1
    <3> HIDE DEF a
    <3>5. QED
      BY <3>2, <3>3, <3>4
  <2> HIDE DEF a
  <2>2. \A i \in 1..Len(w) : w[i] # v
    BY <1>2 DEF drop
  <2>3. IsInjective(a)
    BY <2>1, <2>2, <1>2 DEF IsInjective
  <2>4. \A i \in DOMAIN a : a[i] \in specific
    BY <2>1, <1>1, <1>2, <1>3
  <2>5. ToSet(a) \subseteq specific
    BY <2>4 DEF ToSet
  <2>6. QED
    BY <2>1, <2>3, <2>5 DEF Exclusive, specific, a
<1>6. <<AnyValue>> \in Seq(Offered) /\ Exclusive(<<AnyValue>>, d)
  BY OneValueIsExclusive
<1>7. Toggled(values, v) = IF Contains(values, v) THEN IF w = <<>> THEN <<AnyValue>> ELSE w ELSE Append(w, v)
  BY DEF Toggled, w, drop
<1>8. QED
  BY <1>2, <1>4, <1>5, <1>6, <1>7

LEMMA CriterionIs ==
    ASSUME NEW c \in Criteria, NEW r \in Rows
    PROVE  LET new == WithCriterion(r, c[1], c[2])
           IN  new \in Rows /\ new.id = r.id /\ new.priority = r.priority
<1> DEFINE value == IF Wildcard(c[1], c[2]) THEN <<c[2]>> ELSE Toggled(r.wants[c[1]], c[2])
           w == [r.wants EXCEPT ![c[1]] = value]
<1>1. c[1] \in ToSet(Dimensions)
  BY CriteriaAssumption
<1>2. r.wants \in AllWants
  BY DEF Rows
<1>3. r.wants[c[1]] \in Seq(Offered) /\ Exclusive(r.wants[c[1]], c[1])
  BY <1>1, <1>2 DEF AllWants
<1>4. value \in Seq(Offered) /\ Exclusive(value, c[1])
  <2>1. CASE Wildcard(c[1], c[2])
    <3>1. c[2] \in {AnyValue, BestValue}
      BY <2>1 DEF Wildcard
    <3>2. QED
      BY <2>1, <3>1, OneValueIsExclusive
  <2>2. CASE ~Wildcard(c[1], c[2])
    BY <2>2, <1>3, ToggledIs
  <2>3. QED
    BY <2>1, <2>2
<1> HIDE DEF value
<1>5. w \in AllWants
  BY <1>1, <1>2, <1>4 DEF AllWants
<1>6. WithCriterion(r, c[1], c[2]) = [r EXCEPT !.wants = w]
  BY DEF WithCriterion, value, Rows
<1> HIDE DEF w
<1>7. QED
  BY <1>5, <1>6 DEF Rows

(***************************************************************************)
(* Moves.                                                                  *)
(***************************************************************************)
DistinctIds(list) == \A k, l \in 1..Len(list) : list[k].id = list[l].id => k = l
Exchanged(k, i, t) == CASE k = i -> t [] k = t -> i [] OTHER -> k

LEMMA RenumberedIs ==
    ASSUME NEW list \in Seq(Rows), NEW i \in 1..Len(list), NEW t \in 1..Len(list), t # i, DistinctIds(list)
    PROVE  LET L == Renumbered(list, i, t) IN
           /\ L \in Seq(Rows) /\ Len(L) = Len(list) /\ L # <<>>
           /\ \A k \in 1..Len(list) : L[k].priority = k - 1 /\ L[k].id = list[Exchanged(k, i, t)].id
           /\ DistinctIds(L)
           /\ \A k \in 1..Len(list) : \E l \in 1..Len(list) : list[k].id = L[l].id
<1> DEFINE n == Len(list)
           L == Renumbered(list, i, t)
<1>1. n \in Nat /\ DOMAIN list = 1..n /\ n > 0 /\ i # 0 /\ \A k \in 1..n : list[k] \in Rows
  OBVIOUS
<1>2. \A k \in 1..n : Exchanged(k, i, t) \in 1..n
  BY DEF Exchanged
<1>3. L = [k \in 1..n |-> [list[Exchanged(k, i, t)] EXCEPT !.priority = k - 1]]
  BY <1>1 DEF Renumbered, Exchanged
<1> HIDE DEF L, n
<1>4. ASSUME NEW k \in 1..n
      PROVE  L[k] \in Rows /\ L[k].priority = k - 1 /\ L[k].id = list[Exchanged(k, i, t)].id
  <2>1. list[Exchanged(k, i, t)] \in Rows /\ k - 1 \in Nat
    <3>1. Exchanged(k, i, t) \in 1..n
      BY <1>2
    <3>2. list[Exchanged(k, i, t)] \in Rows
      BY <3>1, <1>1
    <3>3. QED
      BY <3>2, <1>1
  <2>2. L[k] = [list[Exchanged(k, i, t)] EXCEPT !.priority = k - 1]
    BY <1>3
  <2>3. QED
    BY <2>1, <2>2 DEF Rows
<1>5. L \in Seq(Rows) /\ Len(L) = n /\ DOMAIN L = 1..n
  <2>1. L = [k \in 1..n |-> L[k]]
    BY <1>3
  <2>2. L \in [1..n -> Rows]
    BY <1>4, <2>1
  <2>3. QED
    BY <2>2, <1>1
<1>6. \A k, l \in 1..n : Exchanged(k, i, t) = Exchanged(l, i, t) => k = l
  BY DEF Exchanged
<1>7. ASSUME NEW k \in 1..n, NEW l \in 1..n, L[k].id = L[l].id PROVE k = l
  <2>1. Exchanged(k, i, t) \in 1..n /\ Exchanged(l, i, t) \in 1..n
    BY <1>2
  <2>2. list[Exchanged(k, i, t)].id = list[Exchanged(l, i, t)].id
    BY <1>4, <1>7
  <2>3. Exchanged(k, i, t) = Exchanged(l, i, t)
    BY <2>1, <2>2 DEF DistinctIds, n
  <2>4. QED
    BY <2>3, <1>6
<1>8. ASSUME NEW k \in 1..n PROVE \E l \in 1..n : list[k].id = L[l].id
  <2>1. Exchanged(k, i, t) \in 1..n /\ Exchanged(Exchanged(k, i, t), i, t) = k
    BY <1>2 DEF Exchanged
  <2>2. QED
    BY <2>1, <1>4
<1>9. L # <<>>
  BY <1>1, <1>5
<1>10. DistinctIds(L)
  BY <1>5, <1>7 DEF DistinctIds
<1>11. QED
  BY <1>4, <1>5, <1>8, <1>9, <1>10 DEF L, n

\* Every rule has the place that its row has in L.
IsNumbered(R, L, n) ==
    /\ \A x \in R : \E k \in 1..n : x.id = L[k].id
    /\ \A k \in 1..n : \E x \in R : x.id = L[k].id /\ x.priority = k - 1

\* Every position is a rule's own, and none is past the end.
Ordered(R) ==
    /\ \A x \in R : x.priority < Cardinality(R)
    /\ \A x, y \in R : x # y => x.priority # y.priority

\* When every row has its new position, the order is as shown and as applied,
\* and one rule has moved by one place.
LEMMA MoveIsDone ==
    ASSUME NEW R, TableOK(R), NEW list \in Seq(Rows), NEW i \in 1..Len(list), NEW delta \in {-1, 1},
           i + delta \in 1..Len(list),
           DistinctIds(list),
           IsNumbered(R, Renumbered(list, i, i + delta), Len(list))
    PROVE  /\ Listed(R) = AsApplied(R)
           /\ Moved(Ids(list), Ids(Listed(R)), list[i].id, delta)
           /\ Ordered(R)
<1> DEFINE n == Len(list)
           t == i + delta
           L == Renumbered(list, i, t)
           s == [k \in 1..n |-> CHOOSE x \in R : x.id = L[k].id /\ x.priority = k - 1]
<1>1. n \in Nat /\ i \in 1..n /\ t \in 1..n /\ t # i /\ i \in Int
  OBVIOUS
<1>2. /\ \A k \in 1..n : L[k].priority = k - 1 /\ L[k].id = list[Exchanged(k, i, t)].id
  <2> HIDE DEF t
  <2>1. t \in 1..Len(list) /\ t # i
    BY <1>1
  <2>2. QED
    BY <2>1, RenumberedIs
<1>3. /\ \A x \in R : \E k \in 1..n : x.id = L[k].id
      /\ \A k \in 1..n : \E x \in R : x.id = L[k].id /\ x.priority = k - 1
  BY DEF IsNumbered
<1> HIDE DEF L, t, n
<1>4. \A k \in 1..n : s[k] \in R /\ s[k].id = L[k].id /\ s[k].priority = k - 1
  BY <1>3
<1>5. ASSUME NEW x \in R PROVE \E k \in 1..n : s[k] = x
  <2>1. PICK k \in 1..n : x.id = L[k].id
    BY <1>3
  <2>2. s[k] \in R /\ s[k].id = x.id
    BY <2>1, <1>4
  <2>3. s[k] = x
    BY <2>2 DEF TableOK
  <2>4. QED
    BY <2>3
<1>6. s \in [1..n -> R]
  BY <1>4
<1> HIDE DEF s
<1>7. \A x \in R : x \in Rows
  BY DEF TableOK
<1>8. n = Cardinality(R) /\ s = Listed(R)
  <2> DEFINE key == [r \in R |-> <<r.priority, r.created>>]
  <2>1. HaveKeys(R, key)
    BY ListedHasKeys
  <2>2. ASSUME NEW k \in 1..n, NEW l \in 1..n, k < l PROVE Before(key[s[k]], key[s[l]])
    <3>1. key[s[k]] = <<k - 1, s[k].created>> /\ key[s[l]] = <<l - 1, s[l].created>>
      BY <1>4
    <3>2. k - 1 < l - 1
      BY <2>2, <1>1
    <3> HIDE DEF key
    <3>3. DOMAIN key[s[k]] = 1..2 /\ key[s[k]][1] = k - 1 /\ key[s[l]][1] = l - 1
      BY <3>1
    <3>4. QED
      BY <3>2, <3>3, TheFirstDecides
  <2> HIDE DEF key
  <2>3. Ascends(s, n, R, key)
    BY <1>1, <1>5, <1>6, <2>2 DEF Ascends
  <2>5. n = Cardinality(R) /\ s = Sorted(R, key)
    BY <2>1, <2>3, SortedIsUnique
  <2>6. QED
    BY <2>5 DEF Listed, key
<1>9. s = AsApplied(R)
  <2> DEFINE key == [r \in R |-> <<r.priority, r.id>>]
  <2>1. HaveKeys(R, key)
    <3>1. MatchRules(R)
      BY RowsMatch DEF TableOK
    <3>2. QED
      BY <3>1, RuleKeys
  <2>2. ASSUME NEW k \in 1..n, NEW l \in 1..n, k < l PROVE Before(key[s[k]], key[s[l]])
    <3>1. key[s[k]] = <<k - 1, s[k].id>> /\ key[s[l]] = <<l - 1, s[l].id>>
      BY <1>4
    <3>2. k - 1 < l - 1
      BY <2>2, <1>1
    <3> HIDE DEF key
    <3>3. DOMAIN key[s[k]] = 1..2 /\ key[s[k]][1] = k - 1 /\ key[s[l]][1] = l - 1
      BY <3>1
    <3>4. QED
      BY <3>2, <3>3, TheFirstDecides
  <2> HIDE DEF key
  <2>3. Ascends(s, n, R, key)
    BY <1>1, <1>5, <1>6, <2>2 DEF Ascends
  <2>5. s = Sorted(R, key)
    BY <2>1, <2>3, SortedIsUnique
  <2>6. QED
    BY <2>5 DEF AsApplied, key
<1> DEFINE b == Ids(list)
           a == Ids(Listed(R))
           id == list[i].id
<1>10. /\ b \in Seq(RuleIds) /\ Len(b) = n /\ DOMAIN b = 1..n
       /\ \A k \in 1..n : b[k] = list[k].id
  <2>1. DOMAIN list = 1..n /\ \A k \in 1..n : list[k] \in Rows
    BY DEF n
  <2>2. \A k \in 1..n : list[k].id \in RuleIds
    BY <2>1 DEF Rows
  <2>3. b = [k \in 1..n |-> list[k].id]
    BY <2>1 DEF Ids
  <2> HIDE DEF b
  <2>4. b \in [1..n -> RuleIds]
    BY <2>2, <2>3
  <2>5. b \in Seq(RuleIds) /\ Len(b) = n /\ DOMAIN b = 1..n
    BY <2>4, <1>1
  <2>6. \A k \in 1..n : b[k] = list[k].id
    BY <2>3
  <2>7. QED
    BY <2>5, <2>6
<1>11. /\ a \in Seq(RuleIds) /\ Len(a) = n /\ DOMAIN a = 1..n
       /\ \A k \in 1..n : a[k] = b[Exchanged(k, i, t)]
  <2>1. DOMAIN s = 1..n /\ \A k \in 1..n : s[k].id \in RuleIds
    BY <1>4, <1>6, <1>7 DEF Rows
  <2>2. a = [k \in 1..n |-> s[k].id]
    BY <2>1, <1>8 DEF Ids
  <2>3. \A k \in 1..n : s[k].id = list[Exchanged(k, i, t)].id
    BY <1>2, <1>4
  <2>4. \A k \in 1..n : Exchanged(k, i, t) \in 1..n
    BY <1>1 DEF Exchanged
  <2> HIDE DEF a, b
  <2>5. a \in [1..n -> RuleIds]
    BY <2>1, <2>2
  <2>6. ASSUME NEW k \in 1..n PROVE a[k] = b[Exchanged(k, i, t)]
    <3>1. a[k] = s[k].id
      BY <2>2
    <3>2. b[Exchanged(k, i, t)] = list[Exchanged(k, i, t)].id
      BY <2>4, <1>10
    <3>3. QED
      BY <3>1, <3>2, <2>3
  <2>7. QED
    BY <2>5, <2>6, <1>1
<1> HIDE DEF a, b
<1>12. \A k, l \in 1..n : b[k] = b[l] => k = l
  BY <1>10 DEF n, DistinctIds
<1>13. b[i] = id /\ a[t] = id /\ a[i] = b[t]
  BY <1>1, <1>10, <1>11 DEF Exchanged
<1>14. \A k \in 1..n : k # i /\ k # t => b[k] = a[k]
  BY <1>11 DEF Exchanged
<1> HIDE DEF id
<1>15. ASSUME NEW k \in 1..n PROVE (b[k] = id <=> k = i) /\ (a[k] = id <=> k = t)
  <2>1. \A l \in 1..n : b[l] = id <=> l = i
    BY <1>1, <1>12, <1>13
  <2>2. Exchanged(k, i, t) \in 1..n /\ (Exchanged(k, i, t) = i <=> k = t)
    BY <1>1 DEF Exchanged
  <2>3. QED
    BY <2>1, <2>2, <1>11
<1>16. Without(b, {id}) = Without(a, {id})
  <2>1. CASE delta = 1
    <3>1. t = i + 1 /\ i \in 1..(Len(b) - 1)
      BY <1>1, <1>10, <2>1 DEF t
    <3>2. b[i] = a[i + 1] /\ b[i + 1] = a[i] /\ b[i] = id /\ b[i + 1] # id
      BY <1>1, <1>13, <1>15, <3>1
    <3>3. (b[i] = id) # (b[i + 1] = id)
      BY <3>2
    <3>4. \A k \in 1..Len(b) : k # i /\ k # i + 1 => b[k] = a[k]
      BY <1>10, <1>14, <3>1
    <3>5. AreExchanged(b, a, i, id)
      BY <3>1, <3>2, <3>3, <3>4, <1>10, <1>11 DEF AreExchanged
    <3>6. QED
      BY <3>5, <1>10, <1>11, WithoutANeighbour
  <2>2. CASE delta = -1
    <3>1. i = t + 1 /\ t \in 1..(Len(b) - 1)
      BY <1>1, <1>10, <2>2 DEF t
    <3>2. b[t] = a[t + 1] /\ b[t + 1] = a[t] /\ b[t] # id /\ b[t + 1] = id
      BY <1>1, <1>13, <1>15, <3>1
    <3>3. (b[t] = id) # (b[t + 1] = id)
      BY <3>2
    <3>4. \A k \in 1..Len(b) : k # t /\ k # t + 1 => b[k] = a[k]
      BY <1>10, <1>14, <3>1
    <3>5. AreExchanged(b, a, t, id)
      BY <3>1, <3>2, <3>3, <3>4, <1>10, <1>11 DEF AreExchanged
    <3>6. QED
      BY <3>5, <1>10, <1>11, WithoutANeighbour
  <2>3. QED
    BY <2>1, <2>2
<1>17. /\ (CHOOSE k \in DOMAIN b : b[k] = id) = i
       /\ (CHOOSE k \in DOMAIN a : a[k] = id) = t
  BY <1>1, <1>10, <1>11, <1>15
<1>18. Moved(b, a, id, delta)
  BY <1>16, <1>17 DEF Moved, t
<1>19. /\ \A x \in R : x.priority < Cardinality(R)
       /\ \A x, y \in R : x # y => x.priority # y.priority
  <2>1. ASSUME NEW x \in R PROVE \E k \in 1..n : x = s[k] /\ x.priority = k - 1
    <3>1. PICK k \in 1..n : s[k] = x
      BY <1>5
    <3>2. QED
      BY <3>1, <1>4
  <2>2. ASSUME NEW x \in R, NEW y \in R, x.priority = y.priority PROVE x = y
    <3>1. PICK k \in 1..n : x = s[k] /\ x.priority = k - 1
      BY <2>1
    <3>2. PICK l \in 1..n : y = s[l] /\ y.priority = l - 1
      BY <2>1
    <3>3. k = l
      BY <3>1, <3>2, <2>2, <1>1
    <3>4. QED
      BY <3>1, <3>2, <3>3
  <2>3. ASSUME NEW x \in R PROVE x.priority < n
    <3>1. PICK k \in 1..n : x.priority = k - 1
      BY <2>1
    <3>2. QED
      BY <3>1, <1>1
  <2>4. QED
    BY <2>2, <2>3, <1>8
<1>20. QED
  BY <1>8, <1>9, <1>18, <1>19 DEF a, b, id, Ordered

-----------------------------------------------------------------------------
(***************************************************************************)
(* The inductive invariant: what each handler holds, and the tables.       *)
(***************************************************************************)
Dos == {"favorites", "fadd", "frtoggle", "enable", "dup", "delete", "move", "strategy", "auto_audio",
        "preferred", "all", "ftoggle", "freset", "fmt", "fmta"}
WithSession == {"preferred", "all", "ftoggle", "freset", "fmt", "fmta"}

ButtonOK(b) ==
    /\ b.do \in Dos
    /\ b.do = "frtoggle" => b.criterion \in Criteria
    /\ b.do = "move" => b.delta \in {-1, 1}
    /\ b.do = "strategy" => b.as \in {"best", "smallest", "ready"}
    /\ b.do \in {"preferred", "all"} => b.page \in Nat
    /\ b.do \in WithSession => b.session \in Sessions
    /\ b.do = "fmt" => b.video \in Keys(Videos(Formats[b.session]))
    /\ b.do = "fmta" => /\ b.video \in Keys({f \in Videos(Formats[b.session]) : f.separate})
                        /\ b.audio \in Keys(Tracks(b.session))

\* Where the handler of a button can be.
Stages(do) ==
    CASE do = "favorites" -> {"ensure", "default"}
      [] do = "fadd" -> {"list", "write", "ensure", "default"}
      [] do = "frtoggle" -> {"get", "write"}
      [] do = "enable" -> {"get", "write", "ensure", "default"}
      [] do = "dup" -> {"get", "source", "list", "write", "ensure", "default"}
      [] do = "move" -> {"get", "list", "write", "ensure", "default"}
      [] do = "delete" -> {"get", "delete", "ensure", "default"}
      [] do \in {"strategy", "auto_audio"} -> {"settings", "insert", "save"}
      [] do = "preferred" -> {"settings", "insert", "ensure", "default", "show"}
      [] do \in {"all", "ftoggle"} -> {"filters", "reset", "filtered"}
      [] do = "freset" -> {"reset"}
      [] do = "fmt" -> {"settings", "insert"}
      [] OTHER -> {"submit"}

Fields == {"pc", "button", "copy", "list", "todo", "stale"}
SettingsSet == [strategy : {"best", "smallest", "ready"}, automatic_audio : BOOLEAN]
StoredSettings == SettingsSet \cup {None}
Holding == {"write", "default"}

Active(me) ==
    /\ DOMAIN me = Fields /\ ButtonOK(me.button) /\ me.pc \in Stages(me.button.do) /\ me.stale \in BOOLEAN
    /\ me.pc = "save" => me.copy \in SettingsSet
    /\ me.pc = "list" /\ me.button.do = "dup" => me.copy \in Rows
    /\ me.pc \in {"default", "show"} => me.list \in Seq(Rows) /\ DistinctIds(me.list)
    /\ me.pc \in Holding => me.todo \in Seq(Rows) /\ me.todo # <<>>

\* No row of U is held, and those of G that are held are in K.
Held(me, U, G, K) ==
    me.pc \in Holding =>
       \A k \in DOMAIN me.todo : me.todo[k].id \notin U /\ (me.todo[k].id \in G => me.todo[k].id \in K)

\* A move that has written j of its rows.
MovingAt(me, R, i, j) ==
    LET n == Len(me.list)
        t == i + me.button.delta
        L == Renumbered(me.list, i, t)
    IN  /\ me.list \in Seq(Rows) /\ DistinctIds(me.list) /\ i \in 1..n /\ t \in 1..n /\ j \in 0..(n - 1)
        /\ me.list[i].id = me.button.rule
        /\ \A x \in R : \E k \in 1..n : x.id = me.list[k].id
        /\ \A k \in 1..n : \E x \in R : x.id = me.list[k].id
        /\ Len(me.todo) = n - j /\ \A k \in 1..(n - j) : me.todo[k] = L[j + k]
        /\ \A k \in 1..j : \E x \in R : x.id = L[k].id /\ x.priority = k - 1

\* What a handler that nobody has disturbed knows of the rules.
Fresh(me, R) ==
    me.pc \in Holding /\ ~me.stale =>
       /\ me.pc = "write" /\ me.button.do = "move" => \E i, j \in Nat : MovingAt(me, R, i, j)
       /\ me.pc = "write" /\ me.button.do \in {"enable", "frtoggle"} =>
             Len(me.todo) = 1 /\ \E x \in R : x.id = me.todo[1].id /\ x.priority = me.todo[1].priority
       /\ me.pc = "write" /\ me.button.do \in {"fadd", "dup"} =>
             Len(me.todo) = 1 /\ (\A x \in R : x.id # me.todo[1].id) /\ me.todo[1].priority = Cardinality(R)
       /\ me.pc = "default" => Len(me.todo) = 1 /\ R = {} /\ me.todo[1].priority = 0

Local(me, R, U, G, K) ==
    \/ me = Idle
    \/ \E d : me = [pc |-> "done", button |-> [do |-> d]]
    \/ Active(me) /\ Held(me, U, G, K) /\ Fresh(me, R)

PressInv == DOMAIN press = Presses /\ \A q \in Presses : Local(press[q], rules, unused, gone, kept)

TableInv ==
    /\ TableOK(rules) /\ unused \subseteq RuleIds /\ \A r \in rules : r.id \notin unused
    /\ settings \in StoredSettings /\ faults \in 0..MaxFaults /\ inOrder \in BOOLEAN
    /\ kept \subseteq gone /\ gone \cap unused = {}
    /\ DeletedStaysDeleted

Ensuring(me) == me.pc \in {"ensure", "default"}
Reached(me) == me.pc = "show" \/ (me.pc = "done" /\ me.button.do \in {"favorites", "preferred", "fadd"})

\* Who has deleted the last rule, or found none, sees to it that there is one.
NoRuleInv ==
    faults = 0 /\ rules = {} /\ (gone # {} \/ \E q \in Presses : Reached(press[q])) =>
       \E q \in Presses : Ensuring(press[q])

\* Positions of their own, without a gap at the end.
OrderInv == inOrder => Ordered(rules)

ShownInv ==
    shown # None =>
       /\ shown.list \in Seq(Int) /\ shown.asked \in Nat
       /\ shown.visible = OnPage(shown.list, shown.asked, PageSize)

ScreenInv == ShownInv /\ SoundIsRight

FavoritesInv == PressInv /\ TableInv /\ NoRuleInv /\ OrderInv /\ ScreenInv

(***************************************************************************)
(* What an action finds and leaves.                                        *)
(***************************************************************************)
LEMMA LocalIs ==
    ASSUME NEW me, NEW R, NEW U, NEW G, NEW K, Local(me, R, U, G, K), me.pc \notin {"idle", "done"}
    PROVE  Active(me) /\ Held(me, U, G, K) /\ Fresh(me, R)
BY DEF Local, Idle

LEMMA OverIsLocal ==
    ASSUME NEW me, NEW R, NEW U, NEW G, NEW K
    PROVE  Local(Over(me), R, U, G, K)
BY DEF Local, Over

LEMMA LocalStays ==
    ASSUME NEW me, NEW R, NEW U, NEW G, NEW K, Local(me, R, U, G, K), NEW V \in SUBSET U
    PROVE  Local(me, R, V, G, K)
BY DEF Local, Held

\* A handler that is disturbed.
LEMMA LocalIsStale ==
    ASSUME NEW me, NEW R, NEW U, NEW G, NEW K, Local(me, R, U, G, K),
           NEW R2, NEW G2, NEW K2, Held(me, U, G2, K2),
           NEW new, new = IF me.pc \in Holding THEN [me EXCEPT !.stale = TRUE] ELSE me
    PROVE  Local(new, R2, U, G2, K2)
<1>1. CASE me = Idle
  BY <1>1 DEF Local, Idle, Holding
<1>2. CASE \E d : me = [pc |-> "done", button |-> [do |-> d]]
  BY <1>2 DEF Local, Holding
<1>3. CASE Active(me) /\ me.pc \notin Holding
  BY <1>3 DEF Local, Held, Fresh
<1>4. CASE Active(me) /\ me.pc \in Holding
  <2>1. /\ DOMAIN new = Fields /\ new.pc = me.pc /\ new.button = me.button /\ new.copy = me.copy
        /\ new.list = me.list /\ new.todo = me.todo /\ new.stale = TRUE
    BY <1>4 DEF Active, Fields
  <2>2. Active(new)
    BY <1>4, <2>1 DEF Active
  <2>3. Held(new, U, G2, K2)
    BY <2>1 DEF Held
  <2>4. Fresh(new, R2)
    BY <2>1 DEF Fresh
  <2>5. QED
    BY <2>2, <2>3, <2>4 DEF Local
<1>5. QED
  BY <1>1, <1>2, <1>3, <1>4 DEF Local

\* A step that leaves the rules alone.
LEMMA QuietStep ==
    ASSUME PressInv, TableInv, NoRuleInv, OrderInv, NEW p \in Presses, NEW new,
           press' = [press EXCEPT ![p] = new],
           rules' = rules, gone' = gone, kept' = kept, inOrder' = inOrder,
           unused' \subseteq unused, settings' \in StoredSettings, faults' \in 0..MaxFaults,
           faults' = 0 => faults = 0,
           Local(new, rules, unused', gone, kept),
           faults' = 0 /\ rules = {} /\ Reached(new) => Reached(press[p]),
           faults' = 0 /\ rules = {} /\ Ensuring(press[p]) => Ensuring(new)
    PROVE  PressInv' /\ TableInv' /\ NoRuleInv' /\ OrderInv'
<1>1. /\ DOMAIN press' = Presses /\ press'[p] = new
      /\ \A q \in Presses : q # p => press'[q] = press[q]
  BY DEF PressInv
<1>2. PressInv'
  <2>1. ASSUME NEW q \in Presses PROVE Local(press'[q], rules', unused', gone', kept')
    <3>1. CASE q = p
      BY <3>1, <1>1
    <3>2. CASE q # p
      <4>1. Local(press[q], rules, unused, gone, kept)
        BY DEF PressInv
      <4>2. Local(press[q], rules, unused', gone, kept)
        BY <4>1, LocalStays
      <4>3. QED
        BY <3>2, <4>2, <1>1
    <3>3. QED
      BY <3>1, <3>2
  <2>2. QED
    BY <1>1, <2>1 DEF PressInv
<1>3. TableInv'
  BY DEF TableInv, DeletedStaysDeleted
<1>4. NoRuleInv'
  <2>1. SUFFICES ASSUME faults' = 0, rules = {}, gone # {} \/ \E q \in Presses : Reached(press'[q])
                 PROVE  \E q \in Presses : Ensuring(press'[q])
    BY DEF NoRuleInv, Reached, Ensuring
  <2>2. gone # {} \/ \E q \in Presses : Reached(press[q])
    BY <2>1, <1>1
  <2>3. PICK q \in Presses : Ensuring(press[q])
    BY <2>1, <2>2 DEF NoRuleInv
  <2>4. Ensuring(press'[q])
    BY <2>1, <2>3, <1>1
  <2>5. QED
    BY <2>4
<1>5. OrderInv'
  BY DEF OrderInv
<1>6. QED
  BY <1>2, <1>3, <1>4, <1>5

\* Every button is well formed, and its handler begins at one of its stages.
LEMMA ButtonIs ==
    ASSUME NEW b \in Buttons
    PROVE  /\ ButtonOK(b)
           /\ Start(b) \in Stages(b.do) \ (Holding \cup {"save", "show", "done", "idle"})
           /\ Start(b) = "list" => b.do = "fadd"
<1>1. b \in RuleButtons \/ b \in ViewButtons
  BY DEF Buttons
<1>2. ButtonOK(b)
  <2>1. CASE b \in RuleButtons
    BY <2>1 DEF RuleButtons, ButtonOK, Dos, WithSession
  <2>2. CASE b \in [do : {"strategy"}, as : {"best", "smallest", "ready"}] \cup [do : {"auto_audio"}]
    BY <2>2 DEF ButtonOK, Dos, WithSession
  <2>3. CASE b \in [do : {"preferred", "all"}, session : Sessions, page : 0..MaxPage]
    BY <2>3, PageAssumption DEF ButtonOK, Dos, WithSession
  <2>4. CASE \/ b \in [do : {"ftoggle"}, session : Sessions, criterion : Criteria]
             \/ b \in [do : {"freset"}, session : Sessions]
    BY <2>4 DEF ButtonOK, Dos, WithSession
  <2>5. CASE \E s \in Sessions : b \in [do : {"fmt"}, session : {s}, video : Keys(Videos(Formats[s]))]
    <3>1. PICK s \in Sessions : b \in [do : {"fmt"}, session : {s}, video : Keys(Videos(Formats[s]))]
      BY <2>5
    <3> DEFINE V == Keys(Videos(Formats[s]))
    <3>2. b \in [do : {"fmt"}, session : {s}, video : V]
      BY <3>1
    <3>3. V = Keys(Videos(Formats[s]))
      OBVIOUS
    <3> HIDE DEF V
    <3>4. b.do = "fmt" /\ b.session = s /\ b.video \in V
      BY <3>2
    <3>5. QED
      BY <3>3, <3>4 DEF ButtonOK, Dos, WithSession
  <2>6. CASE \E s \in Sessions :
                b \in [do : {"fmta"}, session : {s}, video : Keys({f \in Videos(Formats[s]) : f.separate}),
                       audio : Keys(Tracks(s))]
    <3>1. PICK s \in Sessions :
                b \in [do : {"fmta"}, session : {s}, video : Keys({f \in Videos(Formats[s]) : f.separate}),
                       audio : Keys(Tracks(s))]
      BY <2>6
    <3> DEFINE V == Keys({f \in Videos(Formats[s]) : f.separate})
               A == Keys(Tracks(s))
    <3>2. b \in [do : {"fmta"}, session : {s}, video : V, audio : A]
      BY <3>1
    <3>3. V = Keys({f \in Videos(Formats[s]) : f.separate}) /\ A = Keys(Tracks(s))
      OBVIOUS
    <3> HIDE DEF V, A
    <3>4. b.do = "fmta" /\ b.session = s /\ b.video \in V /\ b.audio \in A
      BY <3>2
    <3>5. QED
      BY <3>3, <3>4 DEF ButtonOK, Dos, WithSession
  <2>7. ASSUME b \in ViewButtons
        PROVE  \/ b \in [do : {"strategy"}, as : {"best", "smallest", "ready"}] \cup [do : {"auto_audio"}]
               \/ b \in [do : {"preferred", "all"}, session : Sessions, page : 0..MaxPage]
               \/ b \in [do : {"ftoggle"}, session : Sessions, criterion : Criteria]
               \/ b \in [do : {"freset"}, session : Sessions]
               \/ \E s \in Sessions : b \in [do : {"fmt"}, session : {s}, video : Keys(Videos(Formats[s]))]
               \/ \E s \in Sessions :
                     b \in [do : {"fmta"}, session : {s}, video : Keys({f \in Videos(Formats[s]) : f.separate}),
                            audio : Keys(Tracks(s))]
    <3> DEFINE V(s) == [do : {"fmt"}, session : {s}, video : Keys(Videos(Formats[s]))]
               A(s) == [do : {"fmta"}, session : {s}, video : Keys({f \in Videos(Formats[s]) : f.separate}),
                        audio : Keys(Tracks(s))]
               B == [do : {"strategy"}, as : {"best", "smallest", "ready"}]
               C == [do : {"auto_audio"}]
               D == [do : {"preferred", "all"}, session : Sessions, page : 0..MaxPage]
               F == [do : {"ftoggle"}, session : Sessions, criterion : Criteria]
               G == [do : {"freset"}, session : Sessions]
    <3>1. b \in B \cup C \cup D \cup F \cup G \cup (UNION {V(s) : s \in Sessions})
               \cup (UNION {A(s) : s \in Sessions})
      BY <2>7 DEF ViewButtons
    <3> HIDE DEF V, A, B, C, D, F, G
    <3>2. \/ b \in B \cup C \/ b \in D \/ b \in F \/ b \in G
          \/ b \in UNION {V(s) : s \in Sessions} \/ b \in UNION {A(s) : s \in Sessions}
      BY <3>1
    <3>3. b \in UNION {V(s) : s \in Sessions} => \E s \in Sessions : b \in V(s)
      OBVIOUS
    <3>4. b \in UNION {A(s) : s \in Sessions} => \E s \in Sessions : b \in A(s)
      OBVIOUS
    <3>5. QED
      BY <3>2, <3>3, <3>4 DEF V, A, B, C, D, F, G
  <2>8. QED
    BY <1>1, <2>1, <2>2, <2>3, <2>4, <2>5, <2>6, <2>7
<1>3. /\ Start(b) \in Stages(b.do) \ (Holding \cup {"save", "show", "done", "idle"})
      /\ Start(b) = "list" => b.do = "fadd"
  BY <1>2 DEF Start, Stages, Holding, ButtonOK, Dos
<1>4. QED
  BY <1>2, <1>3

\* The first rules of a user are a table, in order.
LEMMA InitInv == Init => FavoritesInv
<1> SUFFICES ASSUME Init PROVE FavoritesInv
  OBVIOUS
<1>1. PressInv
  <2>1. DOMAIN press = Presses /\ \A q \in Presses : press[q] = Idle
    BY DEF Init
  <2>2. QED
    BY <2>1 DEF PressInv, Local
<1>2. TableOK(rules) /\ unused \subseteq RuleIds /\ (\A r \in rules : r.id \notin unused) /\ OrderInv
  <2>1. CASE rules = {} /\ unused = RuleIds
    BY <2>1, FS_EmptySet DEF TableOK, OrderInv, Ordered
  <2>2. CASE ~(rules = {} /\ unused = RuleIds)
    <3>1. PICK r \in FirstIds, s \in FirstIds : r # s /\
             /\ rules = {[Rule(r, 0) EXCEPT !.created = 1], [Rule(s, 1) EXCEPT !.created = 2]}
             /\ unused = RuleIds \ {r, s}
      BY <2>2 DEF Init
    <3> DEFINE a == [Rule(r, 0) EXCEPT !.created = 1]
               c == [Rule(s, 1) EXCEPT !.created = 2]
    <3>2. r \in RuleIds /\ s \in RuleIds
      BY RuleIdAssumption
    <3>3. Rule(r, 0) \in Rows /\ Rule(s, 1) \in Rows
      BY <3>2, NewRuleIs
    <3>4. /\ a \in Rows /\ a.id = r /\ a.priority = 0 /\ a.created = 1
          /\ c \in Rows /\ c.id = s /\ c.priority = 1 /\ c.created = 2
      BY <3>3 DEF Rule, Rows
    <3>5. rules = {a, c}
      BY <3>1
    <3> HIDE DEF a, c
    <3>6. IsFiniteSet({a}) /\ Cardinality({a}) = 1 /\ c \notin {a}
      <4>1. c \notin {a}
        BY <3>4
      <4>2. QED
        BY <4>1, FS_Singleton, Zenon
    <3>7. IsFiniteSet({a} \cup {c}) /\ Cardinality({a} \cup {c}) = Cardinality({a}) + 1
      BY <3>6, FS_AddElement
    <3>8. rules = {a} \cup {c}
      BY <3>5
    <3>9. TableOK(rules)
      <4>1. IsFiniteSet(rules) /\ a.id # c.id
        BY <3>1, <3>4, <3>7, <3>8
      <4>2. QED
        BY <3>4, <3>5, <4>1 DEF TableOK
    <3>10. OrderInv
      <4>1. Cardinality(rules) = 2
        BY <3>6, <3>7, <3>8
      <4>2. QED
        BY <3>4, <3>5, <4>1 DEF OrderInv, Ordered
    <3>11. QED
      BY <3>1, <3>4, <3>5, <3>9, <3>10
  <2>3. QED
    BY <2>1, <2>2
<1>3. TableInv
  <2>1. settings \in StoredSettings
    BY DEF Init, DefaultSettings, SettingsSet, StoredSettings
  <2>2. QED
    BY <1>2, <2>1, FaultAssumption DEF TableInv, Init, DeletedStaysDeleted
<1>4. NoRuleInv
  BY DEF Init, NoRuleInv, Reached, Idle
<1>5. ScreenInv
  BY DEF Init, ScreenInv, ShownInv, SoundIsRight, NoSilentVideo, CompanionIsTheOriginal, Automatic
<1>6. QED
  BY <1>1, <1>2, <1>3, <1>4, <1>5 DEF FavoritesInv

(***************************************************************************)
(* The actions that leave the rules alone.                                 *)
(***************************************************************************)
LEMMA ActiveIsLocal ==
    ASSUME NEW me, NEW R, NEW U, NEW G, NEW K, Active(me), me.pc \notin Holding
    PROVE  Local(me, R, U, G, K)
BY DEF Local, Held, Fresh

LEMMA HandlerIs ==
    ASSUME PressInv, NEW p \in Presses, press[p].pc \notin {"idle", "done"}
    PROVE  /\ DOMAIN press = Presses
           /\ Active(press[p]) /\ Held(press[p], unused, gone, kept) /\ Fresh(press[p], rules)
<1>1. Local(press[p], rules, unused, gone, kept)
  BY DEF PressInv
<1>2. QED
  BY <1>1, LocalIs DEF PressInv

LEMMA ScreensStay ==
    ASSUME ScreenInv, UNCHANGED screens
    PROVE  ScreenInv'
BY DEF screens, ScreenInv, ShownInv, SoundIsRight, NoSilentVideo, CompanionIsTheOriginal, Automatic

LEMMA PressStep ==
    ASSUME FavoritesInv, NEW p \in Presses, Press(p)
    PROVE  FavoritesInv'
<1>1. PICK b \in Buttons :
        press' = [press EXCEPT ![p] =
                      [pc |-> Start(b), button |-> b, copy |-> None, list |-> <<>>, todo |-> <<>>,
                       stale |-> FALSE]]
  BY DEF Press
<1> DEFINE new == [pc |-> Start(b), button |-> b, copy |-> None, list |-> <<>>, todo |-> <<>>,
                   stale |-> FALSE]
<1>2. /\ new.pc = Start(b) /\ new.button = b /\ new.stale = FALSE /\ DOMAIN new = Fields
      /\ press' = [press EXCEPT ![p] = new]
  BY <1>1 DEF Fields
<1> HIDE DEF new
<1>3. /\ ButtonOK(b) /\ Start(b) \in Stages(b.do) \ (Holding \cup {"save", "show", "done", "idle"})
      /\ Start(b) = "list" => b.do = "fadd"
  BY ButtonIs
<1>4. Active(new)
  BY <1>2, <1>3 DEF Active, Holding
<1>5. Local(new, rules, unused', gone, kept)
  BY <1>2, <1>3, <1>4, ActiveIsLocal
<1>6. ~Reached(new) /\ ~Ensuring(press[p])
  BY <1>2, <1>3 DEF Reached, Press, At, Ensuring
<1>7. PressInv' /\ TableInv' /\ NoRuleInv' /\ OrderInv'
  BY <1>2, <1>5, <1>6, QuietStep DEF FavoritesInv, Press, tables, history, TableInv
<1>8. ScreenInv'
  BY ScreensStay DEF FavoritesInv, Press
<1>9. QED
  BY <1>7, <1>8 DEF FavoritesInv

\* A rule of the table: nobody may hold it who should not.
LEMMA FoundIs ==
    ASSUME TableInv, NEW id, ById(id, rules) # {}
    PROVE  LET copy == CHOOSE r \in ById(id, rules) : TRUE IN
           /\ copy \in rules /\ copy \in Rows /\ copy.id = id /\ copy.id \notin unused
           /\ copy.id \in gone => copy.id \in kept
<1> DEFINE copy == CHOOSE r \in ById(id, rules) : TRUE
<1>1. copy \in ById(id, rules)
  OBVIOUS
<1> HIDE DEF copy
<1>2. copy \in rules /\ copy.id = id
  BY <1>1 DEF ById
<1>3. QED
  BY <1>2 DEF TableInv, TableOK, DeletedStaysDeleted, copy

LEMMA GetStep ==
    ASSUME FavoritesInv, NEW p \in Presses, Get(p)
    PROVE  FavoritesInv'
<1> DEFINE me == press[p]
           b == me.button
           found == ById(b.rule, rules)
           copy == CHOOSE r \in found : TRUE
           new == press'[p]
<1>1. /\ me.pc = "get" /\ DOMAIN press = Presses /\ Active(me)
      /\ b.do \in {"frtoggle", "enable", "dup", "move", "delete"}
  <2>1. me.pc = "get"
    BY DEF Get, At
  <2>2. DOMAIN press = Presses /\ Active(me)
    BY <2>1, HandlerIs DEF FavoritesInv
  <2>3. QED
    BY <2>1, <2>2 DEF Active, Stages, ButtonOK, Dos
<1>2. /\ UNCHANGED <<tables, screens, faults, history>>
      /\ press' = [press EXCEPT ![p] =
             IF found = {} THEN Over(me)
             ELSE CASE b.do = "frtoggle" -> [me EXCEPT !.pc = "write", !.todo = <<WithCriterion(copy, b.criterion[1], b.criterion[2])>>]
                    [] b.do = "enable" -> [me EXCEPT !.pc = "write", !.todo = <<[copy EXCEPT !.enabled = ~@]>>]
                    [] b.do = "dup" -> [me EXCEPT !.pc = "source"]
                    [] b.do = "move" -> [me EXCEPT !.pc = "list"]
                    [] OTHER -> [me EXCEPT !.pc = "delete"]]
  BY DEF Get
<1>3. press' = [press EXCEPT ![p] = new]
  BY <1>1, <1>2
<1>4. found # {} => /\ copy \in rules /\ copy \in Rows /\ copy.id \notin unused
                    /\ copy.id \in gone => copy.id \in kept
  BY FoundIs DEF FavoritesInv
<1>5. ASSUME found = {}
      PROVE  Local(new, rules, unused, gone, kept) /\ ~Reached(new)
  <2>1. new = Over(me)
    BY <1>1, <1>2, <1>5
  <2>2. Local(new, rules, unused, gone, kept)
    BY <2>1, OverIsLocal
  <2>3. ~Reached(new)
    BY <1>1, <2>1 DEF Reached, Over
  <2>4. QED
    BY <2>2, <2>3
<1>6. ASSUME found # {}, NEW row \in Rows, row.id = copy.id, row.priority = copy.priority,
             b.do \in {"frtoggle", "enable"}, new = [me EXCEPT !.pc = "write", !.todo = <<row>>]
      PROVE  Local(new, rules, unused, gone, kept) /\ ~Reached(new)
  <2>1. /\ DOMAIN new = Fields /\ new.pc = "write" /\ new.button = b /\ new.stale = me.stale
        /\ new.todo = <<row>>
    BY <1>1, <1>6 DEF Active, Fields
  <2>2. new.todo \in Seq(Rows) /\ new.todo # <<>> /\ Len(new.todo) = 1 /\ DOMAIN new.todo = {1} /\ new.todo[1] = row
    BY <1>6, <2>1
  <2>3. Active(new)
    BY <1>1, <1>6, <2>1, <2>2 DEF Active, Stages, Holding
  <2>4. Held(new, unused, gone, kept)
    BY <1>4, <1>6, <2>2 DEF Held
  <2>5. Fresh(new, rules)
    BY <1>4, <1>6, <2>1, <2>2 DEF Fresh
  <2>6. QED
    BY <2>1, <2>3, <2>4, <2>5 DEF Local, Reached
<1>7. ASSUME found # {} /\ b.do = "frtoggle"
      PROVE  Local(new, rules, unused, gone, kept) /\ ~Reached(new)
  <2>1. b.criterion \in Criteria
    BY <1>1, <1>7 DEF Active, ButtonOK
  <2>2. new = [me EXCEPT !.pc = "write", !.todo = <<WithCriterion(copy, b.criterion[1], b.criterion[2])>>]
    BY <1>1, <1>2, <1>7
  <2>3. LET row == WithCriterion(copy, b.criterion[1], b.criterion[2])
        IN  row \in Rows /\ row.id = copy.id /\ row.priority = copy.priority
    BY <1>4, <1>7, <2>1, CriterionIs
  <2>4. QED
    BY <1>6, <1>7, <2>2, <2>3
<1>8. ASSUME found # {} /\ b.do = "enable"
      PROVE  Local(new, rules, unused, gone, kept) /\ ~Reached(new)
  <2>1. new = [me EXCEPT !.pc = "write", !.todo = <<[copy EXCEPT !.enabled = ~@]>>]
    BY <1>1, <1>2, <1>8
  <2> DEFINE row == [copy EXCEPT !.enabled = ~@]
  <2>2. row \in Rows /\ row.id = copy.id /\ row.priority = copy.priority
    BY <1>4, <1>8 DEF Rows
  <2> HIDE DEF row
  <2>3. new = [me EXCEPT !.pc = "write", !.todo = <<row>>]
    BY <2>1 DEF row
  <2>4. QED
    BY <1>6, <1>8, <2>2, <2>3
<1>9. ASSUME found # {} /\ b.do \notin {"frtoggle", "enable"}
      PROVE  Local(new, rules, unused, gone, kept) /\ ~Reached(new)
  <2>1. PICK pc \in {"source", "list", "delete"} :
           new = [me EXCEPT !.pc = pc] /\ pc \in Stages(b.do) /\ (pc = "list" => b.do = "move")
    BY <1>1, <1>2, <1>9 DEF Stages
  <2>2. DOMAIN new = Fields /\ new.pc = pc /\ new.button = b /\ new.stale = me.stale
    BY <1>1, <2>1 DEF Active, Fields
  <2>3. Active(new)
    BY <1>1, <2>1, <2>2 DEF Active, Holding
  <2>4. QED
    BY <2>2, <2>3, ActiveIsLocal DEF Holding, Reached
<1>10. Local(new, rules, unused, gone, kept) /\ ~Reached(new) /\ ~Ensuring(me)
  <2>1. ~Ensuring(me)
    BY <1>1 DEF Ensuring
  <2>2. QED
    BY <1>1, <1>5, <1>7, <1>8, <1>9, <2>1
<1>11. PressInv' /\ TableInv' /\ NoRuleInv' /\ OrderInv'
  <2> HIDE DEF new
  <2>1. unused' = unused /\ rules' = rules /\ gone' = gone /\ kept' = kept /\ inOrder' = inOrder
        /\ settings' = settings /\ faults' = faults
    BY <1>2 DEF tables, history
  <2>2. QED
    BY <1>3, <1>10, <2>1, QuietStep DEF FavoritesInv, TableInv
<1>12. ScreenInv'
  BY <1>2, ScreensStay DEF FavoritesInv
<1>13. QED
  BY <1>11, <1>12 DEF FavoritesInv

\* The list that is read has every rule once.
LEMMA ListIs ==
    ASSUME TableInv
    PROVE  LET list == Listed(rules) IN
           /\ list \in Seq(Rows) /\ DistinctIds(list) /\ Len(list) = Cardinality(rules)
           /\ Cardinality(rules) \in Nat
           /\ \A k \in 1..Len(list) : list[k] \in rules
           /\ \A x \in rules : \E k \in 1..Len(list) : x = list[k]
<1> DEFINE list == Listed(rules)
<1>1. /\ list \in Seq(rules) /\ Len(list) = Cardinality(rules) /\ Cardinality(rules) \in Nat
      /\ DOMAIN list = 1..Len(list)
      /\ \A i \in DOMAIN list : list[i] \in rules
      /\ \A x \in rules : \E i \in DOMAIN list : list[i] = x
      /\ \A i, j \in DOMAIN list : list[i].id = list[j].id => i = j
  BY ListedIs DEF TableInv
<1> HIDE DEF list
<1>2. rules \subseteq Rows
  BY DEF TableInv, TableOK
<1>3. list \in Seq(Rows)
  BY <1>1, <1>2
<1>4. DistinctIds(list)
  BY <1>1 DEF DistinctIds
<1>5. QED
  BY <1>1, <1>3, <1>4 DEF list

LEMMA SourceStep ==
    ASSUME FavoritesInv, NEW p \in Presses, Source(p)
    PROVE  FavoritesInv'
<1> DEFINE me == press[p]
           found == ById(me.button.rule, rules)
           copy == CHOOSE r \in found : TRUE
           new == press'[p]
<1>1. /\ me.pc = "source" /\ DOMAIN press = Presses /\ Active(me) /\ me.button.do = "dup"
  <2>1. me.pc = "source"
    BY DEF Source, At
  <2>2. DOMAIN press = Presses /\ Active(me)
    BY <2>1, HandlerIs DEF FavoritesInv
  <2>3. QED
    BY <2>1, <2>2 DEF Active, Stages, ButtonOK, Dos
<1>2. /\ UNCHANGED <<tables, screens, faults, history>>
      /\ press' = [press EXCEPT ![p] = IF found = {} THEN [me EXCEPT !.pc = "ensure"]
                                       ELSE [me EXCEPT !.pc = "list", !.copy = copy]]
  BY DEF Source
<1>3. /\ press' = [press EXCEPT ![p] = new]
      /\ new = IF found = {} THEN [me EXCEPT !.pc = "ensure"]
               ELSE [me EXCEPT !.pc = "list", !.copy = copy]
  BY <1>1, <1>2
<1>4. found # {} => copy \in Rows
  BY FoundIs DEF FavoritesInv
<1> HIDE DEF new
<1>5. Active(new) /\ new.pc \in {"ensure", "list"}
  <2>1. CASE found = {}
    <3>1. DOMAIN new = Fields /\ new.pc = "ensure" /\ new.button = me.button /\ new.stale = me.stale
      BY <1>1, <1>3, <2>1 DEF Active, Fields
    <3>2. QED
      BY <1>1, <3>1 DEF Active, Stages, Holding
  <2>2. CASE found # {}
    <3>1. /\ DOMAIN new = Fields /\ new.pc = "list" /\ new.button = me.button /\ new.stale = me.stale
          /\ new.copy \in Rows
      BY <1>1, <1>3, <1>4, <2>2 DEF Active, Fields
    <3>2. QED
      BY <1>1, <3>1 DEF Active, Stages, Holding
  <2>3. QED
    BY <2>1, <2>2
<1>6. Local(new, rules, unused, gone, kept) /\ ~Reached(new) /\ ~Ensuring(me)
  BY <1>1, <1>5, ActiveIsLocal DEF Holding, Reached, Ensuring
<1>7. PressInv' /\ TableInv' /\ NoRuleInv' /\ OrderInv'
  <2>1. unused' = unused /\ rules' = rules /\ gone' = gone /\ kept' = kept /\ inOrder' = inOrder
        /\ settings' = settings /\ faults' = faults
    BY <1>2 DEF tables, history
  <2>2. QED
    BY <1>3, <1>6, <2>1, QuietStep DEF FavoritesInv, TableInv
<1>8. ScreenInv'
  BY <1>2, ScreensStay DEF FavoritesInv
<1>9. QED
  BY <1>7, <1>8 DEF FavoritesInv

\* The rows a handler has to write, when it has read the rules.
LEMMA MoveIsPlanned ==
    ASSUME FavoritesInv, NEW p \in Presses, List(p), press[p].button.do = "move"
    PROVE  /\ unused' = unused
           /\ press' = [press EXCEPT ![p] = press'[p]]
           /\ Local(press'[p], rules, unused, gone, kept)
           /\ press'[p].pc \in {"ensure", "write"}
<1> DEFINE me == press[p]
           b == me.button
           list == Listed(rules)
           i == IndexIn(list, b.rule)
           t == Target(i, Len(list), b.delta)
           todo == Renumbered(list, i, t)
           new == press'[p]
<1>1. /\ me.pc = "list" /\ DOMAIN press = Presses /\ Active(me)
      /\ b.do = "move" /\ b.delta \in {-1, 1}
  <2>1. me.pc = "list"
    BY DEF List, At
  <2>2. DOMAIN press = Presses /\ Active(me)
    BY <2>1, HandlerIs DEF FavoritesInv
  <2>3. QED
    BY <2>1, <2>2 DEF Active, ButtonOK
<1>2. /\ unused' = unused
      /\ press' = [press EXCEPT ![p] =
                [me EXCEPT !.pc = IF todo = <<>> THEN "ensure" ELSE "write",
                           !.list = list, !.todo = todo, !.stale = FALSE]]
  BY <1>1 DEF List
<1>3. /\ press' = [press EXCEPT ![p] = new]
      /\ new = [me EXCEPT !.pc = IF todo = <<>> THEN "ensure" ELSE "write",
                          !.list = list, !.todo = todo, !.stale = FALSE]
  BY <1>1, <1>2
<1>4. /\ list \in Seq(Rows) /\ DistinctIds(list) /\ Len(list) \in Nat
      /\ \A k \in 1..Len(list) : list[k] \in rules
      /\ \A x \in rules : \E k \in 1..Len(list) : x = list[k]
  BY ListIs DEF FavoritesInv
<1> HIDE DEF new, list
<1>5. /\ DOMAIN new = Fields /\ new.button = b /\ new.stale = FALSE /\ new.list = list /\ new.todo = todo
      /\ new.pc = IF todo = <<>> THEN "ensure" ELSE "write"
  BY <1>1, <1>3 DEF Active, Fields
<1>6. CASE todo = <<>>
  <2>1. new.pc = "ensure"
    BY <1>5, <1>6
  <2>2. Active(new)
    BY <1>1, <1>5, <2>1 DEF Active, Stages, Holding
  <2>3. QED
    BY <1>2, <1>3, <2>1, <2>2, ActiveIsLocal DEF Holding, new
<1>7. CASE todo # <<>>
  <2>1. i # 0 /\ t # i
    BY <1>7 DEF Renumbered
  <2>2. i \in 1..Len(list) /\ list[i].id = b.rule
    <3>1. \E k \in DOMAIN list : list[k].id = b.rule
      BY <2>1 DEF IndexIn
    <3>2. i \in DOMAIN list /\ list[i].id = b.rule
      BY <3>1 DEF IndexIn
    <3>3. QED
      BY <1>4, <3>2
  <2> HIDE DEF i
  <2>3. t = i + b.delta /\ t \in 1..Len(list)
    BY <1>1, <1>4, <2>1, <2>2 DEF Target
  <2>4. /\ todo \in Seq(Rows) /\ Len(todo) = Len(list)
        /\ \A k \in 1..Len(list) : \E l \in 1..Len(list) : todo[k].id = list[l].id
    <3> HIDE DEF t
    <3>0. todo = Renumbered(list, i, t)
      OBVIOUS
    <3> HIDE DEF todo
    <3>1. /\ todo \in Seq(Rows) /\ Len(todo) = Len(list)
          /\ \A k \in 1..Len(list) : todo[k].id = list[Exchanged(k, i, t)].id
      <4>1. /\ i \in 1..Len(list) /\ t \in 1..Len(list) /\ t # i
            /\ list \in Seq(Rows) /\ DistinctIds(list)
        BY <1>4, <2>1, <2>2, <2>3
      <4>2. LET L == Renumbered(list, i, t) IN
            /\ L \in Seq(Rows) /\ Len(L) = Len(list) /\ L # <<>>
            /\ \A k \in 1..Len(list) : L[k].priority = k - 1 /\ L[k].id = list[Exchanged(k, i, t)].id
            /\ DistinctIds(L)
            /\ \A k \in 1..Len(list) : \E l \in 1..Len(list) : list[k].id = L[l].id
        BY <4>1, RenumberedIs
      <4>3. QED
        BY <3>0, <4>2
    <3>2. \A k \in 1..Len(list) : Exchanged(k, i, t) \in 1..Len(list)
      BY <2>2, <2>3 DEF Exchanged
    <3>3. QED
      BY <3>1, <3>2
  <2>5. todo = Renumbered(list, i, i + b.delta)
    BY <2>3
  <2> HIDE DEF todo, t
  <2>6. new.pc = "write"
    BY <1>5, <1>7
  <2>7. Active(new)
    BY <1>1, <1>5, <1>7, <2>4, <2>6 DEF Active, Stages, Holding
  <2>8. Held(new, unused, gone, kept)
    <3>1. ASSUME NEW k \in DOMAIN new.todo
          PROVE  new.todo[k].id \notin unused /\ (new.todo[k].id \in gone => new.todo[k].id \in kept)
      <4>1. k \in 1..Len(list)
        BY <1>5, <2>4, <3>1
      <4>2. \E x \in rules : todo[k].id = x.id
        BY <1>4, <2>4, <4>1
      <4>3. QED
        BY <1>5, <4>2 DEF FavoritesInv, TableInv, DeletedStaysDeleted
    <3>2. QED
      BY <3>1 DEF Held
  <2>9. MovingAt(new, rules, i, 0)
    <3>1. new.list \in Seq(Rows) /\ DistinctIds(new.list) /\ i \in 1..Len(new.list) /\ 0 \in 0..(Len(new.list) - 1)
      BY <1>4, <1>5, <2>2
    <3>2. i + new.button.delta \in 1..Len(new.list) /\ new.list[i].id = new.button.rule
      BY <1>5, <2>2, <2>3
    <3>3. /\ \A x \in rules : \E k \in 1..Len(new.list) : x.id = new.list[k].id
          /\ \A k \in 1..Len(new.list) : \E x \in rules : x.id = new.list[k].id
      BY <1>4, <1>5
    <3>4. /\ Len(new.todo) = Len(new.list) - 0
          /\ \A k \in 1..(Len(new.list) - 0) :
                new.todo[k] = Renumbered(new.list, i, i + new.button.delta)[0 + k]
      BY <1>4, <1>5, <2>4, <2>5
    <3>5. QED
      BY <3>1, <3>2, <3>3, <3>4 DEF MovingAt
  <2>10. Fresh(new, rules)
    BY <1>5, <2>2, <2>6, <2>9, <1>1 DEF Fresh
  <2>11. QED
    BY <1>2, <1>3, <2>6, <2>7, <2>8, <2>10 DEF Local, new
<1>8. QED
  BY <1>6, <1>7

LEMMA NewRuleIsPlanned ==
    ASSUME FavoritesInv, NEW p \in Presses, List(p), press[p].button.do # "move"
    PROVE  /\ unused' \subseteq unused
           /\ press' = [press EXCEPT ![p] = press'[p]]
           /\ Local(press'[p], rules, unused', gone, kept)
           /\ press'[p].pc = "write"
<1> DEFINE me == press[p]
           b == me.button
           list == Listed(rules)
           new == press'[p]
<1>1. /\ me.pc = "list" /\ DOMAIN press = Presses /\ Active(me)
      /\ b.do \in {"fadd", "dup"}
  <2>1. me.pc = "list"
    BY DEF List, At
  <2>2. DOMAIN press = Presses /\ Active(me)
    BY <2>1, HandlerIs DEF FavoritesInv
  <2>3. QED
    BY <2>1, <2>2 DEF Active, Stages, ButtonOK, Dos
<1>2. \E id \in AFreshId :
         LET row == IF b.do = "fadd" THEN Rule(id, NextPosition(list))
                    ELSE [me.copy EXCEPT !.id = id, !.priority = NextPosition(list)]
         IN  /\ unused' = unused \ {id}
             /\ press' = [press EXCEPT ![p] =
                    [me EXCEPT !.pc = IF <<row>> = <<>> THEN "ensure" ELSE "write",
                               !.list = list, !.todo = <<row>>, !.stale = FALSE]]
  BY <1>1 DEF List
<1>3. PICK id \in unused :
         LET row == IF b.do = "fadd" THEN Rule(id, NextPosition(list))
                    ELSE [me.copy EXCEPT !.id = id, !.priority = NextPosition(list)]
         IN  /\ unused' = unused \ {id}
             /\ press' = [press EXCEPT ![p] =
                    [me EXCEPT !.pc = IF <<row>> = <<>> THEN "ensure" ELSE "write",
                               !.list = list, !.todo = <<row>>, !.stale = FALSE]]
  BY <1>2 DEF AFreshId
<1> DEFINE row == IF b.do = "fadd" THEN Rule(id, NextPosition(list))
                  ELSE [me.copy EXCEPT !.id = id, !.priority = NextPosition(list)]
<1>4. list \in Seq(Rows) /\ NextPosition(list) = Cardinality(rules) /\ Cardinality(rules) \in Nat
  BY ListIs DEF FavoritesInv, NextPosition
<1>5. /\ id \in RuleIds /\ (\A x \in rules : x.id # id) /\ id \notin gone
  BY <1>3 DEF FavoritesInv, TableInv
<1>6. row \in Rows /\ row.id = id /\ row.priority = Cardinality(rules)
  <2>1. CASE b.do = "fadd"
    BY <1>4, <1>5, <2>1, NewRuleIs
  <2>2. CASE b.do # "fadd"
    <3>1. me.copy \in Rows /\ row = [me.copy EXCEPT !.id = id, !.priority = Cardinality(rules)]
      BY <1>1, <1>4, <2>2 DEF Active
    <3>2. QED
      BY <1>4, <1>5, <3>1 DEF Rows
  <2>3. QED
    BY <2>1, <2>2
<1>7. unused' = unused \ {id} /\ press' = [press EXCEPT ![p] =
         [me EXCEPT !.pc = IF <<row>> = <<>> THEN "ensure" ELSE "write",
                    !.list = list, !.todo = <<row>>, !.stale = FALSE]]
  BY <1>3
<1> HIDE DEF row, list
<1>8. /\ press' = [press EXCEPT ![p] = new]
      /\ new = [me EXCEPT !.pc = "write", !.list = list, !.todo = <<row>>, !.stale = FALSE]
  BY <1>1, <1>7
<1> HIDE DEF new
<1>9. /\ DOMAIN new = Fields /\ new.pc = "write" /\ new.button = b /\ new.stale = FALSE
      /\ new.todo = <<row>>
  BY <1>1, <1>8 DEF Active, Fields
<1>10. new.todo \in Seq(Rows) /\ new.todo # <<>> /\ Len(new.todo) = 1 /\ DOMAIN new.todo = {1} /\ new.todo[1] = row
  BY <1>6, <1>9
<1>11. Active(new)
  BY <1>1, <1>9, <1>10 DEF Active, Stages, Holding
<1>12. Held(new, unused', gone, kept)
  BY <1>5, <1>6, <1>7, <1>10 DEF Held
<1>13. Fresh(new, rules)
  BY <1>1, <1>5, <1>6, <1>9, <1>10 DEF Fresh
<1>14. QED
  BY <1>7, <1>8, <1>9, <1>11, <1>12, <1>13 DEF Local, new

LEMMA ListStep ==
    ASSUME FavoritesInv, NEW p \in Presses, List(p)
    PROVE  FavoritesInv'
<1> DEFINE new == press'[p]
<1>1. /\ unused' \subseteq unused
      /\ press' = [press EXCEPT ![p] = new]
      /\ Local(new, rules, unused', gone, kept)
      /\ new.pc \in {"ensure", "write"}
  <2>1. CASE press[p].button.do = "move"
    BY <2>1, MoveIsPlanned
  <2>2. CASE press[p].button.do # "move"
    BY <2>2, NewRuleIsPlanned
  <2>3. QED
    BY <2>1, <2>2
<1>2. UNCHANGED <<rules, settings, filters, screens, faults, history>> /\ press[p].pc = "list"
  BY DEF List, At
<1> HIDE DEF new
<1>3. ~Reached(new) /\ ~Ensuring(press[p])
  BY <1>1, <1>2 DEF Reached, Ensuring
<1>4. PressInv' /\ TableInv' /\ NoRuleInv' /\ OrderInv'
  <2>1. rules' = rules /\ gone' = gone /\ kept' = kept /\ inOrder' = inOrder
        /\ settings' = settings /\ faults' = faults
    BY <1>2 DEF history
  <2>2. QED
    BY <1>1, <1>3, <2>1, QuietStep DEF FavoritesInv, TableInv
<1>5. ScreenInv'
  BY <1>2, ScreensStay DEF FavoritesInv
<1>6. QED
  BY <1>4, <1>5 DEF FavoritesInv

LEMMA EnsureStep ==
    ASSUME FavoritesInv, NEW p \in Presses, Ensure(p)
    PROVE  FavoritesInv'
<1> DEFINE me == press[p]
           b == me.button
           new == press'[p]
<1>1. me.pc = "ensure" /\ DOMAIN press = Presses /\ Active(me)
  <2>1. me.pc = "ensure"
    BY DEF Ensure, At
  <2>2. QED
    BY <2>1, HandlerIs DEF FavoritesInv
<1>2. UNCHANGED <<rules, settings, filters, screens, faults, history>>
  BY DEF Ensure
<1>3. /\ press' = [press EXCEPT ![p] = new]
      /\ unused' \subseteq unused
      /\ Local(new, rules, unused', gone, kept)
      /\ rules = {} => ~Reached(new) /\ Ensuring(new)
  <2>1. CASE rules # {} /\ unused' = unused /\
             press' = [press EXCEPT ![p] = Continues([me EXCEPT !.list = Listed(rules)], Finish(b))]
    <3> DEFINE list == Listed(rules)
    <3>1. list \in Seq(Rows) /\ DistinctIds(list)
      BY ListIs DEF FavoritesInv
    <3> HIDE DEF list
    <3>2. /\ press' = [press EXCEPT ![p] = new]
          /\ new = Continues([me EXCEPT !.list = list], Finish(b))
      BY <1>1, <2>1 DEF list
    <3> HIDE DEF new
    <3>3. CASE b.do = "preferred"
      <4>1. new = [[me EXCEPT !.list = list] EXCEPT !.pc = "show"]
        BY <3>2, <3>3 DEF Continues, Finish
      <4>2. /\ DOMAIN new = Fields /\ new.pc = "show" /\ new.button = b /\ new.stale = me.stale
            /\ new.list = list
        BY <1>1, <4>1 DEF Active, Fields
      <4>3. Active(new)
        BY <1>1, <3>1, <3>3, <4>2 DEF Active, Stages, Holding
      <4>4. QED
        BY <2>1, <3>2, <4>2, <4>3, ActiveIsLocal DEF Holding
    <3>4. CASE b.do # "preferred"
      <4>1. new = Over([me EXCEPT !.list = list])
        BY <3>2, <3>4 DEF Continues, Finish
      <4> DEFINE was == [me EXCEPT !.list = list]
      <4>2. new = Over(was)
        BY <4>1
      <4> HIDE DEF was
      <4>3. Local(new, rules, unused', gone, kept)
        BY <4>2, OverIsLocal
      <4>4. QED
        BY <2>1, <3>2, <4>3
    <3>5. QED
      BY <3>3, <3>4
  <2>2. CASE rules = {} /\ \E id \in AFreshId :
             LET default == <<Rule(id, 0)>> IN
                /\ press' = [press EXCEPT ![p] =
                        [me EXCEPT !.list = default, !.todo = default, !.stale = FALSE, !.pc = "default"]]
                /\ unused' = unused \ {id}
    <3>1. PICK id \in unused :
                /\ press' = [press EXCEPT ![p] =
                        [me EXCEPT !.list = <<Rule(id, 0)>>, !.todo = <<Rule(id, 0)>>, !.stale = FALSE,
                                   !.pc = "default"]]
                /\ unused' = unused \ {id}
      BY <2>2 DEF AFreshId
    <3> DEFINE row == Rule(id, 0)
    <3>2. row \in Rows /\ row.id = id /\ row.priority = 0 /\ id \notin gone
      BY <3>1, NewRuleIs DEF FavoritesInv, TableInv
    <3> HIDE DEF row
    <3>3. /\ press' = [press EXCEPT ![p] = new]
          /\ new = [me EXCEPT !.list = <<row>>, !.todo = <<row>>, !.stale = FALSE, !.pc = "default"]
      BY <1>1, <3>1 DEF row
    <3> HIDE DEF new
    <3>4. /\ DOMAIN new = Fields /\ new.pc = "default" /\ new.button = b /\ new.stale = FALSE
          /\ new.list = <<row>> /\ new.todo = <<row>>
      BY <1>1, <3>3 DEF Active, Fields
    <3>5. /\ new.todo \in Seq(Rows) /\ new.todo # <<>> /\ Len(new.todo) = 1 /\ DOMAIN new.todo = {1}
          /\ new.todo[1] = row /\ DistinctIds(new.list) /\ new.list \in Seq(Rows)
      BY <3>2, <3>4 DEF DistinctIds
    <3>6. Active(new)
      <4>1. "default" \in Stages(b.do)
        BY <1>1 DEF Active, Stages, ButtonOK, Dos
      <4>2. QED
        BY <1>1, <3>4, <3>5, <4>1 DEF Active, Holding
    <3>7. Held(new, unused', gone, kept)
      BY <3>1, <3>2, <3>5 DEF Held
    <3>8. Fresh(new, rules)
      BY <2>2, <3>2, <3>4, <3>5 DEF Fresh
    <3>9. QED
      BY <3>1, <3>3, <3>4, <3>6, <3>7, <3>8 DEF Local, Reached, Ensuring
  <2>3. QED
    BY <2>1, <2>2 DEF Ensure
<1> HIDE DEF new
<1>4. PressInv' /\ TableInv' /\ NoRuleInv' /\ OrderInv'
  <2>1. rules' = rules /\ gone' = gone /\ kept' = kept /\ inOrder' = inOrder
        /\ settings' = settings /\ faults' = faults
    BY <1>2 DEF history
  <2>2. QED
    BY <1>3, <2>1, QuietStep DEF FavoritesInv, TableInv
<1>5. ScreenInv'
  BY <1>2, ScreensStay DEF FavoritesInv
<1>6. QED
  BY <1>4, <1>5 DEF FavoritesInv

\* A handler that ends without a word about the rules.
LEMMA EndStep ==
    ASSUME FavoritesInv, NEW p \in Presses, Ends(p),
           press[p].pc \notin {"idle", "done"},
           rules' = rules, unused' = unused, UNCHANGED history, settings' \in StoredSettings,
           \/ faults' = faults /\ press[p].pc \in {"show"}
           \/ /\ faults' = faults /\ ~Ensuring(press[p])
              /\ press[p].button.do \notin {"favorites", "preferred", "fadd"}
           \/ faults < MaxFaults /\ faults' = faults + 1
    PROVE  PressInv' /\ TableInv' /\ NoRuleInv' /\ OrderInv'
<1> DEFINE new == Over(press[p])
<1>1. press' = [press EXCEPT ![p] = new]
  BY DEF Ends
<1>2. Local(new, rules, unused', gone, kept)
  BY OverIsLocal
<1>3. new.pc = "done" /\ new.button.do = press[p].button.do
  BY DEF Over
<1> HIDE DEF new
<1>4. faults \in Nat /\ faults' \in 0..MaxFaults /\ (faults' = 0 => faults = 0)
  BY FaultAssumption DEF FavoritesInv, TableInv
<1>5. faults' = 0 => /\ ~Ensuring(press[p])
                     /\ Reached(new) => Reached(press[p])
  BY <1>3, <1>4 DEF Ensuring, Reached
<1>6. gone' = gone /\ kept' = kept /\ inOrder' = inOrder
  BY DEF history
<1>7. QED
  BY <1>1, <1>2, <1>4, <1>5, <1>6, QuietStep DEF FavoritesInv

LEMMA SaveSettingsStep ==
    ASSUME FavoritesInv, NEW p \in Presses, SaveSettings(p)
    PROVE  FavoritesInv'
<1> DEFINE me == press[p]
<1>1. me.pc = "save" /\ Active(me)
  <2>1. me.pc = "save"
    BY DEF SaveSettings, At
  <2>2. QED
    BY <2>1, HandlerIs DEF FavoritesInv
<1>2. me.copy \in SettingsSet /\ ButtonOK(me.button) /\ me.button.do \in {"strategy", "auto_audio"}
  BY <1>1 DEF Active, Stages, ButtonOK, Dos
<1>3. settings' = IF me.button.do = "strategy" THEN [me.copy EXCEPT !.strategy = me.button.as]
                  ELSE [me.copy EXCEPT !.automatic_audio = ~@]
  BY DEF SaveSettings
<1>4. settings' \in StoredSettings
  <2>1. settings' \in SettingsSet
    BY <1>2, <1>3 DEF ButtonOK, SettingsSet
  <2>2. QED
    BY <2>1 DEF StoredSettings
<1>5. Ends(p) /\ UNCHANGED <<rules, filters, unused, screens, faults, history>>
  BY DEF SaveSettings
<1>6. PressInv' /\ TableInv' /\ NoRuleInv' /\ OrderInv'
  BY <1>1, <1>2, <1>4, <1>5, EndStep DEF Ensuring
<1>7. ScreenInv'
  BY <1>5, ScreensStay DEF FavoritesInv
<1>8. QED
  BY <1>6, <1>7 DEF FavoritesInv

LEMMA RaiseStep ==
    ASSUME FavoritesInv, NEW p \in Presses, Raise(p)
    PROVE  FavoritesInv'
<1>1. /\ Ends(p) /\ UNCHANGED <<tables, screens, history>> /\ faults < MaxFaults /\ faults' = faults + 1
      /\ press[p].pc \in {"write", "default"}
  BY DEF Raise, HasRead
<1>2. rules' = rules /\ unused' = unused /\ settings' \in StoredSettings
  BY <1>1 DEF tables, FavoritesInv, TableInv
<1>3. PressInv' /\ TableInv' /\ NoRuleInv' /\ OrderInv'
  BY <1>1, <1>2, EndStep
<1>4. ScreenInv'
  BY <1>1, ScreensStay DEF FavoritesInv
<1>5. QED
  BY <1>3, <1>4 DEF FavoritesInv

LEMMA GetFiltersStep ==
    ASSUME FavoritesInv, NEW p \in Presses, GetFilters(p)
    PROVE  FavoritesInv'
<1> DEFINE me == press[p]
           stored == filters[me.button.session]
           new == [me EXCEPT !.copy = IF stored = None THEN NoFilters ELSE stored,
                             !.pc = IF stored = None THEN "reset" ELSE "filtered"]
<1>1. me.pc = "filters" /\ Active(me)
  <2>1. me.pc = "filters"
    BY DEF GetFilters, At
  <2>2. QED
    BY <2>1, HandlerIs DEF FavoritesInv
<1>2. press' = [press EXCEPT ![p] = new] /\ UNCHANGED <<tables, screens, faults, history>>
  BY DEF GetFilters
<1>3. /\ DOMAIN new = Fields /\ new.pc \in {"reset", "filtered"} /\ new.button = me.button
      /\ new.stale = me.stale
  BY <1>1 DEF Active, Fields
<1> HIDE DEF new
<1>4. Active(new)
  <2>1. me.button.do \in {"all", "ftoggle"}
    BY <1>1 DEF Active, Stages, ButtonOK, Dos
  <2>2. QED
    BY <1>1, <1>3, <2>1 DEF Active, Stages, Holding
<1>5. Local(new, rules, unused, gone, kept) /\ ~Reached(new) /\ ~Ensuring(me)
  BY <1>1, <1>3, <1>4, ActiveIsLocal DEF Holding, Reached, Ensuring
<1>6. PressInv' /\ TableInv' /\ NoRuleInv' /\ OrderInv'
  <2>1. unused' = unused /\ rules' = rules /\ gone' = gone /\ kept' = kept /\ inOrder' = inOrder
        /\ settings' = settings /\ faults' = faults
    BY <1>2 DEF tables, history
  <2>2. QED
    BY <1>2, <1>5, <2>1, QuietStep DEF FavoritesInv, TableInv
<1>7. ScreenInv'
  BY <1>2, ScreensStay DEF FavoritesInv
<1>8. QED
  BY <1>6, <1>7 DEF FavoritesInv

LEMMA ToggleFilterStep ==
    ASSUME FavoritesInv, NEW p \in Presses, ToggleFilter(p)
    PROVE  FavoritesInv'
<1>1. press[p].pc = "filtered" /\ press[p].button.do = "ftoggle" /\ Ends(p)
  BY DEF ToggleFilter, At
<1>2. /\ rules' = rules /\ unused' = unused /\ UNCHANGED history /\ UNCHANGED screens /\ faults' = faults
      /\ settings' \in StoredSettings
  BY DEF ToggleFilter, SaveFilters, screens, FavoritesInv, TableInv
<1>3. PressInv' /\ TableInv' /\ NoRuleInv' /\ OrderInv'
  BY <1>1, <1>2, EndStep DEF Ensuring
<1>4. ScreenInv'
  BY <1>2, ScreensStay DEF FavoritesInv
<1>5. QED
  BY <1>3, <1>4 DEF FavoritesInv

(***************************************************************************)
(* Screens and submissions.                                                *)
(***************************************************************************)
LEMMA ShownIs ==
    ASSUME NEW s \in Sessions, NEW p, NEW list \in Seq(Videos(Formats[s])), NEW page \in Nat, NEW by,
           Shows(p, list, page, by)
    PROVE  ShownInv'
<1> DEFINE keys == [i \in DOMAIN list |-> list[i].id]
<1>1. shown' = [list |-> keys, asked |-> page, visible |-> OnPage(keys, page, PageSize), by |-> by]
  BY DEF Shows
<1>2. keys \in Seq(Int)
  <2>1. \A i \in DOMAIN list : list[i].id \in Int
    BY VideosAre
  <2>2. Len(list) \in Nat /\ DOMAIN list = 1..Len(list)
    OBVIOUS
  <2>3. keys \in [1..Len(list) -> Int]
    BY <2>1, <2>2
  <2>4. QED
    BY <2>2, <2>3
<1> HIDE DEF keys
<1>3. shown'.list = keys /\ shown'.asked = page /\ shown'.visible = OnPage(keys, page, PageSize)
  BY <1>1
<1>4. QED
  BY <1>2, <1>3 DEF ShownInv

LEMMA FilteredIs ==
    ASSUME NEW s \in Sessions, NEW chosen
    PROVE  filtered_video_formats(Formats[s], chosen) \in Seq(Videos(Formats[s]))
<1> DEFINE V == Videos(Formats[s])
           through == {f \in V : matches_rule(f, chosen)}
           key == [f \in through |-> <<-f.resolution, -f.fps, f.id>>]
<1>1. IsFiniteSet(through) /\ through \subseteq V
  <2>1. IsFiniteSet(V)
    BY VideosAre
  <2>2. QED
    BY <2>1, FS_Subset
<1>2. \A f \in through : f.resolution \in Int /\ f.fps \in Int /\ f.id \in Int
  BY <1>1, VideosAre
<1>3. \A f, g \in through : f.id = g.id => f = g
  BY <1>1, VideosAre
<1>4. filtered_video_formats(Formats[s], chosen) = Sorted(through, key)
  BY DEF filtered_video_formats
<1>5. \A f \in through : key[f] = <<-f.resolution, -f.fps, f.id>>
  OBVIOUS
<1> HIDE DEF V, through, key
<1>6. HaveKeys(through, key)
  <2>1. ASSUME NEW f \in through PROVE key[f] \in Seq(Int) /\ Len(key[f]) = 3 /\ key[f][3] = f.id
    <3>1. key[f] = <<-f.resolution, -f.fps, f.id>>
      BY <1>5
    <3>2. -f.resolution \in Int /\ -f.fps \in Int /\ f.id \in Int
      BY <1>2
    <3>3. QED
      BY <3>1, <3>2
  <2>2. QED
    BY <1>1, <1>3, <2>1 DEF HaveKeys
<1>7. Sorted(through, key) \in Seq(through)
  BY <1>6, SortedIs
<1>8. QED
  BY <1>1, <1>4, <1>7 DEF V

\* What remains of the invariant when only the screen changes.
LEMMA SoundStays ==
    ASSUME ScreenInv, submitted' = submitted
    PROVE  SoundIsRight'
BY DEF ScreenInv, SoundIsRight, NoSilentVideo, CompanionIsTheOriginal, Automatic

LEMMA ListMatches ==
    ASSUME NEW list \in Seq(Rows), DistinctIds(list)
    PROVE  MatchRules(ToSet(list))
<1>1. IsFiniteSet(ToSet(list)) /\ ToSet(list) \subseteq Rows
  BY ElementsOf
<1>2. \A r, q \in ToSet(list) : r.id = q.id => r = q
  BY DEF ToSet, DistinctIds
<1>3. QED
  BY <1>1, <1>2, RowsMatch

\* The handler of a recommendation has read every rule once.
LEMMA ShowIs ==
    ASSUME FavoritesInv, NEW p \in Presses, Show(p)
    PROVE  LET me == press[p]
               s == me.button.session
               R == ToSet(me.list)
               best == match(Formats[s], R, me.copy.strategy)
           IN  /\ me.pc = "show" /\ s \in Sessions /\ me.button.page \in Nat
               /\ Shows(p, best, me.button.page, [session |-> s, rules |-> R, strategy |-> me.copy.strategy])
               /\ best \in Seq(Videos(Formats[s]))
               /\ IsRecommendation(best, Formats[s], R, me.copy.strategy)
<1> DEFINE me == press[p]
           s == me.button.session
           R == ToSet(me.list)
           strategy == me.copy.strategy
           best == match(Formats[s], R, strategy)
<1>1. me.pc = "show" /\ Active(me)
  <2>1. me.pc = "show"
    BY DEF Show, At
  <2>2. QED
    BY <2>1, HandlerIs DEF FavoritesInv
<1>2. /\ me.button.do = "preferred" /\ me.list \in Seq(Rows) /\ DistinctIds(me.list)
      /\ ButtonOK(me.button)
  BY <1>1 DEF Active, Stages, ButtonOK, Dos
<1>3. s \in Sessions /\ me.button.page \in Nat
  BY <1>2 DEF ButtonOK, WithSession
<1>4. MatchRules(R)
  BY <1>2, ListMatches
<1>5. /\ best \in Seq(Videos(Formats[s]))
      /\ IsRecommendation(best, Formats[s], R, strategy)
  <2> HIDE DEF s, R, strategy
  <2>1. QED
    BY <1>3, <1>4, MatchIs
<1>6. Shows(p, best, me.button.page, [session |-> s, rules |-> R, strategy |-> strategy])
  BY DEF Show
<1>7. QED
  BY <1>1, <1>3, <1>5, <1>6

LEMMA ShowStep ==
    ASSUME FavoritesInv, NEW p \in Presses, Show(p)
    PROVE  FavoritesInv'
<1> DEFINE me == press[p]
           s == me.button.session
           R == ToSet(me.list)
           best == match(Formats[s], R, me.copy.strategy)
           by == [session |-> s, rules |-> R, strategy |-> me.copy.strategy]
<1>1. /\ me.pc = "show" /\ s \in Sessions /\ me.button.page \in Nat
      /\ Shows(p, best, me.button.page, by) /\ best \in Seq(Videos(Formats[s]))
  BY ShowIs
<1>2. UNCHANGED <<tables, submitted, faults, history>>
  BY DEF Show
<1>3. ShownInv'
  <2> HIDE DEF s, best, by
  <2>1. QED
    BY <1>1, ShownIs
<1>4. PressInv' /\ TableInv' /\ NoRuleInv' /\ OrderInv'
  <2>1. Ends(p)
    BY <1>1 DEF Shows
  <2>2. /\ rules' = rules /\ unused' = unused /\ UNCHANGED history /\ faults' = faults
        /\ settings' \in StoredSettings
    BY <1>2 DEF tables, FavoritesInv, TableInv
  <2>3. QED
    BY <1>1, <2>1, <2>2, EndStep
<1>5. ScreenInv'
  BY <1>2, <1>3, SoundStays DEF FavoritesInv, ScreenInv
<1>6. QED
  BY <1>4, <1>5 DEF FavoritesInv

\* The full list on the screen.
LEMMA FilteredStep ==
    ASSUME FavoritesInv, NEW p \in Presses, press[p].pc \in {"filtered", "reset"},
           press[p].button.do \in {"all", "freset"}, NEW chosen, NEW page \in Nat,
           ShowFiltered(p, chosen, page), rules' = rules, settings' = settings, unused' = unused,
           submitted' = submitted, faults' = faults, UNCHANGED history
    PROVE  FavoritesInv'
<1> DEFINE s == press[p].button.session
           list == filtered_video_formats(Formats[s], chosen)
<1>1. Shows(p, list, page, None)
  BY DEF ShowFiltered
<1>2. s \in Sessions
  <2>1. Active(press[p])
    BY HandlerIs DEF FavoritesInv
  <2>2. QED
    BY <2>1 DEF Active, ButtonOK, WithSession
<1>3. ShownInv'
  <2> HIDE DEF s
  <2>1. list \in Seq(Videos(Formats[s]))
    BY <1>2, FilteredIs
  <2> HIDE DEF list
  <2>2. QED
    BY <1>1, <1>2, <2>1, ShownIs
<1>4. PressInv' /\ TableInv' /\ NoRuleInv' /\ OrderInv'
  <2>1. Ends(p) /\ settings' \in StoredSettings
    BY <1>1 DEF Shows, FavoritesInv, TableInv
  <2>2. QED
    BY <2>1, EndStep DEF Ensuring
<1>5. ScreenInv'
  BY <1>3, SoundStays DEF FavoritesInv, ScreenInv
<1>6. QED
  BY <1>4, <1>5 DEF FavoritesInv

LEMMA AllFormatsStep ==
    ASSUME FavoritesInv, NEW p \in Presses, AllFormats(p)
    PROVE  FavoritesInv'
<1>1. press[p].pc = "filtered" /\ press[p].button.do = "all" /\ UNCHANGED <<tables, submitted, faults, history>>
  BY DEF AllFormats, At
<1>2. ShowFiltered(p, press[p].copy, press[p].button.page)
  BY DEF AllFormats
<1>3. press[p].button.page \in Nat
  <2>1. Active(press[p])
    BY <1>1, HandlerIs DEF FavoritesInv
  <2>2. QED
    BY <1>1, <2>1 DEF Active, ButtonOK
<1>4. rules' = rules /\ settings' = settings /\ unused' = unused
  BY <1>1 DEF tables
<1>5. QED
  BY <1>1, <1>2, <1>3, <1>4, FilteredStep

LEMMA ResetFiltersStep ==
    ASSUME FavoritesInv, NEW p \in Presses, ResetFilters(p)
    PROVE  FavoritesInv'
<1> DEFINE me == press[p]
<1>1. /\ me.pc = "reset" /\ Active(me)
      /\ rules' = rules /\ settings' = settings /\ unused' = unused /\ submitted' = submitted
      /\ faults' = faults /\ UNCHANGED history
  <2>1. me.pc = "reset"
    BY DEF ResetFilters, At
  <2>2. QED
    BY <2>1, HandlerIs DEF FavoritesInv, ResetFilters, SaveFilters
<1>2. CASE me.button.do = "freset" /\ ShowFiltered(p, NoFilters, 0)
  BY <1>1, <1>2, FilteredStep
<1>3. CASE me.button.do # "freset" /\ Goes(p, "filtered") /\ UNCHANGED shown
  <2> DEFINE new == [me EXCEPT !.pc = "filtered"]
  <2>1. press' = [press EXCEPT ![p] = new]
    BY <1>3 DEF Goes
  <2>2. DOMAIN new = Fields /\ new.pc = "filtered" /\ new.button = me.button /\ new.stale = me.stale
    BY <1>1 DEF Active, Fields
  <2> HIDE DEF new
  <2>3. me.button.do \in {"all", "ftoggle"}
    BY <1>1, <1>3 DEF Active, Stages, ButtonOK, Dos
  <2>4. Active(new)
    BY <1>1, <2>2, <2>3 DEF Active, Stages, Holding
  <2>5. Local(new, rules, unused, gone, kept) /\ ~Reached(new) /\ ~Ensuring(me)
    BY <1>1, <2>2, <2>4, ActiveIsLocal DEF Holding, Reached, Ensuring
  <2>6. PressInv' /\ TableInv' /\ NoRuleInv' /\ OrderInv'
    <3>1. gone' = gone /\ kept' = kept /\ inOrder' = inOrder
      BY <1>1 DEF history
    <3>2. QED
      BY <1>1, <2>1, <2>5, <3>1, QuietStep DEF FavoritesInv, TableInv
  <2>7. ScreenInv'
    BY <1>1, <1>3, ScreensStay DEF FavoritesInv, screens
  <2>8. QED
    BY <2>6, <2>7 DEF FavoritesInv
<1>4. QED
  BY <1>2, <1>3 DEF ResetFilters

\* A video with the sound that belongs to it may be submitted.
LEMMA SubmittedIs ==
    ASSUME NEW b, b.session \in Sessions, NEW audio,
           submitted' = [button |-> b, audio |-> audio],
           IF get_format_by_key(b.session, b.video).separate THEN audio \in Keys(Tracks(b.session))
           ELSE audio = None,
           b.do = "fmt" /\ audio # None =>
              \E a \in Tracks(b.session) : a.id = audio /\ IsCompanion(a, Tracks(b.session))
    PROVE  SoundIsRight'
<1>1. submitted'.button = b /\ submitted'.audio = audio
  OBVIOUS
<1>2. NoSilentVideo'
  BY <1>1 DEF NoSilentVideo
<1>3. CompanionIsTheOriginal'
  BY <1>1 DEF CompanionIsTheOriginal, Automatic
<1>4. QED
  BY <1>2, <1>3 DEF SoundIsRight

LEMMA SubmitExactStep ==
    ASSUME FavoritesInv, NEW p \in Presses, SubmitExact(p)
    PROVE  FavoritesInv'
<1> DEFINE b == press[p].button
           s == b.session
<1>1. /\ press[p].pc = "submit" /\ Active(press[p]) /\ UNCHANGED <<tables, shown, faults, history>>
      /\ submitted' = [button |-> b, audio |-> b.audio] /\ Ends(p)
  <2>1. press[p].pc = "submit"
    BY DEF SubmitExact, At
  <2>2. QED
    BY <2>1, HandlerIs DEF FavoritesInv, SubmitExact, Submit
<1>2. b.do = "fmta" /\ ButtonOK(b)
  BY <1>1 DEF Active, Stages, ButtonOK, Dos
<1>3. s \in Sessions /\ b.video \in Keys({f \in Videos(Formats[s]) : f.separate}) /\ b.audio \in Keys(Tracks(s))
  BY <1>2 DEF ButtonOK, WithSession
<1>4. get_format_by_key(s, b.video).separate
  <2>1. PICK f \in Videos(Formats[s]) : f.separate /\ f.id = b.video
    BY <1>3 DEF Keys
  <2>2. get_format_by_key(s, f.id) = f
    BY <1>3, VideosAre
  <2>3. QED
    BY <2>1, <2>2
<1>5. SoundIsRight'
  BY <1>1, <1>2, <1>3, <1>4, SubmittedIs
<1>6. ShownInv'
  BY <1>1 DEF FavoritesInv, ScreenInv, ShownInv
<1>7. PressInv' /\ TableInv' /\ NoRuleInv' /\ OrderInv'
  <2>1. rules' = rules /\ unused' = unused /\ UNCHANGED history /\ faults' = faults /\ settings' \in StoredSettings
    BY <1>1 DEF tables, FavoritesInv, TableInv
  <2>2. QED
    BY <1>1, <1>2, <2>1, EndStep DEF Ensuring
<1>8. QED
  BY <1>5, <1>6, <1>7 DEF FavoritesInv, ScreenInv

LEMMA CompanionIsSubmitted ==
    ASSUME FavoritesInv, NEW p \in Presses, Active(press[p]), press[p].button.do = "fmt",
           NEW audio, audio = select_default_audio(Formats[press[p].button.session],
                                 get_format_by_key(press[p].button.session, press[p].button.video)),
           HasCompanion(get_format_by_key(press[p].button.session, press[p].button.video), audio),
           Submit(p, IF audio = None THEN None ELSE audio.id)
    PROVE  SoundIsRight'
<1> DEFINE b == press[p].button
           s == b.session
           video == get_format_by_key(s, b.video)
           key == IF audio = None THEN None ELSE audio.id
<1>1. s \in Sessions
  BY DEF Active, ButtonOK, WithSession
<1>2. audio # None => video.separate /\ IsCompanion(audio, Tracks(s))
  <2> HIDE DEF s, video
  <2>1. QED
    BY <1>1, CompanionIs DEF s, video
<1>3. submitted' = [button |-> b, audio |-> key]
  BY DEF Submit
<1>4. video.separate => audio # None
  BY DEF HasCompanion
<1> HIDE DEF video
<1>5. IF video.separate THEN key \in Keys(Tracks(s)) ELSE key = None
  BY <1>2, <1>4 DEF Keys, IsCompanion
<1>6. key # None => \E a \in Tracks(s) : a.id = key /\ IsCompanion(a, Tracks(s))
  BY <1>2 DEF IsCompanion
<1> HIDE DEF key
<1>7. QED
  BY <1>1, <1>3, <1>5, <1>6, SubmittedIs DEF video

LEMMA UsesSettingsStep ==
    ASSUME FavoritesInv, NEW p \in Presses, NEW mine \in SettingsSet,
           press[p].pc \in {"settings", "insert"}, UsesSettings(p, mine),
           rules' = rules, unused' = unused, settings' \in StoredSettings,
           UNCHANGED <<shown, faults, history>>
    PROVE  FavoritesInv'
<1> DEFINE me == press[p]
           b == me.button
           video == get_format_by_key(b.session, b.video)
           audio == select_default_audio(Formats[b.session], video)
<1>1. me.pc \in {"settings", "insert"} /\ Active(me)
  BY HandlerIs DEF FavoritesInv
<1>3. /\ rules' = rules /\ unused' = unused /\ faults' = faults /\ UNCHANGED history
      /\ faults' \in 0..MaxFaults
  BY DEF FavoritesInv, TableInv
<1>4. ShownInv'
  BY DEF FavoritesInv, ScreenInv, ShownInv
<1>5. CASE /\ b.do \in {"strategy", "auto_audio", "preferred"} /\ submitted' = submitted
           /\ press' = [press EXCEPT ![p] =
                [me EXCEPT !.copy = mine, !.pc = IF b.do = "preferred" THEN "ensure" ELSE "save"]]
  <2> DEFINE new == [me EXCEPT !.copy = mine, !.pc = IF b.do = "preferred" THEN "ensure" ELSE "save"]
  <2>1. press' = [press EXCEPT ![p] = new]
    BY <1>5
  <2>2. /\ DOMAIN new = Fields /\ new.pc = (IF b.do = "preferred" THEN "ensure" ELSE "save")
        /\ new.button = b /\ new.stale = me.stale /\ new.copy = mine
    BY <1>1 DEF Active, Fields
  <2> HIDE DEF new
  <2>3. Active(new)
    BY <1>1, <1>3, <1>5, <2>2 DEF Active, Stages, Holding
  <2>4. Local(new, rules, unused, gone, kept) /\ ~Reached(new) /\ ~Ensuring(me)
    BY <1>1, <2>2, <2>3, ActiveIsLocal DEF Holding, Reached, Ensuring
  <2>5. PressInv' /\ TableInv' /\ NoRuleInv' /\ OrderInv'
    <3>1. gone' = gone /\ kept' = kept /\ inOrder' = inOrder
      BY <1>3 DEF history
    <3>2. QED
      BY <1>3, <2>1, <2>4, <3>1, QuietStep DEF FavoritesInv, TableInv
  <2>6. ScreenInv'
    BY <1>4, <1>5, SoundStays DEF FavoritesInv, ScreenInv
  <2>7. QED
    BY <2>5, <2>6 DEF FavoritesInv
<1>6. ASSUME b.do = "fmt", Ends(p), SoundIsRight' PROVE FavoritesInv'
  <2>1. PressInv' /\ TableInv' /\ NoRuleInv' /\ OrderInv'
    BY <1>1, <1>3, <1>6, EndStep DEF Ensuring
  <2>2. QED
    BY <1>4, <1>6, <2>1 DEF FavoritesInv, ScreenInv
<1>7. CASE b.do = "fmt" /\ HasCompanion(video, audio) /\ Submit(p, IF audio = None THEN None ELSE audio.id)
  <2>1. SoundIsRight'
    BY <1>1, <1>7, CompanionIsSubmitted
  <2>2. Ends(p)
    BY <1>7 DEF Submit
  <2>3. QED
    BY <1>6, <1>7, <2>1, <2>2
<1>8. CASE b.do = "fmt" /\ Ends(p) /\ submitted' = submitted
  <2>1. SoundIsRight'
    BY <1>8, SoundStays DEF FavoritesInv
  <2>2. QED
    BY <1>6, <1>8, <2>1
<1>9. QED
  BY <1>5, <1>7, <1>8 DEF UsesSettings

LEMMA GetSettingsStep ==
    ASSUME FavoritesInv, NEW p \in Presses, GetSettings(p)
    PROVE  FavoritesInv'
<1> DEFINE me == press[p]
           new == [me EXCEPT !.pc = "insert"]
<1>1. me.pc = "settings" /\ Active(me)
  <2>1. me.pc = "settings"
    BY DEF GetSettings, At
  <2>2. QED
    BY <2>1, HandlerIs DEF FavoritesInv
<1>2. UNCHANGED <<tables, shown, faults, history>>
  BY DEF GetSettings
<1>3. /\ rules' = rules /\ unused' = unused /\ settings' \in StoredSettings /\ settings \in StoredSettings
      /\ faults' = faults /\ UNCHANGED shown /\ UNCHANGED history /\ faults' \in 0..MaxFaults
  BY <1>2 DEF tables, FavoritesInv, TableInv
<1>4. CASE settings # None /\ UsesSettings(p, settings)
  <2>1. settings \in SettingsSet
    BY <1>3, <1>4 DEF StoredSettings
  <2>2. QED
    BY <1>1, <1>2, <1>3, <1>4, <2>1, UsesSettingsStep
<1>5. CASE Goes(p, "insert") /\ submitted' = submitted
  <2>1. press' = [press EXCEPT ![p] = new]
    BY <1>5 DEF Goes
  <2>2. DOMAIN new = Fields /\ new.pc = "insert" /\ new.button = me.button /\ new.stale = me.stale
    BY <1>1 DEF Active, Fields
  <2> HIDE DEF new
  <2>3. Active(new)
    BY <1>1, <2>2 DEF Active, Stages, Holding, ButtonOK, Dos
  <2>4. Local(new, rules, unused, gone, kept) /\ ~Reached(new) /\ ~Ensuring(me)
    BY <1>1, <2>2, <2>3, ActiveIsLocal DEF Holding, Reached, Ensuring
  <2>5. PressInv' /\ TableInv' /\ NoRuleInv' /\ OrderInv'
    <3>1. gone' = gone /\ kept' = kept /\ inOrder' = inOrder
      BY <1>3 DEF history
    <3>2. QED
      BY <1>3, <2>1, <2>4, <3>1, QuietStep DEF FavoritesInv, TableInv
  <2>6. ScreenInv'
    BY <1>3, <1>5, ScreensStay DEF FavoritesInv, screens
  <2>7. QED
    BY <2>5, <2>6 DEF FavoritesInv
<1>6. QED
  BY <1>4, <1>5 DEF GetSettings

LEMMA InsertSettingsStep ==
    ASSUME FavoritesInv, NEW p \in Presses, InsertSettings(p)
    PROVE  FavoritesInv'
<1>1. /\ press[p].pc = "insert" /\ UsesSettings(p, DefaultSettings)
      /\ rules' = rules /\ unused' = unused /\ settings' = DefaultSettings
      /\ UNCHANGED <<shown, faults, history>>
  BY DEF InsertSettings, At
<1>2. DefaultSettings \in SettingsSet /\ settings' \in StoredSettings
  BY <1>1 DEF DefaultSettings, SettingsSet, StoredSettings
<1>3. QED
  BY <1>1, <1>2, UsesSettingsStep

(***************************************************************************)
(* The actions that change the rules.                                      *)
(***************************************************************************)
\* What a handler still has to write is its own business.
LEMMA OthersHold ==
    ASSUME PressInv, NEW q \in Presses
    PROVE  Held(press[q], unused, gone, kept)
<1>1. Local(press[q], rules, unused, gone, kept)
  BY DEF PressInv
<1>2. press[q].pc \in {"idle", "done"} => Held(press[q], unused, gone, kept)
  BY DEF Held, Holding
<1>3. QED
  BY <1>1, <1>2, LocalIs

LEMMA OthersAreDisturbed ==
    ASSUME PressInv, NEW p \in Presses, NEW pressed, Disturbing(p, pressed), unused' = unused,
           Local(pressed, rules', unused, gone', kept'),
           \A q \in Presses \ {p} : Held(press[q], unused, gone', kept')
    PROVE  PressInv'
<1>1. /\ DOMAIN press' = Presses /\ press'[p] = pressed
      /\ \A q \in Presses : q # p =>
            press'[q] = IF press[q].pc \in Holding THEN [press[q] EXCEPT !.stale = TRUE] ELSE press[q]
  BY DEF Disturbing, HasRead, Holding
<1>2. ASSUME NEW q \in Presses PROVE Local(press'[q], rules', unused', gone', kept')
  <2>1. CASE q = p
    BY <1>1, <2>1
  <2>2. CASE q # p
    <3> DEFINE me == press[q]
               new == press'[q]
    <3>1. Local(me, rules, unused, gone, kept) /\ Held(me, unused, gone', kept')
      BY <2>2 DEF PressInv
    <3>2. new = IF me.pc \in Holding THEN [me EXCEPT !.stale = TRUE] ELSE me
      BY <1>1, <2>2
    <3> HIDE DEF me, new
    <3>3. Local(new, rules', unused, gone', kept')
      BY <3>1, <3>2, LocalIsStale
    <3>4. QED
      BY <3>3 DEF new
  <2>3. QED
    BY <2>1, <2>2
<1>3. QED
  BY <1>1, <1>2 DEF PressInv

\* A row that keeps its position, or takes the next one.
LEMMA SavedInOrder ==
    ASSUME NEW R, TableOK(R), Ordered(R), NEW r \in Rows,
           \/ \E x \in R : x.id = r.id /\ x.priority = r.priority
           \/ (\A x \in R : x.id # r.id) /\ r.priority = Cardinality(R)
    PROVE  Ordered(Saved(r, R))
<1> DEFINE R2 == Saved(r, R)
<1>1. PICK row \in Rows : /\ row.id = r.id /\ row.priority = r.priority
                          /\ R2 = {x \in R : x.id # r.id} \cup {row}
  BY SavedIs
<1>2. Cardinality(R2) = IF \E x \in R : x.id = r.id THEN Cardinality(R) ELSE Cardinality(R) + 1
  BY SavedIs
<1> HIDE DEF R2
<1>3. Cardinality(R) \in Nat /\ \A x \in R : x \in Rows /\ x.priority \in Nat
  BY FS_CardinalityType DEF TableOK, Rows
<1>4. CASE \E x \in R : x.id = r.id /\ x.priority = r.priority
  <2>1. PICK x \in R : x.id = r.id /\ x.priority = r.priority
    BY <1>4
  <2>2. Cardinality(R2) = Cardinality(R)
    BY <1>2, <2>1
  <2>3. \A y \in R2 : y = row \/ (y \in R /\ y # x)
    BY <1>1, <2>1
  <2>4. \A y \in R : y.priority < Cardinality(R)
    BY DEF Ordered
  <2>5. \A y \in R2 : y.priority < Cardinality(R2)
    BY <1>1, <2>1, <2>2, <2>3, <2>4
  <2>6. \A y, z \in R : y # z => y.priority # z.priority
    BY DEF Ordered
  <2>7. \A y, z \in R2 : y # z => y.priority # z.priority
    BY <1>1, <2>1, <2>3, <2>6
  <2>8. QED
    BY <2>5, <2>7 DEF Ordered, R2
<1>5. CASE (\A x \in R : x.id # r.id) /\ r.priority = Cardinality(R)
  <2>1. Cardinality(R2) = Cardinality(R) + 1
    BY <1>2, <1>5
  <2>2. \A y \in R2 : y = row \/ y \in R
    BY <1>1
  <2>3. \A y \in R : y.priority < Cardinality(R) /\ y.priority # row.priority
    BY <1>1, <1>3, <1>5 DEF Ordered
  <2>4. \A y \in R2 : y.priority < Cardinality(R2)
    BY <1>1, <1>3, <1>5, <2>1, <2>2, <2>3
  <2>5. \A y, z \in R2 : y # z => y.priority # z.priority
    BY <2>2, <2>3 DEF Ordered
  <2>6. QED
    BY <2>4, <2>5 DEF Ordered, R2
<1>6. QED
  BY <1>4, <1>5

\* A move that has written j of the rows of L, and every rule of the list is there.
HasGone(R, list, L, j) ==
    /\ \A x \in R : \E k \in 1..Len(list) : x.id = list[k].id
    /\ \A k \in 1..Len(list) : \E x \in R : x.id = list[k].id
    /\ \A k \in 1..j : \E x \in R : x.id = L[k].id /\ x.priority = k - 1

LEMMA MoveGoesOn ==
    ASSUME NEW me, NEW R, TableOK(R), NEW i \in Nat, NEW j \in Nat, MovingAt(me, R, i, j),
           me.button.delta \in {-1, 1}
    PROVE  /\ HasGone(Saved(Head(me.todo), R), me.list, Renumbered(me.list, i, i + me.button.delta), j + 1)
           /\ j + 1 = Len(me.list) =>
                 IsNumbered(Saved(Head(me.todo), R), Renumbered(me.list, i, i + me.button.delta), Len(me.list))
<1> DEFINE list == me.list
           n == Len(list)
           t == i + me.button.delta
           L == Renumbered(list, i, t)
           r == Head(me.todo)
           R2 == Saved(r, R)
<1>1. /\ list \in Seq(Rows) /\ DistinctIds(list) /\ i \in 1..n /\ t \in 1..n /\ j \in 0..(n - 1) /\ n \in Nat
      /\ t # i
  <2>1. list \in Seq(Rows) /\ DistinctIds(list) /\ i \in 1..n /\ t \in 1..n /\ j \in 0..(n - 1)
    BY DEF MovingAt
  <2>2. n \in Nat
    BY <2>1
  <2>3. t # i
    OBVIOUS
  <2>4. QED
    BY <2>1, <2>2, <2>3
<1>2. /\ \A x \in R : \E k \in 1..n : x.id = list[k].id
      /\ \A k \in 1..n : \E x \in R : x.id = list[k].id
      /\ \A k \in 1..j : \E x \in R : x.id = L[k].id /\ x.priority = k - 1
  BY DEF MovingAt
<1>3. r = L[j + 1]
  <2>1. Len(me.todo) = n - j /\ \A k \in 1..(n - j) : me.todo[k] = L[j + k]
    BY DEF MovingAt
  <2>2. 1 \in 1..(n - j) /\ r = me.todo[1]
    BY <1>1, <2>1
  <2>3. QED
    BY <1>1, <2>1, <2>2
<1> HIDE DEF list, L, r, R2, t, n
<1>4. /\ L \in Seq(Rows) /\ Len(L) = n /\ DistinctIds(L)
      /\ \A k \in 1..n : L[k].priority = k - 1 /\ L[k].id = list[Exchanged(k, i, t)].id
      /\ \A k \in 1..n : \E l \in 1..n : list[k].id = L[l].id
  <2>1. LET M == Renumbered(list, i, t) IN
           /\ M \in Seq(Rows) /\ Len(M) = Len(list) /\ M # <<>>
           /\ \A k \in 1..Len(list) : M[k].priority = k - 1 /\ M[k].id = list[Exchanged(k, i, t)].id
           /\ DistinctIds(M)
           /\ \A k \in 1..Len(list) : \E l \in 1..Len(list) : list[k].id = M[l].id
    BY <1>1, RenumberedIs DEF n
  <2>2. QED
    BY <2>1 DEF L, n
<1>5. j + 1 \in 1..n /\ r \in Rows /\ r.priority = j
  <2>1. j + 1 \in 1..n
    BY <1>1
  <2>2. L[j + 1] \in Rows
    BY <1>4, <2>1
  <2>3. L[j + 1].priority = (j + 1) - 1
    BY <1>4, <2>1
  <2>4. QED
    BY <1>3, <2>1, <2>2, <2>3
<1>6. PICK row \in Rows : /\ row.id = r.id /\ row.priority = r.priority
                 /\ R2 = {x \in R : x.id # r.id} \cup {row}
  <2>1. ASSUME NEW q \in Rows
        PROVE  \E row \in Rows : /\ row.id = q.id /\ row.priority = q.priority
                                /\ Saved(q, R) = {x \in R : x.id # q.id} \cup {row}
    BY SavedIs
  <2>2. QED
    BY <1>5, <2>1 DEF R2
<1>7. \A k \in 1..n : Exchanged(k, i, t) \in 1..n
  BY <1>1 DEF Exchanged
<1>8. ASSUME NEW x \in R2 PROVE \E k \in 1..n : x.id = list[k].id
  <2>1. CASE x \in R
    BY <1>2, <2>1
  <2>2. CASE x = row
    <3>1. x.id = L[j + 1].id
      BY <1>3, <1>6, <2>2
    <3>2. L[j + 1].id = list[Exchanged(j + 1, i, t)].id /\ Exchanged(j + 1, i, t) \in 1..n
      BY <1>4, <1>5, <1>7
    <3>3. QED
      BY <3>1, <3>2
  <2>3. QED
    BY <1>6, <2>1, <2>2
<1>9. ASSUME NEW k \in 1..n PROVE \E x \in R2 : x.id = list[k].id
  <2>1. PICK x \in R : x.id = list[k].id
    BY <1>2
  <2>2. QED
    BY <1>6, <2>1
<1>10. ASSUME NEW k \in 1..(j + 1) PROVE \E x \in R2 : x.id = L[k].id /\ x.priority = k - 1
  <2>1. CASE k = j + 1
    BY <1>3, <1>5, <1>6, <2>1
  <2>2. CASE k # j + 1
    <3>1. k \in 1..j /\ k \in 1..n
      BY <1>1, <2>2
    <3>2. PICK x \in R : x.id = L[k].id /\ x.priority = k - 1
      BY <1>2, <3>1
    <3>3. x.id # r.id
      BY <1>3, <1>4, <1>5, <2>2, <3>1, <3>2 DEF DistinctIds
    <3>4. QED
      BY <1>6, <3>2, <3>3
  <2>3. QED
    BY <2>1, <2>2
<1>11. ASSUME NEW x \in R2 PROVE \E k \in 1..n : x.id = L[k].id
  <2>1. PICK k \in 1..n : x.id = list[k].id
    BY <1>8
  <2>2. PICK l \in 1..n : list[k].id = L[l].id
    BY <1>4
  <2>3. QED
    BY <2>1, <2>2
<1>12. HasGone(R2, list, L, j + 1)
  BY <1>8, <1>9, <1>10 DEF HasGone, n
<1>13. j + 1 = n => IsNumbered(R2, L, n)
  BY <1>10, <1>11 DEF IsNumbered
<1>14. QED
  BY <1>12, <1>13 DEF list, n, L, R2, r, t

\* An undisturbed move that writes its last row has done what it was asked.
LEMMA LastMoveIsDone ==
    ASSUME FavoritesInv, NEW p \in Presses, press[p].pc = "write", press[p].button.do = "move",
           ~press[p].stale, Len(press[p].todo) = 1
    PROVE  LET me == press[p]
               R2 == Saved(Head(me.todo), rules)
           IN  /\ Listed(R2) = AsApplied(R2)
               /\ Moved(Ids(me.list), Ids(Listed(R2)), me.button.rule, me.button.delta)
               /\ Ordered(R2)
<1> DEFINE me == press[p]
           list == me.list
           delta == me.button.delta
           R2 == Saved(Head(me.todo), rules)
<1>1. Active(me) /\ Fresh(me, rules) /\ me.pc = "write" /\ me.button.do = "move" /\ ~me.stale
  BY HandlerIs DEF FavoritesInv
<1>2. TableOK(rules) /\ delta \in {-1, 1} /\ Head(me.todo) \in Rows /\ Len(me.todo) = 1
  BY <1>1 DEF FavoritesInv, TableInv, Active, ButtonOK, Holding
<1>3. PICK i \in Nat, j \in Nat : MovingAt(me, rules, i, j)
  BY <1>1 DEF Fresh, Holding
<1>4. /\ list \in Seq(Rows) /\ DistinctIds(list) /\ i \in 1..Len(list) /\ i + delta \in 1..Len(list)
      /\ Len(me.todo) = Len(list) - j /\ list[i].id = me.button.rule
  BY <1>3 DEF MovingAt
<1>5. j + 1 = Len(list)
  <2>1. Len(list) \in Nat
    BY <1>4
  <2>2. 1 = Len(list) - j
    BY <1>2, <1>4
  <2>3. QED
    BY <2>1, <2>2
<1>6. TableOK(R2)
  BY <1>2, SavedIs
<1>7. IsNumbered(R2, Renumbered(list, i, i + delta), Len(list))
  <2> HIDE DEF me
  <2>1. me.button.delta \in {-1, 1} /\ j + 1 = Len(me.list)
    BY <1>2, <1>5
  <2>2. IsNumbered(Saved(Head(me.todo), rules), Renumbered(me.list, i, i + me.button.delta), Len(me.list))
    BY <1>2, <1>3, <2>1, MoveGoesOn
  <2>3. QED
    BY <2>2
<1> HIDE DEF list, delta, R2
<1>8. /\ Listed(R2) = AsApplied(R2)
      /\ Moved(Ids(list), Ids(Listed(R2)), list[i].id, delta)
      /\ Ordered(R2)
  BY <1>2, <1>4, <1>6, <1>7, MoveIsDone
<1>9. QED
  BY <1>4, <1>8 DEF list, delta, R2

\* What is left of a handler that has written a row.
LEMMA WriterGoesOn ==
    ASSUME FavoritesInv, NEW p \in Presses, Write(p)
    PROVE  LET me == press[p]
               pressed == Continues([me EXCEPT !.todo = Tail(@)], IF Len(me.todo) = 1 THEN AfterWrites(me) ELSE me.pc)
           IN  Local(pressed, Saved(Head(me.todo), rules), unused, gone, kept)
<1> DEFINE me == press[p]
           R2 == Saved(Head(me.todo), rules)
           rest == [me EXCEPT !.todo = Tail(@)]
           pc == IF Len(me.todo) = 1 THEN AfterWrites(me) ELSE me.pc
           new == [rest EXCEPT !.pc = pc]
<1>1. /\ me.pc \in {"write", "default"} /\ Active(me) /\ Held(me, unused, gone, kept) /\ Fresh(me, rules)
  <2>1. me.pc \in {"write", "default"}
    BY DEF Write, HasRead
  <2>2. QED
    BY <2>1, HandlerIs DEF FavoritesInv
<1>2. me.todo \in Seq(Rows) /\ me.todo # <<>> /\ ButtonOK(me.button) /\ me.pc \in Stages(me.button.do)
  BY <1>1 DEF Active, Holding
<1>3. CASE pc = "done"
  <2>1. Continues(rest, pc) = Over(rest)
    BY <1>3 DEF Continues
  <2> HIDE DEF rest, pc
  <2>2. QED
    BY <2>1, OverIsLocal DEF rest, pc
<1>4. CASE pc # "done"
  <2>1. Continues(rest, pc) = new
    BY <1>4 DEF Continues
  <2>2. /\ DOMAIN new = Fields /\ new.pc = pc /\ new.button = me.button /\ new.stale = me.stale
        /\ new.list = me.list /\ new.copy = me.copy /\ new.todo = Tail(me.todo)
    BY <1>1 DEF Active, Fields
  <2> HIDE DEF new
  <2>3. CASE Len(me.todo) = 1
    <3>1. pc = AfterWrites(me)
      BY <2>3
    <3>2. \/ pc = "show" /\ me.pc = "default" /\ me.button.do = "preferred"
          \/ pc = "ensure" /\ me.pc = "write" /\ me.button.do \notin {"fadd", "frtoggle"}
      BY <1>1, <1>4, <3>1 DEF AfterWrites, Finish
    <3> HIDE DEF pc
    <3>3. pc \in Stages(me.button.do)
      BY <1>2, <3>2 DEF Stages, ButtonOK, Dos
    <3>4. Active(new)
      BY <1>1, <2>2, <3>2, <3>3 DEF Active, Holding
    <3>5. Local(new, R2, unused, gone, kept)
      <4> HIDE DEF R2
      <4>1. QED
        BY <2>2, <3>2, <3>4, ActiveIsLocal DEF Holding
    <3>6. QED
      BY <2>1, <3>5 DEF pc
  <2>4. CASE Len(me.todo) # 1
    <3>1. new.pc = me.pc
      BY <2>2, <2>4
    <3> DEFINE todo == me.todo
    <3>2. /\ Tail(todo) \in Seq(Rows) /\ Tail(todo) # <<>> /\ Len(Tail(todo)) = Len(todo) - 1
          /\ \A k \in 1..(Len(todo) - 1) : Tail(todo)[k] = todo[k + 1] /\ k + 1 \in DOMAIN todo
          /\ DOMAIN Tail(todo) = 1..(Len(todo) - 1)
          /\ Len(todo) \in Nat
      <4> HIDE DEF todo
      <4>1. todo \in Seq(Rows) /\ todo # <<>> /\ Len(todo) # 1
        BY <1>2, <2>4 DEF todo
      <4>2. Len(todo) \in Nat /\ Len(todo) > 1
        <5>1. Len(todo) \in Nat /\ Len(todo) # 0
          BY <4>1
        <5>2. \A n \in Nat : n # 0 /\ n # 1 => n > 1
          OBVIOUS
        <5>3. QED
          BY <4>1, <5>1, <5>2, Zenon
      <4>3. QED
        BY <4>1, <4>2
    <3>3. Active(new)
      BY <1>1, <2>2, <3>1, <3>2 DEF Active, Holding
    <3>4. Held(new, unused, gone, kept)
      BY <1>1, <2>2, <3>1, <3>2 DEF Held
    <3>5. Fresh(new, R2)
      <4>1. SUFFICES ASSUME ~me.stale PROVE Fresh(new, R2)
        BY <2>2 DEF Fresh
      <4>2. me.pc = "write" /\ me.button.do = "move"
        BY <1>1, <1>2, <2>4, <4>1 DEF Fresh, Holding, Stages, ButtonOK, Dos
      <4>3. PICK i \in Nat, j \in Nat : MovingAt(me, rules, i, j)
        BY <1>1, <4>1, <4>2 DEF Fresh, Holding
      <4>4. MovingAt(new, R2, i, j + 1)
        <5> DEFINE list == me.list
                   n == Len(list)
                   L == Renumbered(list, i, i + me.button.delta)
        <5>1. /\ list \in Seq(Rows) /\ DistinctIds(list) /\ i \in 1..n /\ i + me.button.delta \in 1..n
              /\ j \in 0..(n - 1) /\ list[i].id = me.button.rule /\ n \in Nat
              /\ Len(me.todo) = n - j /\ \A k \in 1..(n - j) : me.todo[k] = L[j + k]
          BY <4>3 DEF MovingAt
        <5>2. HasGone(R2, list, L, j + 1)
          <6>1. TableOK(rules) /\ me.button.delta \in {-1, 1}
            BY <1>2, <4>2 DEF FavoritesInv, TableInv, ButtonOK
          <6> HIDE DEF me
          <6>2. HasGone(Saved(Head(me.todo), rules), me.list, Renumbered(me.list, i, i + me.button.delta), j + 1)
            BY <4>3, <6>1, MoveGoesOn
          <6>3. QED
            BY <6>2
        <5>3. new.list = list /\ Renumbered(new.list, i, i + new.button.delta) = L
          BY <2>2
        <5>4. j + 1 \in 0..(n - 1)
          <6>1. Len(me.todo) > 1
            BY <2>4, <3>2, <1>2
          <6>2. QED
            BY <5>1, <6>1
        <5>5. Len(new.todo) = n - (j + 1)
          BY <2>2, <3>2, <5>1
        <5>6. ASSUME NEW k \in 1..(n - (j + 1)) PROVE new.todo[k] = L[(j + 1) + k]
          <6>1. k \in 1..(Len(todo) - 1) /\ k + 1 \in 1..(n - j) /\ (j + 1) + k = j + (k + 1)
            BY <5>1
          <6>2. new.todo[k] = me.todo[k + 1]
            BY <2>2, <3>2, <6>1
          <6>3. me.todo[k + 1] = L[j + (k + 1)]
            BY <5>1, <6>1
          <6>4. QED
            BY <6>1, <6>2, <6>3
        <5> HIDE DEF list, n, L, R2
        <5>7. /\ \A x \in R2 : \E k \in 1..n : x.id = list[k].id
              /\ \A k \in 1..n : \E x \in R2 : x.id = list[k].id
              /\ \A k \in 1..(j + 1) : \E x \in R2 : x.id = L[k].id /\ x.priority = k - 1
          BY <5>2 DEF HasGone, n
        <5>8. new.list[i].id = new.button.rule
          BY <2>2, <5>1 DEF list
        <5>9. i + new.button.delta \in 1..n
          BY <2>2, <5>1
        <5>10. QED
          BY <5>1, <5>3, <5>4, <5>5, <5>6, <5>7, <5>8, <5>9 DEF MovingAt, n
      <4>5. j + 1 \in Nat
        BY <4>3
      <4>6. QED
        BY <2>2, <3>1, <4>2, <4>4, <4>5 DEF Fresh
    <3>6. QED
      BY <2>1, <3>3, <3>4, <3>5 DEF Local
  <2>5. QED
    BY <2>3, <2>4
<1>5. QED
  BY <1>3, <1>4

LEMMA WriteStep ==
    ASSUME FavoritesInv, NEW p \in Presses, Write(p)
    PROVE  FavoritesInv'
<1> DEFINE me == press[p]
           r == Head(me.todo)
           R2 == Saved(r, rules)
           last == Len(me.todo) = 1
           pressed == Continues([me EXCEPT !.todo = Tail(@)], IF last THEN AfterWrites(me) ELSE me.pc)
<1>1. /\ rules' = R2 /\ Disturbing(p, pressed) /\ unused' = unused /\ gone' = gone /\ kept' = kept
      /\ settings' = settings /\ faults' = faults /\ UNCHANGED screens
      /\ inOrder' = IF me.pc = "write" /\ me.button.do = "move" THEN ~me.stale /\ last
                    ELSE inOrder /\ ~me.stale
  BY DEF Write
<1>2. /\ me.pc \in {"write", "default"} /\ Active(me) /\ Held(me, unused, gone, kept) /\ Fresh(me, rules)
  <2>1. me.pc \in {"write", "default"}
    BY DEF Write, HasRead
  <2>2. QED
    BY <2>1, HandlerIs DEF FavoritesInv
<1>3. r \in Rows /\ r.id \notin unused /\ (r.id \in gone => r.id \in kept) /\ r = me.todo[1]
  <2>1. me.todo \in Seq(Rows) /\ me.todo # <<>>
    BY <1>2 DEF Active, Holding
  <2>2. 1 \in DOMAIN me.todo /\ r = me.todo[1] /\ r \in Rows
    BY <2>1
  <2>3. QED
    BY <1>2, <2>2 DEF Held, Holding
<1>4. TableOK(rules)
  BY DEF FavoritesInv, TableInv
<1>5. TableOK(R2) /\ \E row \in Rows : row.id = r.id /\ R2 = {x \in rules : x.id # r.id} \cup {row}
  <2>1. ASSUME NEW q \in Rows
        PROVE  /\ TableOK(Saved(q, rules))
               /\ \E row \in Rows : row.id = q.id /\ Saved(q, rules) = {x \in rules : x.id # q.id} \cup {row}
    BY <1>4, SavedIs
  <2> HIDE DEF r
  <2>2. QED
    BY <1>3, <2>1
<1>6. PressInv'
  <2>1. Local(pressed, R2, unused, gone, kept)
    BY WriterGoesOn
  <2>2. \A q \in Presses \ {p} : Held(press[q], unused, gone', kept')
    BY <1>1, OthersHold DEF FavoritesInv
  <2>3. Local(pressed, rules', unused, gone', kept')
    BY <1>1, <2>1
  <2> HIDE DEF pressed
  <2>4. QED
    BY <1>1, <2>2, <2>3, OthersAreDisturbed DEF FavoritesInv
<1> HIDE DEF R2
<1>7. PICK row \in Rows : row.id = r.id /\ R2 = {x \in rules : x.id # r.id} \cup {row}
  BY <1>5
<1>8. TableInv'
  <2>1. \A x \in rules' : x.id \notin unused /\ (x.id \in gone => x.id \in kept)
    BY <1>1, <1>3, <1>7 DEF FavoritesInv, TableInv, DeletedStaysDeleted
  <2>2. inOrder' \in BOOLEAN
    BY <1>1, <1>2 DEF Active, FavoritesInv, TableInv
  <2>3. QED
    BY <1>1, <1>5, <2>1, <2>2 DEF FavoritesInv, TableInv, DeletedStaysDeleted
<1>9. NoRuleInv'
  <2>1. rules' # {}
    BY <1>1, <1>7
  <2>2. QED
    BY <2>1 DEF NoRuleInv
<1>10. OrderInv'
  <2>1. CASE me.pc = "write" /\ me.button.do = "move"
    <3>1. ~me.stale /\ last => Ordered(R2)
      BY <2>1, LastMoveIsDone DEF R2
    <3>2. QED
      BY <1>1, <2>1, <3>1 DEF OrderInv
  <2>2. CASE ~(me.pc = "write" /\ me.button.do = "move")
    <3>1. SUFFICES ASSUME inOrder, ~me.stale PROVE Ordered(R2)
      BY <1>1, <2>2 DEF OrderInv
    <3>2. Ordered(rules)
      BY <3>1 DEF FavoritesInv, OrderInv
    <3>3. \/ \E x \in rules : x.id = r.id /\ x.priority = r.priority
          \/ (\A x \in rules : x.id # r.id) /\ r.priority = Cardinality(rules)
      <4>1. CASE me.pc = "default"
        <5>1. rules = {} /\ r.priority = 0 /\ Cardinality({}) = 0
          BY <1>2, <1>3, <3>1, <4>1, FS_EmptySet DEF Fresh, Holding
        <5>2. QED
          BY <5>1
      <4>2. CASE me.pc = "write"
        <5>1. me.button.do \in {"enable", "frtoggle", "fadd", "dup"}
          BY <1>2, <2>2, <4>2 DEF Active, Stages, ButtonOK, Dos
        <5>2. QED
          BY <1>2, <1>3, <3>1, <4>2, <5>1 DEF Fresh, Holding
      <4>3. QED
        BY <1>2, <4>1, <4>2
    <3> HIDE DEF r
    <3>4. QED
      BY <1>3, <1>4, <3>2, <3>3, SavedInOrder DEF R2
  <2>3. QED
    BY <2>1, <2>2
<1>11. ScreenInv'
  BY <1>1, ScreensStay DEF FavoritesInv
<1>12. QED
  BY <1>6, <1>8, <1>9, <1>10, <1>11 DEF FavoritesInv

LEMMA DeleteStep ==
    ASSUME FavoritesInv, NEW p \in Presses, Delete(p)
    PROVE  FavoritesInv'
<1> DEFINE me == press[p]
           found == ById(me.button.rule, rules)
           Holds(q, id) == HasRead(q) /\ \E k \in DOMAIN press[q].todo : press[q].todo[k].id = id
           pressed == Continues(me, AfterDelete)
<1>1. /\ rules' = rules \ found
      /\ gone' = gone \cup {r.id : r \in found}
      /\ kept' = kept \cup {r.id : r \in {x \in found : \E q \in Presses \ {p} : Holds(q, x.id)}}
      /\ inOrder' = (inOrder /\ found = {})
      /\ Disturbing(p, pressed)
      /\ UNCHANGED <<settings, filters, unused, screens, faults>>
  BY DEF Delete
<1>2. me.pc = "delete" /\ Active(me)
  <2>1. me.pc = "delete"
    BY DEF Delete, At
  <2>2. QED
    BY <2>1, HandlerIs DEF FavoritesInv
<1>3. Local(pressed, rules', unused, gone', kept') /\ pressed.pc = "ensure"
  <2>1. pressed = [me EXCEPT !.pc = "ensure"]
    BY DEF Continues, AfterDelete
  <2>2. DOMAIN pressed = Fields /\ pressed.pc = "ensure" /\ pressed.button = me.button /\ pressed.stale = me.stale
    BY <1>2, <2>1 DEF Active, Fields
  <2> HIDE DEF pressed
  <2>3. me.button.do = "delete"
    BY <1>2 DEF Active, Stages, ButtonOK, Dos
  <2>4. Active(pressed)
    BY <1>2, <2>2, <2>3 DEF Active, Stages, Holding
  <2>5. QED
    BY <2>2, <2>4, ActiveIsLocal DEF Holding
<1>4. ASSUME NEW q \in Presses \ {p} PROVE Held(press[q], unused, gone', kept')
  <2>1. Held(press[q], unused, gone, kept)
    BY OthersHold DEF FavoritesInv
  <2>2. ASSUME press[q].pc \in Holding, NEW k \in DOMAIN press[q].todo,
               press[q].todo[k].id \in gone'
        PROVE  press[q].todo[k].id \in kept'
    <3> DEFINE id == press[q].todo[k].id
    <3>1. CASE id \in gone
      BY <1>1, <2>1, <2>2, <3>1 DEF Held
    <3>2. CASE \E x \in found : id = x.id
      <4>1. PICK x \in found : id = x.id
        BY <3>2
      <4>2. Holds(q, x.id)
        BY <2>2, <4>1 DEF HasRead, Holding
      <4> HIDE DEF found, Holds
      <4>3. x.id \in kept'
        BY <1>1, <4>1, <4>2
      <4>4. QED
        BY <4>1, <4>3
    <3>3. QED
      BY <1>1, <2>2, <3>1, <3>2
  <2>3. QED
    BY <2>1, <2>2 DEF Held
<1>5. PressInv'
  <2> HIDE DEF pressed
  <2>1. QED
    BY <1>1, <1>3, <1>4, OthersAreDisturbed DEF FavoritesInv
<1>6. \A x \in found : x \in rules /\ x.id = me.button.rule
  BY DEF ById
<1>7. \A x \in rules' : x \in rules /\ x.id \notin {y.id : y \in found}
  BY <1>1 DEF ById
<1> HIDE DEF found
<1>8. TableInv'
  <2>1. TableOK(rules')
    <3>1. IsFiniteSet(rules')
      BY <1>1, FS_Subset DEF FavoritesInv, TableInv, TableOK
    <3>2. QED
      BY <1>7, <3>1 DEF FavoritesInv, TableInv, TableOK
  <2>2. DeletedStaysDeleted'
    <3>1. \A x \in rules' : x.id \in gone' => x.id \in gone
      BY <1>1, <1>7
    <3>2. \A x \in rules' : x.id \in gone => x.id \in kept'
      BY <1>1, <1>7 DEF FavoritesInv, TableInv, DeletedStaysDeleted
    <3>3. QED
      BY <3>1, <3>2 DEF DeletedStaysDeleted
  <2>3. kept' \subseteq gone'
    <3> HIDE DEF Holds
    <3>1. QED
      BY <1>1 DEF FavoritesInv, TableInv
  <2>4. gone' \cap unused = {}
    BY <1>1, <1>6 DEF FavoritesInv, TableInv
  <2>5. inOrder' \in BOOLEAN
    BY <1>1 DEF FavoritesInv, TableInv
  <2>6. QED
    BY <1>1, <1>7, <2>1, <2>2, <2>3, <2>4, <2>5 DEF FavoritesInv, TableInv
<1>9. NoRuleInv'
  <2>1. press'[p] = pressed
    BY <1>1 DEF Disturbing
  <2>2. Ensuring(press'[p])
    BY <1>3, <2>1 DEF Ensuring
  <2>3. (\E q \in Presses : Ensuring(press[q]))'
    BY <2>2 DEF Ensuring
  <2>4. QED
    BY <2>3 DEF NoRuleInv
<1>10. OrderInv'
  <2>1. inOrder' => inOrder /\ rules' = rules
    BY <1>1
  <2>2. QED
    BY <2>1 DEF FavoritesInv, OrderInv
<1>11. ScreenInv'
  BY <1>1, ScreensStay DEF FavoritesInv
<1>12. QED
  BY <1>5, <1>8, <1>9, <1>10, <1>11 DEF FavoritesInv

-----------------------------------------------------------------------------
(***************************************************************************)
(* The theorems.                                                           *)
(***************************************************************************)
LEMMA NextInv ==
    ASSUME FavoritesInv, [Next]_vars
    PROVE  FavoritesInv'
<1>1. CASE UNCHANGED vars
  BY <1>1 DEF vars, tables, screens, history, FavoritesInv, PressInv, TableInv, DeletedStaysDeleted,
              NoRuleInv, Reached, Ensuring, OrderInv, ScreenInv, ShownInv, SoundIsRight, NoSilentVideo,
              CompanionIsTheOriginal, Automatic
<1>2. ASSUME NEW p \in Presses, Step(p) PROVE FavoritesInv'
  <2>1. CASE Press(p)
    BY <2>1, PressStep
  <2>2. CASE Get(p)
    BY <2>2, GetStep
  <2>3. CASE Source(p)
    BY <2>3, SourceStep
  <2>4. CASE List(p)
    BY <2>4, ListStep
  <2>5. CASE Write(p)
    BY <2>5, WriteStep
  <2>6. CASE Delete(p)
    BY <2>6, DeleteStep
  <2>7. CASE Ensure(p)
    BY <2>7, EnsureStep
  <2>8. CASE GetSettings(p)
    BY <2>8, GetSettingsStep
  <2>18. CASE InsertSettings(p)
    BY <2>18, InsertSettingsStep
  <2>9. CASE SaveSettings(p)
    BY <2>9, SaveSettingsStep
  <2>10. CASE SubmitExact(p)
    BY <2>10, SubmitExactStep
  <2>11. CASE Show(p)
    BY <2>11, ShowStep
  <2>12. CASE GetFilters(p)
    BY <2>12, GetFiltersStep
  <2>13. CASE ResetFilters(p)
    BY <2>13, ResetFiltersStep
  <2>14. CASE AllFormats(p)
    BY <2>14, AllFormatsStep
  <2>15. CASE ToggleFilter(p)
    BY <2>15, ToggleFilterStep
  <2>16. CASE Raise(p)
    BY <2>16, RaiseStep
  <2>17. QED
    BY <1>2, <2>1, <2>2, <2>3, <2>4, <2>5, <2>6, <2>7, <2>8, <2>9, <2>10, <2>11, <2>12, <2>13, <2>14,
       <2>15, <2>16, <2>18 DEF Step
<1>3. QED
  BY <1>1, <1>2 DEF Next

\* What the handlers hold and the tables contain agree, in every reachable state.
THEOREM FavoritesAreInvariant == Spec => []FavoritesInv
<1>1. Init => FavoritesInv
  BY InitInv
<1>2. FavoritesInv /\ [Next]_vars => FavoritesInv'
  BY NextInv
<1>3. QED
  BY <1>1, <1>2, PTL DEF Spec

\* However the presses of a user overlap, and whichever buttons of older
\* keyboards they are, every rule stays well formed and has an identifier of its
\* own, no deleted rule comes back but through a handler that had read it
\* before, and who has opened the rules is left with one
\* (save_favorite_rule, ensure_default_favorite_rules).
THEOREM RulesStayKept == Spec => []RulesAreKept
<1>1. FavoritesInv => RulesAreKept
  <2> SUFFICES ASSUME FavoritesInv PROVE RulesAreKept
    OBVIOUS
  <2>1. \A r \in rules : r \in Rows /\ r.created # 0 /\ r.id \notin unused
    BY DEF FavoritesInv, TableInv, TableOK
  <2>2. ASSUME NEW r \in rules
        PROVE  /\ r.id \in RuleIds \ unused /\ r.priority \in Nat /\ r.created \in Nat \ {0}
               /\ \A d \in ToSet(Dimensions) : Exclusive(r.wants[d], d)
    <3>1. r.id \in RuleIds /\ r.priority \in Nat /\ r.created \in Nat /\ r.wants \in AllWants
      BY <2>1 DEF Rows
    <3>2. QED
      BY <2>1, <3>1 DEF AllWants
  <2>3. \A p \in Presses : press[p].pc \in Pcs
    <3>1. ASSUME NEW p \in Presses PROVE press[p].pc \in Pcs
      <4>1. CASE press[p].pc \in {"idle", "done"}
        BY <4>1 DEF Pcs
      <4>2. CASE press[p].pc \notin {"idle", "done"}
        <5>1. Active(press[p])
          BY <4>2, HandlerIs DEF FavoritesInv
        <5>2. QED
          BY <5>1 DEF Active, ButtonOK, Dos, Stages, Pcs
      <4>3. QED
        BY <4>1, <4>2
    <3>2. QED
      BY <3>1
  <2>4. TypeOK
    BY <2>2, <2>3 DEF TypeOK, FavoritesInv, TableInv, TableOK, SettingsSet, StoredSettings
  <2>5. DeletedStaysDeleted
    BY DEF FavoritesInv, TableInv
  <2>6. NeverWithoutARule
    <3> SUFFICES ASSUME AtRest, Opened, faults = 0, rules = {} PROVE FALSE
      BY DEF NeverWithoutARule
    <3>1. gone # {} \/ \E q \in Presses : Reached(press[q])
      BY DEF Opened, Reached, At
    <3>2. PICK q \in Presses : Ensuring(press[q])
      BY <3>1 DEF FavoritesInv, NoRuleInv
    <3>3. QED
      BY <3>2 DEF AtRest, Ensuring
  <2>7. QED
    BY <2>4, <2>5, <2>6 DEF RulesAreKept
<1>2. QED
  BY <1>1, FavoritesAreInvariant, PTL

\* Every format of a list is on one page, a page that does not exist any more is
\* the last one, and none is empty when there are formats (_pagination).
THEOREM EveryQualityStaysOnOnePage == Spec => []EveryQualityIsOnOnePage
<1>1. FavoritesInv => EveryQualityIsOnOnePage
  <2> SUFFICES ASSUME FavoritesInv, shown # None PROVE EveryQualityIsOnOnePage
    BY DEF EveryQualityIsOnOnePage
  <2>1. /\ shown.list \in Seq(Int) /\ shown.asked \in Nat
        /\ shown.visible = OnPage(shown.list, shown.asked, PageSize)
    BY DEF FavoritesInv, ScreenInv, ShownInv
  <2>2. PageSize \in Nat \ {0}
    BY PageAssumption
  <2> DEFINE list == shown.list
             asked == shown.asked
             n == Pages(Len(list), PageSize)
             page(k) == OnPage(list, k, PageSize)
  <2>3. /\ OnPage(list, asked, PageSize) = <<>> <=> list = <<>>
        /\ Len(OnPage(list, asked, PageSize)) <= PageSize
        /\ OnPage(list, asked, PageSize) = page(IF asked < n THEN asked ELSE n - 1)
        /\ FlattenSeq([k \in 1..n |-> page(k - 1)]) = list
    <3> HIDE DEF list, asked
    <3>1. list \in Seq(Int) /\ asked \in Nat
      BY <2>1 DEF list, asked
    <3>2. QED
      BY <2>2, <3>1, EveryPageIsRight
  <2>4. QED
    BY <2>1, <2>3 DEF EveryQualityIsOnOnePage
<1>2. QED
  BY <1>1, FavoritesAreInvariant, PTL

\* A video is submitted with one of its session's tracks if it needs one; one
\* chosen automatically is no commentary and the original where there is such a
\* track, and in the preferred language among those that are otherwise alike.
THEOREM SoundStaysRight == Spec => []SoundIsRight
<1>1. FavoritesInv => SoundIsRight
  BY DEF FavoritesInv, ScreenInv
<1>2. QED
  BY <1>1, FavoritesAreInvariant, PTL

\* A handler that has rows to write goes on only by its own writes.
LEMMA OnlyItsLastWriteEndsAMove ==
    ASSUME FavoritesInv, NEW p \in Presses, NEW q \in Presses, Step(q),
           press[p].pc = "write", press'[p].pc = "ensure"
    PROVE  Write(p) /\ Len(press[p].todo) = 1
<1>1. DOMAIN press = Presses /\ Active(press[p])
  BY HandlerIs DEF FavoritesInv
<1>2. ASSUME q # p PROVE FALSE
  <2>1. ASSUME NEW new, press' = [press EXCEPT ![q] = new] PROVE FALSE
    BY <1>1, <1>2, <2>1
  <2>2. ASSUME NEW new, Disturbing(q, new) PROVE FALSE
    <3>1. press'[p] = [press[p] EXCEPT !.stale = TRUE]
      BY <1>2, <2>2 DEF Disturbing, HasRead
    <3>2. QED
      BY <1>1, <3>1 DEF Active, Fields
  <2>3. CASE Press(q) \/ Get(q) \/ Source(q) \/ List(q) \/ Ensure(q)
    BY <2>1, <2>3 DEF Press, Get, Source, List, Ensure
  <2>4. CASE GetSettings(q) \/ InsertSettings(q) \/ SaveSettings(q) \/ SubmitExact(q) \/ GetFilters(q)
    BY <2>1, <2>4 DEF GetSettings, InsertSettings, UsesSettings, Goes, SaveSettings, SubmitExact, GetFilters, Submit, Ends
  <2>5. CASE Show(q) \/ ResetFilters(q) \/ AllFormats(q) \/ ToggleFilter(q) \/ Raise(q)
    BY <2>1, <2>5 DEF Show, ResetFilters, AllFormats, ToggleFilter, Raise, ShowFiltered, Shows, Ends, Goes
  <2>6. CASE Write(q)
    BY <2>2, <2>6 DEF Write
  <2>7. CASE Delete(q)
    BY <2>2, <2>7 DEF Delete
  <2>8. QED
    BY <2>3, <2>4, <2>5, <2>6, <2>7 DEF Step
<1>3. Write(p) \/ Raise(p)
  BY <1>2 DEF Step, Press, Get, Source, List, Delete, Ensure, GetSettings, InsertSettings, SaveSettings, SubmitExact, Show,
              GetFilters, ResetFilters, AllFormats, ToggleFilter, At
<1>4. ~Raise(p)
  BY <1>1 DEF Raise, Ends, Over
<1>5. Len(press[p].todo) = 1
  <2> SUFFICES ASSUME Len(press[p].todo) # 1 PROVE FALSE
    OBVIOUS
  <2>1. press'[p] = [[press[p] EXCEPT !.todo = Tail(@)] EXCEPT !.pc = "write"]
    BY <1>3, <1>4 DEF Write, Disturbing, Continues
  <2>2. QED
    BY <1>1, <2>1 DEF Active, Fields
<1>6. QED
  BY <1>3, <1>4, <1>5

\* Until a rule is deleted or two handlers overlap, the order shown is the order
\* applied; and a move that nothing disturbs moves its rule one place in the
\* list that was shown, leaves the others in their order, and makes the list
\* apply as it is shown (list_favorite_rules, FavoriteMatcher.match, frmove).
THEOREM OrderStaysAsShown == Spec => OrderAsShown
<1>1. FavoritesInv => ShownAsApplied
  <2> SUFFICES ASSUME FavoritesInv, inOrder, NEW r \in rules, NEW s \in rules, r # s
               PROVE  Before(<<r.priority, r.created>>, <<s.priority, s.created>>)
                      <=> Before(<<r.priority, r.id>>, <<s.priority, s.id>>)
    BY DEF ShownAsApplied
  <2>1. r.priority \in Nat /\ s.priority \in Nat /\ r.priority # s.priority
    BY DEF FavoritesInv, OrderInv, Ordered, TableInv, TableOK, Rows
  <2>2. ASSUME NEW a, NEW b, NEW x, NEW y, x \in Nat, y \in Nat, x # y
        PROVE  Before(<<x, a>>, <<y, b>>) <=> x < y
    <3> DEFINE u == <<x, a>>
               v == <<y, b>>
    <3>1. DOMAIN u = 1..2 /\ u[1] = x /\ v[1] = y
      OBVIOUS
    <3> HIDE DEF u, v
    <3>2. ASSUME Before(u, v) PROVE x < y
      <4>1. PICK i \in 1..2 : u[i] < v[i] /\ \A j \in 1..(i - 1) : u[j] = v[j]
        BY <3>1, <3>2 DEF Before
      <4>2. i # 1 => u[1] = v[1]
        BY <4>1
      <4>3. QED
        BY <2>2, <3>1, <4>1, <4>2
    <3>3. ASSUME x < y PROVE Before(u, v)
      BY <3>1, <3>3, TheFirstDecides
    <3>4. QED
      BY <3>2, <3>3 DEF u, v
  <2>3. QED
    BY <2>1, <2>2
<1>2. FavoritesInv /\ [Next]_vars =>
         [\A p \in Presses :
            (At(p, "write") /\ press[p].button.do = "move" /\ press'[p].pc = "ensure" /\ ~press[p].stale)
            => /\ Moved(Ids(press[p].list), Ids(Listed(rules')), press[p].button.rule, press[p].button.delta)
               /\ Listed(rules') = AsApplied(rules')]_vars
  <2> SUFFICES ASSUME FavoritesInv, Next, NEW p \in Presses,
                      press[p].pc = "write", press[p].button.do = "move", press'[p].pc = "ensure",
                      ~press[p].stale
               PROVE  /\ Moved(Ids(press[p].list), Ids(Listed(rules')), press[p].button.rule, press[p].button.delta)
                      /\ Listed(rules') = AsApplied(rules')
    BY DEF At
  <2>1. Write(p) /\ Len(press[p].todo) = 1
    <3>1. PICK q \in Presses : Step(q)
      BY DEF Next
    <3>2. QED
      BY <3>1, OnlyItsLastWriteEndsAMove
  <2>2. rules' = Saved(Head(press[p].todo), rules)
    BY <2>1 DEF Write
  <2>3. QED
    BY <2>1, <2>2, LastMoveIsDone
<1>3. QED
  BY <1>1, <1>2, FavoritesAreInvariant, PTL DEF Spec, OrderAsShown, MovesOneStep

\* What is recommended is, for every rule that is on and every choice of one value
\* in each of its dimensions, the best format of the source that has them, each
\* once and those of an earlier rule first (FavoriteMatcher.match).
THEOREM RecommendedStaysBest == Spec => RecommendedIsBest
<1>1. FavoritesInv /\ [Next]_vars =>
         [shown' # shown /\ shown'.by # None =>
            LET by == shown'.by IN
            IsRecommendation([i \in DOMAIN shown'.list |-> get_format_by_key(by.session, shown'.list[i])],
                             Formats[by.session], by.rules, by.strategy)]_shown
  <2> SUFFICES ASSUME FavoritesInv, Next, shown' # shown, shown'.by # None
               PROVE  IsRecommendation([i \in DOMAIN shown'.list |->
                                            get_format_by_key(shown'.by.session, shown'.list[i])],
                                       Formats[shown'.by.session], shown'.by.rules, shown'.by.strategy)
    BY DEF vars, screens
  <2>1. PICK p \in Presses : Show(p)
    <3>1. PICK p \in Presses : Step(p)
      BY DEF Next
    <3>2. ASSUME NEW list, NEW page, Shows(p, list, page, None) PROVE FALSE
      BY <3>2 DEF Shows
    <3>3. ~AllFormats(p) /\ ~ResetFilters(p)
      BY <3>2 DEF AllFormats, ResetFilters, ShowFiltered
    <3>4. Show(p)
      BY <3>1, <3>3 DEF Step, Press, Get, Source, List, Write, Delete, Ensure, GetSettings, InsertSettings, SaveSettings,
                        SubmitExact, GetFilters, ToggleFilter, Raise, screens
    <3>5. QED
      BY <3>4
  <2> DEFINE me == press[p]
             s == me.button.session
             R == ToSet(me.list)
             strategy == me.copy.strategy
             best == match(Formats[s], R, strategy)
             by == [session |-> s, rules |-> R, strategy |-> strategy]
             keys == [i \in DOMAIN best |-> best[i].id]
  <2>2. /\ s \in Sessions /\ best \in Seq(Videos(Formats[s])) /\ IsRecommendation(best, Formats[s], R, strategy)
        /\ Shows(p, best, me.button.page, by)
    BY <2>1, ShowIs
  <2> HIDE DEF best, me
  <2>3. shown'.list = keys /\ shown'.by = by
    BY <2>2 DEF Shows
  <2>4. best = [i \in DOMAIN keys |-> get_format_by_key(s, keys[i])]
    <3>1. ASSUME NEW i \in DOMAIN best PROVE get_format_by_key(s, keys[i]) = best[i]
      <4> DEFINE V == Videos(Formats[s])
      <4>1. V \subseteq ToSet(Formats[s])
        BY <2>2, VideosAre
      <4>2. best[i] \in V
        <5> HIDE DEF V
        <5>1. best \in Seq(V) /\ i \in DOMAIN best
          BY <2>2, <3>1 DEF V
        <5>2. QED
          BY <5>1
      <4>3. best[i] \in ToSet(Formats[s])
        BY <4>1, <4>2
      <4>4. QED
        BY <2>2, <4>3, VideosAre
    <3>2. best = [i \in DOMAIN best |-> best[i]]
      BY <2>2
    <3>3. QED
      BY <3>1, <3>2
  <2>5. by.session = s /\ by.rules = R /\ by.strategy = strategy
    OBVIOUS
  <2> HIDE DEF by, keys, s, R, strategy
  <2>6. QED
    BY <2>2, <2>3, <2>4, <2>5
<1>2. QED
  BY <1>1, FavoritesAreInvariant, PTL DEF Spec, RecommendedIsBest
=============================================================================
