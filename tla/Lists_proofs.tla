---------------------------- MODULE Lists_proofs -----------------------------
(***************************************************************************)
(* What the operators of Lists compute: InOrder(S), defined by the ranks   *)
(* of the numbers, exists for every finite set and lists each of them      *)
(* once, in ascending order; Those keeps the order of a sequence; a loop   *)
(* keeps what each of its steps keeps; a concatenation has the elements of *)
(* its parts.                                                              *)
(***************************************************************************)
EXTENDS Lists, SequencesExt, TLAPS, FiniteSetTheorems, SequenceTheorems

------------------------------------------------------------------------------
\* A set of numbers in ascending order.

Rank(S, a) == Cardinality({b \in S : b < a})

\* The ranks of a finite set of numbers are 0, 1, ..., and grow with the numbers.
LEMMA RankGrows ==
  ASSUME NEW S \in SUBSET Int, IsFiniteSet(S)
  PROVE  /\ \A a \in S : Rank(S, a) \in 0..Cardinality(S) - 1
         /\ \A a, b \in S : a < b => Rank(S, a) < Rank(S, b)
<1>1. Cardinality(S) \in Nat
  BY FS_CardinalityType
<1>2. ASSUME NEW a \in S
      PROVE  /\ IsFiniteSet({b \in S : b < a}) /\ Rank(S, a) \in Nat
  <2>1. {b \in S : b < a} \in SUBSET S
    OBVIOUS
  <2> QED
    BY <2>1, FS_Subset, FS_CardinalityType DEF Rank
<1>3. ASSUME NEW a \in S
      PROVE  Rank(S, a) \in 0..Cardinality(S) - 1
  <2>1. {b \in S : b < a} \in SUBSET S /\ a \in S /\ a \notin {b \in S : b < a}
    OBVIOUS
  <2>2. Rank(S, a) <= Cardinality(S) /\ Rank(S, a) # Cardinality(S)
    BY <2>1, FS_Subset DEF Rank
  <2>3. Rank(S, a) \in Nat
    BY <1>2
  <2> QED
    BY <1>1, <2>2, <2>3
<1>4. ASSUME NEW a \in S, NEW b \in S, a < b
      PROVE  Rank(S, a) < Rank(S, b)
  <2> DEFINE A == {c \in S : c < a}
             B == {c \in S : c < b}
  <2>1. A \in SUBSET B /\ a \in B /\ a \notin A
    <3>1. \A c \in S : c < a => c < b
      BY <1>4
    <3>2. ~(a < a)
      BY <1>4
    <3> QED
      BY <1>4, <3>1, <3>2
  <2>2. IsFiniteSet(A) /\ IsFiniteSet(B) /\ Cardinality(A) \in Nat /\ Cardinality(B) \in Nat
    BY <1>2 DEF Rank
  <2> HIDE DEF A, B
  <2>3. Cardinality(A) <= Cardinality(B) /\ Cardinality(A) # Cardinality(B)
    BY <2>1, <2>2, FS_Subset
  <2>4. Cardinality(A) < Cardinality(B)
    BY <2>2, <2>3
  <2> QED
    BY <2>4 DEF Rank, A, B
<1> QED
  BY <1>3, <1>4

\* InOrder lists every element of a finite set of numbers once, in ascending order.
LEMMA InOrderFacts ==
  ASSUME NEW S \in SUBSET Int, IsFiniteSet(S)
  PROVE  /\ InOrder(S) \in Seq(S) /\ Len(InOrder(S)) = Cardinality(S)
         /\ DOMAIN InOrder(S) = 1..Cardinality(S)
         /\ \A i \in DOMAIN InOrder(S) : InOrder(S)[i] \in S
         /\ \A a \in S : \E i \in DOMAIN InOrder(S) : InOrder(S)[i] = a
         /\ \A i, j \in DOMAIN InOrder(S) : i < j => InOrder(S)[i] < InOrder(S)[j]
<1> DEFINE n == Cardinality(S)
           r == [a \in S |-> Rank(S, a) + 1]
<1>1. n \in Nat
  BY FS_CardinalityType
<1>2. \A a \in S : Rank(S, a) \in 0..n - 1
  BY RankGrows
<1>3. \A a, b \in S : a # b => Rank(S, a) # Rank(S, b)
  <2>1. SUFFICES ASSUME NEW a \in S, NEW b \in S, a # b
                 PROVE  Rank(S, a) # Rank(S, b)
    OBVIOUS
  <2>2. a < b \/ b < a
    BY <2>1
  <2>3. Rank(S, a) \in Int /\ Rank(S, b) \in Int
    BY <1>2
  <2> QED
    BY <2>2, <2>3, RankGrows
<1> HIDE DEF n
<1>4. r \in [S -> 1..n]
  BY <1>1, <1>2
<1>5. r \in Injection(S, 1..n)
  <2>1. \A a, b \in S : r[a] = r[b] => a = b
    BY <1>1, <1>2, <1>3
  <2> HIDE DEF r
  <2> QED
    BY <1>4, <2>1 DEF Injection, IsInjective
<1>6. r \in Surjection(S, 1..n)
  <2>1. IsFiniteSet(1..n) /\ Cardinality(1..n) = n
    BY <1>1, FS_Interval
  <2> QED
    BY <1>5, <2>1, FS_Injection DEF n
<1>7. \A i \in 1..n : \E a \in S : Rank(S, a) = i - 1
  <2>1. \A i \in 1..n : \E a \in S : r[a] = i
    BY <1>6 DEF Surjection
  <2>2. SUFFICES ASSUME NEW i \in 1..n, NEW a \in S, r[a] = i
                 PROVE  Rank(S, a) = i - 1
    BY <2>1
  <2>3. Rank(S, a) + 1 = i
    BY <2>2
  <2>4. Rank(S, a) \in Int
    BY <1>2
  <2> QED
    BY <1>1, <2>3, <2>4
<1>8. InOrder(S) = [i \in 1..n |-> CHOOSE a \in S : Rank(S, a) = i - 1]
  BY DEF InOrder, Rank, n
<1>9. \A i \in 1..n : InOrder(S)[i] \in S /\ Rank(S, InOrder(S)[i]) = i - 1
  BY <1>7, <1>8
<1>10. DOMAIN InOrder(S) = 1..n
  BY <1>8
<1>11. InOrder(S) \in [1..n -> S]
  BY <1>8, <1>9
<1>12. InOrder(S) \in Seq(S) /\ Len(InOrder(S)) = n
  BY <1>1, <1>11
<1>13. \A a \in S : \E i \in 1..n : InOrder(S)[i] = a
  <2>1. SUFFICES ASSUME NEW a \in S PROVE \E i \in 1..n : InOrder(S)[i] = a
    OBVIOUS
  <2>2. Rank(S, a) + 1 \in 1..n /\ (Rank(S, a) + 1) - 1 = Rank(S, a)
    BY <1>1, <1>2
  <2>3. Rank(S, InOrder(S)[Rank(S, a) + 1]) = Rank(S, a) /\ InOrder(S)[Rank(S, a) + 1] \in S
    BY <1>9, <2>2
  <2> QED
    BY <1>3, <2>2, <2>3
<1>14. \A i, j \in 1..n : i < j => InOrder(S)[i] < InOrder(S)[j]
  <2>1. SUFFICES ASSUME NEW i \in 1..n, NEW j \in 1..n, i < j,
                        ~(InOrder(S)[i] < InOrder(S)[j])
                 PROVE  FALSE
    OBVIOUS
  <2> DEFINE a == InOrder(S)[i]
             b == InOrder(S)[j]
  <2>2. a \in S /\ b \in S /\ Rank(S, a) = i - 1 /\ Rank(S, b) = j - 1
    BY <1>9
  <2>3. ~(a < b)
    BY <2>1
  <2> HIDE DEF a, b
  <2>4. b < a \/ a = b
    BY <2>2, <2>3
  <2>5. Rank(S, b) < Rank(S, a) \/ a = b
    BY <2>2, <2>4, RankGrows
  <2> QED
    BY <1>1, <2>1, <2>2, <2>5
<1> QED
  BY <1>9, <1>10, <1>12, <1>13, <1>14 DEF n
------------------------------------------------------------------------------
\* Sequences.

\* The elements that were picked, each as often as it was, and no others.
LEMMA ThoseFacts ==
  ASSUME NEW A, NEW s \in Seq(A), NEW S \in SUBSET DOMAIN s
  PROVE  /\ Those(s, S) \in Seq(A)
         /\ \A x : (\E i \in DOMAIN Those(s, S) : Those(s, S)[i] = x) <=> \E i \in S : s[i] = x
         /\ (\A i, j \in DOMAIN s : s[i] = s[j] => i = j) =>
              \A i, j \in DOMAIN Those(s, S) : Those(s, S)[i] = Those(s, S)[j] => i = j
         /\ Those(s, S) = <<>> <=> S = {}
<1> DEFINE o == InOrder(S)
           t == Those(s, S)
<1>1. S \in SUBSET Int /\ IsFiniteSet(S)
  <2>1. DOMAIN s = 1..Len(s) /\ Len(s) \in Nat
    OBVIOUS
  <2>2. IsFiniteSet(DOMAIN s)
    BY <2>1, FS_Interval
  <2> QED
    BY <2>1, <2>2, FS_Subset
<1>2. /\ Len(o) = Cardinality(S) /\ DOMAIN o = 1..Cardinality(S) /\ Cardinality(S) \in Nat
      /\ \A i \in DOMAIN o : o[i] \in S
      /\ \A a \in S : \E i \in DOMAIN o : o[i] = a
      /\ \A i, j \in DOMAIN o : i < j => o[i] < o[j]
  BY <1>1, InOrderFacts, FS_CardinalityType
<1>3. t = [i \in DOMAIN o |-> s[o[i]]]
  BY DEF Those
<1> HIDE DEF o, t
<1>4. DOMAIN t = DOMAIN o /\ \A i \in DOMAIN o : t[i] = s[o[i]] /\ o[i] \in DOMAIN s
  BY <1>2, <1>3
<1>5. t \in Seq(A)
  <2>1. \A i \in DOMAIN o : s[o[i]] \in A
    BY <1>4
  <2>2. t \in [1..Cardinality(S) -> A]
    BY <1>2, <1>3, <2>1
  <2> QED
    BY <1>2, <2>2
<1>6. ASSUME NEW x
      PROVE  (\E i \in DOMAIN t : t[i] = x) <=> \E i \in S : s[i] = x
  BY <1>2, <1>4
<1>7. ASSUME \A i, j \in DOMAIN s : s[i] = s[j] => i = j, NEW i \in DOMAIN t, NEW j \in DOMAIN t,
             t[i] = t[j]
      PROVE  i = j
  <2>1. o[i] = o[j] /\ i \in Int /\ j \in Int /\ o[i] \in Int
    BY <1>1, <1>2, <1>4, <1>7
  <2> QED
    BY <1>2, <1>4, <2>1
<1>8. t = <<>> <=> S = {}
  <2>1. t = <<>> <=> DOMAIN t = {}
    BY <1>5
  <2> QED
    BY <1>2, <1>4, <2>1
<1> QED
  BY <1>5, <1>6, <1>7, <1>8 DEF t

------------------------------------------------------------------------------
\* Loops.

LEMMA Least ==
  ASSUME NEW T \in SUBSET Nat, T # {}
  PROVE  \E n \in T : \A m \in T : n <= m
<1>1. PICK k \in T : TRUE
  OBVIOUS
<1> DEFINE S == {m \in T : m <= k}
<1>2. S \in SUBSET Int /\ IsFiniteSet(S) /\ k \in S
  <2>1. k \in Nat /\ \A m \in T : m \in Nat
    OBVIOUS
  <2>2. \A m \in S : m \in 0..k /\ m \in Int
    BY <2>1
  <2>3. k <= k
    BY <2>1
  <2>4. k \in S
    BY <2>3
  <2> HIDE DEF S
  <2>5. IsFiniteSet(0..k)
    BY <2>1, FS_Interval
  <2>6. S \subseteq 0..k /\ S \in SUBSET Int
    BY <2>2
  <2> QED
    BY <2>4, <2>5, <2>6, FS_Subset
<1> HIDE DEF S
<1> DEFINE o == InOrder(S)
<1>3. /\ DOMAIN o = 1..Cardinality(S) /\ Cardinality(S) \in Nat
      /\ \A i \in DOMAIN o : o[i] \in S
      /\ \A a \in S : \E i \in DOMAIN o : o[i] = a
      /\ \A i, j \in DOMAIN o : i < j => o[i] < o[j]
  BY <1>2, InOrderFacts, FS_CardinalityType
<1> HIDE DEF o
<1>4. 1 \in DOMAIN o /\ o[1] \in S
  BY <1>2, <1>3
<1>5. ASSUME NEW m \in S
      PROVE  o[1] <= m
  <2>1. PICK i \in DOMAIN o : o[i] = m
    BY <1>3
  <2>2. i = 1 \/ 1 < i
    BY <1>3
  <2>3. o[1] \in Int /\ m \in Int
    BY <1>2, <1>4
  <2> QED
    BY <1>3, <1>4, <2>1, <2>2, <2>3
<1>6. ASSUME NEW m \in T
      PROVE  o[1] <= m
  <2>1. o[1] \in Int /\ m \in Int /\ k \in Int /\ o[1] <= k
    BY <1>2, <1>4 DEF S
  <2>2. CASE m <= k
    BY <1>5, <2>2 DEF S
  <2> QED
    BY <2>1, <2>2
<1> QED
  BY <1>4, <1>6 DEF S

\* What holds before a loop and is kept by each of its steps holds after it.
LEMMA LoopKeeps ==
  ASSUME NEW n \in Nat, NEW J, NEW g, g[0] \in J[0],
         \A i \in 1..n : g[i - 1] \in J[i - 1] => g[i] \in J[i]
  PROVE  \A i \in 0..n : g[i] \in J[i]
<1> DEFINE T == {i \in 0..n : g[i] \notin J[i]}
<1>1. SUFFICES ASSUME T # {} PROVE FALSE
  OBVIOUS
<1>2. PICK m \in T : \A k \in T : m <= k
  <2>1. T \in SUBSET Nat
    OBVIOUS
  <2> HIDE DEF T
  <2> QED
    BY <1>1, <2>1, Least
<1>3. m # 0 /\ m \in 0..n
  BY <1>2
<1>4. m - 1 \in 0..n /\ m - 1 \notin T /\ m \in 1..n
  BY <1>2, <1>3
<1> QED
  BY <1>2, <1>4

\* The values of a loop from a with the steps F.
Loop(g, n, a, F) == g = [i \in 0..n |-> IF i = 0 THEN a ELSE F[<<i, g[i - 1]>>]]

\* There are such values if the steps stay in the sets J.
LEMMA LoopExists ==
  ASSUME NEW n \in Nat, NEW J, NEW a, a \in J[0], NEW F,
         \A i \in 1..n : \A x \in J[i - 1] : F[<<i, x>>] \in J[i]
  PROVE  \E g : Loop(g, n, a, F) /\ \A i \in 0..n : g[i] \in J[i]
<1> DEFINE Upto(m, g) == /\ DOMAIN g = 0..m /\ g[0] = a
                         /\ \A i \in 1..m : g[i] = F[<<i, g[i - 1]>>]
           T == {m \in 0..n : ~\E g : Upto(m, g)}
<1>1. ASSUME T # {}
      PROVE  FALSE
  <2>1. PICK m \in T : \A k \in T : m <= k
    <3>1. T \in SUBSET Nat
      OBVIOUS
    <3> HIDE DEF T
    <3> QED
      BY <1>1, <3>1, Least
  <2>2. m # 0
    <3>1. Upto(0, [i \in 0..0 |-> a])
      OBVIOUS
    <3> QED
      BY <2>1, <3>1
  <2>3. m - 1 \in 0..n /\ m - 1 \notin T
    BY <2>1, <2>2
  <2>4. PICK g : Upto(m - 1, g)
    BY <2>3
  <2> DEFINE h == [i \in 0..m |-> IF i = m THEN F[<<m, g[m - 1]>>] ELSE g[i]]
  <2>5. Upto(m, h)
    <3>1. \A i \in 0..m - 1 : i \in 0..m /\ i # m
      BY <2>1
    <3>2. DOMAIN h = 0..m /\ \A i \in 0..m - 1 : h[i] = g[i]
      BY <3>1
    <3>3. h[m] = F[<<m, g[m - 1]>>]
      BY <2>1
    <3>4. 0 \in 0..m - 1 /\ m - 1 \in 0..m - 1
      BY <2>1, <2>2
    <3>5. \A i \in 1..m : i = m \/ (i \in 1..m - 1 /\ i \in 0..m - 1 /\ i - 1 \in 0..m - 1)
      BY <2>1
    <3> HIDE DEF h
    <3> QED
      BY <2>4, <3>2, <3>3, <3>4, <3>5
  <2> QED
    BY <2>1, <2>5
<1>2. PICK g : Upto(n, g)
  BY <1>1
<1> DEFINE f == [i \in 0..n |-> IF i = 0 THEN a ELSE F[<<i, g[i - 1]>>]]
<1>3. \A i \in 0..n : f[i] = g[i]
  BY <1>2
<1>4. f = [i \in 0..n |-> IF i = 0 THEN a ELSE F[<<i, f[i - 1]>>]]
  <2>1. \A i \in 0..n : i # 0 => i - 1 \in 0..n
    OBVIOUS
  <2>2. \A i \in 0..n : i # 0 => f[i - 1] = g[i - 1]
    BY <1>3, <2>1
  <2> QED
    BY <2>2
<1>5. f[0] \in J[0] /\ \A i \in 1..n : f[i - 1] \in J[i - 1] => f[i] \in J[i]
  <2>1. 0 \in 0..n /\ \A i \in 1..n : i \in 0..n /\ i # 0
    OBVIOUS
  <2>2. f[0] = a /\ \A i \in 1..n : f[i] = F[<<i, f[i - 1]>>]
    BY <1>4, <2>1
  <2> QED
    BY <2>2
<1> HIDE DEF f
<1>6. \A i \in 0..n : f[i] \in J[i]
  BY <1>5, LoopKeeps
<1> QED
  BY <1>4, <1>6 DEF Loop

------------------------------------------------------------------------------
\* The concatenation of sequences (FlattenSeq of SequencesExt).

\* Every element of q is one of the first n sequences of s, and no place is used twice:
\* u gives the sequence, w the position in it.
Placed(q, s, n, u, w) ==
  /\ u \in [1..Len(q) -> 1..n] /\ w \in [1..Len(q) -> Nat]
  /\ \A m \in 1..Len(q) : w[m] \in 1..Len(s[u[m]]) /\ q[m] = s[u[m]][w[m]]
  /\ \A l, m \in 1..Len(q) : u[l] = u[m] /\ w[l] = w[m] => l = m

\* One more sequence is joined.
LEMMA PlacedNext ==
  ASSUME NEW A, NEW n \in Nat, NEW s \in [1..n -> Seq(A)], NEW i \in 1..n, NEW q \in Seq(A), NEW u, NEW w,
         Placed(q, s, i - 1, u, w)
  PROVE  q \o s[i] \in Seq(A) /\ \E v, x : Placed(q \o s[i], s, i, v, x)
<1> DEFINE r == s[i]
           a == Len(q)
           b == Len(r)
           o == q \o r
           v == [m \in 1..a + b |-> IF m <= a THEN u[m] ELSE i]
           x == [m \in 1..a + b |-> IF m <= a THEN w[m] ELSE m - a]
<1>1. r \in Seq(A) /\ a \in Nat /\ b \in Nat
  OBVIOUS
<1>2. o \in Seq(A) /\ Len(o) = a + b /\ \A m \in 1..a + b : o[m] = IF m <= a THEN q[m] ELSE r[m - a]
  BY <1>1, ConcatProperties
<1>3. /\ u \in [1..a -> 1..i - 1] /\ w \in [1..a -> Nat]
      /\ \A m \in 1..a : w[m] \in 1..Len(s[u[m]]) /\ q[m] = s[u[m]][w[m]]
      /\ \A l, m \in 1..a : u[l] = u[m] /\ w[l] = w[m] => l = m
  BY DEF Placed
<1> HIDE DEF r, o
<1>4. \A m \in 1..a + b : IF m <= a THEN m \in 1..a ELSE m - a \in 1..b
  BY <1>1
<1> HIDE DEF a, b
<1>5. v \in [1..a + b -> 1..i] /\ x \in [1..a + b -> Nat]
  <2>1. \A m \in 1..a : u[m] \in 1..i /\ w[m] \in Nat
    BY <1>3, SMTT(40)
  <2>2. i \in 1..i
    OBVIOUS
  <2> QED
    BY <1>4, <2>1, <2>2
<1>6. ASSUME NEW m \in 1..a + b
      PROVE  x[m] \in 1..Len(s[v[m]]) /\ o[m] = s[v[m]][x[m]]
  <2>1. CASE m <= a
    BY <1>2, <1>3, <1>4, <2>1
  <2>2. CASE ~(m <= a)
    <3>1. v[m] = i /\ x[m] = m - a /\ m - a \in 1..b
      BY <1>4, <2>2
    <3> QED
      BY <1>2, <2>2, <3>1 DEF r, b
  <2> QED
    BY <2>1, <2>2
<1>7. ASSUME NEW l \in 1..a + b, NEW m \in 1..a + b, v[l] = v[m], x[l] = x[m]
      PROVE  l = m
  <2>1. \A k \in 1..a : u[k] # i
    <3>1. \A j \in 1..i - 1 : j # i
      OBVIOUS
    <3>2. \A k \in 1..a : u[k] \in 1..i - 1
      BY <1>3
    <3> HIDE DEF v, x
    <3> QED
      BY <3>1, <3>2
  <2>2. CASE l <= a
    BY <1>3, <1>4, <1>7, <2>1, <2>2
  <2>3. CASE ~(l <= a)
    <3>1. v[l] = i /\ x[l] = l - a
      BY <2>3
    <3>2. ~(m <= a)
      BY <1>4, <1>7, <2>1, <3>1
    <3>3. x[m] = m - a
      BY <3>2
    <3> QED
      BY <1>1, <1>7, <3>1, <3>3
  <2> QED
    BY <2>2, <2>3
<1>8. Placed(o, s, i, v, x)
  <2> HIDE DEF v, x
  <2> QED
    BY <1>2, <1>5, <1>6, <1>7 DEF Placed
<1> HIDE DEF v, x
<1> QED
  BY <1>2, <1>8 DEF o, r

\* The concatenation of sequences has their elements, each as often as it stands in them.
LEMMA FlattenFacts ==
  ASSUME NEW A, NEW n \in Nat, NEW s \in [1..n -> Seq(A)]
  PROVE  FlattenSeq(s) \in Seq(A) /\ \E u, w : Placed(FlattenSeq(s), s, n, u, w)
<1>1. Len(s) = n
  OBVIOUS
<1>2. \A q : Len(q) = 0 => \E u, w : Placed(q, s, 0, u, w)
  <2>1. SUFFICES ASSUME NEW q, Len(q) = 0 PROVE \E u, w : Placed(q, s, 0, u, w)
    OBVIOUS
  <2> DEFINE z == [m \in 1..Len(q) |-> 0]
  <2>2. 1..Len(q) = {}
    BY <2>1
  <2>3. z \in [1..Len(q) -> 1..0] /\ z \in [1..Len(q) -> Nat]
    BY <2>2
  <2> HIDE DEF z
  <2>4. Placed(q, s, 0, z, z)
    BY <2>2, <2>3 DEF Placed
  <2> QED
    BY <2>4
<1>3. CASE n = 0
  <2>1. FlattenSeq(s) = s /\ s \in Seq(A) /\ Len(s) = 0
    BY <1>1, <1>3 DEF FlattenSeq
  <2> QED
    BY <1>2, <1>3, <2>1
<1>4. CASE n # 0
  <2> DEFINE P(h) == h = [i \in 1..Len(s) |-> IF i = 1 THEN s[i] ELSE h[i - 1] \o s[i]]
             f == CHOOSE h : P(h)
             J == [i \in 0..n |-> {q \in Seq(A) : \E u, w : Placed(q, s, i, u, w)}]
             F == [p \in (1..n) \X Seq(A) |-> p[2] \o s[p[1]]]
  <2>1. FlattenSeq(s) = f[n]
    BY <1>1, <1>4 DEF FlattenSeq
  <2>2. <<>> \in J[0]
    <3>1. <<>> \in Seq(A) /\ Len(<<>>) = 0 /\ 0 \in 0..n
      OBVIOUS
    <3>2. \E u, w : Placed(<<>>, s, 0, u, w)
      BY <1>2, <3>1
    <3> QED
      BY <3>1, <3>2
  <2>3. \A i \in 1..n : \A q \in J[i - 1] : F[<<i, q>>] = q \o s[i] /\ F[<<i, q>>] \in J[i]
    <3>1. SUFFICES ASSUME NEW i \in 1..n, NEW q \in J[i - 1]
                   PROVE  F[<<i, q>>] = q \o s[i] /\ F[<<i, q>>] \in J[i]
      OBVIOUS
    <3>2. i - 1 \in 0..n /\ i \in 0..n
      OBVIOUS
    <3>3. PICK u, w : q \in Seq(A) /\ Placed(q, s, i - 1, u, w)
      BY <3>2
    <3>4. F[<<i, q>>] = q \o s[i]
      BY <3>3
    <3>5. q \o s[i] \in Seq(A) /\ \E v, x : Placed(q \o s[i], s, i, v, x)
      BY <3>3, PlacedNext
    <3> HIDE DEF F
    <3> QED
      BY <3>2, <3>4, <3>5
  <2>4. \A i \in 0..n : \A q \in J[i] : q \in Seq(A) /\ \E u, w : Placed(q, s, i, u, w)
    OBVIOUS
  <2> HIDE DEF J, F
  <2>5. PICK g : Loop(g, n, <<>>, F) /\ \A i \in 0..n : g[i] \in J[i]
    BY ONLY n \in Nat, <2>2, <2>3, LoopExists
  <2>6. g[0] = <<>> /\ \A i \in 1..n : g[i] = g[i - 1] \o s[i]
    <3>1. \A i \in 1..n : i \in 0..n /\ i - 1 \in 0..n /\ i # 0
      OBVIOUS
    <3>2. 0 \in 0..n
      OBVIOUS
    <3> QED
      BY <2>3, <2>5, <3>1, <3>2 DEF Loop
  <2>7. 1 \in 1..n /\ n \in 1..n /\ \A i \in 1..n : i # 1 => i - 1 \in 1..n
    BY <1>4
  <2>8. g[1] = s[1]
    <3>1. s[1] \in Seq(A)
      BY <2>7
    <3>2. g[1] = g[1 - 1] \o s[1]
      BY <2>6, <2>7
    <3>3. <<>> \o s[1] = s[1]
      BY <3>1, ConcatEmptySeq
    <3>4. 1 - 1 = 0
      OBVIOUS
    <3> QED
      BY <2>6, <3>2, <3>3, <3>4
  <2> DEFINE k == [i \in 1..n |-> g[i]]
  <2>9. P(k)
    <3>1. \A i \in 1..n : k[i] = IF i = 1 THEN s[i] ELSE k[i - 1] \o s[i]
      BY <2>6, <2>7, <2>8
    <3>2. k = [i \in 1..n |-> k[i]]
      OBVIOUS
    <3> HIDE DEF k
    <3>3. k = [i \in 1..n |-> IF i = 1 THEN s[i] ELSE k[i - 1] \o s[i]]
      BY <3>1, <3>2
    <3> QED
      BY <1>1, <3>3
  <2>10. P(f)
    <3> HIDE DEF k
    <3> QED
      BY <2>9
  <2> HIDE DEF f
  <2>11. \A i \in 1..n : f[i] = IF i = 1 THEN s[i] ELSE f[i - 1] \o s[i]
    BY <1>1, <2>10
  <2> HIDE DEF P
  <2> DEFINE h == [i \in 0..n |-> IF i = 0 THEN <<>> ELSE f[i]]
  <2>12. \A i \in 1..n : h[i] = h[i - 1] \o s[i] /\ h[i] = f[i]
    <3>1. SUFFICES ASSUME NEW i \in 1..n PROVE h[i] = h[i - 1] \o s[i] /\ h[i] = f[i]
      OBVIOUS
    <3>2. CASE i = 1
      <4>1. h[0] = <<>> /\ h[1] = f[1] /\ s[1] \in Seq(A) /\ f[1] = s[1]
        BY <2>7, <2>11
      <4>2. <<>> \o s[1] = s[1]
        BY <4>1, ConcatEmptySeq
      <4> HIDE DEF h
      <4> QED
        BY <3>2, <4>1, <4>2
    <3>3. CASE i # 1
      <4>1. i - 1 \in 1..n /\ i - 1 # 0 /\ i # 0 /\ i \in 0..n /\ i - 1 \in 0..n
        BY <3>3
      <4> QED
        BY <2>11, <3>3, <4>1
    <3> QED
      BY <3>2, <3>3
  <2>13. h[0] \in J[0]
    BY <2>2
  <2>14. \A i \in 1..n : h[i - 1] \in J[i - 1] => h[i] \in J[i]
    <3> HIDE DEF h
    <3> QED
      BY <2>3, <2>12
  <2>15. \A i \in 0..n : h[i] \in J[i]
    <3> HIDE DEF h
    <3> QED
      BY ONLY n \in Nat, <2>13, <2>14, LoopKeeps
  <2>16. f[n] \in J[n] /\ n \in 0..n
    <3> HIDE DEF h
    <3> QED
      BY <2>7, <2>12, <2>15
  <2> HIDE DEF h
  <2> QED
    BY <2>1, <2>4, <2>16
<1> QED
  BY <1>3, <1>4
==============================================================================
