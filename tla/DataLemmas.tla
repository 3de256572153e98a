------------------------------ MODULE DataLemmas ------------------------------
(***************************************************************************)
(* Lemmas about numbers and sequences that the proofs of several           *)
(* components use. The library's induction theorems take a predicate,      *)
(* which the provers here cannot instantiate; that the naturals are        *)
(* well-founded gives induction in the form of a set.                      *)
(***************************************************************************)
EXTENDS Integers, SequencesExt, SequenceTheorems, FiniteSetTheorems,
        WellFoundedInduction, TLAPS

(* Every set of naturals that is not empty has a least element. *)
LEMMA Least ==
  ASSUME NEW T, T \subseteq Nat, T # {}
  PROVE  \E n \in T : \A m \in T : n <= m
  <1> DEFINE R == OpToRel(<, Nat)
  <1>1. IsWellFoundedOn(R, Nat)
    BY NatLessThanWellFounded
  <1>2. \A x, y \in Nat : y < x => <<y, x>> \in R
    BY DEF OpToRel
  <1> HIDE DEF R
  <1>3. PICK x \in T : \A y \in T : ~(<<y, x>> \in R)
    BY <1>1, WFMin
  <1>4. ASSUME NEW m \in T PROVE x <= m
    <2>1. x \in Nat /\ m \in Nat
      OBVIOUS
    <2>2. ~(m < x)
      BY <1>2, <1>3, <2>1
    <2> QED  BY <2>1, <2>2
  <1> QED  BY <1>4

(* A set that holds 0 and every successor of its naturals holds them all. *)
LEMMA Induction ==
  ASSUME NEW T, 0 \in T, \A n \in Nat : n \in T => n + 1 \in T
  PROVE  Nat \subseteq T
  <1> DEFINE U == Nat \ T
  <1> SUFFICES ASSUME U # {} PROVE FALSE
    OBVIOUS
  <1>1. U \subseteq Nat
    OBVIOUS
  <1>2. PICK m \in U : \A k \in U : m <= k
    <2> HIDE DEF U
    <2> QED  BY <1>1, Least
  <1>3. m # 0 /\ m - 1 \in Nat /\ (m - 1) + 1 = m
    OBVIOUS
  <1>4. m - 1 \notin U
    BY <1>2, <1>3
  <1> QED  BY <1>3, <1>4

(* The numbers of a finite set can be numbered in increasing order. *)
Increasing(s, n) == \A j, k \in 1 .. n : j < k => s[j] < s[k]

(* A finite set of naturals can be written in increasing order. *)
LEMMA Enumeration ==
  ASSUME NEW S \in SUBSET Nat, IsFiniteSet(S)
  PROVE  \E s \in [1 .. Cardinality(S) -> S] : Increasing(s, Cardinality(S))
  <1> DEFINE Can(U) == \E s \in [1 .. Cardinality(U) -> U] : Increasing(s, Cardinality(U))
             T == {n \in Nat : \A U \in SUBSET Nat :
                                 IsFiniteSet(U) /\ Cardinality(U) = n => Can(U)}
  <1>1. 0 \in T
    <2> SUFFICES ASSUME NEW U \in SUBSET Nat, IsFiniteSet(U), Cardinality(U) = 0
                 PROVE  Can(U)
      OBVIOUS
    <2>1. U = {}
      BY FS_EmptySet
    <2>2. 1 .. 0 = {}
      OBVIOUS
    <2>3. [x \in {} |-> 0] \in [1 .. Cardinality(U) -> U]
      BY <2>1, <2>2
    <2>4. Increasing([x \in {} |-> 0], Cardinality(U))
      BY <2>2 DEF Increasing
    <2> QED  BY <2>3, <2>4
  <1>2. ASSUME NEW n \in Nat, n \in T PROVE n + 1 \in T
    <2> SUFFICES ASSUME NEW U \in SUBSET Nat, IsFiniteSet(U), Cardinality(U) = n + 1
                 PROVE  Can(U)
      OBVIOUS
    <2>1. U # {}
      BY FS_EmptySet
    <2>2. PICK m \in U : \A k \in U : m <= k
      BY <2>1, Least
    <2>3. IsFiniteSet(U \ {m}) /\ Cardinality(U \ {m}) = n
      <3>1. /\ IsFiniteSet(U \ {m})
            /\ Cardinality(U \ {m}) = IF m \in U THEN Cardinality(U) - 1 ELSE Cardinality(U)
        BY FS_RemoveElement
      <3>2. (n + 1) - 1 = n
        OBVIOUS
      <3> QED  BY <3>1, <3>2
    <2>4. Can(U \ {m})
      BY <1>2, <2>3
    <2>5. PICK r \in [1 .. n -> U \ {m}] : Increasing(r, n)
      BY <2>3, <2>4
    <2> DEFINE s == [i \in 1 .. n + 1 |-> IF i = 1 THEN m ELSE r[i - 1]]
    <2>6. \A i \in 1 .. n + 1 : i # 1 => r[i - 1] \in U /\ m < r[i - 1]
      <3> SUFFICES ASSUME NEW i \in 1 .. n + 1, i # 1 PROVE r[i - 1] \in U /\ m < r[i - 1]
        OBVIOUS
      <3>1. i - 1 \in 1 .. n
        OBVIOUS
      <3>2. r[i - 1] \in U \ {m}
        BY <3>1
      <3>3. m \in Nat /\ r[i - 1] \in Nat /\ m <= r[i - 1] /\ r[i - 1] # m
        BY <3>2, <2>2
      <3> QED  BY <3>2, <3>3
    <2>7. s \in [1 .. n + 1 -> U]
      BY <2>6
    <2>8. Increasing(s, n + 1)
      <3> SUFFICES ASSUME NEW j \in 1 .. n + 1, NEW k \in 1 .. n + 1, j < k
                   PROVE  s[j] < s[k]
        BY DEF Increasing
      <3>1. CASE j = 1
        BY <3>1, <2>6
      <3>2. CASE j # 1
        <4>1. j - 1 \in 1 .. n /\ k - 1 \in 1 .. n /\ j - 1 < k - 1 /\ k # 1
          BY <3>2
        <4>2. r[j - 1] < r[k - 1]
          BY <4>1, <2>5 DEF Increasing
        <4> QED  BY <3>2, <4>1, <4>2
      <3> QED  BY <3>1, <3>2
    <2> QED  BY <2>7, <2>8
  <1>3. Nat \subseteq T
    <2> HIDE DEF T
    <2> QED  BY <1>1, <1>2, Induction
  <1>4. Cardinality(S) \in Nat
    BY FS_CardinalityType
  <1> QED  BY <1>3, <1>4

(* An increasing numbering by as many numbers as there are leaves none out. *)
LEMMA EnumerationOnto ==
  ASSUME NEW S \in SUBSET Nat, IsFiniteSet(S),
         NEW s \in [1 .. Cardinality(S) -> S], Increasing(s, Cardinality(S))
  PROVE  \A x \in S : \E k \in 1 .. Cardinality(S) : s[k] = x
  <1> DEFINE n == Cardinality(S)
  <1>1. n \in Nat
    BY FS_CardinalityType
  <1>2. \A j, k \in 1 .. n : s[j] = s[k] => j = k
    <2> SUFFICES ASSUME NEW j \in 1 .. n, NEW k \in 1 .. n, s[j] = s[k], j # k
                 PROVE  FALSE
      OBVIOUS
    <2>1. j < k \/ k < j
      BY <1>1
    <2>2. s[j] < s[k] \/ s[k] < s[j]
      BY <2>1 DEF Increasing
    <2>3. s[j] \in Nat /\ s[k] \in Nat
      OBVIOUS
    <2> QED  BY <2>2, <2>3
  <1>3. s \in Injection(1 .. n, S)
    BY <1>2 DEF Injection, IsInjective
  <1>4. Cardinality(1 .. n) = n
    BY <1>1, FS_Interval
  <1>5. s \in Surjection(1 .. n, S)
    BY <1>3, <1>4, FS_Injection
  <1> QED  BY <1>5 DEF Surjection

(* What is left when one element is taken out. *)
LEMMA Removed ==
  ASSUME NEW S, NEW s \in Seq(S), NEW k \in 1 .. Len(s)
  PROVE  /\ RemoveAt(s, k) \in Seq(S)
         /\ Len(RemoveAt(s, k)) = Len(s) - 1
         /\ \A i \in 1 .. Len(s) - 1 : RemoveAt(s, k)[i] = s[IF i < k THEN i ELSE i + 1]
  <1> DEFINE a == SubSeq(s, 1, k - 1)
             b == SubSeq(s, k + 1, Len(s))
  <1>1. Len(s) \in Nat /\ \A i \in 1 .. Len(s) : s[i] \in S
    BY LenProperties, ElementOfSeq
  <1>2. /\ a \in Seq(S) /\ Len(a) = k - 1
        /\ \A i \in 1 .. k - 1 : a[i] = s[i]
    <2>1. \A i \in 1 .. k - 1 : s[i] \in S
      BY <1>1
    <2>2. 1 \in Int /\ k - 1 \in Int
      BY <1>1
    <2>3. /\ a \in Seq(S) /\ Len(a) = (IF 1 <= k - 1 THEN (k - 1) - 1 + 1 ELSE 0)
          /\ \A i \in 1 .. (k - 1) - 1 + 1 : a[i] = s[1 + i - 1]
      BY <2>1, <2>2, SubSeqProperties
    <2> QED  BY <1>1, <2>3
  <1>3. /\ b \in Seq(S) /\ Len(b) = Len(s) - k
        /\ \A i \in 1 .. Len(s) - k : b[i] = s[k + i]
    <2>1. \A i \in k + 1 .. Len(s) : s[i] \in S
      BY <1>1
    <2>2. k + 1 \in Int /\ Len(s) \in Int
      BY <1>1
    <2>3. /\ b \in Seq(S) /\ Len(b) = (IF k + 1 <= Len(s) THEN Len(s) - (k + 1) + 1 ELSE 0)
          /\ \A i \in 1 .. Len(s) - (k + 1) + 1 : b[i] = s[(k + 1) + i - 1]
      BY <2>1, <2>2, SubSeqProperties
    <2> QED  BY <1>1, <2>3
  <1>4. RemoveAt(s, k) = a \o b
    BY DEF RemoveAt
  <1> HIDE DEF a, b
  <1>5. /\ a \o b \in Seq(S) /\ Len(a \o b) = Len(s) - 1
        /\ \A i \in 1 .. Len(s) - 1 : (a \o b)[i] = IF i <= k - 1 THEN a[i] ELSE b[i - (k - 1)]
    BY <1>1, <1>2, <1>3, ConcatProperties
  <1>6. ASSUME NEW i \in 1 .. Len(s) - 1
        PROVE  (a \o b)[i] = s[IF i < k THEN i ELSE i + 1]
    <2>1. CASE i < k
      BY <1>1, <1>2, <1>5, <2>1
    <2>2. CASE ~(i < k)
      <3>1. i - (k - 1) \in 1 .. Len(s) - k /\ k + (i - (k - 1)) = i + 1
        BY <1>1, <2>2
      <3>2. b[i - (k - 1)] = s[i + 1]
        BY <1>3, <3>1
      <3> QED  BY <1>1, <1>5, <2>2, <3>2
    <2> QED  BY <2>1, <2>2
  <1> QED  BY <1>4, <1>5, <1>6

(* What is there when one element is put in. *)
LEMMA Inserted ==
  ASSUME NEW S, NEW s \in Seq(S), NEW k \in 1 .. Len(s) + 1, NEW e \in S
  PROVE  /\ InsertAt(s, k, e) \in Seq(S)
         /\ Len(InsertAt(s, k, e)) = Len(s) + 1
         /\ \A i \in 1 .. Len(s) + 1 :
              InsertAt(s, k, e)[i] = IF i < k THEN s[i] ELSE IF i = k THEN e ELSE s[i - 1]
  <1> DEFINE a == SubSeq(s, 1, k - 1)
             b == SubSeq(s, k, Len(s))
             c == a \o <<e>>
  <1>1. Len(s) \in Nat /\ \A i \in 1 .. Len(s) : s[i] \in S
    BY LenProperties, ElementOfSeq
  <1>2. /\ a \in Seq(S) /\ Len(a) = k - 1
        /\ \A i \in 1 .. k - 1 : a[i] = s[i]
    <2>1. \A i \in 1 .. k - 1 : s[i] \in S
      BY <1>1
    <2>2. 1 \in Int /\ k - 1 \in Int
      BY <1>1
    <2>3. /\ a \in Seq(S) /\ Len(a) = (IF 1 <= k - 1 THEN (k - 1) - 1 + 1 ELSE 0)
          /\ \A i \in 1 .. (k - 1) - 1 + 1 : a[i] = s[1 + i - 1]
      BY <2>1, <2>2, SubSeqProperties
    <2> QED  BY <1>1, <2>3
  <1>3. /\ b \in Seq(S) /\ Len(b) = Len(s) - k + 1
        /\ \A i \in 1 .. Len(s) - k + 1 : b[i] = s[k + i - 1]
    <2>1. \A i \in k .. Len(s) : s[i] \in S
      BY <1>1
    <2>2. k \in Int /\ Len(s) \in Int
      BY <1>1
    <2>3. /\ b \in Seq(S) /\ Len(b) = (IF k <= Len(s) THEN Len(s) - k + 1 ELSE 0)
          /\ \A i \in 1 .. Len(s) - k + 1 : b[i] = s[k + i - 1]
      BY <2>1, <2>2, SubSeqProperties
    <2> QED  BY <1>1, <2>3
  <1>4. InsertAt(s, k, e) = c \o b
    BY DEF InsertAt
  <1>5. <<e>> \in Seq(S) /\ Len(<<e>>) = 1 /\ <<e>>[1] = e
    OBVIOUS
  <1>6. /\ c \in Seq(S) /\ Len(c) = k
        /\ \A i \in 1 .. k : c[i] = IF i < k THEN s[i] ELSE e
    <2> HIDE DEF a
    <2>1. /\ c \in Seq(S) /\ Len(c) = k
          /\ \A i \in 1 .. k : c[i] = IF i <= k - 1 THEN a[i] ELSE <<e>>[i - (k - 1)]
      BY <1>1, <1>2, <1>5, ConcatProperties
    <2>2. ASSUME NEW i \in 1 .. k PROVE c[i] = IF i < k THEN s[i] ELSE e
      <3>1. CASE i < k
        BY <1>1, <1>2, <2>1, <3>1
      <3>2. CASE i = k
        BY <1>1, <1>5, <2>1, <3>2
      <3>3. i < k \/ i = k
        BY <1>1
      <3> QED  BY <3>1, <3>2, <3>3
    <2> QED  BY <2>1, <2>2
  <1> HIDE DEF b, c
  <1>7. /\ c \o b \in Seq(S) /\ Len(c \o b) = Len(s) + 1
        /\ \A i \in 1 .. Len(s) + 1 : (c \o b)[i] = IF i <= k THEN c[i] ELSE b[i - k]
    <2>1. /\ c \o b \in Seq(S) /\ Len(c \o b) = Len(c) + Len(b)
          /\ \A i \in 1 .. Len(c) + Len(b) :
               (c \o b)[i] = IF i <= Len(c) THEN c[i] ELSE b[i - Len(c)]
      BY <1>3, <1>6, ConcatProperties
    <2>2. Len(c) + Len(b) = Len(s) + 1
      BY <1>1, <1>3, <1>6
    <2> QED  BY <1>6, <2>1, <2>2
  <1>8. ASSUME NEW i \in 1 .. Len(s) + 1
        PROVE  (c \o b)[i] = IF i < k THEN s[i] ELSE IF i = k THEN e ELSE s[i - 1]
    <2>1. CASE i <= k
      BY <1>1, <1>6, <1>7, <2>1
    <2>2. CASE ~(i <= k)
      <3>1. i - k \in 1 .. Len(s) - k + 1 /\ k + (i - k) - 1 = i - 1
        BY <1>1, <2>2
      <3>2. b[i - k] = s[i - 1]
        BY <1>3, <3>1
      <3> QED  BY <1>1, <1>7, <2>2, <3>2
    <2> QED  BY <2>1, <2>2
  <1> QED  BY <1>4, <1>7, <1>8

(* G gives the right side of a recursive definition over D, of a function with *)
(* values in V, which it applies to arguments of a smaller measure only.       *)
Recursive(G, D, V, mu) ==
  /\ V # {} /\ mu \in [D -> Nat] /\ G \in [[D -> V] -> [D -> V]]
  /\ \E N \in Nat : \A s \in D : mu[s] < N
  /\ \A f, g \in [D -> V], s \in D :
       (\A r \in D : mu[r] < mu[s] => f[r] = g[r]) => G[f][s] = G[g][s]

(* There is a function that satisfies such a definition. *)
LEMMA Recursion ==
  ASSUME NEW G, NEW D, NEW V, NEW mu, Recursive(G, D, V, mu)
  PROVE  \E f \in [D -> V] : G[f] = f
  <1>1. /\ V # {} /\ mu \in [D -> Nat] /\ G \in [[D -> V] -> [D -> V]]
        /\ \E N \in Nat : \A s \in D : mu[s] < N
        /\ \A f, g \in [D -> V], s \in D :
             (\A r \in D : mu[r] < mu[s] => f[r] = g[r]) => G[f][s] = G[g][s]
    BY DEF Recursive
  <1> DEFINE Upto(f, n) == \A s \in D : mu[s] < n => G[f][s] = f[s]
             T == {n \in Nat : \E f \in [D -> V] : Upto(f, n)}
  <1>2. 0 \in T
    <2>1. PICK v \in V : TRUE
      BY <1>1
    <2>2. [s \in D |-> v] \in [D -> V]
      OBVIOUS
    <2>3. \A s \in D : ~(mu[s] < 0)
      BY <1>1
    <2>4. Upto([s \in D |-> v], 0)
      BY <2>3
    <2> QED  BY <2>2, <2>4
  <1>3. ASSUME NEW n \in Nat, n \in T
        PROVE  n + 1 \in T
    <2>1. PICK f \in [D -> V] : Upto(f, n)
      BY <1>3
    <2>2. G[f] \in [D -> V]
      BY <1>1
    <2> DEFINE g == [s \in D |-> G[f][s]]
    <2>3. g \in [D -> V]
      BY <2>2
    <2>4. ASSUME NEW s \in D, mu[s] < n + 1
          PROVE  G[g][s] = g[s]
      <3>1. \A r \in D : mu[r] < mu[s] => mu[r] < n
        BY <1>1, <2>4
      <3>2. \A r \in D : mu[r] < mu[s] => f[r] = g[r]
        BY <2>1, <3>1
      <3> HIDE DEF g
      <3>3. G[f][s] = G[g][s]
        BY <1>1, <2>3, <3>2
      <3> QED  BY <3>3 DEF g
    <2> HIDE DEF g
    <2>5. Upto(g, n + 1)
      BY <2>4
    <2> QED  BY <2>3, <2>5
  <1>4. Nat \subseteq T
    <2> HIDE DEF T
    <2> QED  BY <1>2, <1>3, Induction
  <1>5. PICK N \in Nat : \A s \in D : mu[s] < N
    BY <1>1
  <1>6. PICK f \in [D -> V] : Upto(f, N)
    BY <1>4
  <1>7. G[f] \in [D -> V]
    BY <1>1
  <1>8. \A s \in D : G[f][s] = f[s]
    BY <1>5, <1>6
  <1>9. G[f] = f
    BY <1>7, <1>8
  <1> QED  BY <1>9

Steps(V, N) == [1 .. N -> [V -> V]]

(* So has a definition by recursion over numbers. *)
LEMMA Iteration ==
  ASSUME NEW V, NEW v \in V, NEW N \in Nat, NEW F \in Steps(V, N)
  PROVE  \E f \in [0 .. N -> V] :
           f = [n \in 0 .. N |-> IF n = 0 THEN v ELSE F[n][f[n - 1]]]
  <1> DEFINE D == 0 .. N
             mu == [n \in D |-> n]
             G == [f \in [D -> V] |-> [n \in D |-> IF n = 0 THEN v ELSE F[n][f[n - 1]]]]
  <1>1. F \in [1 .. N -> [V -> V]]
    BY DEF Steps
  <1>2. \A n \in D : n # 0 => n - 1 \in D /\ n - 1 < n /\ n \in 1 .. N
    OBVIOUS
  <1>3. mu \in [D -> Nat] /\ \A n \in D : mu[n] = n /\ mu[n] < N + 1
    OBVIOUS
  <1>4. G \in [[D -> V] -> [D -> V]]
    <2> SUFFICES ASSUME NEW f \in [D -> V], NEW n \in D
                 PROVE  (IF n = 0 THEN v ELSE F[n][f[n - 1]]) \in V
      OBVIOUS
    <2>1. n # 0 => F[n][f[n - 1]] \in V
      BY <1>1, <1>2
    <2> QED  BY <2>1
  <1>5. \A f \in [D -> V], n \in D : G[f][n] = IF n = 0 THEN v ELSE F[n][f[n - 1]]
    OBVIOUS
  <1> HIDE DEF D, mu, G
  <1>6. Recursive(G, D, V, mu)
    <2>1. ASSUME NEW f \in [D -> V], NEW g \in [D -> V], NEW n \in D,
                 \A r \in D : mu[r] < mu[n] => f[r] = g[r]
          PROVE  G[f][n] = G[g][n]
      <3>1. n # 0 => f[n - 1] = g[n - 1]
        BY <1>2, <1>3, <2>1
      <3> QED  BY <1>5, <3>1
    <2>2. N + 1 \in Nat
      OBVIOUS
    <2> QED  BY <1>3, <1>4, <2>1, <2>2 DEF Recursive
  <1>7. PICK f \in [D -> V] : G[f] = f
    BY <1>6, Recursion
  <1>8. G[f] = [n \in D |-> IF n = 0 THEN v ELSE F[n][f[n - 1]]]
    BY DEF G
  <1> QED  BY <1>7, <1>8 DEF D
===============================================================================
