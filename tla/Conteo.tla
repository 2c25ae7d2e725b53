------------------------------- MODULE Conteo -------------------------------
(***************************************************************************)
(* How many elements of a sequence are in a set, and what the operations   *)
(* of a queue do to that number.  The invariants that say where a process  *)
(* is (one queue, one thread, once) are sums of such numbers.              *)
(***************************************************************************)
EXTENDS Integers, Sequences, FiniteSets, FiniteSetTheorems, WellFoundedInduction, TLAPS

Posiciones(s, T) == {k \in DOMAIN s : s[k] \in T}
Cuantos(s, T) == Cardinality(Posiciones(s, T))

(* A finite sequence has finitely many positions, all in 1..Len.           *)
LEMMA PosicionesFinitas ==
  ASSUME NEW S, NEW s \in Seq(S), NEW T
  PROVE  /\ Posiciones(s, T) \subseteq 1 .. Len(s)
         /\ IsFiniteSet(Posiciones(s, T))
         /\ Cuantos(s, T) \in Nat
         /\ Cuantos(s, T) <= Len(s)
  <1>1. Len(s) \in Nat /\ DOMAIN s = 1 .. Len(s)
    OBVIOUS
  <1>2. Posiciones(s, T) \subseteq 1 .. Len(s)
    BY <1>1 DEF Posiciones
  <1>3. IsFiniteSet(1 .. Len(s)) /\ Cardinality(1 .. Len(s)) = Len(s)
    <2>1. 1 \in Int /\ Len(s) \in Int
      BY <1>1
    <2>2. /\ IsFiniteSet(1 .. Len(s))
          /\ Cardinality(1 .. Len(s)) = IF 1 > Len(s) THEN 0 ELSE Len(s) - 1 + 1
      BY <2>1, FS_Interval
    <2> QED
      BY <1>1, <2>2
  <1>4. IsFiniteSet(Posiciones(s, T)) /\ Cuantos(s, T) <= Len(s)
    BY <1>2, <1>3, FS_Subset DEF Cuantos
  <1>5. Cuantos(s, T) \in Nat
    BY <1>4, FS_CardinalityType DEF Cuantos
  <1> QED
    BY <1>2, <1>4, <1>5

LEMMA CuantosVacia ==
  ASSUME NEW T
  PROVE  Cuantos(<<>>, T) = 0
  <1>1. Posiciones(<<>>, T) = {}
    BY DEF Posiciones
  <1> QED
    BY <1>1, FS_EmptySet DEF Cuantos

LEMMA CuantosAppend ==
  ASSUME NEW S, NEW s \in Seq(S), NEW e \in S, NEW T
  PROVE  Cuantos(Append(s, e), T) = Cuantos(s, T) + (IF e \in T THEN 1 ELSE 0)
  <1> DEFINE n == Len(s)
  <1>1. /\ n \in Nat /\ DOMAIN s = 1 .. n /\ DOMAIN Append(s, e) = 1 .. (n + 1)
        /\ Append(s, e)[n + 1] = e
        /\ \A k \in 1 .. n : Append(s, e)[k] = s[k]
    OBVIOUS
  <1>2. Posiciones(Append(s, e), T)
          = IF e \in T THEN Posiciones(s, T) \cup {n + 1} ELSE Posiciones(s, T)
    <2> HIDE DEF n
    <2>1. ASSUME NEW k \in 1 .. (n + 1), k # n + 1 PROVE k \in 1 .. n
      BY <1>1, <2>1
    <2>2. \A k \in 1 .. n : k \in 1 .. (n + 1) /\ k # n + 1
      BY <1>1
    <2>3. n + 1 \in 1 .. (n + 1)
      BY <1>1
    <2> QED
      BY <1>1, <2>1, <2>2, <2>3 DEF Posiciones
  <1>3. n + 1 \notin Posiciones(s, T) /\ IsFiniteSet(Posiciones(s, T)) /\ Cuantos(s, T) \in Nat
    BY <1>1, PosicionesFinitas
  <1>4. Cardinality(Posiciones(s, T) \cup {n + 1}) = Cuantos(s, T) + 1
    BY <1>3, FS_AddElement DEF Cuantos
  <1> QED
    BY <1>2, <1>3, <1>4 DEF Cuantos

Correr(A, d) == {k + d : k \in A}

(* Shifting every position by the same distance keeps their number.        *)
LEMMA Corrimiento ==
  ASSUME NEW A \in SUBSET Int, NEW d \in Int, IsFiniteSet(A)
  PROVE  IsFiniteSet(Correr(A, d)) /\ Cardinality(Correr(A, d)) = Cardinality(A)
  <1> DEFINE B == {k + d : k \in A}
             f == [k \in A |-> k + d]
  <1>1. f \in [A -> B]
    OBVIOUS
  <1>2. \A x, y \in A : f[x] = f[y] => x = y
    OBVIOUS
  <1>3. \A b \in B : \E x \in A : f[x] = b
    OBVIOUS
  <1>4. ExistsBijection(A, B)
    <2> HIDE DEF f, B
    <2> QED
      BY <1>1, <1>2, <1>3 DEF ExistsBijection, Bijection, Injection, Surjection, IsInjective
  <1> QED
    BY <1>4, FS_Bijection DEF Correr

LEMMA CuantosTail ==
  ASSUME NEW S, NEW s \in Seq(S), s # <<>>, NEW T
  PROVE  Cuantos(s, T) = Cuantos(Tail(s), T) + (IF Head(s) \in T THEN 1 ELSE 0)
  <1> DEFINE n == Len(s)
             A == Posiciones(Tail(s), T)
             B == Correr(A, 1)
  <1>1. /\ n \in Nat \ {0} /\ DOMAIN s = 1 .. n
        /\ Tail(s) \in Seq(S) /\ DOMAIN Tail(s) = 1 .. (n - 1)
        /\ Head(s) = s[1]
        /\ \A k \in 1 .. (n - 1) : Tail(s)[k] = s[k + 1]
    OBVIOUS
  <1>2. Posiciones(s, T) = IF Head(s) \in T THEN B \cup {1} ELSE B
    <2>1. ASSUME NEW k \in Posiciones(s, T), k # 1 PROVE k \in B
      <3>1. k - 1 \in 1 .. (n - 1) /\ k = (k - 1) + 1
        BY <1>1, <2>1 DEF Posiciones
      <3>2. Tail(s)[k - 1] = s[k]
        BY <1>1, <3>1
      <3>3. k - 1 \in A
        BY <1>1, <2>1, <3>1, <3>2 DEF Posiciones
      <3> QED
        BY <3>1, <3>3 DEF Correr
    <2>2. ASSUME NEW k \in A PROVE k + 1 \in Posiciones(s, T) /\ k + 1 # 1
      <3>1. k \in 1 .. (n - 1) /\ Tail(s)[k] = s[k + 1] /\ Tail(s)[k] \in T
        BY <1>1 DEF Posiciones
      <3>2. k + 1 \in 1 .. n
        BY <1>1, <3>1
      <3> QED
        BY <1>1, <3>1, <3>2 DEF Posiciones
    <2>3. 1 \in Posiciones(s, T) <=> Head(s) \in T
      <3>1. 1 \in 1 .. n
        BY <1>1
      <3> QED
        BY <1>1, <3>1 DEF Posiciones
    <2> QED
      BY <2>1, <2>2, <2>3 DEF Correr
  <1>3. A \in SUBSET Int /\ IsFiniteSet(A) /\ Cuantos(Tail(s), T) \in Nat
    <2>1. A \subseteq 1 .. Len(Tail(s)) /\ IsFiniteSet(A) /\ Cuantos(Tail(s), T) \in Nat
      BY <1>1, PosicionesFinitas
    <2> QED
      BY <2>1
  <1>4. IsFiniteSet(B) /\ Cardinality(B) = Cuantos(Tail(s), T)
    <2>1. 1 \in Int
      OBVIOUS
    <2> HIDE DEF A
    <2>2. IsFiniteSet(B) /\ Cardinality(B) = Cardinality(A)
      BY <1>3, <2>1, Corrimiento
    <2> QED
      BY <2>2 DEF A, Cuantos
  <1>5. 1 \notin B
    BY <1>1 DEF Posiciones, Correr
  <1>6. Cardinality(B \cup {1}) = Cardinality(B) + 1
    BY <1>4, <1>5, FS_AddElement
  <1> QED
    BY <1>2, <1>3, <1>4, <1>6 DEF Cuantos

(* The number is positive exactly when some position is in the set.        *)
LEMMA CuantosPositivo ==
  ASSUME NEW S, NEW s \in Seq(S), NEW T
  PROVE  Cuantos(s, T) > 0 <=> \E k \in DOMAIN s : s[k] \in T
  <1>1. IsFiniteSet(Posiciones(s, T)) /\ Cuantos(s, T) \in Nat
    BY PosicionesFinitas
  <1>2. Cuantos(s, T) = 0 <=> Posiciones(s, T) = {}
    BY <1>1, FS_EmptySet DEF Cuantos
  <1> QED
    BY <1>1, <1>2 DEF Posiciones

(* A list of n things has at most n different ones.                        *)
LEMMA ImagenAcotada ==
  ASSUME NEW n \in Nat, NEW f, DOMAIN f = 1 .. n, f = [k \in 1 .. n |-> f[k]]
  PROVE  /\ IsFiniteSet({f[k] : k \in 1 .. n})
         /\ Cardinality({f[k] : k \in 1 .. n}) <= n
  <1> DEFINE B == {f[k] : k \in 1 .. n}
  <1>1. f \in Surjection(1 .. n, B)
    <2>1. f \in [1 .. n -> B]
      OBVIOUS
    <2>2. \A b \in B : \E k \in 1 .. n : f[k] = b
      OBVIOUS
    <2> HIDE DEF B
    <2> QED
      BY <2>1, <2>2 DEF Surjection
  <1>2. IsFiniteSet(1 .. n) /\ Cardinality(1 .. n) = n
    <2>1. 1 \in Int /\ n \in Int
      OBVIOUS
    <2>2. IsFiniteSet(1 .. n) /\ Cardinality(1 .. n) = IF 1 > n THEN 0 ELSE n - 1 + 1
      BY <2>1, FS_Interval
    <2> QED
      BY <2>2
  <1> HIDE DEF B
  <1>3. IsFiniteSet(B) /\ Cardinality(B) <= n
    BY <1>1, <1>2, FS_Surjection
  <1> QED
    BY <1>3 DEF B

\* A set with one element, when there is one.
LEMMA UnoONinguno ==
  ASSUME NEW b \in BOOLEAN, NEW x
  PROVE  /\ IsFiniteSet(IF b THEN {x} ELSE {})
         /\ Cardinality(IF b THEN {x} ELSE {}) <= IF b THEN 1 ELSE 0
  <1>1. CASE b
    <2>1. IsFiniteSet({x}) /\ Cardinality({x}) = 1
      BY FS_Singleton
    <2> QED
      BY <1>1, <2>1
  <1>2. CASE ~b
    <2>1. IsFiniteSet({}) /\ Cardinality({}) = 0
      BY FS_EmptySet
    <2> QED
      BY <1>2, <2>1
  <1> QED
    BY <1>1, <1>2

LEMMA UnionAcotada ==
  ASSUME NEW A, NEW B, IsFiniteSet(A), IsFiniteSet(B), NEW a \in Nat, NEW b \in Nat,
         Cardinality(A) <= a, Cardinality(B) <= b
  PROVE  IsFiniteSet(A \cup B) /\ Cardinality(A \cup B) <= a + b
  <1>1. /\ IsFiniteSet(A \cup B)
        /\ Cardinality(A \cup B) = Cardinality(A) + Cardinality(B) - Cardinality(A \cap B)
    BY FS_Union
  <1>2. IsFiniteSet(A \cap B)
    BY FS_Intersection
  <1>3. Cardinality(A) \in Nat /\ Cardinality(B) \in Nat /\ Cardinality(A \cap B) \in Nat
    BY <1>2, FS_CardinalityType
  <1> QED
    BY <1>1, <1>3

(* What is in a sequence has a first position in it.                       *)
LEMMA PrimeraPosicion ==
  ASSUME NEW S, NEW s \in Seq(S), NEW e, \E k \in DOMAIN s : s[k] = e
  PROVE  \E k \in DOMAIN s : s[k] = e /\ \A j \in DOMAIN s : s[j] = e => k <= j
  <1> DEFINE P == {k \in DOMAIN s : s[k] = e}
  <1>1. P \in SUBSET Nat /\ P # {}
    <2>1. DOMAIN s \in SUBSET Nat
      OBVIOUS
    <2> QED
      BY <2>1
  <1> HIDE DEF P
  <1> DEFINE R == {ss \in Nat \X Nat : ss[1] < ss[2]}
  <1>2. IsWellFoundedOn(R, Nat)
    BY NatLessThanWellFounded DEF OpToRel
  <1>3. \A j, k \in Nat : j < k => <<j, k>> \in R
    OBVIOUS
  <1> HIDE DEF R
  <1>4. \E k \in P : \A j \in P : k <= j
    <2>1. \E k \in P : \A j \in P : ~(<<j, k>> \in R)
      BY <1>1, <1>2, WFMin
    <2>2. PICK k \in P : \A j \in P : ~(<<j, k>> \in R)
      BY <2>1
    <2>3. ASSUME NEW j \in P PROVE k <= j
      <3>1. j \in Nat /\ k \in Nat
        BY <1>1
      <3>2. ~(j < k)
        BY <1>3, <2>2, <3>1
      <3> QED
        BY <3>1, <3>2
    <2> QED
      BY <2>3
  <1> QED
    BY <1>4 DEF P

LEMMA CuantosConcat ==
  ASSUME NEW S, NEW s \in Seq(S), NEW t \in Seq(S), NEW T
  PROVE  Cuantos(s \o t, T) = Cuantos(s, T) + Cuantos(t, T)
  <1> DEFINE n == Len(s)
             m == Len(t)
             A == Posiciones(s, T)
             B == Posiciones(t, T)
             C == Correr(B, n)
  <1>1. /\ n \in Nat /\ m \in Nat /\ DOMAIN s = 1 .. n /\ DOMAIN t = 1 .. m
        /\ DOMAIN (s \o t) = 1 .. (n + m)
        /\ \A k \in 1 .. n : (s \o t)[k] = s[k]
        /\ \A k \in 1 .. m : (s \o t)[k + n] = t[k]
    OBVIOUS
  <1>2. /\ IsFiniteSet(A) /\ A \subseteq 1 .. n /\ Cardinality(A) \in Nat
        /\ IsFiniteSet(B) /\ B \subseteq 1 .. m /\ Cardinality(B) \in Nat
    BY PosicionesFinitas DEF Cuantos
  <1>3. Posiciones(s \o t, T) = A \cup C
    <2> DEFINE u == s \o t
    <2> HIDE DEF n, m
    <2>0. /\ DOMAIN u = 1 .. (n + m)
          /\ \A k \in 1 .. n : u[k] = s[k]
          /\ \A k \in 1 .. m : u[k + n] = t[k]
      BY <1>1
    <2> HIDE DEF u
    <2>1. ASSUME NEW k \in Posiciones(u, T) PROVE k \in A \cup C
      <3>1. k \in 1 .. (n + m) /\ u[k] \in T
        BY <2>0 DEF Posiciones
      <3>2. CASE k <= n
        <4>1. k \in 1 .. n
          BY <1>1, <3>1, <3>2
        <4> QED
          BY <1>1, <2>0, <3>1, <4>1 DEF Posiciones
      <3>3. CASE ~(k <= n)
        <4>1. k - n \in 1 .. m /\ k = (k - n) + n
          BY <1>1, <3>1, <3>3
        <4>2. t[k - n] = u[k]
          BY <2>0, <4>1
        <4>3. k - n \in B
          BY <1>1, <3>1, <4>1, <4>2 DEF Posiciones
        <4> QED
          BY <4>1, <4>3 DEF Correr
      <3> QED
        BY <3>2, <3>3
    <2>2. ASSUME NEW k \in A PROVE k \in Posiciones(u, T)
      <3>1. k \in 1 .. n /\ s[k] \in T
        BY <1>1 DEF Posiciones
      <3>2. k \in 1 .. (n + m)
        BY <1>1, <3>1
      <3> QED
        BY <2>0, <3>1, <3>2 DEF Posiciones
    <2>3. ASSUME NEW k \in B PROVE k + n \in Posiciones(u, T)
      <3>1. k \in 1 .. m /\ t[k] \in T
        BY <1>1 DEF Posiciones
      <3>2. k + n \in 1 .. (n + m)
        BY <1>1, <3>1
      <3> QED
        BY <2>0, <3>1, <3>2 DEF Posiciones
    <2> QED
      BY <2>1, <2>2, <2>3 DEF Correr, u
  <1>4. IsFiniteSet(C) /\ Cardinality(C) = Cardinality(B)
    <2>1. B \in SUBSET Int /\ n \in Int
      BY <1>1, <1>2
    <2> HIDE DEF n, B
    <2> QED
      BY <1>2, <2>1, Corrimiento
  <1>5. A \cap C = {}
    <2> HIDE DEF n, m, A, B
    <2>1. ASSUME NEW k \in B PROVE k + n \notin A
      BY <1>1, <1>2
    <2> QED
      BY <2>1 DEF Correr
  <1>6. Cardinality(A \cup C) = Cardinality(A) + Cardinality(C) - Cardinality(A \cap C)
    BY <1>2, <1>4, FS_Union
  <1>7. Cardinality(A \cap C) = 0
    BY <1>5, FS_EmptySet
  <1> HIDE DEF A, B, C
  <1> QED
    BY <1>2, <1>3, <1>4, <1>6, <1>7 DEF Cuantos, A, B

\* What is left of a sequence without one element, in two parts.
Antes(s, i) == SubSeq(s, 1, i - 1)
Despues(s, i) == SubSeq(s, i + 1, Len(s))

LEMMA ElementosDeConcat ==
  ASSUME NEW S, NEW s \in Seq(S), NEW t \in Seq(S)
  PROVE  /\ s \o t \in Seq(S) /\ Len(s \o t) = Len(s) + Len(t)
         /\ \A k \in 1 .. Len(s) : (s \o t)[k] = s[k]
         /\ \A k \in 1 .. Len(t) : (s \o t)[k + Len(s)] = t[k]
  OBVIOUS

LEMMA Partes ==
  ASSUME NEW S, NEW s \in Seq(S), NEW i \in 1 .. Len(s)
  PROVE  /\ Antes(s, i) \in Seq(S) /\ Len(Antes(s, i)) = i - 1
         /\ Despues(s, i) \in Seq(S) /\ Len(Despues(s, i)) = Len(s) - i
         /\ s[i] \in S
         /\ s = Append(Antes(s, i), s[i]) \o Despues(s, i)
  <1> DEFINE a == Antes(s, i)
             b == Despues(s, i)
             c == Append(a, s[i])
             n == Len(s)
  <1>1. n \in Nat /\ i \in Nat /\ 1 <= i /\ i <= n /\ s[i] \in S /\ DOMAIN s = 1 .. n
    OBVIOUS
  <1>2. a \in Seq(S) /\ Len(a) = i - 1 /\ \A k \in 1 .. (i - 1) : a[k] = s[k]
    BY DEF Antes
  <1>3. b \in Seq(S) /\ Len(b) = n - i /\ \A k \in 1 .. (n - i) : b[k] = s[k + i]
    BY DEF Despues
  <1> HIDE DEF a, b, n
  <1>4. /\ c \in Seq(S) /\ Len(c) = i /\ c[i] = s[i]
        /\ \A k \in 1 .. (i - 1) : c[k] = s[k]
    BY <1>1, <1>2
  <1> HIDE DEF c
  <1>5. /\ c \o b \in Seq(S) /\ Len(c \o b) = n
        /\ \A k \in 1 .. i : (c \o b)[k] = c[k]
        /\ \A k \in 1 .. (n - i) : (c \o b)[k + i] = b[k]
    <2>1. /\ c \o b \in Seq(S) /\ Len(c \o b) = Len(c) + Len(b)
          /\ \A k \in 1 .. Len(c) : (c \o b)[k] = c[k]
          /\ \A k \in 1 .. Len(b) : (c \o b)[k + Len(c)] = b[k]
      <3>1. c \in Seq(S) /\ b \in Seq(S)
        BY <1>3, <1>4
      <3> QED
        BY <3>1, ElementosDeConcat
    <2> QED
      BY <1>1, <1>3, <1>4, <2>1
  <1> DEFINE u == c \o b
  <1>6. u \in Seq(S) /\ Len(u) = n
        /\ (\A k \in 1 .. i : u[k] = c[k]) /\ (\A k \in 1 .. (n - i) : u[k + i] = b[k])
    BY <1>5
  <1> HIDE DEF u
  <1>7. ASSUME NEW k \in 1 .. n PROVE u[k] = s[k]
    <2>1. CASE k < i
      <3>1. k \in 1 .. i /\ k \in 1 .. (i - 1)
        BY <1>1, <2>1
      <3> QED
        BY <1>4, <1>6, <3>1
    <2>2. CASE k = i
      <3>1. k \in 1 .. i
        BY <1>1, <2>2
      <3> QED
        BY <1>4, <1>6, <2>2, <3>1
    <2>3. CASE k > i
      <3>1. k - i \in 1 .. (n - i) /\ (k - i) + i = k
        BY <1>1, <2>3
      <3> QED
        BY <1>3, <1>6, <3>1
    <2> QED
      BY <1>1, <2>1, <2>2, <2>3
  <1>8. u = s
    BY <1>1, <1>6, <1>7 DEF n
  <1> QED
    BY <1>1, <1>2, <1>3, <1>8 DEF a, b, c, u, n

(* Taking out one element, and putting together the two parts that are     *)
(* left, in any order.                                                     *)
LEMMA CuantosSinUno ==
  ASSUME NEW S, NEW s \in Seq(S), NEW i \in 1 .. Len(s), NEW T
  PROVE  /\ Cuantos(s, T)
              = Cuantos(Antes(s, i) \o Despues(s, i), T) + (IF s[i] \in T THEN 1 ELSE 0)
         /\ Cuantos(s, T)
              = Cuantos(Despues(s, i) \o Antes(s, i), T) + (IF s[i] \in T THEN 1 ELSE 0)
         /\ Antes(s, i) \o Despues(s, i) \in Seq(S)
         /\ Despues(s, i) \o Antes(s, i) \in Seq(S)
  <1> DEFINE a == Antes(s, i)
             b == Despues(s, i)
             c == Append(a, s[i])
  <1>1. a \in Seq(S) /\ b \in Seq(S) /\ s[i] \in S /\ s = c \o b
    BY Partes
  <1> HIDE DEF a, b
  <1>2. c \in Seq(S) /\ a \o b \in Seq(S) /\ b \o a \in Seq(S)
    BY <1>1
  <1>3. Cuantos(c, T) = Cuantos(a, T) + (IF s[i] \in T THEN 1 ELSE 0)
    BY <1>1, CuantosAppend
  <1> HIDE DEF c
  <1>4. /\ Cuantos(s, T) = Cuantos(c, T) + Cuantos(b, T)
        /\ Cuantos(a \o b, T) = Cuantos(a, T) + Cuantos(b, T)
        /\ Cuantos(b \o a, T) = Cuantos(b, T) + Cuantos(a, T)
    BY <1>1, <1>2, CuantosConcat
  <1>5. Cuantos(a, T) \in Nat /\ Cuantos(b, T) \in Nat
    BY <1>1, PosicionesFinitas
  <1> QED
    BY <1>2, <1>3, <1>4, <1>5 DEF a, b
=============================================================================
