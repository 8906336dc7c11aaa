----------------------------- MODULE ListProofs -----------------------------
(***************************************************************************)
(* Induction, and what Without returns for every sequence and every set.   *)
(*                                                                         *)
(* The induction theorems of the library take a predicate, which none of   *)
(* the provers can instantiate.  Here a predicate is a set of numbers, and *)
(* induction follows from finite sets being well founded under inclusion.  *)
(***************************************************************************)
EXTENDS Lists, FiniteSetTheorems, WellFoundedInduction, TLAPS

\* Every set of numbers that is not empty has a smallest element.
LEMMA Least ==
  ASSUME NEW T \in SUBSET Nat, T # {}
  PROVE  \E m \in T : \A k \in T : m <= k
<1> DEFINE Segments == {0..k : k \in T}
<1>1. Segments # {} /\ Segments \subseteq FiniteSubsetsOf(Nat)
  <2>1. ASSUME NEW k \in T PROVE 0..k \in SUBSET Nat /\ IsFiniteSet(0..k)
    <3>1. k \in Int /\ 0 \in Int
      OBVIOUS
    <3>. QED  BY <3>1, FS_Interval
  <2>. QED  BY <2>1 DEF FiniteSubsetsOf
<1>2. IsWellFoundedOn(StrictSubsetOrdering(Nat), FiniteSubsetsOf(Nat))
  BY FS_StrictSubsetOrderingWellFounded
<1>3. PICK b \in Segments : \A c \in Segments : <<c, b>> \notin StrictSubsetOrdering(Nat)
  <2> HIDE DEF Segments
  <2>. QED  BY <1>1, <1>2, WFMin
<1>4. PICK m \in T : b = 0..m
  OBVIOUS
<1>5. ASSUME NEW k \in T, k < m PROVE FALSE
  <2>1. <<0..k, 0..m>> \notin StrictSubsetOrdering(Nat)
    BY <1>3, <1>4
  <2>2. 0..k \subseteq 0..m /\ m \in 0..m /\ m \notin 0..k
    BY <1>5
  <2>3. 0..k \in SUBSET Nat /\ 0..m \in SUBSET Nat /\ 0..k # 0..m
    BY <2>2
  <2>. QED  BY <2>1, <2>2, <2>3 DEF StrictSubsetOrdering
<1>. QED  BY <1>5

\* A set with 0 that has the successor of each of its numbers has them all.
LEMMA Induction ==
  ASSUME NEW S, 0 \in S, \A n \in Nat : n \in S => n + 1 \in S
  PROVE  Nat \subseteq S
<1> SUFFICES ASSUME Nat \ S # {} PROVE FALSE
  OBVIOUS
<1>1. PICK m \in Nat \ S : \A k \in Nat \ S : m <= k
  BY Least
<1>2. m # 0 /\ m - 1 \in Nat /\ m - 1 \in S /\ (m - 1) + 1 = m
  BY <1>1
<1>. QED  BY <1>2
-----------------------------------------------------------------------------
\* The function that Without computes, for the first n elements.
Rest(f, q, S, n) ==
  f = [k \in 0..n |->
         IF k = 0 THEN << >>
         ELSE IF q[k] \in S THEN f[k - 1] ELSE Append(f[k - 1], q[k])]

\* There is such a function, for as many elements as one likes.
LEMMA RestExists ==
  ASSUME NEW q, NEW S, NEW n \in Nat
  PROVE  \E f : Rest(f, q, S, n)
<1> DEFINE G == {m \in Nat : \E f : Rest(f, q, S, m)}
<1>1. 0 \in G
  <2>1. Rest([k \in 0..0 |-> << >>], q, S, 0)
    BY DEF Rest
  <2>. QED  BY <2>1
<1>2. ASSUME NEW m \in Nat, m \in G PROVE m + 1 \in G
  <2>1. PICK f : Rest(f, q, S, m)
    BY <1>2
  <2> DEFINE last == IF q[m + 1] \in S THEN f[m] ELSE Append(f[m], q[m + 1])
             g == [k \in 0..(m + 1) |-> IF k = m + 1 THEN last ELSE f[k]]
  <2>2. \A k \in 0..m : g[k] = f[k]
    OBVIOUS
  <2>3. ASSUME NEW k \in 0..(m + 1)
        PROVE  g[k] = IF k = 0 THEN << >>
                      ELSE IF q[k] \in S THEN g[k - 1] ELSE Append(g[k - 1], q[k])
    <3>1. CASE k = m + 1
      BY <3>1, <2>2
    <3>2. CASE k # m + 1
      <4>1. k \in 0..m /\ g[k] = f[k] /\ (k # 0 => g[k - 1] = f[k - 1])
        BY <3>2, <2>2
      <4>2. f[k] = IF k = 0 THEN << >>
                   ELSE IF q[k] \in S THEN f[k - 1] ELSE Append(f[k - 1], q[k])
        BY <2>1, <4>1 DEF Rest
      <4>. QED  BY <4>1, <4>2
    <3>. QED  BY <3>1, <3>2
  <2>4. Rest(g, q, S, m + 1)
    <3>1. g = [k \in 0..(m + 1) |-> g[k]]
      OBVIOUS
    <3>. QED  BY <2>3, <3>1 DEF Rest
  <2>. QED  BY <2>4
<1>3. Nat \subseteq G
  <2> HIDE DEF G
  <2>. QED  BY <1>1, <1>2, Induction
<1>. QED  BY <1>3

\* It is the same for two sequences as far as they agree.
LEMMA RestAgrees ==
  ASSUME NEW q, NEW r, NEW S, NEW n \in Nat, NEW m \in Nat, n <= m,
         \A k \in 1..n : q[k] = r[k],
         NEW f, Rest(f, q, S, n), NEW g, Rest(g, r, S, m)
  PROVE  f[n] = g[n]
<1> DEFINE G == {k \in Nat : k <= n => f[k] = g[k]}
<1>1. 0 \in G
  BY DEF Rest
<1>2. ASSUME NEW k \in Nat, k \in G PROVE k + 1 \in G
  <2> SUFFICES ASSUME k + 1 <= n PROVE f[k + 1] = g[k + 1]
    OBVIOUS
  <2>1. f[k] = g[k] /\ q[k + 1] = r[k + 1] /\ k + 1 \in 0..n /\ k + 1 \in 0..m /\ k + 1 # 0
        /\ (k + 1) - 1 = k
    BY <1>2
  <2>2. f[k + 1] = IF q[k + 1] \in S THEN f[k] ELSE Append(f[k], q[k + 1])
    BY <2>1 DEF Rest
  <2>3. g[k + 1] = IF r[k + 1] \in S THEN g[k] ELSE Append(g[k], r[k + 1])
    BY <2>1 DEF Rest
  <2>. QED  BY <2>1, <2>2, <2>3
<1>3. Nat \subseteq G
  <2> HIDE DEF G
  <2>. QED  BY <1>1, <1>2, Induction
<1>. QED  BY <1>3

\* Without is the last value of that function.
LEMMA WithoutRest ==
  ASSUME NEW q, NEW S, Len(q) \in Nat
  PROVE  \E f : Rest(f, q, S, Len(q)) /\ Without(q, S) = f[Len(q)]
<1> DEFINE rest == CHOOSE f : Rest(f, q, S, Len(q))
<1>1. Rest(rest, q, S, Len(q))
  BY RestExists
<1>2. Without(q, S) = rest[Len(q)]
  BY DEF Without, Rest
<1>. QED  BY <1>1, <1>2

\* Nothing is left of nothing.
LEMMA WithoutEmpty ==
  ASSUME NEW S
  PROVE  Without(<< >>, S) = << >>
<1>1. Len(<< >>) = 0
  OBVIOUS
<1>2. PICK f : Rest(f, << >>, S, 0) /\ Without(<< >>, S) = f[0]
  BY <1>1, WithoutRest
<1>. QED  BY <1>2 DEF Rest

\* An element at the end is left, or not.
LEMMA WithoutAppend ==
  ASSUME NEW X, NEW q \in Seq(X), NEW e \in X, NEW S
  PROVE  Without(Append(q, e), S) =
           IF e \in S THEN Without(q, S) ELSE Append(Without(q, S), e)
<1> DEFINE n == Len(q)
           r == Append(q, e)
<1>1. n \in Nat /\ Len(r) = n + 1 /\ r[n + 1] = e /\ \A k \in 1..n : q[k] = r[k]
  OBVIOUS
<1>2. PICK f : Rest(f, q, S, n) /\ Without(q, S) = f[n]
  BY <1>1, WithoutRest
<1> HIDE DEF n, r
<1>3. PICK g : Rest(g, r, S, n + 1) /\ Without(r, S) = g[n + 1]
  <2>1. Len(r) \in Nat
    BY <1>1
  <2>2. \E g : Rest(g, r, S, Len(r)) /\ Without(r, S) = g[Len(r)]
    BY <2>1, WithoutRest
  <2>. QED  BY <1>1, <2>2
<1>4. f[n] = g[n]
  <2>1. n + 1 \in Nat /\ n <= n + 1
    BY <1>1
  <2>. QED  BY <2>1, <1>1, <1>2, <1>3, RestAgrees
<1>5. g[n + 1] = IF r[n + 1] \in S THEN g[n] ELSE Append(g[n], r[n + 1])
  <2>1. n + 1 \in 0..(n + 1) /\ n + 1 # 0 /\ (n + 1) - 1 = n
    BY <1>1
  <2>. QED  BY <2>1, <1>3 DEF Rest
<1>. QED  BY <1>1, <1>2, <1>3, <1>4, <1>5 DEF r

\* A prefix is one element longer than the one before it.
LEMMA PrefixAppend ==
  ASSUME NEW X, NEW q \in Seq(X), NEW n \in Nat, n + 1 <= Len(q)
  PROVE  /\ SubSeq(q, 1, n) \in Seq(X) /\ Len(SubSeq(q, 1, n)) = n
         /\ q[n + 1] \in X
         /\ SubSeq(q, 1, n + 1) = Append(SubSeq(q, 1, n), q[n + 1])
<1>1. Len(q) \in Nat /\ n + 1 \in 1..Len(q) /\ \A i \in 1..Len(q) : q[i] \in X
  OBVIOUS
<1>2. SubSeq(q, 1, n) \in Seq(X) /\ Len(SubSeq(q, 1, n)) = n
      /\ \A i \in 1..n : SubSeq(q, 1, n)[i] = q[i]
  BY <1>1
<1>3. SubSeq(q, 1, n + 1) \in Seq(X) /\ Len(SubSeq(q, 1, n + 1)) = n + 1
      /\ \A i \in 1..(n + 1) : SubSeq(q, 1, n + 1)[i] = q[i]
  BY <1>1
<1>. QED  BY <1>1, <1>2, <1>3

\* What is left has only elements of the sequence, and all of them if none is
\* in the set.
LEMMA WithoutLeaves ==
  ASSUME NEW X, NEW q \in Seq(X), NEW S
  PROVE  /\ Without(q, S) \in Seq(X) /\ Len(Without(q, S)) <= Len(q)
         /\ (\A i \in 1..Len(q) : q[i] \notin S) => Without(q, S) = q
<1> DEFINE Left(n) ==
             /\ Without(SubSeq(q, 1, n), S) \in Seq(X)
             /\ Len(Without(SubSeq(q, 1, n), S)) <= n
             /\ (\A i \in 1..n : q[i] \notin S) => Without(SubSeq(q, 1, n), S) = SubSeq(q, 1, n)
           G == {n \in Nat : n <= Len(q) => Left(n)}
<1>1. 0 \in G
  <2> DEFINE p == SubSeq(q, 1, 0)
             w == Without(p, S)
  <2>1. p = << >> /\ p \in Seq(X)
    OBVIOUS
  <2>2. w = << >> /\ w \in Seq(X) /\ Len(w) <= 0 /\ w = p
    <3>1. w = << >>
      <4> HIDE DEF p
      <4>. QED  BY <2>1, WithoutEmpty
    <3> HIDE DEF w, p
    <3>. QED  BY <2>1, <3>1
  <2>3. Left(0)
    BY <2>2
  <2> HIDE DEF Left
  <2>. QED  BY <2>3
<1>2. ASSUME NEW n \in Nat, n \in G PROVE n + 1 \in G
  <2> SUFFICES ASSUME n + 1 <= Len(q) PROVE Left(n + 1)
    OBVIOUS
  <2> DEFINE p == SubSeq(q, 1, n)
             e == q[n + 1]
  <2>1. p \in Seq(X) /\ Len(p) = n /\ e \in X /\ SubSeq(q, 1, n + 1) = Append(p, e)
    BY PrefixAppend
  <2>2. /\ Without(p, S) \in Seq(X) /\ Len(Without(p, S)) <= n
        /\ (\A i \in 1..n : q[i] \notin S) => Without(p, S) = p
    <3>1. Len(q) \in Nat /\ n <= Len(q)
      OBVIOUS
    <3>. QED  BY <1>2, <3>1
  <2> HIDE DEF p, e
  <2>3. Without(Append(p, e), S) = IF e \in S THEN Without(p, S) ELSE Append(Without(p, S), e)
    BY <2>1, WithoutAppend
  <2> DEFINE w == Without(p, S)
             v == Without(Append(p, e), S)
  <2>4. v \in Seq(X) /\ Len(v) <= n + 1 /\ ((\A i \in 1..(n + 1) : q[i] \notin S) => v = Append(p, e))
    <3>1. v = IF e \in S THEN w ELSE Append(w, e)
      BY <2>3
    <3>2. w \in Seq(X) /\ Len(w) <= n /\ ((\A i \in 1..n : q[i] \notin S) => w = p)
      BY <2>2
    <3> HIDE DEF w, v
    <3>. QED  BY <2>1, <3>1, <3>2 DEF e
  <2>. QED  BY <2>1, <2>4
<1>3. Nat \subseteq G
  <2> HIDE DEF G
  <2>. QED  BY <1>1, <1>2, Induction
<1>4. Len(q) \in Nat /\ SubSeq(q, 1, Len(q)) = q
  OBVIOUS
<1>5. Left(Len(q))
  <2>1. Len(q) \in G
    <3> HIDE DEF G
    <3>. QED  BY <1>3, <1>4
  <2>. QED  BY <1>4, <2>1
<1>. QED  BY <1>4, <1>5
=============================================================================
