----------------------------- MODULE SequenceFacts -----------------------------
(***************************************************************************)
(* What removing an element from a sequence leaves, and what appending     *)
(* one adds: the two things the screens do to their lists.  Parts of a     *)
(* sequence, least and greatest numbers, the places an order gives to the  *)
(* elements of a finite set, and the run of a loop.                        *)
(***************************************************************************)
EXTENDS SequencesExt, FiniteSetTheorems, TLAPS

Distinct(s) == \A i, j \in DOMAIN s : s[i] = s[j] => i = j

(* RemoveAt leaves the others in their order. *)
LEMMA RemovedAt ==
    ASSUME NEW S, NEW s \in Seq(S), NEW i \in DOMAIN s
    PROVE  /\ RemoveAt(s, i) \in Seq(S)
           /\ Len(RemoveAt(s, i)) = Len(s) - 1
           /\ \A j \in 1 .. Len(s) - 1 :
                RemoveAt(s, i)[j] = IF j < i THEN s[j] ELSE s[j + 1]
<1> DEFINE before == SubSeq(s, 1, i - 1)
           after == SubSeq(s, i + 1, Len(s))
<1>1. i \in 1 .. Len(s)
  OBVIOUS
<1>2. RemoveAt(s, i) = before \o after
  BY DEF RemoveAt
<1>3. /\ before \in Seq(S) /\ Len(before) = i - 1
      /\ \A j \in 1 .. i - 1 : before[j] = s[j]
  BY <1>1
<1>4. /\ after \in Seq(S) /\ Len(after) = Len(s) - i
      /\ \A j \in 1 .. Len(s) - i : after[j] = s[i + j]
  BY <1>1
<1> HIDE DEF before, after
<1>5. before \o after \in Seq(S) /\ Len(before \o after) = Len(s) - 1
  BY <1>1, <1>3, <1>4
<1>6. ASSUME NEW j \in 1 .. Len(s) - 1
      PROVE  (before \o after)[j] = IF j < i THEN s[j] ELSE s[j + 1]
  <2>1. CASE j < i
    BY <1>1, <1>3, <1>4, <2>1
  <2>2. CASE j >= i
    <3>1. (before \o after)[j] = after[j - (i - 1)]
      BY <1>1, <1>3, <1>4, <2>2
    <3>2. j - (i - 1) \in 1 .. Len(s) - i /\ i + (j - (i - 1)) = j + 1
      BY <1>1, <2>2
    <3> QED
      BY <1>4, <2>2, <3>1, <3>2
  <2>3. j < i \/ j >= i
    BY <1>1
  <2> QED
    BY <2>1, <2>2, <2>3
<1> QED
  BY <1>2, <1>5, <1>6

(* ... each of them once, if they were. *)
LEMMA RemovedDistinct ==
    ASSUME NEW S, NEW s \in Seq(S), NEW i \in DOMAIN s, Distinct(s)
    PROVE  Distinct(RemoveAt(s, i))
<1> DEFINE r == RemoveAt(s, i)
<1>1. /\ DOMAIN r = 1 .. Len(s) - 1
      /\ \A j \in 1 .. Len(s) - 1 : r[j] = IF j < i THEN s[j] ELSE s[j + 1]
  BY RemovedAt
<1> HIDE DEF r
<1> SUFFICES ASSUME NEW j \in DOMAIN r, NEW k \in DOMAIN r, r[j] = r[k]
             PROVE  j = k
  BY DEF Distinct, r
<1> DEFINE place(n) == IF n < i THEN n ELSE n + 1
<1>2. place(j) \in DOMAIN s /\ place(k) \in DOMAIN s
  BY <1>1
<1>3. s[place(j)] = s[place(k)]
  BY <1>1
<1>4. place(j) = place(k)
  BY <1>2, <1>3 DEF Distinct
<1> QED
  BY <1>1, <1>4

(* A new element keeps the others apart. *)
LEMMA AppendedDistinct ==
    ASSUME NEW S, NEW s \in Seq(S), NEW x \in S, Distinct(s), \A i \in DOMAIN s : s[i] # x
    PROVE  Distinct(Append(s, x)) /\ Append(s, x) \in Seq(S) /\ Len(Append(s, x)) = Len(s) + 1
<1> DEFINE t == Append(s, x)
<1>1. /\ t \in Seq(S) /\ Len(t) = Len(s) + 1 /\ DOMAIN t = 1 .. Len(s) + 1
      /\ \A i \in 1 .. Len(s) : t[i] = s[i]
      /\ t[Len(s) + 1] = x
  OBVIOUS
<1> HIDE DEF t
<1>2. ASSUME NEW i \in DOMAIN t, NEW j \in DOMAIN t, t[i] = t[j]
      PROVE  i = j
  <2>1. DOMAIN s = 1 .. Len(s)
    OBVIOUS
  <2> QED
    BY <1>1, <1>2, <2>1 DEF Distinct
<1> QED
  BY <1>1, <1>2 DEF Distinct, t

-----------------------------------------------------------------------------
(* Every set of natural numbers has a least one: < is well founded.  This  *)
(* is how induction is done below: the set of the counterexamples has none.*)
LEMMA LeastNatural ==
    ASSUME NEW T \in SUBSET Nat, T # {}
    PROVE  \E n \in T : \A m \in T : n <= m
<1> DEFINE R == {pair \in Nat \X Nat : pair[1] < pair[2]}
<1>1. IsWellFoundedOn(R, Nat)
  BY ONLY NatLessThanWellFounded DEF OpToRel
<1> HIDE DEF R
<1>2. PICK n \in T : \A m \in T : <<m, n>> \notin R
  BY <1>1, WFMin
<1>3. \A m \in T : ~(m < n)
  BY <1>2 DEF R
<1> QED
  BY <1>3

LEMMA LeastIs ==
    ASSUME NEW T \in SUBSET Nat, T # {}
    PROVE  Min(T) \in T /\ \A m \in T : Min(T) <= m
<1>1. \E n \in T : \A m \in T : n <= m
  BY LeastNatural
<1>2. Min(T) = CHOOSE n \in T : \A m \in T : n <= m
  BY DEF Min
<1> QED
  BY <1>1, <1>2

LEMMA GreatestIs ==
    ASSUME NEW n \in Nat, NEW T \in SUBSET (0 .. n), T # {}
    PROVE  Max(T) \in T /\ \A m \in T : Max(T) >= m
<1> DEFINE above == {n - m : m \in T}
<1>1. above \in SUBSET Nat /\ above # {}
  <2>1. \A m \in T : n - m \in Nat
    OBVIOUS
  <2> QED
    BY <2>1
<1>2. PICK k \in above : \A j \in above : k <= j
  BY <1>1, LeastNatural
<1>3. PICK m \in T : k = n - m
  BY <1>2
<1>4. \A j \in T : m >= j
  BY <1>2, <1>3
<1> QED
  BY <1>4 DEF Max

LEMMA LesserOf ==
    ASSUME NEW m \in Nat, NEW n \in Nat
    PROVE  Min({m, n}) \in {m, n} /\ Min({m, n}) <= m /\ Min({m, n}) <= n
<1>1. {m, n} \in SUBSET Nat /\ {m, n} # {}
  OBVIOUS
<1> QED
  BY <1>1, LeastIs

LEMMA CountTo ==
    ASSUME NEW n \in Nat
    PROVE  IsFiniteSet(1 .. n) /\ Cardinality(1 .. n) = n
  BY FS_Interval

LEMMA Trichotomy ==
    ASSUME NEW m \in Nat, NEW n \in Nat
    PROVE  m = n \/ m < n \/ n < m
  OBVIOUS

LEMMA WiderSeq ==
    ASSUME NEW S, NEW T, S \subseteq T, NEW s \in Seq(S)
    PROVE  s \in Seq(T)
  OBVIOUS

(* What a part of a sequence is, and a prefix, place by place. *)
LEMMA SubSeqIs ==
    ASSUME NEW S, NEW s \in Seq(S), NEW a \in 1 .. Len(s), NEW b \in 1 .. Len(s), a <= b
    PROVE  /\ SubSeq(s, a, b) \in Seq(S) /\ Len(SubSeq(s, a, b)) = b - a + 1
           /\ \A i \in 1 .. b - a + 1 : SubSeq(s, a, b)[i] = s[a + i - 1]
  OBVIOUS

LEMMA StartIs ==
    ASSUME NEW S, NEW s \in Seq(S), NEW n \in 0 .. Len(s)
    PROVE  /\ SubSeq(s, 1, n) \in Seq(S) /\ Len(SubSeq(s, 1, n)) = n
           /\ \A i \in 1 .. n : SubSeq(s, 1, n)[i] = s[i]
  OBVIOUS

LEMMA PrefixIs ==
    ASSUME NEW S, NEW s \in Seq(S), NEW t \in Seq(S)
    PROVE  IsPrefix(s, t) <=> Len(s) <= Len(t) /\ \A i \in 1 .. Len(s) : s[i] = t[i]
<1>1. Len(s) \in Nat /\ Len(t) \in Nat /\ SubSeq(s, 1, Len(s)) = s
  OBVIOUS
<1>2. ASSUME Len(s) <= Len(t)
      PROVE  /\ Len(SubSeq(t, 1, Len(s))) = Len(s)
             /\ \A i \in 1 .. Len(s) : SubSeq(t, 1, Len(s))[i] = t[i]
             /\ SubSeq(t, 1, Len(s)) \in Seq(S)
  BY <1>1, <1>2
<1>3. ASSUME NEW u \in Seq(S), Len(u) = Len(s)
      PROVE  s = u <=> \A i \in 1 .. Len(s) : s[i] = u[i]
  BY <1>3
<1> QED
  BY <1>1, <1>2, <1>3 DEF IsPrefix

(* An order on a finite set, given by what goes ahead of each element: how *)
(* many do is an element's place, no two share one, and none is empty.     *)
IsOrder(S, ahead) ==
    /\ ahead \in [S -> SUBSET S]
    /\ \A i \in S : i \notin ahead[i]
    /\ \A i \in S : \A j \in ahead[i] : ahead[j] \subseteq ahead[i]
    /\ \A i, j \in S : i = j \/ i \in ahead[j] \/ j \in ahead[i]

LEMMA Places ==
    ASSUME NEW S, IsFiniteSet(S), NEW ahead, IsOrder(S, ahead)
    PROVE  /\ Cardinality(S) \in Nat
           /\ \A i \in S : Cardinality(ahead[i]) \in 0 .. Cardinality(S) - 1
           /\ \A i \in S : \A j \in ahead[i] : Cardinality(ahead[j]) < Cardinality(ahead[i])
           /\ \A i, j \in S : Cardinality(ahead[i]) = Cardinality(ahead[j]) => i = j
           /\ \A p \in 0 .. Cardinality(S) - 1 : \E i \in S : Cardinality(ahead[i]) = p
<1> DEFINE place == [i \in S |-> Cardinality(ahead[i])]
           n == Cardinality(S)
<1>1. n \in Nat
  BY FS_CardinalityType
<1>2. \A i \in S : IsFiniteSet(ahead[i]) /\ Cardinality(ahead[i]) \in Nat
  BY FS_Subset, FS_CardinalityType DEF IsOrder
<1>3. ASSUME NEW i \in S, NEW j \in ahead[i]
      PROVE  Cardinality(ahead[j]) < Cardinality(ahead[i])
  <2>1. j \in S /\ ahead[j] \in SUBSET ahead[i] /\ ahead[j] # ahead[i]
    BY DEF IsOrder
  <2>2. /\ Cardinality(ahead[j]) <= Cardinality(ahead[i])
        /\ Cardinality(ahead[j]) # Cardinality(ahead[i])
    BY <1>2, <2>1, FS_Subset
  <2> QED
    BY <1>2, <2>1, <2>2
<1>4. ASSUME NEW i \in S
      PROVE  Cardinality(ahead[i]) \in 0 .. n - 1
  <2>1. ahead[i] \in SUBSET S /\ ahead[i] # S
    BY DEF IsOrder
  <2>2. Cardinality(ahead[i]) <= n /\ Cardinality(ahead[i]) # n
    BY <2>1, FS_Subset
  <2> QED
    BY <1>1, <1>2, <2>2
<1>5. ASSUME NEW i \in S, NEW j \in S, Cardinality(ahead[i]) = Cardinality(ahead[j])
      PROVE  i = j
  BY <1>2, <1>3, <1>5 DEF IsOrder
<1>6. place \in Injection(S, 0 .. n - 1)
  BY <1>4, <1>5 DEF Injection, IsInjective
<1>7. IsFiniteSet(0 .. n - 1) /\ Cardinality(0 .. n - 1) = n
  BY <1>1, FS_Interval
<1>8. place \in Surjection(S, 0 .. n - 1)
  <2> HIDE DEF place
  <2> QED
    BY <1>6, <1>7, FS_Injection
<1>9. \A p \in 0 .. n - 1 : \E i \in S : Cardinality(ahead[i]) = p
  BY <1>8 DEF Surjection
<1> QED
  BY <1>1, <1>3, <1>4, <1>5, <1>9

(* The lists of a finite set that keep an order: one.                      *)
Listings(S, ahead) ==
    {p \in SetToSeqs(S) : \A i, j \in DOMAIN p : p[i] \in ahead[p[j]] => i < j}

LEMMA ListingIs ==
    ASSUME NEW S, NEW ahead, NEW p
    PROVE  p \in Listings(S, ahead) <=>
               /\ p \in [1 .. Cardinality(S) -> S]
               /\ \A i, j \in 1 .. Cardinality(S) : p[i] = p[j] => i = j
               /\ \A i, j \in 1 .. Cardinality(S) : p[i] \in ahead[p[j]] => i < j
<1> DEFINE n == Cardinality(S)
<1>1. p \in SetToSeqs(S) <=>
        p \in [1 .. n -> S] /\ \A i, j \in 1 .. n : p[i] = p[j] => i = j
  BY Zenon DEF SetToSeqs
<1> HIDE DEF n
<1>2. p \in [1 .. n -> S] => DOMAIN p = 1 .. n
  OBVIOUS
<1> QED
  BY <1>1, <1>2, Zenon DEF Listings, n

(* The place of an element in such a list is how many go ahead of it.      *)
LEMMA ListedAtPlace ==
    ASSUME NEW S, IsFiniteSet(S), NEW ahead, IsOrder(S, ahead),
           NEW p \in Listings(S, ahead), NEW k \in 1 .. Cardinality(S)
    PROVE  p[k] \in S /\ Cardinality(ahead[p[k]]) = k - 1
<1> DEFINE n == Cardinality(S)
           A == ahead[p[k]]
<1>1. n \in Nat
  BY FS_CardinalityType
<1>2. /\ p \in [1 .. n -> S]
      /\ \A i, j \in 1 .. n : p[i] = p[j] => i = j
      /\ \A i, j \in 1 .. n : p[i] \in ahead[p[j]] => i < j
  BY ListingIs, Zenon
<1>3. \A g \in S : \E j \in 1 .. n : p[j] = g
  <2>1. p \in Injection(1 .. n, S)
    BY <1>2 DEF Injection, IsInjective
  <2>2. IsFiniteSet(1 .. n) /\ Cardinality(1 .. n) = n
    BY <1>1, CountTo
  <2> DEFINE D == 1 .. n
  <2> HIDE DEF D
  <2>3. p \in Injection(D, S) /\ Cardinality(D) = Cardinality(S)
    BY <2>1, <2>2 DEF D
  <2>4. p \in Surjection(D, S)
    BY <2>3, FS_Injection
  <2> QED
    BY <2>4 DEF Surjection, D
<1> HIDE DEF n
<1>4. /\ p[k] \in S /\ A \subseteq S
      /\ \A j \in 1 .. n : p[j] \in A <=> j < k
  <2>1. k \in 1 .. n
    BY DEF n
  <2>2. p[k] \in S /\ A \subseteq S
    BY <1>2, <2>1 DEF IsOrder
  <2>3. ASSUME NEW j \in 1 .. n
        PROVE  p[j] \in A <=> j < k
    <3>1. p[j] \in S
      BY <1>2
    <3>2. p[j] \in A => j < k
      BY <1>2, <2>1
    <3>3. p[j] = p[k] \/ p[j] \in ahead[p[k]] \/ p[k] \in ahead[p[j]]
      BY <2>2, <3>1 DEF IsOrder
    <3>4. p[k] \in ahead[p[j]] => k < j
      BY <1>2, <2>1
    <3>5. p[j] = p[k] => j = k
      BY <1>2, <2>1
    <3>6. j < k => p[j] \in A
      BY <2>1, <3>3, <3>4, <3>5
    <3> QED
      BY <3>2, <3>6
  <2> QED
    BY <2>2, <2>3
<1> HIDE DEF A
<1> DEFINE D == 1 .. k - 1
           f == [j \in D |-> p[j]]
<1>5. k \in 1 .. n /\ k - 1 \in Nat /\ D \subseteq 1 .. n /\ \A j \in 1 .. n : j \in D <=> j < k
  BY <1>1 DEF n
<1>6. IsFiniteSet(D) /\ Cardinality(D) = k - 1
  BY <1>5, CountTo
<1> HIDE DEF D
<1>7. f \in [D -> A]
  BY <1>4, <1>5
<1>8. \A i, j \in D : f[i] = f[j] => i = j
  BY <1>2, <1>5
<1>9. \A g \in A : \E j \in D : f[j] = g
  <2> SUFFICES ASSUME NEW g \in A
               PROVE  \E j \in D : f[j] = g
    OBVIOUS
  <2>1. PICK j \in 1 .. n : p[j] = g
    BY <1>3, <1>4
  <2> QED
    BY <1>4, <1>5, <2>1
<1>10. DOMAIN f = D
  OBVIOUS
<1> HIDE DEF f
<1>11. f \in Bijection(D, A)
  BY <1>7, <1>8, <1>9, <1>10 DEF Bijection, Injection, Surjection, IsInjective
<1>12. Cardinality(A) = Cardinality(D)
  BY <1>6, <1>11, FS_Bijection DEF ExistsBijection
<1> QED
  BY <1>4, <1>6, <1>12 DEF A

LEMMA OneListing ==
    ASSUME NEW S, IsFiniteSet(S), NEW ahead, IsOrder(S, ahead)
    PROVE  \E p : Listings(S, ahead) = {p}
<1> DEFINE n == Cardinality(S)
           place == [i \in S |-> Cardinality(ahead[i])]
           p == [k \in 1 .. n |-> CHOOSE i \in S : place[i] = k - 1]
<1>1. /\ n \in Nat
      /\ \A i \in S : place[i] \in 0 .. n - 1
      /\ \A i \in S : \A j \in ahead[i] : j \in S /\ place[j] < place[i]
      /\ \A i, j \in S : place[i] = place[j] => i = j
      /\ \A m \in 0 .. n - 1 : \E i \in S : place[i] = m
  BY Places DEF IsOrder
<1> HIDE DEF n
<1>2. \A i \in S : place[i] = Cardinality(ahead[i])
  OBVIOUS
<1> HIDE DEF place
<1>3. ASSUME NEW k \in 1 .. n
      PROVE  p[k] \in S /\ place[p[k]] = k - 1
  <2>1. k - 1 \in 0 .. n - 1
    BY <1>1
  <2>2. p[k] = CHOOSE i \in S : place[i] = k - 1
    OBVIOUS
  <2>3. \E i \in S : place[i] = k - 1
    BY <1>1, <2>1
  <2> HIDE DEF p
  <2> QED
    BY <2>2, <2>3
<1>4. p \in [1 .. n -> S]
  <2>1. DOMAIN p = 1 .. n /\ p = [k \in 1 .. n |-> p[k]]
    OBVIOUS
  <2> HIDE DEF p
  <2> QED
    BY <1>3, <2>1
<1> HIDE DEF p
<1>5. p \in Listings(S, ahead)
  <2>1. \A i, j \in 1 .. n : p[i] = p[j] => i = j
    BY <1>1, <1>3
  <2>2. \A i, j \in 1 .. n : p[i] \in ahead[p[j]] => i < j
    BY <1>1, <1>3
  <2> QED
    BY <1>4, <2>1, <2>2, ListingIs, Zenon DEF n
<1>6. ASSUME NEW q \in Listings(S, ahead)
      PROVE  q = p
  <2>1. q \in [1 .. n -> S]
    BY ListingIs, Zenon DEF n
  <2>2. ASSUME NEW k \in 1 .. n
        PROVE  q[k] = p[k]
    <3>1. q[k] \in S /\ Cardinality(ahead[q[k]]) = k - 1
      BY ListedAtPlace DEF n
    <3> QED
      BY <1>1, <1>2, <1>3, <3>1
  <2> DEFINE D == 1 .. n
  <2>3. q \in [D -> S] /\ p \in [D -> S] /\ \A k \in D : q[k] = p[k]
    BY <1>4, <2>1, <2>2
  <2> HIDE DEF D
  <2> QED
    BY <2>3
<1> QED
  BY <1>5, <1>6

(* A loop over 1 .. N that carries a value of X, and what it carries after *)
(* each turn: there is such a run.                                         *)
Turns(X, N) == [1 .. N -> [X -> X]]
IsRun(X, N, base, turn, f) ==
    /\ f \in [0 .. N -> X]
    /\ f[0] = base
    /\ \A n \in 1 .. N : f[n] = turn[n][f[n - 1]]

LEMMA Loop ==
    ASSUME NEW X, NEW N \in Nat, NEW base \in X, NEW turn \in Turns(X, N)
    PROVE  \E f : IsRun(X, N, base, turn, f)
<1> DEFINE Runs(m, f) == f[0] = base /\ \A n \in 1 .. m : f[n] = turn[n][f[n - 1]]
           short == {m \in 0 .. N : ~\E f \in [0 .. m -> X] : Runs(m, f)}
<1>0. turn \in [1 .. N -> [X -> X]]
  BY DEF Turns
<1>1. ASSUME NEW m \in 0 .. N, m # 0, NEW f \in [0 .. m - 1 -> X], Runs(m - 1, f)
      PROVE  \E g \in [0 .. m -> X] : Runs(m, g)
  <2> DEFINE g == [i \in 0 .. m |-> IF i = m THEN turn[m][f[m - 1]] ELSE f[i]]
  <2>1. f[m - 1] \in X /\ turn[m] \in [X -> X]
    BY <1>0, <1>1
  <2>2. turn[m][f[m - 1]] \in X
    BY <2>1
  <2>3. g \in [0 .. m -> X]
    BY <1>1, <2>2
  <2>4. Runs(m, g)
    BY <1>1
  <2> QED
    BY <2>3, <2>4
<1>2. ASSUME short # {}
      PROVE  FALSE
  <2>1. short \in SUBSET Nat
    OBVIOUS
  <2>2. PICK m \in short : \A k \in short : m <= k
    BY <1>2, <2>1, LeastNatural
  <2>3. CASE m = 0
    <3> DEFINE f == [i \in 0 .. 0 |-> base]
    <3>1. f \in [0 .. 0 -> X] /\ Runs(0, f)
      OBVIOUS
    <3> QED
      BY <2>2, <2>3, <3>1
  <2>4. CASE m # 0
    <3>1. m \in 0 .. N
      BY <2>2
    <3>2. m - 1 \in 0 .. N /\ ~(m <= m - 1)
      BY <2>4, <3>1
    <3>3. m - 1 \notin short
      BY <2>2, <3>2
    <3> HIDE DEF Runs
    <3>4. PICK f \in [0 .. m - 1 -> X] : Runs(m - 1, f)
      BY <3>2, <3>3
    <3> QED
      BY <1>1, <2>2, <2>4, <3>1, <3>4
  <2> QED
    BY <2>3, <2>4
<1>3. \E f \in [0 .. N -> X] : Runs(N, f)
  <2>1. N \in 0 .. N /\ N \notin short
    BY <1>2
  <2> HIDE DEF Runs
  <2> QED
    BY <2>1
<1> QED
  BY <1>3 DEF IsRun
=============================================================================
