-------------------------- MODULE AirportPickerProofs --------------------------
(***************************************************************************)
(* Proofs about the search for airports and about the picker that uses it, *)
(* for any dataset, texts, capacity and number of blur timers: the         *)
(* operators of AirportSearch, the properties of AirportQueries, then what *)
(* the picker lets one choose, when it shows its list, and what it says.   *)
(***************************************************************************)
EXTENDS AirportPicker, AirportQueries, SequenceFacts

-----------------------------------------------------------------------------
(* Texts *)

(* Trimming leaves what is from the first to the last letter.              *)
LEMMA TrimIs ==
    ASSUME NEW s \in Seq(Chars)
    PROVE  \/ TrimSpace(s) = <<>> /\ \A i \in DOMAIN s : s[i] = Space
           \/ \E a, b \in DOMAIN s :
                /\ a <= b /\ s[a] # Space /\ s[b] # Space
                /\ \A i \in DOMAIN s : s[i] # Space => a <= i /\ i <= b
                /\ TrimSpace(s) = SubSeq(s, a, b)
<1> DEFINE solid == {i \in DOMAIN s : s[i] # Space}
<1>1. CASE solid = {}
  BY <1>1 DEF TrimSpace
<1>2. CASE solid # {}
  <2>1. solid \in SUBSET (0 .. Len(s)) /\ solid \in SUBSET Nat /\ Len(s) \in Nat
    OBVIOUS
  <2>2. /\ Min(solid) \in solid /\ \A i \in solid : Min(solid) <= i
        /\ Max(solid) \in solid /\ \A i \in solid : Max(solid) >= i
    <3> HIDE DEF solid
    <3> QED
      BY <1>2, <2>1, LeastIs, GreatestIs
  <2>3. TrimSpace(s) = SubSeq(s, Min(solid), Max(solid))
    BY <1>2 DEF TrimSpace
  <2> DEFINE a == Min(solid)
             b == Max(solid)
  <2>4. /\ a \in DOMAIN s /\ b \in DOMAIN s /\ s[a] # Space /\ s[b] # Space /\ a <= b
        /\ \A i \in DOMAIN s : s[i] # Space => a <= i /\ i <= b
    <3> HIDE DEF a, b
    <3> QED
      BY <2>1, <2>2 DEF a, b
  <2> QED
    BY <2>3, <2>4
<1> QED
  BY <1>1, <1>2

LEMMA TrimType ==
    ASSUME NEW s \in Seq(Chars)
    PROVE  /\ TrimSpace(s) \in Seq(Chars)
           /\ TrimSpace(s) # <<>> =>
                /\ TrimSpace(s)[1] # Space /\ TrimSpace(s)[Len(TrimSpace(s))] # Space
<1> DEFINE t == TrimSpace(s)
<1>1. CASE t = <<>>
  BY <1>1
<1>2. CASE t # <<>>
  <2>1. PICK a \in DOMAIN s, b \in DOMAIN s :
            a <= b /\ s[a] # Space /\ s[b] # Space /\ t = SubSeq(s, a, b)
    BY <1>2, TrimIs
  <2>2. /\ t \in Seq(Chars) /\ Len(t) = b - a + 1
        /\ \A i \in 1 .. b - a + 1 : t[i] = s[a + i - 1]
    BY <2>1
  <2>3. /\ 1 \in 1 .. b - a + 1 /\ b - a + 1 \in 1 .. b - a + 1
        /\ a + 1 - 1 = a /\ a + (b - a + 1) - 1 = b
    BY <2>1
  <2> HIDE DEF t
  <2>4. t[1] = s[a] /\ t[b - a + 1] = s[b]
    BY <2>2, <2>3
  <2> QED
    BY <2>1, <2>2, <2>4 DEF t
<1> QED
  BY <1>1, <1>2

(* What begins and ends with a letter is trimmed already.                  *)
LEMMA TrimTrimmed ==
    ASSUME NEW s \in Seq(Chars), s # <<>> => s[1] # Space /\ s[Len(s)] # Space
    PROVE  TrimSpace(s) = s
<1>1. CASE s = <<>>
  BY <1>1 DEF TrimSpace
<1>2. CASE s # <<>>
  <2>1. 1 \in DOMAIN s /\ Len(s) \in DOMAIN s /\ Len(s) \in Nat /\ DOMAIN s = 1 .. Len(s)
    BY <1>2
  <2>2. PICK a \in DOMAIN s, b \in DOMAIN s :
            /\ \A i \in DOMAIN s : s[i] # Space => a <= i /\ i <= b
            /\ TrimSpace(s) = SubSeq(s, a, b)
    BY <1>2, <2>1, TrimIs
  <2>3. a = 1 /\ b = Len(s)
    BY <1>2, <2>1, <2>2
  <2> QED
    BY <2>2, <2>3
<1> QED
  BY <1>1, <1>2

LEMMA TrimAgain ==
    ASSUME NEW s \in Seq(Chars)
    PROVE  TrimSpace(TrimSpace(s)) = TrimSpace(s)
  BY TrimType, TrimTrimmed

(* Trimming keeps one text the start of another.                           *)
LEMMA TrimPrefix ==
    ASSUME NEW s \in Seq(Chars), NEW t \in Seq(Chars), IsPrefix(s, t)
    PROVE  IsPrefix(TrimSpace(s), TrimSpace(t))
<1> DEFINE u == TrimSpace(s)
           v == TrimSpace(t)
<1>1. u \in Seq(Chars) /\ v \in Seq(Chars)
  BY TrimType
<1>2. Len(s) <= Len(t) /\ \A i \in 1 .. Len(s) : s[i] = t[i]
  BY PrefixIs
<1>3. Len(s) \in Nat /\ Len(t) \in Nat /\ DOMAIN s = 1 .. Len(s) /\ DOMAIN t = 1 .. Len(t)
  OBVIOUS
<1>4. CASE u = <<>>
  <2>1. Len(u) = 0
    BY <1>4
  <2> HIDE DEF u, v
  <2>2. Len(u) <= Len(v) /\ \A i \in 1 .. Len(u) : u[i] = v[i]
    BY <1>1, <2>1
  <2>3. IsPrefix(u, v)
    BY <1>1, <2>2, PrefixIs
  <2> QED
    BY <2>3 DEF u, v
<1>5. CASE u # <<>>
  <2>1. PICK a \in DOMAIN s, b \in DOMAIN s :
            /\ a <= b /\ s[a] # Space /\ s[b] # Space
            /\ \A i \in DOMAIN s : s[i] # Space => a <= i /\ i <= b
            /\ u = SubSeq(s, a, b)
    BY <1>5, TrimIs
  <2>2. t[a] # Space /\ t[b] # Space /\ a \in DOMAIN t /\ b \in DOMAIN t
    BY <1>2, <1>3, <2>1
  <2>3. PICK c \in DOMAIN t, d \in DOMAIN t :
            /\ c <= d /\ t[c] # Space
            /\ \A i \in DOMAIN t : t[i] # Space => c <= i /\ i <= d
            /\ v = SubSeq(t, c, d)
    BY <2>2, TrimIs
  <2>4. c = a /\ b <= d
    <3>1. c <= a /\ b <= d
      BY <2>2, <2>3
    <3>2. c \in DOMAIN s /\ s[c] # Space
      BY <1>2, <1>3, <2>1, <2>3, <3>1
    <3> QED
      BY <1>3, <2>1, <3>1, <3>2
  <2>5. /\ Len(u) = b - a + 1 /\ Len(v) = d - a + 1
        /\ \A i \in 1 .. b - a + 1 : u[i] = s[a + i - 1]
        /\ \A i \in 1 .. d - a + 1 : v[i] = t[a + i - 1]
    <3>1. /\ Len(SubSeq(s, a, b)) = b - a + 1
          /\ \A i \in 1 .. b - a + 1 : SubSeq(s, a, b)[i] = s[a + i - 1]
      BY <1>3, <2>1, SubSeqIs
    <3>2. /\ Len(SubSeq(t, a, d)) = d - a + 1
          /\ \A i \in 1 .. d - a + 1 : SubSeq(t, a, d)[i] = t[a + i - 1]
      BY <1>3, <2>1, <2>3, <2>4, SubSeqIs
    <3> HIDE DEF u, v
    <3> QED
      BY <2>1, <2>3, <2>4, <3>1, <3>2
  <2>6. \A i \in 1 .. b - a + 1 : i \in 1 .. d - a + 1 /\ a + i - 1 \in 1 .. Len(s)
    BY <1>3, <2>1, <2>3, <2>4
  <2> HIDE DEF u, v
  <2>7. Len(u) <= Len(v) /\ \A i \in 1 .. Len(u) : u[i] = v[i]
    <3>1. Len(u) <= Len(v)
      BY <1>3, <2>1, <2>3, <2>4, <2>5
    <3>2. ASSUME NEW i \in 1 .. b - a + 1
          PROVE  u[i] = v[i]
      <4>1. u[i] = s[a + i - 1] /\ v[i] = t[a + i - 1]
        BY <2>5, <2>6
      <4>2. s[a + i - 1] = t[a + i - 1]
        BY <1>2, <2>6
      <4> QED
        BY <4>1, <4>2
    <3> QED
      BY <2>5, <3>1, <3>2
  <2>8. IsPrefix(u, v)
    BY <1>1, <2>7, PrefixIs
  <2> QED
    BY <2>8 DEF u, v
<1> QED
  BY <1>4, <1>5

-----------------------------------------------------------------------------
(* What matches *)

(* Some word still starts with q when q is shortened.                      *)
LEMMA WordPrefixNarrows ==
    ASSUME NEW s \in Seq(Chars), NEW p \in Seq(Chars), NEW q \in Seq(Chars),
           IsPrefix(p, q), WordPrefix(s, q)
    PROVE  WordPrefix(s, p)
<1>1. PICK i \in 0 .. Len(s) :
          /\ i > 0 => s[i] \in {Space, Hyphen, Slash}
          /\ IsPrefix(q, SubSeq(s, i + 1, Len(s)))
  BY DEF WordPrefix
<1> DEFINE rest == SubSeq(s, i + 1, Len(s))
<1>2. rest \in Seq(Chars)
  OBVIOUS
<1>3. IsPrefix(q, rest)
  BY <1>1
<1> HIDE DEF rest
<1>4. Len(q) <= Len(rest) /\ \A k \in 1 .. Len(q) : q[k] = rest[k]
  BY <1>2, <1>3, PrefixIs
<1>5. Len(p) <= Len(q) /\ \A k \in 1 .. Len(p) : p[k] = q[k]
  BY PrefixIs
<1>6. Len(p) \in Nat /\ Len(q) \in Nat /\ Len(rest) \in Nat
  BY <1>2
<1>7. Len(p) <= Len(rest) /\ \A k \in 1 .. Len(p) : p[k] = rest[k]
  BY <1>4, <1>5, <1>6
<1>8. IsPrefix(p, rest)
  BY <1>2, <1>7, PrefixIs
<1> QED
  BY <1>1, <1>8 DEF WordPrefix, rest

(* What is left of a letter.                                               *)
LEMMA LettersType ==
    \A c \in Chars : FoldChar[c] \in Seq(Chars) /\ UpperChar[c] \in Chars
<1> DEFINE Text == Seq(Chars)
<1>1. FoldChar \in [Chars -> Text] /\ UpperChar \in [Chars -> Chars]
  BY CharsAssumption
<1> HIDE DEF Text
<1>2. \A c \in Chars : FoldChar[c] \in Text /\ UpperChar[c] \in Chars
  BY <1>1
<1> QED
  BY <1>2 DEF Text

(* Letters are put into capitals one by one.                               *)
LEMMA UpperType ==
    ASSUME NEW s \in Seq(Chars)
    PROVE  /\ ToUpper(s) \in Seq(Chars) /\ Len(ToUpper(s)) = Len(s)
           /\ \A i \in 1 .. Len(s) : ToUpper(s)[i] = UpperChar[s[i]]
<1>1. Len(s) \in Nat /\ DOMAIN s = 1 .. Len(s) /\ \A i \in 1 .. Len(s) : s[i] \in Chars
  OBVIOUS
<1>2. ToUpper(s) = [i \in 1 .. Len(s) |-> UpperChar[s[i]]]
  BY <1>1 DEF ToUpper
<1>3. \A i \in 1 .. Len(s) : UpperChar[s[i]] \in Chars
  BY <1>1, LettersType
<1> QED
  BY <1>1, <1>2, <1>3

(* What fold has made of a text after each of its letters.                 *)
FoldTurns(s, kept) ==
    /\ kept \in [0 .. Len(s) -> Seq(Chars)]
    /\ kept[0] = <<>>
    /\ \A n \in 1 .. Len(s) : kept[n] = kept[n - 1] \o FoldChar[s[n]]

LEMMA FoldedTurns ==
    ASSUME NEW s \in Seq(Chars)
    PROVE  \E kept : FoldTurns(s, kept) /\ Folded(s) = kept[Len(s)]
<1> DEFINE N == 0 .. Len(s)
           Next1(f, n) == IF n = 0 THEN <<>> ELSE f[n - 1] \o FoldChar[s[n]]
           kept == CHOOSE f : f = [n \in N |-> Next1(f, n)]
           turn == [n \in 1 .. Len(s) |-> [x \in Seq(Chars) |-> x \o FoldChar[s[n]]]]
<1>1. Folded(s) = kept[Len(s)]
  BY DEF Folded
<1>2. Len(s) \in Nat /\ \A n \in 1 .. Len(s) : FoldChar[s[n]] \in Seq(Chars)
  <2>1. Len(s) \in Nat /\ \A n \in 1 .. Len(s) : s[n] \in Chars
    OBVIOUS
  <2> QED
    BY <2>1, LettersType
<1>3. PICK f \in [N -> Seq(Chars)] :
         f[0] = <<>> /\ \A n \in 1 .. Len(s) : f[n] = turn[n][f[n - 1]]
  <2> DEFINE empty == <<>>
             texts == Seq(Chars)
  <2>1. empty \in texts
    OBVIOUS
  <2>2. turn \in Turns(texts, Len(s))
    BY <1>2 DEF Turns
  <2>3. Len(s) \in Nat
    BY <1>2
  <2> HIDE DEF turn, empty, texts
  <2>4. PICK f : IsRun(texts, Len(s), empty, turn, f)
    BY <2>1, <2>2, <2>3, Loop
  <2> QED
    BY <2>4 DEF empty, texts, IsRun
<1>4. ASSUME NEW n \in 1 .. Len(s)
      PROVE  f[n] = f[n - 1] \o FoldChar[s[n]]
  <2>1. n - 1 \in N
    BY <1>2
  <2>2. f[n - 1] \in Seq(Chars) /\ f[n] = turn[n][f[n - 1]]
    BY <1>3, <2>1
  <2> QED
    BY <2>2
<1>5. ASSUME NEW n \in N
      PROVE  f[n] = Next1(f, n)
  <2>1. CASE n = 0
    BY <1>3, <2>1
  <2>2. CASE n # 0
    <3>1. n \in 1 .. Len(s)
      BY <1>2, <2>2
    <3> QED
      BY <1>4, <2>2, <3>1
  <2> QED
    BY <2>1, <2>2
<1>6. f = [n \in N |-> Next1(f, n)]
  <2> HIDE DEF Next1
  <2>1. f = [n \in N |-> f[n]]
    BY <1>3
  <2> QED
    BY <1>5, <2>1, Zenon
<1>7. kept = [n \in N |-> Next1(kept, n)]
  <2> HIDE DEF Next1
  <2> QED
    BY <1>6, Zenon
<1>8. \A n \in N : kept[n] = Next1(kept, n)
  <2> HIDE DEF kept, Next1
  <2> QED
    BY <1>7, Zenon
<1> HIDE DEF kept
<1>9. /\ kept[0] = <<>>
      /\ \A n \in 1 .. Len(s) : kept[n] = kept[n - 1] \o FoldChar[s[n]]
  <2>1. 0 \in N /\ \A n \in 1 .. Len(s) : n \in N /\ n # 0
    BY <1>2
  <2>2. Next1(kept, 0) = <<>>
    BY Zenon
  <2>3. \A n \in 1 .. Len(s) : Next1(kept, n) = kept[n - 1] \o FoldChar[s[n]]
    <3> HIDE DEF N
    <3> QED
      BY <2>1, Zenon
  <2> HIDE DEF N, Next1
  <2> QED
    BY <1>8, <2>1, <2>2, <2>3, Zenon
<1>10. \A n \in N : kept[n] \in Seq(Chars)
  <2> DEFINE strays == {n \in N : kept[n] \notin Seq(Chars)}
  <2>1. ASSUME strays # {}
        PROVE  FALSE
    <3>1. strays \in SUBSET Nat
      BY <1>2
    <3>2. PICK n \in strays : \A m \in strays : n <= m
      BY <2>1, <3>1, LeastNatural
    <3>3. n # 0
      <4>1. <<>> \in Seq(Chars)
        OBVIOUS
      <4>2. kept[0] \in Seq(Chars)
        BY <1>9, <4>1, Zenon
      <4> QED
        BY <3>2, <4>2, Zenon
    <3>4. n \in 1 .. Len(s) /\ n - 1 \in N /\ ~(n <= n - 1)
      BY <1>2, <3>2, <3>3
    <3>5. kept[n - 1] \in Seq(Chars)
      BY <3>2, <3>4
    <3>6. kept[n] \in Seq(Chars)
      <4>1. kept[n] = kept[n - 1] \o FoldChar[s[n]]
        BY <1>9, <3>4, Zenon
      <4>2. FoldChar[s[n]] \in Seq(Chars)
        BY <1>2, <3>4, Zenon
      <4> QED
        BY <3>5, <4>1, <4>2
    <3> QED
      BY <3>2, <3>6
  <2> QED
    BY <2>1
<1>11. kept \in [N -> Seq(Chars)]
  <2> HIDE DEF Next1
  <2> QED
    BY <1>7, <1>10
<1>12. FoldTurns(s, kept)
  BY <1>9, <1>11 DEF FoldTurns
<1> QED
  BY <1>1, <1>12

LEMMA FoldedType ==
    ASSUME NEW s \in Seq(Chars)
    PROVE  Folded(s) \in Seq(Chars)
<1>1. PICK kept : FoldTurns(s, kept) /\ Folded(s) = kept[Len(s)]
  BY FoldedTurns
<1>2. Len(s) \in 0 .. Len(s)
  OBVIOUS
<1> QED
  BY <1>1, <1>2 DEF FoldTurns

LEMMA LongerByPart ==
    ASSUME NEW S, NEW s \in Seq(S), NEW t \in Seq(S)
    PROVE  s \o t \in Seq(S) /\ IsPrefix(s, s \o t)
<1> DEFINE u == s \o t
<1>1. /\ u \in Seq(S) /\ Len(s) \in Nat /\ Len(t) \in Nat /\ Len(u) = Len(s) + Len(t)
      /\ \A i \in 1 .. Len(s) : u[i] = s[i]
  OBVIOUS
<1> HIDE DEF u
<1>2. Len(s) <= Len(u)
  BY <1>1
<1>3. IsPrefix(s, u)
  BY <1>1, <1>2, PrefixIs
<1> QED
  BY <1>1, <1>3 DEF u

LEMMA PrefixOfPrefix ==
    ASSUME NEW S, NEW p \in Seq(S), NEW q \in Seq(S), NEW r \in Seq(S),
           IsPrefix(p, q), IsPrefix(q, r)
    PROVE  IsPrefix(p, r)
<1>1. Len(p) <= Len(q) /\ \A k \in 1 .. Len(p) : p[k] = q[k]
  BY PrefixIs
<1>2. Len(q) <= Len(r) /\ \A k \in 1 .. Len(q) : q[k] = r[k]
  BY PrefixIs
<1>3. Len(p) \in Nat /\ Len(q) \in Nat /\ Len(r) \in Nat
  OBVIOUS
<1>4. Len(p) <= Len(r) /\ \A k \in 1 .. Len(p) : p[k] = r[k]
  BY <1>1, <1>2, <1>3
<1> QED
  BY <1>4, PrefixIs

(* fold only adds to what it has made.                                     *)
LEMMA FoldGrows ==
    ASSUME NEW s \in Seq(Chars), NEW kept, FoldTurns(s, kept), NEW m \in 0 .. Len(s)
    PROVE  \A n \in m .. Len(s) : IsPrefix(kept[m], kept[n])
<1> DEFINE strays == {n \in m .. Len(s) : ~IsPrefix(kept[m], kept[n])}
<1>1. Len(s) \in Nat /\ \A n \in 1 .. Len(s) : FoldChar[s[n]] \in Seq(Chars)
  <2>1. Len(s) \in Nat /\ \A n \in 1 .. Len(s) : s[n] \in Chars
    OBVIOUS
  <2> QED
    BY <2>1, LettersType
<1>2. \A n \in 0 .. Len(s) : kept[n] \in Seq(Chars)
  BY DEF FoldTurns
<1>3. ASSUME strays # {}
      PROVE  FALSE
  <2>1. strays \in SUBSET Nat
    BY <1>1
  <2>2. PICK n \in strays : \A k \in strays : n <= k
    BY <1>3, <2>1, LeastNatural
  <2>3. IsPrefix(kept[m], kept[m])
    BY <1>2, PrefixIs
  <2>4. n # m
    BY <2>2, <2>3
  <2>5. n \in 1 .. Len(s) /\ n - 1 \in m .. Len(s) /\ n - 1 \in 0 .. Len(s) /\ ~(n <= n - 1)
    BY <1>1, <2>2, <2>4
  <2>6. IsPrefix(kept[m], kept[n - 1])
    BY <2>2, <2>5
  <2>7. kept[n] = kept[n - 1] \o FoldChar[s[n]]
    BY <2>5 DEF FoldTurns
  <2>8. IsPrefix(kept[n - 1], kept[n])
    BY <1>1, <1>2, <2>5, <2>7, LongerByPart
  <2>9. kept[m] \in Seq(Chars) /\ kept[n - 1] \in Seq(Chars) /\ kept[n] \in Seq(Chars)
    BY <1>2, <2>5
  <2>10. IsPrefix(kept[m], kept[n])
    BY <2>6, <2>8, <2>9, PrefixOfPrefix
  <2> QED
    BY <2>2, <2>10
<1> QED
  BY <1>3

(* Folding and capitals keep one text the start of another.                *)
LEMMA FoldedPrefix ==
    ASSUME NEW p \in Seq(Chars), NEW q \in Seq(Chars), IsPrefix(p, q)
    PROVE  IsPrefix(Folded(p), Folded(q))
<1>1. Len(p) <= Len(q) /\ \A k \in 1 .. Len(p) : p[k] = q[k]
  BY PrefixIs
<1>2. Len(p) \in Nat /\ Len(q) \in Nat
  OBVIOUS
<1>3. PICK f : FoldTurns(p, f) /\ Folded(p) = f[Len(p)]
  BY FoldedTurns
<1>4. PICK g : FoldTurns(q, g) /\ Folded(q) = g[Len(q)]
  BY FoldedTurns
<1> DEFINE apart == {n \in 0 .. Len(p) : f[n] # g[n]}
<1>5. ASSUME apart # {}
      PROVE  FALSE
  <2>1. apart \in SUBSET Nat
    OBVIOUS
  <2>2. PICK n \in apart : \A k \in apart : n <= k
    BY <1>5, <2>1, LeastNatural
  <2>3. n # 0
    BY <1>3, <1>4, <2>2 DEF FoldTurns
  <2>4. /\ n \in 1 .. Len(p) /\ n \in 1 .. Len(q) /\ n - 1 \in 0 .. Len(p) /\ ~(n <= n - 1)
    BY <1>1, <1>2, <2>2, <2>3
  <2>5. f[n - 1] = g[n - 1] /\ p[n] = q[n]
    BY <1>1, <2>2, <2>4
  <2>6. f[n] = f[n - 1] \o FoldChar[p[n]] /\ g[n] = g[n - 1] \o FoldChar[q[n]]
    BY <1>3, <1>4, <2>4 DEF FoldTurns
  <2>7. f[n] = g[n]
    BY <2>5, <2>6
  <2> QED
    BY <2>2, <2>7
<1>6. f[Len(p)] = g[Len(p)]
  BY <1>2, <1>5
<1>7. Len(p) \in 0 .. Len(q) /\ Len(q) \in Len(p) .. Len(q)
  BY <1>1, <1>2
<1>8. IsPrefix(g[Len(p)], g[Len(q)])
  BY <1>4, <1>7, FoldGrows
<1> QED
  BY <1>3, <1>4, <1>6, <1>8

LEMMA UpperPrefix ==
    ASSUME NEW p \in Seq(Chars), NEW q \in Seq(Chars), IsPrefix(p, q)
    PROVE  IsPrefix(ToUpper(p), ToUpper(q))
<1>1. Len(p) <= Len(q) /\ \A k \in 1 .. Len(p) : p[k] = q[k]
  BY PrefixIs
<1>2. Len(p) \in Nat /\ Len(q) \in Nat
  OBVIOUS
<1>3. \A k \in 1 .. Len(p) : ToUpper(p)[k] = ToUpper(q)[k]
  <2> SUFFICES ASSUME NEW k \in 1 .. Len(p)
               PROVE  ToUpper(p)[k] = ToUpper(q)[k]
    OBVIOUS
  <2>1. p[k] = q[k] /\ k \in 1 .. Len(q)
    BY <1>1, <1>2
  <2> QED
    BY <2>1, UpperType
<1> QED
  BY <1>1, <1>3, UpperType, PrefixIs

(* What begins a text that folds to something, if it does so itself.       *)
LEMMA FoldedNonempty ==
    ASSUME NEW p \in Seq(Chars), NEW q \in Seq(Chars), IsPrefix(p, q), Folded(p) # <<>>
    PROVE  Folded(q) # <<>>
<1> DEFINE f == Folded(p)
           g == Folded(q)
<1>1. f \in Seq(Chars) /\ g \in Seq(Chars) /\ IsPrefix(f, g) /\ f # <<>>
  BY FoldedType, FoldedPrefix
<1> HIDE DEF f, g
<1>2. Len(f) > 0 /\ Len(f) <= Len(g)
  BY <1>1, PrefixIs
<1>3. g # <<>>
  BY <1>1, <1>2
<1> QED
  BY <1>3 DEF g

LEMMA FoldedEmpty == Folded(<<>>) = <<>>
<1> DEFINE empty == <<>>
<1>1. empty \in Seq(Chars) /\ Len(empty) = 0
  OBVIOUS
<1> HIDE DEF empty
<1>2. PICK kept : FoldTurns(empty, kept) /\ Folded(empty) = kept[Len(empty)]
  BY <1>1, FoldedTurns
<1>3. Folded(empty) = <<>>
  BY <1>1, <1>2 DEF FoldTurns
<1> QED
  BY <1>3 DEF empty

(* A code is a text in capitals.                                           *)
LEMMA RowCode ==
    ASSUME NEW a, IsRow(a)
    PROVE  /\ a.iata \in Seq(Capitals) /\ a.iata \in Seq(Chars) /\ a.iata \in Seq(Nat)
           /\ a.iata # <<>> /\ ToUpper(a.iata) = a.iata
<1>1. a.iata \in Seq(Capitals) /\ a.iata # <<>>
  BY DEF IsRow
<1>2. Capitals \subseteq Chars /\ Chars \subseteq Nat
  BY CharsAssumption, CapitalsAssumption
<1>3. a.iata \in Seq(Chars) /\ a.iata \in Seq(Nat)
  BY <1>1, <1>2, WiderSeq
<1> DEFINE code == a.iata
           upper == ToUpper(code)
<1>4. /\ upper \in Seq(Chars) /\ Len(upper) = Len(code)
      /\ \A i \in 1 .. Len(code) : upper[i] = UpperChar[code[i]]
  BY <1>3, UpperType
<1>5. \A i \in 1 .. Len(code) : code[i] \in Capitals
  BY <1>1
<1> HIDE DEF code, upper
<1>6. \A i \in 1 .. Len(code) : upper[i] = code[i]
  BY <1>4, <1>5, CapitalsAssumption
<1>7. upper = code
  BY <1>3, <1>4, <1>6 DEF code
<1> QED
  BY <1>1, <1>3, <1>7 DEF upper, code

(* A row that matches a text matches every start of it.                    *)
LEMMA TierNarrows ==
    ASSUME NEW a, IsRow(a), NEW p \in Seq(Chars), NEW q \in Seq(Chars), IsPrefix(p, q),
           Tier(a, q) # MatchNone
    PROVE  Tier(a, p) # MatchNone
<1>1. a.iata \in Seq(Chars) /\ a.city \in Seq(Chars) /\ a.name \in Seq(Chars)
  BY RowCode DEF IsRow
<1>2. /\ Folded(a.city) \in Seq(Chars) /\ Folded(a.name) \in Seq(Chars)
      /\ Folded(p) \in Seq(Chars) /\ Folded(q) \in Seq(Chars) /\ IsPrefix(Folded(p), Folded(q))
      /\ ToUpper(p) \in Seq(Chars) /\ ToUpper(q) \in Seq(Chars) /\ IsPrefix(ToUpper(p), ToUpper(q))
  BY <1>1, FoldedType, FoldedPrefix, UpperType, UpperPrefix
<1>3. WordPrefix(Folded(a.city), Folded(q)) => WordPrefix(Folded(a.city), Folded(p))
  BY <1>2, WordPrefixNarrows
<1>4. WordPrefix(Folded(a.name), Folded(q)) => WordPrefix(Folded(a.name), Folded(p))
  BY <1>2, WordPrefixNarrows
<1>5. a.iata = ToUpper(q) => IsPrefix(ToUpper(p), a.iata)
  BY <1>2
<1>6. IsPrefix(ToUpper(q), a.iata) => IsPrefix(ToUpper(p), a.iata)
  BY <1>1, <1>2, PrefixOfPrefix
<1> QED
  BY <1>3, <1>4, <1>5, <1>6 DEF Tier, MatchNone

LEMMA HitsNarrow ==
    ASSUME NEW d, IsDataset(d), NEW p \in Seq(Chars), NEW q \in Seq(Chars), IsPrefix(p, q)
    PROVE  Hits(d, q) \subseteq Hits(d, p)
  BY TierNarrows DEF Hits, IsDataset

-----------------------------------------------------------------------------
(* The order of texts *)

LEMMA TextLessIrreflexive ==
    ASSUME NEW s \in Seq(Nat)
    PROVE  ~TextLess(s, s)
  BY DEF TextLess

LEMMA TextLessTransitive ==
    ASSUME NEW s \in Seq(Nat), NEW t \in Seq(Nat), NEW u \in Seq(Nat),
           TextLess(s, t), TextLess(t, u)
    PROVE  TextLess(s, u)
<1>0. /\ Len(s) \in Nat /\ Len(t) \in Nat /\ Len(u) \in Nat
      /\ DOMAIN s = 1 .. Len(s) /\ DOMAIN t = 1 .. Len(t) /\ DOMAIN u = 1 .. Len(u)
  OBVIOUS
<1>1. PICK i \in 1 .. Len(t) :
          /\ i > Len(s) \/ s[i] < t[i]
          /\ \A k \in 1 .. i - 1 : k <= Len(s) /\ s[k] = t[k]
  BY <1>0 DEF TextLess
<1>2. PICK j \in 1 .. Len(u) :
          /\ j > Len(t) \/ t[j] < u[j]
          /\ \A k \in 1 .. j - 1 : k <= Len(t) /\ t[k] = u[k]
  BY <1>0 DEF TextLess
<1>3. CASE i < j
  <2>1. i \in 1 .. Len(u) /\ t[i] = u[i] /\ i \in 1 .. j - 1
    BY <1>0, <1>2, <1>3
  <2>2. i > Len(s) \/ s[i] < u[i]
    BY <1>1, <2>1
  <2>3. \A k \in 1 .. i - 1 : k <= Len(s) /\ s[k] = u[k]
    BY <1>0, <1>1, <1>2, <1>3
  <2> QED
    BY <1>0, <2>1, <2>2, <2>3 DEF TextLess
<1>4. CASE j < i
  <2>1. j <= Len(s) /\ s[j] = t[j] /\ j <= Len(t)
    BY <1>0, <1>1, <1>2, <1>4
  <2>2. s[j] < u[j]
    BY <1>0, <1>2, <2>1
  <2>3. \A k \in 1 .. j - 1 : k <= Len(s) /\ s[k] = u[k]
    BY <1>0, <1>1, <1>2, <1>4
  <2> QED
    BY <1>0, <2>2, <2>3 DEF TextLess
<1>5. CASE i = j
  <2>1. i \in 1 .. Len(u) /\ t[i] < u[i]
    BY <1>0, <1>1, <1>2, <1>5
  <2>2. ASSUME i <= Len(s)
        PROVE  s[i] < u[i]
    <3>1. s[i] < t[i]
      BY <1>0, <1>1, <2>2
    <3>2. i \in DOMAIN s /\ i \in DOMAIN t /\ i \in DOMAIN u
      BY <1>0, <2>1, <2>2
    <3>3. s[i] \in Nat /\ t[i] \in Nat /\ u[i] \in Nat
      BY <3>2
    <3> QED
      BY <2>1, <3>1, <3>3
  <2>3. \A k \in 1 .. i - 1 : k <= Len(s) /\ s[k] = u[k]
    BY <1>0, <1>1, <1>2, <1>5
  <2>4. i > Len(s) \/ i <= Len(s)
    BY <1>0
  <2> QED
    BY <1>0, <2>1, <2>2, <2>3, <2>4 DEF TextLess
<1> QED
  BY <1>0, <1>3, <1>4, <1>5

(* Two texts that differ do so first at some place, which puts one ahead.  *)
LEMMA TextLessTotal ==
    ASSUME NEW s \in Seq(Nat), NEW t \in Seq(Nat)
    PROVE  s = t \/ TextLess(s, t) \/ TextLess(t, s)
<1> SUFFICES ASSUME s # t
             PROVE  TextLess(s, t) \/ TextLess(t, s)
  OBVIOUS
<1>1. /\ Len(s) \in Nat /\ Len(t) \in Nat
      /\ DOMAIN s = 1 .. Len(s) /\ DOMAIN t = 1 .. Len(t)
  OBVIOUS
<1> DEFINE apart ==
        {i \in Nat \ {0} :
            /\ i <= Len(s) \/ i <= Len(t)
            /\ i > Len(s) \/ i > Len(t) \/ s[i] # t[i]}
<1>2. apart # {}
  <2>1. CASE Len(s) = Len(t)
    <3>1. PICK i \in 1 .. Len(s) : s[i] # t[i]
      BY <2>1
    <3>2. i \in apart
      BY <1>1, <3>1
    <3> QED
      BY <3>2
  <2>2. CASE Len(s) < Len(t)
    <3>1. Len(t) \in apart
      BY <1>1, <2>2
    <3> QED
      BY <3>1
  <2>3. CASE Len(t) < Len(s)
    <3>1. Len(s) \in apart
      BY <1>1, <2>3
    <3> QED
      BY <3>1
  <2>4. Len(s) = Len(t) \/ Len(s) < Len(t) \/ Len(t) < Len(s)
    BY <1>1, Trichotomy, Zenon
  <2> HIDE DEF apart
  <2> QED
    BY <2>1, <2>2, <2>3, <2>4
<1>3. PICK i \in apart : \A k \in apart : i <= k
  <2>1. apart \in SUBSET Nat
    OBVIOUS
  <2> HIDE DEF apart
  <2> QED
    BY <1>2, <2>1, LeastNatural
<1>4. ASSUME NEW k \in 1 .. i - 1
      PROVE  k <= Len(s) /\ k <= Len(t) /\ s[k] = t[k]
  <2>1. k \in Nat \ {0} /\ k < i /\ k \notin apart
    BY <1>3
  <2> QED
    BY <1>1, <1>3, <2>1
<1>5. CASE i > Len(s)
  BY <1>1, <1>3, <1>4, <1>5 DEF TextLess
<1>6. CASE i > Len(t)
  BY <1>1, <1>3, <1>4, <1>6 DEF TextLess
<1>7. CASE i <= Len(s) /\ i <= Len(t)
  <2>1. s[i] \in Nat /\ t[i] \in Nat /\ s[i] # t[i] /\ i \in 1 .. Len(s) /\ i \in 1 .. Len(t)
    BY <1>1, <1>3, <1>7
  <2>2. s[i] < t[i] \/ t[i] < s[i]
    BY <2>1
  <2> QED
    BY <1>1, <1>4, <2>1, <2>2 DEF TextLess
<1> QED
  BY <1>1, <1>5, <1>6, <1>7

-----------------------------------------------------------------------------
(* The order of the hits *)

(* Rows that no comparison of Search tells apart.                          *)
Alike(a, b, q) ==
    /\ Tier(a, q) = Tier(b, q) /\ a.scheduled = b.scheduled
    /\ TypeRank(a.type) = TypeRank(b.type) /\ a.city = b.city

LEMMA GradesAreNumbers ==
    ASSUME NEW a, NEW q
    PROVE  Tier(a, q) \in 0 .. 4 /\ TypeRank(a.type) \in 0 .. 2
  BY DEF Tier, TypeRank, MatchNone

LEMMA CitiesAreTexts ==
    ASSUME NEW a, IsRow(a)
    PROVE  a.city \in Seq(Nat)
<1>1. Chars \subseteq Nat
  BY CharsAssumption
<1>2. a.city \in Seq(Chars)
  BY DEF IsRow
<1> QED
  BY <1>1, <1>2, WiderSeq

(* Search sorts by a strict order of classes of rows that are alike.       *)
LEMMA BetterIsOrder ==
    ASSUME NEW q, NEW a, NEW b, NEW c, IsRow(a), IsRow(b), IsRow(c)
    PROVE  /\ Better(a, b, q) \/ Better(b, a, q) \/ Alike(a, b, q)
           /\ Better(a, b, q) => ~Better(b, a, q) /\ ~Alike(a, b, q)
           /\ Better(a, b, q) /\ Better(b, c, q) => Better(a, c, q)
           /\ Better(a, b, q) /\ Alike(b, c, q) => Better(a, c, q)
           /\ Alike(a, b, q) /\ Better(b, c, q) => Better(a, c, q)
           /\ Alike(a, b, q) /\ Alike(b, c, q) => Alike(a, c, q)
           /\ Alike(a, b, q) => Alike(b, a, q)
<1>1. /\ Tier(a, q) \in Nat /\ Tier(b, q) \in Nat /\ Tier(c, q) \in Nat
      /\ TypeRank(a.type) \in Nat /\ TypeRank(b.type) \in Nat /\ TypeRank(c.type) \in Nat
  BY GradesAreNumbers
<1>2. a.scheduled \in BOOLEAN /\ b.scheduled \in BOOLEAN /\ c.scheduled \in BOOLEAN
  BY DEF IsRow
<1>3. /\ a.city = b.city \/ TextLess(a.city, b.city) \/ TextLess(b.city, a.city)
      /\ TextLess(a.city, b.city) => ~TextLess(b.city, a.city) /\ a.city # b.city
      /\ TextLess(a.city, b.city) /\ TextLess(b.city, c.city) => TextLess(a.city, c.city)
  BY CitiesAreTexts, TextLessTotal, TextLessIrreflexive, TextLessTransitive
<1> QED
  BY <1>1, <1>2, <1>3 DEF Better, Alike

(* What goes ahead of a hit, as Places speaks of orders.                   *)
AheadOf(d, q) == [i \in Hits(d, q) |-> Ahead(d, q, i)]

LEMMA AheadIs ==
    ASSUME NEW d, IsDataset(d), NEW q, NEW i \in Hits(d, q)
    PROVE  /\ Ahead(d, q, i) \subseteq Hits(d, q)
           /\ \A j \in Hits(d, q) :
                j \in Ahead(d, q, i) <=>
                    Better(d[j], d[i], q) \/ (j < i /\ Alike(d[j], d[i], q))
<1>1. \A j \in Hits(d, q) : IsRow(d[j])
  BY DEF Hits, IsDataset
<1> QED
  BY <1>1, BetterIsOrder DEF Ahead

LEMMA HitsInOrder ==
    ASSUME NEW d, IsDataset(d), NEW q
    PROVE  /\ IsFiniteSet(Hits(d, q)) /\ Cardinality(Hits(d, q)) <= Len(d)
           /\ IsOrder(Hits(d, q), AheadOf(d, q))
<1> DEFINE H == Hits(d, q)
           ahead == AheadOf(d, q)
<1>1. Len(d) \in Nat /\ DOMAIN d = 1 .. Len(d)
  BY DEF IsDataset
<1>2. H \subseteq 1 .. Len(d) /\ \A j \in H : IsRow(d[j]) /\ j \in Int
  BY <1>1 DEF Hits, IsDataset
<1>3. IsFiniteSet(H) /\ Cardinality(H) <= Len(d)
  <2>1. IsFiniteSet(1 .. Len(d)) /\ Cardinality(1 .. Len(d)) = Len(d)
    BY <1>1, CountTo
  <2> HIDE DEF H
  <2> QED
    BY <1>2, <2>1, FS_Subset
<1>4. /\ ahead \in [H -> SUBSET H]
      /\ \A i, j \in H :
            j \in ahead[i] <=> Better(d[j], d[i], q) \/ (j < i /\ Alike(d[j], d[i], q))
  BY AheadIs DEF AheadOf
<1> HIDE DEF H, ahead
<1>5. ASSUME NEW i \in H
      PROVE  i \notin ahead[i]
  BY <1>2, <1>4, BetterIsOrder
<1>6. ASSUME NEW i \in H, NEW j \in ahead[i], NEW k \in ahead[j]
      PROVE  k \in ahead[i]
  <2>1. j \in H /\ k \in H
    BY <1>4
  <2>2. i \in Int /\ j \in Int /\ k \in Int /\ IsRow(d[i]) /\ IsRow(d[j]) /\ IsRow(d[k])
    BY <1>2, <2>1
  <2>3. Better(d[k], d[j], q) \/ (k < j /\ Alike(d[k], d[j], q))
    BY <1>4, <2>1
  <2>4. Better(d[j], d[i], q) \/ (j < i /\ Alike(d[j], d[i], q))
    BY <1>4, <2>1
  <2>5. Better(d[k], d[i], q) \/ (k < i /\ Alike(d[k], d[i], q))
    BY <2>2, <2>3, <2>4, BetterIsOrder
  <2> QED
    BY <1>4, <2>1, <2>5
<1>7. ASSUME NEW i \in H, NEW j \in H, i # j
      PROVE  i \in ahead[j] \/ j \in ahead[i]
  <2>1. Better(d[i], d[j], q) \/ Better(d[j], d[i], q) \/ (Alike(d[i], d[j], q) /\ Alike(d[j], d[i], q))
    BY <1>2, BetterIsOrder
  <2>2. i < j \/ j < i
    BY <1>2, <1>7
  <2> QED
    BY <1>4, <2>1, <2>2
<1>8. IsOrder(H, ahead)
  BY <1>4, <1>5, <1>6, <1>7 DEF IsOrder
<1> QED
  BY <1>3, <1>8 DEF H, ahead

(* The ranking has every hit in it, at its place.                          *)
LEMMA RankedIs ==
    ASSUME NEW d, IsDataset(d), NEW q
    PROVE  LET n == Cardinality(Hits(d, q))
               ranked == Ranked(d, q)
           IN  /\ n \in 0 .. Len(d) /\ ranked \in Seq(ToSet(d)) /\ Len(ranked) = n
               /\ \A k \in 1 .. n : \E i \in Hits(d, q) :
                    Cardinality(Ahead(d, q, i)) = k - 1 /\ ranked[k] = d[i]
               /\ \A i \in Hits(d, q) : \E k \in 1 .. n : ranked[k] = d[i]
<1> DEFINE H == Hits(d, q)
           n == Cardinality(H)
           place(i) == Cardinality(Ahead(d, q, i))
           at(k) == CHOOSE i \in H : place(i) = k - 1
<1>1. /\ n \in Nat
      /\ \A i \in H : place(i) \in 0 .. n - 1
      /\ \A i, j \in H : place(i) = place(j) => i = j
      /\ \A p \in 0 .. n - 1 : \E i \in H : place(i) = p
  <2> DEFINE ahead == AheadOf(d, q)
  <2>1. IsFiniteSet(H) /\ IsOrder(H, ahead)
    BY HitsInOrder
  <2>2. \A i \in H : ahead[i] = Ahead(d, q, i)
    BY DEF AheadOf
  <2> HIDE DEF H, ahead
  <2>3. /\ n \in Nat
        /\ \A i \in H : Cardinality(ahead[i]) \in 0 .. n - 1
        /\ \A i, j \in H : Cardinality(ahead[i]) = Cardinality(ahead[j]) => i = j
        /\ \A p \in 0 .. n - 1 : \E i \in H : Cardinality(ahead[i]) = p
    BY <2>1, Places
  <2> QED
    BY <2>2, <2>3
<1>2. n <= Len(d)
  BY HitsInOrder
<1>3. H \subseteq DOMAIN d
  BY DEF Hits
<1>4. Ranked(d, q) = [k \in 1 .. n |-> d[at(k)]]
  BY DEF Ranked
<1> HIDE DEF H, n, place
<1>5. ASSUME NEW k \in 1 .. n
      PROVE  at(k) \in H /\ place(at(k)) = k - 1
  <2>1. k - 1 \in 0 .. n - 1
    BY <1>1
  <2> QED
    BY <1>1, <2>1
<1> HIDE DEF at
<1>6. ASSUME NEW i \in H
      PROVE  place(i) + 1 \in 1 .. n /\ at(place(i) + 1) = i
  <2> DEFINE k == place(i) + 1
  <2>1. n \in Nat /\ place(i) \in 0 .. n - 1
    BY <1>1
  <2>2. k \in 1 .. n /\ k - 1 = place(i)
    BY <2>1
  <2> HIDE DEF k
  <2>3. at(k) \in H /\ place(at(k)) = k - 1
    BY <1>5, <2>2
  <2>4. at(k) = i
    BY <1>1, <2>2, <2>3
  <2> QED
    BY <2>2, <2>4 DEF k
<1>7. \A k \in 1 .. n : d[at(k)] \in ToSet(d)
  BY <1>3, <1>5 DEF ToSet
<1> DEFINE ranked == [k \in 1 .. n |-> d[at(k)]]
<1>8. ranked \in Seq(ToSet(d)) /\ Len(ranked) = n
  BY <1>1, <1>7
<1>9. \A k \in 1 .. n : \E i \in H : place(i) = k - 1 /\ ranked[k] = d[i]
  BY <1>5
<1>10. \A i \in H : \E k \in 1 .. n : ranked[k] = d[i]
  BY <1>6
<1>11. Len(d) \in Nat
  BY DEF IsDataset
<1>12. n \in 0 .. Len(d)
  BY <1>1, <1>2, <1>11
<1> HIDE DEF ranked
<1> QED
  BY <1>4, <1>8, <1>9, <1>10, <1>12 DEF H, n, place, ranked

(* A search returns the first of the ranking ...                           *)
LEMMA SearchIs ==
    ASSUME NEW d, IsDataset(d), NEW t, Folded(TrimSpace(t)) # <<>>, NEW limit \in Nat \ {0}
    PROVE  LET n == Cardinality(Hits(d, TrimSpace(t)))
               m == Min({limit, n})
               found == Search(d, t, limit)
           IN  /\ n \in Nat /\ m \in {limit, n} /\ m <= limit /\ m <= n
               /\ found \in Seq(ToSet(d)) /\ Len(found) = m /\ DOMAIN found = 1 .. m
               /\ \A k \in 1 .. m : found[k] = Ranked(d, TrimSpace(t))[k]
<1> DEFINE q == TrimSpace(t)
           n == Cardinality(Hits(d, q))
           m == Min({limit, n})
           ranked == Ranked(d, q)
<1>1. /\ Len(d) \in Nat /\ n \in 0 .. Len(d)
      /\ ranked \in Seq(ToSet(d)) /\ Len(ranked) = n
  BY RankedIs DEF IsDataset
<1>2. Search(d, t, limit) = SubSeq(ranked, 1, m)
  <2>1. ~(limit <= 0)
    OBVIOUS
  <2> QED
    BY <2>1, Zenon DEF Search
<1> HIDE DEF n, ranked
<1>3. n \in Nat /\ m \in {limit, n} /\ m <= limit /\ m <= n
  BY <1>1, LesserOf
<1> HIDE DEF m
<1>4. m \in 0 .. Len(ranked)
  BY <1>1, <1>3
<1>5. /\ SubSeq(ranked, 1, m) \in Seq(ToSet(d)) /\ Len(SubSeq(ranked, 1, m)) = m
      /\ DOMAIN SubSeq(ranked, 1, m) = 1 .. m
      /\ \A k \in 1 .. m : SubSeq(ranked, 1, m)[k] = ranked[k]
  BY <1>1, <1>4, StartIs
<1> QED
  BY <1>2, <1>3, <1>5 DEF n, m, ranked

(* ... and all of it when it is not cut.                                   *)
LEMMA SearchAll ==
    ASSUME NEW d, IsDataset(d), NEW t, Folded(TrimSpace(t)) # <<>>, NEW limit \in Nat \ {0},
           Cardinality(Hits(d, TrimSpace(t))) <= limit
    PROVE  ToSet(Search(d, t, limit)) = {d[i] : i \in Hits(d, TrimSpace(t))}
<1> DEFINE q == TrimSpace(t)
           H == Hits(d, q)
           n == Cardinality(H)
           found == Search(d, t, limit)
           ranked == Ranked(d, q)
<1>1. DOMAIN found = 1 .. n /\ \A k \in 1 .. n : found[k] = ranked[k]
  <2> DEFINE m == Min({limit, n})
  <2>1. /\ n \in Nat /\ m \in {limit, n} /\ m <= limit /\ m <= n
        /\ DOMAIN found = 1 .. m /\ \A k \in 1 .. m : found[k] = ranked[k]
    BY SearchIs, Zenon
  <2>2. n <= limit
    OBVIOUS
  <2> HIDE DEF m, n, found, ranked
  <2>3. m = n
    BY <2>1, <2>2
  <2> QED
    BY <2>1, <2>3
<1>2. \A k \in 1 .. n : \E i \in H : ranked[k] = d[i]
  BY RankedIs
<1>3. \A i \in H : \E k \in 1 .. n : ranked[k] = d[i]
  BY RankedIs
<1> HIDE DEF H, n, found, ranked
<1>4. ASSUME NEW x
      PROVE  x \in ToSet(found) <=> \E i \in H : x = d[i]
  <2>1. x \in ToSet(found) <=> \E k \in 1 .. n : found[k] = x
    BY <1>1 DEF ToSet
  <2> QED
    BY <1>1, <1>2, <1>3, <2>1
<1>5. ToSet(found) = {d[i] : i \in H}
  BY <1>4
<1> QED
  BY <1>5 DEF H, found

-----------------------------------------------------------------------------
(* What AirportSearch promises of every dataset and every query *)

(* A dataset and a text stay what they are.                                *)
Asked == IsDataset(rows) /\ text \in Seq(Chars)

LEMMA AskedStays ==
    /\ QueriesInit => Asked
    /\ Asked /\ [QueriesNext]_asked => Asked'
<1>1. QueriesInit => Asked
  BY DatasetsAssumption, QueriesAssumption DEF QueriesInit, Asked
<1>2. Asked /\ [QueriesNext]_asked => Asked'
  BY DEF QueriesNext, Asked, asked
<1> QED
  BY <1>1, <1>2

(* A text that spells a code is trimmed, and the row of the code is its    *)
(* best match.                                                             *)
LEMMA CodeMatches ==
    ASSUME NEW d, IsDataset(d), NEW t \in Seq(Chars), NEW i \in DOMAIN d, d[i].iata = ToUpper(t)
    PROVE  TrimSpace(t) = t /\ Folded(t) # <<>> /\ i \in Hits(d, t) /\ Tier(d[i], t) = 0
<1>1. d[i].iata \in Seq(Capitals) /\ d[i].iata # <<>>
  BY RowCode DEF IsDataset
<1>2. /\ Len(ToUpper(t)) = Len(t) /\ Len(t) \in Nat /\ DOMAIN t = 1 .. Len(t)
      /\ \A k \in 1 .. Len(t) : ToUpper(t)[k] = UpperChar[t[k]]
  BY UpperType
<1>3. UpperChar[Space] \notin Capitals
  BY CharsAssumption, CapitalsAssumption
<1> DEFINE u == ToUpper(t)
<1>4. Len(u) \in Nat /\ Len(u) > 0 /\ \A k \in 1 .. Len(u) : u[k] \in Capitals
  <2>1. u \in Seq(Capitals) /\ u # <<>>
    BY <1>1
  <2> HIDE DEF u
  <2> QED
    BY <2>1
<1>5. Len(t) > 0 /\ \A k \in 1 .. Len(t) : t[k] # Space
  BY <1>2, <1>3, <1>4
<1>6. TrimSpace(t) = t
  BY <1>2, <1>5, TrimTrimmed
<1>7. Tier(d[i], t) = 0
  BY DEF Tier
<1>8. i \in Hits(d, t)
  BY <1>7 DEF Hits, MatchNone
<1>9. Folded(t) # <<>>
  <2>1. 1 \in 1 .. Len(t) /\ t[1] \in Chars /\ UpperChar[t[1]] \in Capitals
    BY <1>2, <1>4
  <2>2. FoldChar[t[1]] # <<>> /\ FoldChar[t[1]] \in Seq(Chars)
    BY <2>1, LettersType, CapitalsAssumption
  <2>3. PICK kept : FoldTurns(t, kept) /\ Folded(t) = kept[Len(t)]
    BY FoldedTurns
  <2>4. IsPrefix(kept[1], kept[Len(t)])
    <3>1. 1 \in 0 .. Len(t) /\ Len(t) \in 1 .. Len(t)
      BY <1>2, <1>5
    <3> QED
      BY <2>3, <3>1, FoldGrows
  <2>5. kept[1] = FoldChar[t[1]]
    <3>1. kept[1] = kept[1 - 1] \o FoldChar[t[1]] /\ kept[0] = <<>>
      BY <2>1, <2>3 DEF FoldTurns
    <3>2. <<>> \o FoldChar[t[1]] = FoldChar[t[1]]
      BY <2>2
    <3>3. 1 - 1 = 0
      OBVIOUS
    <3> QED
      BY <3>1, <3>2, <3>3, Zenon
  <2>6. kept[1] \in Seq(Chars) /\ kept[Len(t)] \in Seq(Chars)
    BY <1>2, <2>1, <2>3 DEF FoldTurns
  <2>7. Len(kept[1]) > 0 /\ Len(kept[1]) <= Len(kept[Len(t)])
    BY <2>2, <2>4, <2>5, <2>6, PrefixIs
  <2> QED
    BY <2>3, <2>6, <2>7
<1> QED
  BY <1>6, <1>7, <1>8, <1>9

(* The row with nothing ahead of it has the exact code, when a row does.   *)
LEMMA BestHasCode ==
    ASSUME NEW d, IsDataset(d), NEW t, NEW i \in Hits(d, t), Tier(d[i], t) = 0,
           NEW j \in Hits(d, t), Cardinality(Ahead(d, t, j)) = 0
    PROVE  d[j].iata = ToUpper(t)
<1>1. Ahead(d, t, j) = {}
  <2>1. Ahead(d, t, j) \subseteq Hits(d, t)
    BY AheadIs
  <2>2. IsFiniteSet(Hits(d, t))
    BY HitsInOrder
  <2> QED
    BY <2>1, <2>2, FS_Subset, FS_EmptySet
<1>2. ~Better(d[i], d[j], t)
  BY <1>1, AheadIs
<1>3. Tier(d[j], t) \in 0 .. 4
  BY GradesAreNumbers
<1>4. Tier(d[j], t) = 0
  BY <1>2, <1>3 DEF Better
<1> QED
  BY <1>4 DEF Tier, MatchNone

LEMMA CodeComesFirst == Asked => ExactCodeFirst
<1> SUFFICES ASSUME Asked, NEW n \in 1 .. SearchLimit, Exists(rows, text)
             PROVE  LET found == Search(rows, text, n)
                    IN  found # <<>> /\ found[1].iata = ToUpper(text)
  BY DEF ExactCodeFirst
<1> DEFINE found == Search(rows, text, n)
           ranked == Ranked(rows, text)
           hits == Cardinality(Hits(rows, text))
           m == Min({n, hits})
<1>1. IsDataset(rows) /\ text \in Seq(Chars) /\ n \in Nat \ {0}
  BY LimitsAssumption DEF Asked
<1>2. PICK i \in DOMAIN rows : rows[i].iata = ToUpper(text)
  BY Zenon DEF Exists, Codes
<1>3. /\ TrimSpace(text) = text /\ Folded(TrimSpace(text)) # <<>>
      /\ i \in Hits(rows, text) /\ Tier(rows[i], text) = 0
  BY <1>1, <1>2, CodeMatches
<1>4. /\ hits \in Nat /\ m \in {n, hits} /\ m <= n /\ m <= hits /\ DOMAIN found = 1 .. m
      /\ \A k \in 1 .. m : found[k] = ranked[k]
  <2> DEFINE trimmed == Cardinality(Hits(rows, TrimSpace(text)))
             top == Min({n, trimmed})
  <2>1. /\ trimmed \in Nat /\ top \in {n, trimmed} /\ top <= n /\ top <= trimmed /\ DOMAIN found = 1 .. top
        /\ \A k \in 1 .. top : found[k] = Ranked(rows, TrimSpace(text))[k]
    <3>1. Folded(TrimSpace(text)) # <<>>
      BY <1>3
    <3> QED
      BY <1>1, <3>1, SearchIs, Zenon
  <2>2. trimmed = hits /\ Ranked(rows, TrimSpace(text)) = ranked
    BY <1>3
  <2>3. top = m
    <3> HIDE DEF hits, trimmed
    <3> QED
      BY <2>2, Zenon
  <2> HIDE DEF hits, trimmed, m, top, ranked
  <2> QED
    BY <2>1, <2>2, <2>3
<1>5. /\ \A k \in 1 .. hits : \E j \in Hits(rows, text) :
            Cardinality(Ahead(rows, text, j)) = k - 1 /\ ranked[k] = rows[j]
      /\ \E k \in 1 .. hits : ranked[k] = rows[i]
  BY <1>1, <1>3, RankedIs
<1> HIDE DEF hits, m, ranked, found
<1>6. 1 \in 1 .. hits /\ 1 \in 1 .. m /\ 1 - 1 = 0
  BY <1>1, <1>4, <1>5
<1>7. PICK j \in Hits(rows, text) :
            Cardinality(Ahead(rows, text, j)) = 0 /\ ranked[1] = rows[j]
  BY <1>5, <1>6
<1>8. rows[j].iata = ToUpper(text)
  BY <1>1, <1>3, <1>7, BestHasCode
<1>9. found # <<>> /\ found[1] = rows[j]
  BY <1>4, <1>6, <1>7
<1> QED
  BY <1>8, <1>9 DEF found

(* An airport that exists is found by its code, and first, whatever other  *)
(* airports there are and however short the list is (Search, Exists).      *)
THEOREM ExactCodesFirst == QueriesSpec => []ExactCodeFirst
  BY AskedStays, CodeComesFirst, PTL DEF QueriesSpec

(* All that an uncut search finds.                                         *)
LEMMA FoundAre ==
    ASSUME NEW d, IsDataset(d), NEW t, Folded(TrimSpace(t)) # <<>>
    PROVE  ToSet(Search(d, t, Len(d))) = {d[i] : i \in Hits(d, TrimSpace(t))}
<1>1. Len(d) \in Nat /\ DOMAIN d = 1 .. Len(d)
  BY DEF IsDataset
<1>2. CASE Len(d) = 0
  <2>1. Search(d, t, Len(d)) = <<>>
    BY <1>2 DEF Search
  <2>2. Hits(d, TrimSpace(t)) = {}
    BY <1>1, <1>2 DEF Hits
  <2> QED
    BY <2>1, <2>2 DEF ToSet
<1>3. CASE Len(d) # 0
  <2>1. Cardinality(Hits(d, TrimSpace(t))) <= Len(d)
    BY HitsInOrder
  <2> QED
    BY <1>1, <1>3, <2>1, SearchAll
<1> QED
  BY <1>2, <1>3

LEMMA SearchNarrows == Asked => LongerQueryNarrows
<1> SUFFICES ASSUME Asked, NEW n \in 1 .. Len(text),
                    Folded(TrimSpace(SubSeq(text, 1, n))) # <<>>
             PROVE  ToSet(Search(rows, text, Len(rows)))
                        \subseteq ToSet(Search(rows, SubSeq(text, 1, n), Len(rows)))
  BY Zenon DEF LongerQueryNarrows
<1> DEFINE shorter == SubSeq(text, 1, n)
           p == TrimSpace(shorter)
           q == TrimSpace(text)
<1>1. IsDataset(rows) /\ text \in Seq(Chars) /\ Len(text) \in Nat
  BY DEF Asked
<1>2. /\ shorter \in Seq(Chars) /\ Len(shorter) = n
      /\ \A i \in 1 .. n : shorter[i] = text[i]
  BY <1>1, StartIs
<1> HIDE DEF shorter
<1>3. IsPrefix(shorter, text)
  BY <1>1, <1>2, PrefixIs
<1>4. p \in Seq(Chars) /\ q \in Seq(Chars) /\ IsPrefix(p, q)
  BY <1>1, <1>2, <1>3, TrimType, TrimPrefix
<1>5. Folded(p) # <<>>
  BY DEF shorter
<1>6. Folded(q) # <<>>
  BY <1>4, <1>5, FoldedNonempty
<1>7. Hits(rows, q) \subseteq Hits(rows, p)
  BY <1>1, <1>4, HitsNarrow
<1>8. /\ ToSet(Search(rows, text, Len(rows))) = {rows[i] : i \in Hits(rows, q)}
      /\ ToSet(Search(rows, shorter, Len(rows))) = {rows[i] : i \in Hits(rows, p)}
  BY <1>1, <1>5, <1>6, FoundAre
<1> QED
  BY <1>7, <1>8 DEF shorter

(* One more letter never brings in an airport that the shorter query does  *)
(* not match: a row that matches a text matches what the text begins with. *)
THEOREM LongerQueriesNarrow == QueriesSpec => []LongerQueryNarrows
  BY AskedStays, SearchNarrows, PTL DEF QueriesSpec

(* The row kept for a code is a row of the file, and has that code.        *)
LEMMA KeptRow ==
    ASSUME NEW d, IsDataset(d), NEW code \in Codes(d)
    PROVE  ByIATA(d, code).iata = code /\ \E i \in DOMAIN d : ByIATA(d, code) = d[i]
<1> DEFINE places == {i \in DOMAIN d : d[i].iata = code}
<1>1. Len(d) \in Nat /\ DOMAIN d = 1 .. Len(d)
  BY DEF IsDataset
<1>2. places \in SUBSET (0 .. Len(d)) /\ places # {}
  BY <1>1 DEF Codes
<1> HIDE DEF places
<1>3. Max(places) \in places
  BY <1>1, <1>2, GreatestIs
<1>4. ByIATA(d, code) = d[Max(places)]
  BY DEF ByIATA, places
<1> QED
  BY <1>3, <1>4 DEF places

(* The rows that are offered for browsing.                                 *)
Hubs(d) ==
    {a \in {ByIATA(d, code) : code \in Codes(d)} : a.type = "large_airport" /\ a.scheduled}
HubsBefore(d) == [a \in Hubs(d) |-> {b \in Hubs(d) : PopularBefore(b, a)}]

LEMMA HubIs ==
    ASSUME NEW d, IsDataset(d), NEW a \in Hubs(d)
    PROVE  /\ a.city \in Seq(Nat) /\ a.iata \in Seq(Nat) /\ a \in ToSet(d)
           /\ a.iata \in Codes(d) /\ ToUpper(a.iata) = a.iata /\ a = ByIATA(d, a.iata)
<1>1. PICK code \in Codes(d) : a = ByIATA(d, code)
  BY DEF Hubs
<1>2. a.iata = code /\ \E i \in DOMAIN d : a = d[i]
  BY <1>1, KeptRow
<1>3. IsRow(a) /\ a \in ToSet(d)
  BY <1>2 DEF IsDataset, ToSet
<1>4. a.city \in Seq(Nat)
  BY <1>3, CitiesAreTexts
<1>5. a.iata \in Seq(Nat)
  BY <1>3, RowCode
<1>6. a.iata \in Codes(d) /\ a = ByIATA(d, a.iata)
  BY <1>1, <1>2
<1>7. ToUpper(a.iata) = a.iata
  BY <1>3, RowCode
<1> QED
  BY <1>3, <1>4, <1>5, <1>6, <1>7

(* New sorts the hubs by a strict order: two of one city differ in code.   *)
LEMMA HubsInOrder ==
    ASSUME NEW d, IsDataset(d)
    PROVE  IsFiniteSet(Hubs(d)) /\ IsOrder(Hubs(d), HubsBefore(d))
<1> DEFINE H == Hubs(d)
           ahead == HubsBefore(d)
<1>1. IsFiniteSet(H)
  <2> DEFINE D == 1 .. Len(d)
             T == ToSet(d)
  <2>1. Len(d) \in Nat /\ d \in [D -> T] /\ \A a \in T : \E i \in D : d[i] = a
    BY DEF IsDataset, ToSet
  <2>2. IsFiniteSet(D)
    BY <2>1, CountTo
  <2>3. H \subseteq T
    BY HubIs
  <2> HIDE DEF D, T, H
  <2>4. d \in Surjection(D, T)
    BY <2>1 DEF Surjection
  <2>5. IsFiniteSet(T)
    BY <2>2, <2>4, FS_Surjection
  <2> QED
    BY <2>3, <2>5, FS_Subset
<1>2. /\ ahead \in [H -> SUBSET H]
      /\ \A a, b \in H : b \in ahead[a] <=> PopularBefore(b, a)
  BY DEF HubsBefore
<1>3. \A a \in H : a.city \in Seq(Nat) /\ a.iata \in Seq(Nat) /\ a = ByIATA(d, a.iata)
  BY HubIs
<1> HIDE DEF H, ahead
<1>4. ASSUME NEW a \in H
      PROVE  ~PopularBefore(a, a)
  BY <1>3, TextLessIrreflexive DEF PopularBefore
<1>5. ASSUME NEW a \in H, NEW b \in H, NEW c \in H, PopularBefore(c, b), PopularBefore(b, a)
      PROVE  PopularBefore(c, a)
  BY <1>3, <1>5, TextLessTransitive DEF PopularBefore
<1>6. ASSUME NEW a \in H, NEW b \in H
      PROVE  a = b \/ PopularBefore(a, b) \/ PopularBefore(b, a)
  <2>1. a.city = b.city \/ TextLess(a.city, b.city) \/ TextLess(b.city, a.city)
    BY <1>3, TextLessTotal
  <2>2. a.iata = b.iata \/ TextLess(a.iata, b.iata) \/ TextLess(b.iata, a.iata)
    BY <1>3, TextLessTotal
  <2>3. a.iata = b.iata => a = b
    BY <1>3
  <2> QED
    BY <2>1, <2>2, <2>3 DEF PopularBefore
<1>7. IsOrder(H, ahead)
  BY <1>2, <1>4, <1>5, <1>6 DEF IsOrder
<1> QED
  BY <1>1, <1>7 DEF H, ahead

LEMMA PopularListed ==
    ASSUME NEW d, IsDataset(d)
    PROVE  PopularLists(d) = Listings(Hubs(d), HubsBefore(d))
<1> DEFINE H == Hubs(d)
           ahead == HubsBefore(d)
<1>1. \A a, b \in H : b \in ahead[a] <=> PopularBefore(b, a)
  BY DEF HubsBefore
<1>2. PopularLists(d) =
        {p \in SetToSeqs(H) : \A i, j \in DOMAIN p : PopularBefore(p[i], p[j]) => i < j}
  BY DEF PopularLists, Hubs
<1>3. \A p \in SetToSeqs(H) : \A i \in DOMAIN p : p[i] \in H
  BY DEF SetToSeqs
<1> HIDE DEF H, ahead
<1>4. \A p \in SetToSeqs(H) :
        (\A i, j \in DOMAIN p : PopularBefore(p[i], p[j]) => i < j)
            <=> (\A i, j \in DOMAIN p : p[i] \in ahead[p[j]] => i < j)
  BY <1>1, <1>3
<1>5. PopularLists(d) = Listings(H, ahead)
  BY <1>2, <1>4 DEF Listings
<1> QED
  BY <1>5 DEF H, ahead

LEMMA PopularSorted == Asked => PopularIsDetermined
<1> SUFFICES ASSUME IsDataset(rows)
             PROVE  PopularIsDetermined
  BY DEF Asked
<1>1. Cardinality(PopularLists(rows)) = 1
  <2>1. PICK q : PopularLists(rows) = {q}
    <3>1. IsFiniteSet(Hubs(rows)) /\ IsOrder(Hubs(rows), HubsBefore(rows))
      BY HubsInOrder
    <3>2. \E q : Listings(Hubs(rows), HubsBefore(rows)) = {q}
      BY <3>1, OneListing, Zenon
    <3> QED
      BY <3>2, PopularListed, Zenon
  <2> QED
    BY <2>1, FS_Singleton
<1>2. ASSUME NEW p \in PopularLists(rows),
             NEW i \in DOMAIN HandleSearchAirports(rows, p, <<>>)
      PROVE  Exists(rows, HandleSearchAirports(rows, p, <<>>)[i].iata)
  <2> DEFINE H == Hubs(rows)
             n == Cardinality(H)
             browse == HandleSearchAirports(rows, p, <<>>)
             m == Min({BrowseLimit, Len(p)})
  <2>1. n \in Nat /\ p \in [1 .. n -> H]
    BY HubsInOrder, PopularListed, ListingIs, FS_CardinalityType
  <2>2. browse = SubSeq(p, 1, m)
    <3>1. TrimSpace(<<>>) = <<>>
      <4>1. \A s \in Seq(Chars) : s = <<>> => TrimSpace(s) = s
        BY TrimTrimmed
      <4>2. <<>> \in Seq(Chars)
        OBVIOUS
      <4> QED
        BY <4>1, <4>2, Zenon
    <3>2. ~(BrowseLimit <= 0)
      BY LimitsAssumption
    <3> QED
      BY <3>1, <3>2, Zenon DEF HandleSearchAirports, Popular
  <2> HIDE DEF H, n
  <2>3. p \in Seq(H) /\ Len(p) = n
    BY <2>1
  <2>4. m \in 0 .. Len(p)
    <3>1. BrowseLimit \in Nat /\ Len(p) \in Nat
      BY <2>1, <2>3, LimitsAssumption
    <3>2. m \in {BrowseLimit, Len(p)} /\ m <= Len(p)
      BY <3>1, LesserOf
    <3> HIDE DEF m
    <3> QED
      BY <3>1, <3>2
  <2> HIDE DEF m
  <2>5. browse \in Seq(H)
    BY <2>2, <2>3, <2>4, StartIs
  <2>6. browse[i] \in H
    <3> HIDE DEF browse
    <3> QED
      BY <2>5 DEF browse
  <2>7. browse[i].iata \in Codes(rows) /\ ToUpper(browse[i].iata) = browse[i].iata
    BY <2>6, HubIs DEF H
  <2> QED
    BY <2>7 DEF Exists
<1> QED
  BY <1>1, <1>2 DEF PopularIsDetermined

(* Whatever order the map is walked in and however the sort permutes: one  *)
(* list, and all of it can be saved (New, Popular, Exists).                *)
THEOREM PopularDetermined == QueriesSpec => []PopularIsDetermined
  BY AskedStays, PopularSorted, PTL DEF QueriesSpec

-----------------------------------------------------------------------------
(* The picker: what may be chosen *)

(* The chosen airports, as the facts about sequences speak of them. *)
LEMMA ChosenOnce ==
    ASSUME TypeOK
    PROVE  /\ selected \in Seq(Codes(all) \ exclude) /\ Distinct(selected)
           /\ Len(selected) \in Nat /\ DOMAIN selected = 1 .. Len(selected)
BY DEF TypeOK, Distinct

(* Picking adds an airport that was not chosen. *)
LEMMA PickTyped ==
    ASSUME TypeOK, NEW code \in Codes(all), Pick(code)
    PROVE  TypeOK'
<1>1. showList /\ code \in Suggestions
  BY DEF Pick
<1>2. Len(selected) < max
  BY <1>1, ChosenOnce, PickerAssumption DEF showList, atCapacity
<1>3. code \notin ToSet(selected) /\ code \notin exclude
  BY <1>1 DEF Suggestions
<1>4. \A i \in DOMAIN selected : selected[i] # code
  BY <1>3 DEF ToSet
<1>5. /\ Distinct(selected') /\ selected' \in Seq(Codes(all) \ exclude)
      /\ Len(selected') = Len(selected) + 1
  BY <1>3, <1>4, ChosenOnce, AppendedDistinct DEF Pick
<1>6. Len(selected') <= max
  BY <1>2, <1>5, ChosenOnce, PickerAssumption
<1>7. \A i, j \in DOMAIN selected' : selected'[i] = selected'[j] => i = j
  BY <1>5 DEF Distinct
<1> QED
  BY <1>5, <1>6, <1>7, PickerAssumption DEF TypeOK, Pick

(* Removing a chip leaves the others. *)
LEMMA UnpickTyped ==
    ASSUME TypeOK, NEW i \in DOMAIN selected, Unpick(i)
    PROVE  TypeOK'
<1>1. selected' \in Seq(Codes(all) \ exclude) /\ Len(selected') = Len(selected) - 1
  BY ChosenOnce, RemovedAt DEF Unpick
<1>2. Distinct(selected')
  BY ChosenOnce, RemovedDistinct DEF Unpick
<1>3. Len(selected') <= max
  BY <1>1, ChosenOnce, PickerAssumption DEF TypeOK
<1>4. \A j, k \in DOMAIN selected' : selected'[j] = selected'[k] => j = k
  BY <1>2 DEF Distinct
<1> QED
  BY <1>1, <1>3, <1>4 DEF TypeOK, Unpick

(* Fetching a text changes the state of its query only. *)
LEMMA FetchTyped ==
    ASSUME TypeOK, NEW t \in Texts, NEW on \in BOOLEAN
    PROVE  Fetching(on, t) \in [Texts -> {"none", "loading", "loaded", "failed"}]
BY DEF TypeOK, Fetching

LEMMA TypeStep ==
    ASSUME TypeOK, [Next]_vars
    PROVE  TypeOK'
<1>1. CASE UNCHANGED vars
  BY <1>1 DEF TypeOK, vars
<1>2. CASE Focus
  <2>1. fetches' \in [Texts -> {"none", "loading", "loaded", "failed"}]
    BY <1>2, FetchTyped DEF Focus, TypeOK
  <2>2. hasty' \in BOOLEAN
    BY <1>2 DEF Focus
  <2>3. UNCHANGED <<query, debounced, blurs, selected>> /\ inside' /\ focused'
    BY <1>2 DEF Focus
  <2> QED
    BY <1>2, <2>1, <2>2, <2>3, Zenon DEF Focus, TypeOK
<1>3. CASE Blur
  <2>1. blurs' \in 0 .. MaxBlurs
    BY <1>3, PickerAssumption DEF Blur, TypeOK
  <2> QED
    BY <1>3, <2>1, Zenon DEF Blur, TypeOK
<1>4. ASSUME NEW t \in Texts, Type(t)
      PROVE  TypeOK'
  BY <1>4 DEF Type, TypeOK
<1>5. ASSUME NEW code \in Codes(all), Pick(code)
      PROVE  TypeOK'
  BY <1>5, PickTyped
<1>6. ASSUME NEW i \in DOMAIN selected, Unpick(i)
      PROVE  TypeOK'
  BY <1>6, UnpickTyped
<1>7. CASE Debounce
  <2>1. debounced' \in Texts
    BY <1>7, PickerAssumption DEF Debounce, TypeOK
  <2>2. fetches' \in [Texts -> {"none", "loading", "loaded", "failed"}]
    BY <1>7, <2>1, FetchTyped DEF Debounce, TypeOK
  <2> QED
    BY <1>7, <2>1, <2>2 DEF Debounce, TypeOK
<1>8. CASE BlurTimer
  <2>1. blurs' \in 0 .. MaxBlurs
    BY <1>8, PickerAssumption DEF BlurTimer, TypeOK
  <2> QED
    BY <1>8, <2>1, Zenon DEF BlurTimer, TypeOK
<1>9. CASE Refetch
  <2>1. fetches' \in [Texts -> {"none", "loading", "loaded", "failed"}]
    BY <1>9, FetchTyped DEF Refetch, TypeOK
  <2> QED
    BY <1>9, <2>1 DEF Refetch, TypeOK
<1>10. ASSUME NEW t \in Texts, FetchEnds(t)
       PROVE  TypeOK'
  BY <1>10 DEF FetchEnds, TypeOK
<1> QED
  BY <1>1, <1>2, <1>3, <1>4, <1>5, <1>6, <1>7, <1>8, <1>9, <1>10 DEF Next, UserActs

LEMMA InitTyped == Init => TypeOK
<1> SUFFICES ASSUME Init
             PROVE  TypeOK
  OBVIOUS
<1>1. blurs \in 0 .. MaxBlurs
  BY PickerAssumption DEF Init
<1>2. /\ selected \in Seq(Codes(all) \ exclude) /\ Len(selected) <= max
      /\ DOMAIN selected = {}
  BY PickerAssumption DEF Init
<1>3. query \in Texts /\ debounced \in Texts
  BY PickerAssumption DEF Init
<1>4. fetches \in [Texts -> {"none", "loading", "loaded", "failed"}]
  BY DEF Init
<1> QED
  BY <1>1, <1>2, <1>3, <1>4, Zenon DEF Init, TypeOK

(* Whatever list was on the screen when an airport was picked: the chosen  *)
(* ones exist, may be offered, and are chosen once and within the limit.   *)
THEOREM PickerTypes == Spec => []TypeOK
<1>1. Init => TypeOK
  BY InitTyped
<1>2. TypeOK /\ [Next]_vars => TypeOK'
  BY TypeStep
<1> QED
  BY <1>1, <1>2, PTL DEF Spec

-----------------------------------------------------------------------------
(* The list and the focus *)

(* What makes FocusShowsList inductive: a full picker has no field that    *)
(* could have the focus, and a field that did not get it hastily has no    *)
(* blur timer running that could hide the list.                            *)
FocusedWell ==
    /\ inside => ~atCapacity
    /\ inside /\ ~hasty => focused /\ blurs = 0

LEMMA FocusStep ==
    ASSUME TypeOK, FocusedWell, [Next]_vars
    PROVE  FocusedWell'
<1>1. CASE UNCHANGED vars
  BY <1>1 DEF FocusedWell, atCapacity, vars
<1>2. CASE Focus
  <2>1. ~hasty' => blurs' = 0
    <3>1. hasty' = (blurs > 0) /\ blurs' = blurs
      BY <1>2 DEF Focus
    <3>2. ~(blurs > 0) => blurs = 0
      BY PickerAssumption DEF TypeOK
    <3> QED
      BY <3>1, <3>2, Zenon
  <2>2. focused' /\ ~atCapacity'
    BY <1>2 DEF Focus, atCapacity
  <2> QED
    BY <2>1, <2>2 DEF FocusedWell
<1>3. CASE Blur
  BY <1>3 DEF FocusedWell, Blur
<1>4. ASSUME NEW t \in Texts, Type(t)
      PROVE  FocusedWell'
  BY <1>4 DEF FocusedWell, atCapacity, Type
<1>5. ASSUME NEW code \in Codes(all), Pick(code)
      PROVE  FocusedWell'
  <2>1. Len(selected') = Len(selected) + 1
    BY <1>5, ChosenOnce DEF Pick
  <2>2. inside' => Len(selected) + 1 < max
    BY <1>5, Zenon DEF Pick
  <2>3. inside' => ~atCapacity'
    BY <2>1, <2>2, ChosenOnce, PickerAssumption DEF atCapacity
  <2>4. inside' => inside
    BY <1>5, Zenon DEF Pick
  <2> QED
    BY <1>5, <2>3, <2>4, Zenon DEF FocusedWell, Pick
<1>6. ASSUME NEW i \in DOMAIN selected, Unpick(i)
      PROVE  FocusedWell'
  <2>1. Len(selected') = Len(selected) - 1
    BY <1>6, ChosenOnce, RemovedAt DEF Unpick
  <2> QED
    BY <1>6, <2>1, ChosenOnce, PickerAssumption DEF FocusedWell, atCapacity, Unpick
<1>7. CASE Debounce
  BY <1>7 DEF FocusedWell, atCapacity, Debounce
<1>8. CASE BlurTimer
  BY <1>8 DEF FocusedWell, atCapacity, BlurTimer, TypeOK
<1>9. CASE Refetch
  BY <1>9 DEF FocusedWell, atCapacity, Refetch
<1>10. ASSUME NEW t \in Texts, FetchEnds(t)
       PROVE  FocusedWell'
  BY <1>10 DEF FocusedWell, atCapacity, FetchEnds
<1> QED
  BY <1>1, <1>2, <1>3, <1>4, <1>5, <1>6, <1>7, <1>8, <1>9, <1>10 DEF Next, UserActs

(* The list is there whenever the field has the focus, but for a field     *)
(* that got it back while a blur timer was running.                        *)
THEOREM FocusedListsShow == Spec => []FocusShowsList
<1>1. Init => TypeOK /\ FocusedWell
  BY InitTyped DEF Init, FocusedWell
<1>2. TypeOK /\ FocusedWell /\ [Next]_vars => (TypeOK /\ FocusedWell)'
  BY TypeStep, FocusStep
<1>3. TypeOK /\ FocusedWell => FocusShowsList
  BY DEF FocusedWell, FocusShowsList, showList
<1> QED
  BY <1>1, <1>2, <1>3, PTL DEF Spec
-----------------------------------------------------------------------------
(* What the list says *)

(* A text that folds to something is not empty: the answer is a search.    *)
LEMMA AnswersSearch ==
    ASSUME NEW q \in Texts, TrimSpace(q) = q, Folded(q) # <<>>
    PROVE  Answers[q] = Codes(Search(all, q, SearchLimit))
<1>1. q # <<>>
  BY FoldedEmpty
<1> QED
  BY <1>1, Zenon DEF Answers, HandleSearchAirports

(* A list that was not cut holds the code of every row that matches.       *)
LEMMA AnswersHoldHits ==
    ASSUME NEW q \in Texts, TrimSpace(q) = q, Folded(q) # <<>>,
           ~(Cardinality(Hits(all, q)) > SearchLimit), NEW i \in Hits(all, q)
    PROVE  all[i].iata \in Answers[q]
<1> DEFINE found == Search(all, q, SearchLimit)
           n == Cardinality(Hits(all, q))
<1>1. IsDataset(all)
  BY PickerAssumption
<1>2. SearchLimit \in Nat \ {0}
  BY LimitsAssumption
<1>3. Len(all) \in Nat /\ n \in 0 .. Len(all)
  BY <1>1, RankedIs DEF IsDataset
<1>4. n <= SearchLimit
  <2>1. ~(n > SearchLimit)
    OBVIOUS
  <2> HIDE DEF n
  <2> QED
    BY <1>2, <1>3, <2>1
<1>5. ToSet(found) = {all[j] : j \in Hits(all, q)}
  BY <1>1, <1>2, <1>4, SearchAll
<1>6. all[i] \in ToSet(found)
  BY <1>5
<1>7. Answers[q] = Codes(found)
  BY AnswersSearch
<1> HIDE DEF found
<1>8. PICK k \in DOMAIN found : found[k] = all[i]
  BY <1>6 DEF ToSet
<1> QED
  BY <1>7, <1>8 DEF Codes

(* A list that was cut holds as many codes as there is room for: no row is *)
(* in it twice, and no two rows have one code.                             *)
LEMMA AnswersWhenCut ==
    ASSUME NEW q \in Texts, TrimSpace(q) = q, Folded(q) # <<>>,
           Cardinality(Hits(all, q)) > SearchLimit,
           NEW T, IsFiniteSet(T), Answers[q] \subseteq T
    PROVE  SearchLimit <= Cardinality(T)
<1> DEFINE found == Search(all, q, SearchLimit)
           H == Hits(all, TrimSpace(q))
           n == Cardinality(H)
           m == Min({SearchLimit, n})
           ranked == Ranked(all, TrimSpace(q))
           place(i) == Cardinality(Ahead(all, TrimSpace(q), i))
<1>1. IsDataset(all) /\ SearchLimit \in Nat \ {0}
  BY PickerAssumption, LimitsAssumption
<1>2. /\ DOMAIN found = 1 .. SearchLimit /\ SearchLimit <= n
      /\ \A k \in 1 .. SearchLimit : found[k] = ranked[k]
  <2>1. /\ n \in Nat /\ m \in {SearchLimit, n} /\ m <= SearchLimit /\ m <= n
        /\ DOMAIN found = 1 .. m /\ \A k \in 1 .. m : found[k] = ranked[k]
    <3>1. Folded(TrimSpace(q)) # <<>>
      BY Zenon
    <3> QED
      BY <1>1, <3>1, SearchIs, Zenon
  <2>2. n > SearchLimit
    OBVIOUS
  <2> HIDE DEF m, n, found, ranked
  <2>3. m = SearchLimit
    BY <1>1, <2>1, <2>2
  <2> QED
    BY <1>1, <2>1, <2>3, <2>2
<1>3. \A k \in 1 .. n : \E i \in H : place(i) = k - 1 /\ ranked[k] = all[i]
  BY <1>1, RankedIs
<1>4. n \in Nat
  BY <1>1, RankedIs DEF IsDataset
<1>5. H \subseteq DOMAIN all
  BY DEF Hits
<1>6. \A i, j \in H : all[i].iata = all[j].iata => i = j
  BY <1>5, PickerAssumption
<1>7. \A k \in DOMAIN found : found[k].iata \in T
  BY AnswersSearch DEF Codes
<1> HIDE DEF found, H, n, m, ranked, place
<1>8. ASSUME NEW k \in 1 .. SearchLimit
      PROVE  \E i \in H : place(i) = k - 1 /\ found[k] = all[i]
  <2>1. k \in 1 .. n
    BY <1>1, <1>2, <1>4
  <2>2. found[k] = ranked[k]
    BY <1>2
  <2> QED
    BY <1>3, <2>1, <2>2, Zenon
<1>9. ASSUME NEW k \in 1 .. SearchLimit, NEW l \in 1 .. SearchLimit,
             found[k].iata = found[l].iata
      PROVE  k = l
  <2>1. PICK i \in H : place(i) = k - 1 /\ found[k] = all[i]
    BY <1>8
  <2>2. PICK j \in H : place(j) = l - 1 /\ found[l] = all[j]
    BY <1>8
  <2>3. i = j
    BY <1>6, <1>9, <2>1, <2>2
  <2> QED
    BY <2>1, <2>2, <2>3
<1> DEFINE f == [k \in 1 .. SearchLimit |-> found[k].iata]
<1>10. f \in Injection(1 .. SearchLimit, T)
  <2>1. f \in [1 .. SearchLimit -> T]
    BY <1>2, <1>7
  <2>2. \A k, l \in 1 .. SearchLimit : f[k] = f[l] => k = l
    BY <1>9
  <2> HIDE DEF f
  <2> QED
    BY <2>1, <2>2 DEF Injection, IsInjective
<1>11. Cardinality(1 .. SearchLimit) <= Cardinality(T)
  <2> HIDE DEF f
  <2> QED
    BY <1>10, FS_Injection
<1>12. Cardinality(1 .. SearchLimit) = SearchLimit
  <2>1. 1 \in Int /\ SearchLimit \in Int /\ ~(1 > SearchLimit) /\ SearchLimit - 1 + 1 = SearchLimit
    BY <1>1
  <2> QED
    BY <2>1, FS_Interval
<1> QED
  BY <1>11, <1>12

(* What is chosen or excluded is no more than was chosen and excluded.     *)
LEMMA TakenIs ==
    ASSUME TypeOK
    PROVE  /\ IsFiniteSet(ToSet(selected) \cup exclude)
           /\ Cardinality(ToSet(selected) \cup exclude) <= Len(selected) + Cardinality(exclude)
<1> DEFINE chosen == ToSet(selected)
<1>1. Len(selected) \in Nat /\ DOMAIN selected = 1 .. Len(selected)
  BY DEF TypeOK
<1>2. selected \in Surjection(1 .. Len(selected), chosen)
  <2>1. selected \in [1 .. Len(selected) -> chosen]
    BY <1>1 DEF TypeOK, ToSet
  <2>2. \A c \in chosen : \E k \in 1 .. Len(selected) : selected[k] = c
    BY <1>1 DEF ToSet
  <2> HIDE DEF chosen
  <2> QED
    BY <2>1, <2>2 DEF Surjection
<1>3. IsFiniteSet(1 .. Len(selected)) /\ Cardinality(1 .. Len(selected)) = Len(selected)
  <2>1. /\ 1 \in Int /\ Len(selected) \in Int
        /\ (IF 1 > Len(selected) THEN 0 ELSE Len(selected) - 1 + 1) = Len(selected)
    BY <1>1
  <2> QED
    BY <2>1, FS_Interval, Zenon
<1> HIDE DEF chosen
<1>4. IsFiniteSet(chosen) /\ Cardinality(chosen) <= Len(selected)
  BY <1>2, <1>3, FS_Surjection
<1>5. IsFiniteSet(exclude)
  BY PickerAssumption
<1> DEFINE taken == chosen \cup exclude
           both == chosen \cap exclude
<1>6. /\ IsFiniteSet(taken)
      /\ Cardinality(taken) = Cardinality(chosen) + Cardinality(exclude) - Cardinality(both)
  BY <1>4, <1>5, FS_Union
<1>7. Cardinality(both) \in Nat /\ Cardinality(chosen) \in Nat /\ Cardinality(exclude) \in Nat
  BY <1>4, <1>5, FS_Intersection, FS_CardinalityType
<1>8. Cardinality(taken) <= Len(selected) + Cardinality(exclude)
  <2> HIDE DEF taken, both
  <2> QED
    BY <1>1, <1>4, <1>6, <1>7
<1> QED
  BY <1>6, <1>8 DEF chosen

(* What is fetched for is trimmed.                                         *)
DebouncedTrimmed == TrimSpace(debounced) = debounced

LEMMA DebouncedStep ==
    ASSUME TypeOK, DebouncedTrimmed, [Next]_vars
    PROVE  DebouncedTrimmed'
<1>1. ASSUME UNCHANGED debounced
      PROVE  DebouncedTrimmed'
  BY <1>1 DEF DebouncedTrimmed
<1>2. CASE Debounce
  <2>1. query \in Seq(Chars)
    BY PickerAssumption DEF TypeOK
  <2>2. debounced' = TrimSpace(query)
    BY <1>2 DEF Debounce
  <2> QED
    BY <2>1, <2>2, TrimAgain DEF DebouncedTrimmed
<1>3. CASE ~Debounce
  BY <1>1, <1>3 DEF Next, UserActs, vars, Focus, Blur, Type, Pick, Unpick, BlurTimer, Refetch, FetchEnds
<1> QED
  BY <1>2, <1>3

LEMMA SaysTheTruth == TypeOK /\ DebouncedTrimmed => NoMatchesIsTrue
<1> SUFFICES ASSUME TypeOK, DebouncedTrimmed, noMatches, fetches[debounced] = "loaded",
                    IsPrefix(debounced, TrimSpace(query)), Folded(debounced) # <<>>,
                    ~(/\ Cardinality(Hits(all, debounced)) > SearchLimit
                      /\ Len(selected) + Cardinality(exclude) >= SearchLimit),
                    NEW i \in Hits(all, TrimSpace(query))
             PROVE  all[i].iata \in ToSet(selected) \cup exclude
  BY DEF NoMatchesIsTrue
<1> DEFINE taken == ToSet(selected) \cup exclude
<1>1. /\ debounced \in Texts /\ debounced \in Seq(Chars)
      /\ query \in Seq(Chars) /\ TrimSpace(query) \in Seq(Chars)
  BY PickerAssumption, TrimType DEF TypeOK
<1>2. i \in Hits(all, debounced)
  BY <1>1, PickerAssumption, HitsNarrow
<1>3. Answers[debounced] \ taken = {}
  BY DEF noMatches, Suggestions
<1>4. ~(Cardinality(Hits(all, debounced)) > SearchLimit)
  <2> SUFFICES ASSUME Cardinality(Hits(all, debounced)) > SearchLimit
               PROVE  FALSE
    OBVIOUS
  <2>1. /\ IsFiniteSet(taken)
        /\ Cardinality(taken) <= Len(selected) + Cardinality(exclude)
    BY TakenIs
  <2>2. Answers[debounced] \subseteq taken
    BY <1>3
  <2>3. SearchLimit <= Cardinality(taken)
    <3> HIDE DEF taken
    <3> QED
      BY <1>1, <2>1, <2>2, AnswersWhenCut DEF DebouncedTrimmed
  <2>4. ~(Len(selected) + Cardinality(exclude) >= SearchLimit)
    OBVIOUS
  <2>5. /\ SearchLimit \in Nat /\ Len(selected) \in Nat
        /\ Cardinality(exclude) \in Nat /\ Cardinality(taken) \in Nat
    <3> HIDE DEF taken
    <3> QED
      BY <2>1, LimitsAssumption, PickerAssumption, FS_CardinalityType DEF TypeOK
  <2> HIDE DEF taken
  <2> QED
    BY <2>1, <2>3, <2>4, <2>5
<1>5. all[i].iata \in Answers[debounced]
  BY <1>1, <1>2, <1>4, AnswersHoldHits DEF DebouncedTrimmed
<1> QED
  BY <1>3, <1>5

(* The picker says "No airport matches" of the text in the field only when *)
(* it is so: its prefixes match more rows, what was fetched for one of     *)
(* them and not cut has them all, and what was cut has more codes than can *)
(* be chosen or excluded.  The listed exceptions are the code's.           *)
THEOREM NoMatchesTold == Spec => []NoMatchesIsTrue
<1>1. Init => TypeOK /\ DebouncedTrimmed
  <2>1. Init => debounced = <<>> /\ debounced \in Seq(Chars)
    BY DEF Init
  <2>2. \A s \in Seq(Chars) : s = <<>> => TrimSpace(s) = s
    BY TrimTrimmed
  <2> QED
    BY <2>1, <2>2, InitTyped, Zenon DEF DebouncedTrimmed
<1>2. TypeOK /\ DebouncedTrimmed /\ [Next]_vars => TypeOK' /\ DebouncedTrimmed'
  BY TypeStep, DebouncedStep
<1>3. TypeOK /\ DebouncedTrimmed => NoMatchesIsTrue
  BY SaysTheTruth
<1> QED
  BY <1>1, <1>2, <1>3, PTL DEF Spec
=============================================================================
