---------------------------- MODULE OriginsProofs ----------------------------
(***************************************************************************)
(* Proofs about Origins, for any settings, any patterns in them and any    *)
(* origins: the list of patterns is the list of entries, and the predicate *)
(* agrees with the reference matcher.                                      *)
(***************************************************************************)
EXTENDS Origins, FiniteSetTheorems, WellFoundedInduction, TLAPS

LOCAL INSTANCE SequenceTheorems

(***************************************************************************)
(* Places in a text.                                                       *)
(***************************************************************************)
\* A set of positions that is not empty has a least element, and Min is it: the
\* sets 0..i are finite, so one of them has no other inside.
LEMMA MinFacts ==
  ASSUME NEW S \in SUBSET Nat, S # {}
  PROVE  Min(S) \in S /\ \A i \in S : Min(S) <= i
<1> DEFINE T == {0..i : i \in S}
<1>1. T \subseteq FiniteSubsetsOf(Nat) /\ T # {}
  <2>1. ASSUME NEW i \in S PROVE 0..i \in SUBSET Nat /\ IsFiniteSet(0..i)
    <3>1. i \in Int /\ 0..i \subseteq Nat
      OBVIOUS
    <3> QED
      BY <3>1, FS_Interval
  <2> QED
    BY <2>1 DEF FiniteSubsetsOf
<1>2. PICK t \in T : \A u \in T : ~(<<u, t>> \in StrictSubsetOrdering(Nat))
  <2> HIDE DEF T
  <2> QED
    BY <1>1, WFMin, FS_StrictSubsetOrderingWellFounded
<1>3. PICK x \in S : t = 0..x
  OBVIOUS
<1>4. ASSUME NEW y \in S, y < x PROVE FALSE
  <2>1. 0..y \in T /\ 0..x \in T
    OBVIOUS
  <2>2. 0..y \subseteq 0..x /\ 0..y \in SUBSET Nat /\ 0..x \in SUBSET Nat
    BY <1>4
  <2>3. x \in 0..x /\ x \notin 0..y
    BY <1>4
  <2>4. 0..y # 0..x
    BY <2>3
  <2>5. <<0..y, 0..x>> \in StrictSubsetOrdering(Nat)
    BY <2>2, <2>4 DEF StrictSubsetOrdering
  <2> QED
    BY <1>2, <1>3, <2>1, <2>5
<1>5. \A y \in S : x =< y
  BY <1>4
<1> QED
  BY <1>5 DEF Min

\* What holds at 0 and, from each place up to m, at the one after it, holds
\* everywhere up to m.
LEMMA Upwards ==
  ASSUME NEW T, NEW m \in Nat, 0 \in T, \A n \in 0..(m - 1) : n \in T => n + 1 \in T
  PROVE  \A n \in 0..m : n \in T
<1> DEFINE S == {n \in 0..m : n \notin T}
<1>1. CASE S = {}
  BY <1>1
<1>2. CASE S # {}
  <2>1. S \in SUBSET Nat
    OBVIOUS
  <2>2. Min(S) \in S /\ \A i \in S : Min(S) <= i
    BY <1>2, <2>1, MinFacts
  <2>3. PICK x \in S : \A i \in S : x <= i
    BY <2>2
  <2>4. x \in 1..m
    OBVIOUS
  <2>5. x - 1 \in T
    BY <2>3, <2>4
  <2>6. x - 1 \in 0..(m - 1) /\ (x - 1) + 1 = x
    BY <2>4
  <2> QED
    BY <2>5, <2>6
<1> QED
  BY <1>1, <1>2

\* So has a set of positions up to some place a greatest one, and Max is it.
LEMMA MaxFacts ==
  ASSUME NEW m \in Nat, NEW S \in SUBSET (0..m), S # {}
  PROVE  Max(S) \in S /\ \A i \in S : i <= Max(S)
<1> DEFINE T == {m - i : i \in S}
<1>1. T \in SUBSET Nat /\ T # {}
  <2>1. ASSUME NEW i \in S PROVE m - i \in Nat
    OBVIOUS
  <2> QED
    BY <2>1
<1>2. Min(T) \in T /\ \A i \in T : Min(T) <= i
  BY <1>1, MinFacts
<1>3. PICK x \in S : Min(T) = m - x
  BY <1>2
<1>4. ASSUME NEW y \in S PROVE y <= x
  <2>1. m - y \in T /\ m - x <= m - y
    BY <1>2, <1>3
  <2> QED
    BY <2>1
<1>5. \A y \in S : x >= y
  BY <1>4
<1> QED
  BY <1>5 DEF Max

\* Lengths and positions in parts of a text.
LEMMA Counting ==
  ASSUME NEW m \in Nat
  PROVE  /\ m # 0 => (IF 1 <= m - 1 THEN m - 1 - 1 + 1 ELSE 0) = m - 1
         /\ m >= 2 => (IF 3 <= m THEN m - 3 + 1 ELSE 0) = m - 2
         /\ \A n \in Nat : n + 1 = m => \A x \in 1..n : x \in 1..m /\ x # m /\ 0 + x = x
OBVIOUS

(***************************************************************************)
(* Prefixes and suffixes, letter by letter.                                *)
(***************************************************************************)
\* The front of a text is a prefix if every letter of it is the text's.
LEMMA PrefixFacts ==
  ASSUME NEW S, NEW s \in Seq(S), NEW t \in Seq(S)
  PROVE  IsPrefix(s, t) <=> Len(s) <= Len(t) /\ \A i \in 1..Len(s) : s[i] = t[i]
<1>1. Len(s) \in Nat /\ Len(t) \in Nat
  OBVIOUS
<1>2. SubSeq(s, 1, Len(s)) = s
  BY SubSeqFull
<1>3. ASSUME Len(s) <= Len(t)
      PROVE  /\ SubSeq(t, 1, Len(s)) \in Seq(S) /\ Len(SubSeq(t, 1, Len(s))) = Len(s)
             /\ \A i \in 1..Len(s) : SubSeq(t, 1, Len(s))[i] = t[i]
  BY <1>1, <1>3
<1>4. ASSUME Len(s) <= Len(t), \A i \in 1..Len(s) : s[i] = t[i]
      PROVE  s = SubSeq(t, 1, Len(s))
  BY <1>1, <1>3, <1>4, SeqEqual
<1> QED
  BY <1>2, <1>3, <1>4 DEF IsPrefix

\* The same from the end.
LEMMA SuffixFacts ==
  ASSUME NEW S, NEW s \in Seq(S), NEW t \in Seq(S)
  PROVE  IsSuffix(s, t) <=> /\ Len(s) <= Len(t)
                            /\ \A i \in 1..Len(s) : s[i] = t[Len(t) - Len(s) + i]
<1> DEFINE u == Reverse(s)
           v == Reverse(t)
<1>1. Len(s) \in Nat /\ Len(t) \in Nat
  OBVIOUS
<1>2. u \in Seq(S) /\ Len(u) = Len(s) /\ \A i \in 1..Len(s) : u[i] = s[(Len(s) - i) + 1]
  <2>1. u \in [1..Len(s) -> S]
    BY DEF Reverse
  <2> QED
    BY <1>1, <2>1 DEF Reverse
<1>3. v \in Seq(S) /\ Len(v) = Len(t) /\ \A i \in 1..Len(t) : v[i] = t[(Len(t) - i) + 1]
  <2>1. v \in [1..Len(t) -> S]
    BY DEF Reverse
  <2> QED
    BY <1>1, <2>1 DEF Reverse
<1>4. IsSuffix(s, t) <=> Len(s) <= Len(t) /\ \A i \in 1..Len(s) : u[i] = v[i]
  <2> HIDE DEF u, v
  <2>1. IsPrefix(u, v) <=> Len(u) <= Len(v) /\ \A i \in 1..Len(u) : u[i] = v[i]
    BY <1>2, <1>3, PrefixFacts
  <2> QED
    BY <1>2, <1>3, <2>1 DEF IsSuffix, u, v
<1> HIDE DEF u, v
<1>5. ASSUME Len(s) <= Len(t), \A i \in 1..Len(s) : u[i] = v[i], NEW i \in 1..Len(s)
      PROVE  s[i] = t[Len(t) - Len(s) + i]
  <2> DEFINE j == (Len(s) - i) + 1
  <2>1. j \in 1..Len(s) /\ j \in 1..Len(t) /\ (Len(s) - j) + 1 = i
        /\ (Len(t) - j) + 1 = Len(t) - Len(s) + i
    BY <1>1, <1>5
  <2> QED
    BY <1>2, <1>3, <1>5, <2>1
<1>6. ASSUME Len(s) <= Len(t), \A i \in 1..Len(s) : s[i] = t[Len(t) - Len(s) + i],
             NEW i \in 1..Len(s)
      PROVE  u[i] = v[i]
  <2> DEFINE j == (Len(s) - i) + 1
  <2>1. j \in 1..Len(s) /\ i \in 1..Len(t) /\ Len(t) - Len(s) + j = (Len(t) - i) + 1
    BY <1>1, <1>6
  <2> QED
    BY <1>2, <1>3, <1>6, <2>1
<1> QED
  BY <1>4, <1>5, <1>6

(***************************************************************************)
(* The reference matcher.                                                  *)
(***************************************************************************)
\* ends[i] is how far into the text the first i letters of the pattern reach.
Reaches(pattern, text, ends) ==
  /\ ends[0] = {0}
  /\ \A i \in 1..Len(pattern) : ends[i] = Reach(pattern[i], ends[i - 1], text)

\* Glob is the last step of going through a pattern.
LEMMA GlobFacts ==
  ASSUME NEW S, NEW p \in Seq(S), NEW t \in Seq(S)
  PROVE  \E ends : Reaches(p, t, ends) /\ (Glob(p, t) <=> Len(t) \in ends[Len(p)])
<1> DEFINE N == Len(p)
           To(n, e) == /\ e = [i \in 0..n |-> e[i]] /\ e[0] = {0}
                       /\ \A i \in 1..n : e[i] = Reach(p[i], e[i - 1], t)
           T == {n \in 0..N : \E e : To(n, e)}
           Equation(e) == e = [i \in 0..N |-> IF i = 0 THEN {0} ELSE Reach(p[i], e[i - 1], t)]
<1>1. N \in Nat
  OBVIOUS
<1>2. 0 \in T
  <2> DEFINE e == [i \in 0..0 |-> {0}]
  <2>1. To(0, e)
    OBVIOUS
  <2> HIDE DEF To, e
  <2> QED
    BY <2>1, <1>1
<1>3. ASSUME NEW n \in 0..(N - 1), n \in T PROVE n + 1 \in T
  <2>1. PICK e : To(n, e)
    BY <1>3
  <2> DEFINE f == [i \in 0..(n + 1) |-> IF i <= n THEN e[i] ELSE Reach(p[n + 1], e[n], t)]
  <2>2. f = [i \in 0..(n + 1) |-> f[i]] /\ f[0] = {0}
    BY <2>1
  <2>3. ASSUME NEW i \in 1..(n + 1) PROVE f[i] = Reach(p[i], f[i - 1], t)
    <3>1. CASE i <= n
      BY <3>1, <2>1
    <3>2. CASE i = n + 1
      BY <3>2
    <3> QED
      BY <3>1, <3>2
  <2>4. To(n + 1, f)
    BY <2>2, <2>3
  <2> HIDE DEF To, f
  <2> QED
    BY <2>4, <1>1
<1>4. N \in T
  <2> HIDE DEF T
  <2>1. \A n \in 0..N : n \in T
    BY <1>1, <1>2, <1>3, Upwards
  <2> QED
    BY <1>1, <2>1
<1>5. PICK e : To(N, e)
  BY <1>4
<1>6. Equation(e)
  <2>1. ASSUME NEW i \in 0..N PROVE e[i] = IF i = 0 THEN {0} ELSE Reach(p[i], e[i - 1], t)
    <3>1. i # 0 => i \in 1..N
      BY <1>1
    <3> QED
      BY <3>1, <1>5
  <2> QED
    BY <1>5, <2>1
<1> DEFINE ends == CHOOSE f : Equation(f)
<1>7. Equation(ends)
  BY <1>6
<1>8. Glob(p, t) <=> Len(t) \in ends[N]
  BY DEF Glob
<1> HIDE DEF ends
<1>9. Reaches(p, t, ends)
  <2>1. \A i \in 0..N : ends[i] = IF i = 0 THEN {0} ELSE Reach(p[i], ends[i - 1], t)
    BY <1>7
  <2>2. 0 \in 0..N /\ \A i \in 1..N : i \in 0..N /\ i # 0
    BY <1>1
  <2> QED
    BY <2>1, <2>2 DEF Reaches
<1> QED
  BY <1>8, <1>9

\* k letters of one text, after i, are those of another after j.
Stands(p, i, t, j, k) == \A x \in 1..k : p[i + x] = t[j + x]
NoStars(p, i, k) == \A x \in 1..k : p[i + x] # Star

\* Letters that stand in the text are reached, a star that stands there among them.
LEMMA LettersReach ==
  ASSUME NEW S, NEW p \in Seq(S), NEW t \in Seq(S), NEW ends, Reaches(p, t, ends),
         NEW i \in Nat, NEW j \in Nat, NEW k \in Nat, i + k <= Len(p), j + k <= Len(t),
         j \in ends[i], Stands(p, i, t, j, k)
  PROVE  j + k \in ends[i + k]
<1> DEFINE T == {x \in 0..k : j + x \in ends[i + x]}
<1>1. 0 \in T
  OBVIOUS
<1>2. ASSUME NEW x \in 0..(k - 1), x \in T PROVE x + 1 \in T
  <2>1. /\ i + (x + 1) \in 1..Len(p) /\ (i + (x + 1)) - 1 = i + x
        /\ j + (x + 1) \in 1..Len(t) /\ (j + (x + 1)) - 1 = j + x
        /\ x + 1 \in 1..k /\ x + 1 \in 0..k /\ j + (x + 1) \in 0..Len(t) /\ j + x <= j + (x + 1)
    OBVIOUS
  <2>2. ends[i + (x + 1)] = Reach(p[i + (x + 1)], ends[i + x], t)
    BY <2>1 DEF Reaches
  <2>3. j + x \in ends[i + x] /\ p[i + (x + 1)] = t[j + (x + 1)]
    BY <1>2, <2>1 DEF Stands
  <2>4. j + (x + 1) \in Reach(p[i + (x + 1)], ends[i + x], t)
    BY <2>1, <2>3 DEF Reach
  <2> QED
    BY <2>1, <2>2, <2>4
<1>3. k \in T
  <2> HIDE DEF T
  <2>1. \A n \in 0..k : n \in T
    BY <1>1, <1>2, Upwards
  <2> QED
    BY <2>1
<1> QED
  BY <1>3

\* Where letters that are no stars have reached, they stand.
LEMMA ReachedLetters ==
  ASSUME NEW S, NEW p \in Seq(S), NEW t \in Seq(S), NEW ends, Reaches(p, t, ends),
         NEW i \in Nat, NEW j \in Nat, NEW k \in Nat, i + k <= Len(p),
         j \in ends[i + k], NoStars(p, i, k)
  PROVE  j >= k /\ j - k \in ends[i] /\ Stands(p, i, t, j - k, k)
<1> DEFINE T == {x \in 0..k : /\ x <= j /\ j - x \in ends[(i + k) - x]
                              /\ \A y \in (k - x + 1)..k : p[i + y] = t[(j - k) + y]}
<1>1. 0 \in T
  OBVIOUS
<1>2. ASSUME NEW x \in 0..(k - 1), x \in T PROVE x + 1 \in T
  <2>1. (i + k) - x \in 1..Len(p) /\ ((i + k) - x) - 1 = (i + k) - (x + 1)
        /\ (i + k) - x = i + (k - x) /\ k - x \in 1..k
    OBVIOUS
  <2>2. ends[(i + k) - x] = Reach(p[(i + k) - x], ends[(i + k) - (x + 1)], t)
    BY <2>1 DEF Reaches
  <2>3. p[(i + k) - x] # Star
    BY <2>1 DEF NoStars
  <2>4. j - x \in 1..Len(t) /\ t[j - x] = p[(i + k) - x] /\ (j - x) - 1 \in ends[(i + k) - (x + 1)]
    BY <1>2, <2>2, <2>3 DEF Reach
  <2>5. x + 1 <= j /\ (j - x) - 1 = j - (x + 1) /\ (j - k) + (k - x) = j - x
    BY <2>4
  <2>6. ASSUME NEW y \in (k - (x + 1) + 1)..k PROVE p[i + y] = t[(j - k) + y]
    <3>1. CASE y = k - x
      BY <3>1, <2>1, <2>4, <2>5
    <3>2. CASE y # k - x
      <4>1. y \in (k - x + 1)..k
        BY <3>2
      <4> QED
        BY <4>1, <1>2
    <3> QED
      BY <3>1, <3>2
  <2> QED
    BY <2>4, <2>5, <2>6
<1>3. k \in T
  <2> HIDE DEF T
  <2>1. \A n \in 0..k : n \in T
    BY <1>1, <1>2, Upwards
  <2> QED
    BY <2>1
<1>4. k <= j /\ j - k \in ends[(i + k) - k] /\ (i + k) - k = i /\ k - k + 1 = 1
  BY <1>3
<1>5. \A y \in (k - k + 1)..k : p[i + y] = t[(j - k) + y]
  BY <1>3
<1> QED
  BY <1>4, <1>5 DEF Stands

(***************************************************************************)
(* The predicate.                                                          *)
(***************************************************************************)
StarDot == <<Star, Dot>>

\* Which patterns take the branch for *.suffix.
LEMMA StarDotFacts ==
  ASSUME NEW S, {Star, Dot} \subseteq S, NEW p \in Seq(S)
  PROVE  IsPrefix(StarDot, p) <=> Len(p) >= 2 /\ p[1] = Star /\ p[2] = Dot
<1>1. StarDot \in Seq(S) /\ Len(StarDot) = 2 /\ StarDot[1] = Star /\ StarDot[2] = Dot
  BY DEF StarDot
<1>2. IsPrefix(StarDot, p) <=> /\ Len(StarDot) <= Len(p)
                               /\ \A i \in 1..Len(StarDot) : StarDot[i] = p[i]
  BY <1>1, PrefixFacts
<1>3. Len(p) \in Nat /\ \A i \in 1..2 : i = 1 \/ i = 2
  OBVIOUS
<1> QED
  BY <1>1, <1>2, <1>3

\* The branch for *.suffix looks at the end of the text, or is for the apex.
LEMMA SuffixBranch ==
  ASSUME NEW S, {Star, Dot} \subseteq S, NEW p \in Seq(S), NEW t \in Seq(S), IsPrefix(StarDot, p)
  PROVE  /\ SuffixMatches(p, t) =>
              \/ /\ Len(p) - 1 <= Len(t)
                 /\ \A i \in 1..(Len(p) - 1) : p[i + 1] = t[(Len(t) - (Len(p) - 1)) + i]
              \/ Apex(p, t)
         /\ /\ Len(p) - 1 <= Len(t)
            /\ \A i \in 1..(Len(p) - 1) : p[i + 1] = t[(Len(t) - (Len(p) - 1)) + i]
            => SuffixMatches(p, t)
<1> DEFINE s == SubSeq(p, 3, Len(p))
           d == <<Dot>> \o s
<1>1. Len(p) \in Nat /\ Len(t) \in Nat /\ Len(p) >= 2 /\ p[1] = Star /\ p[2] = Dot
  BY StarDotFacts
<1>2. /\ s \in Seq(S) /\ Len(s) = Len(p) - 2
      /\ \A i \in 1..(Len(p) - 2) : s[i] = p[i + 2]
  <2>1. 3 \in Int /\ Len(p) \in Int /\ \A i \in 3..Len(p) : p[i] \in S
    BY <1>1
  <2>2. /\ s \in Seq(S) /\ Len(s) = IF 3 <= Len(p) THEN Len(p) - 3 + 1 ELSE 0
        /\ \A i \in 1..(Len(p) - 3 + 1) : s[i] = p[3 + i - 1]
    BY <2>1, SubSeqProperties
  <2> HIDE DEF s
  <2>3. Len(s) = Len(p) - 2
    <3>1. Len(s) = IF 3 <= Len(p) THEN Len(p) - 3 + 1 ELSE 0
      BY <2>2
    <3> QED
      BY <1>1, <3>1, Counting
  <2>4. ASSUME NEW i \in 1..(Len(p) - 2) PROVE s[i] = p[i + 2]
    <3>1. i \in 1..(Len(p) - 3 + 1) /\ 3 + i - 1 = i + 2
      BY <1>1
    <3> QED
      BY <2>2, <3>1
  <2> QED
    BY <2>2, <2>3, <2>4
<1>3. <<Dot>> \in Seq(S) /\ Len(<<Dot>>) = 1 /\ <<Dot>>[1] = Dot
  OBVIOUS
<1>4. StarDot \in Seq(S) /\ Len(StarDot) = 2 /\ StarDot[1] = Star /\ StarDot[2] = Dot
  BY DEF StarDot
<1> HIDE DEF s
<1>5. d \in Seq(S) /\ Len(d) = Len(p) - 1 /\ \A i \in 1..(Len(p) - 1) : d[i] = p[i + 1]
  <2>1. d \in Seq(S) /\ Len(d) = 1 + Len(s)
    BY <1>2, <1>3, ConcatProperties
  <2>2. \A i \in 1..(1 + Len(s)) : d[i] = IF i <= 1 THEN Dot ELSE s[i - 1]
    BY <1>2, <1>3, ConcatProperties
  <2>3. ASSUME NEW i \in 1..(Len(p) - 1) PROVE d[i] = p[i + 1]
    <3>1. CASE i = 1
      BY <3>1, <2>2, <1>1, <1>2
    <3>2. CASE i # 1
      <4>1. i - 1 \in 1..(Len(p) - 2) /\ (i - 1) + 2 = i + 1 /\ i \in 1..(1 + Len(s)) /\ ~(i <= 1)
        BY <3>2, <1>1, <1>2
      <4> QED
        BY <4>1, <2>2, <1>2
    <3> QED
      BY <3>1, <3>2
  <2> QED
    BY <2>1, <2>3, <1>1, <1>2
<1> HIDE DEF d
<1>6. IsSuffix(d, t) <=> /\ Len(p) - 1 <= Len(t)
                         /\ \A i \in 1..(Len(p) - 1) : p[i + 1] = t[(Len(t) - (Len(p) - 1)) + i]
  <2>1. IsSuffix(d, t) <=> /\ Len(d) <= Len(t)
                           /\ \A i \in 1..Len(d) : d[i] = t[Len(t) - Len(d) + i]
    BY <1>5, SuffixFacts
  <2> QED
    BY <2>1, <1>5
<1>7. p = StarDot \o s
  <2> DEFINE q == StarDot \o s
  <2>0. /\ q \in Seq(S) /\ Len(q) = Len(StarDot) + Len(s)
        /\ \A i \in 1..(Len(StarDot) + Len(s)) :
             q[i] = IF i <= Len(StarDot) THEN StarDot[i] ELSE s[i - Len(StarDot)]
    <3>1. StarDot \in Seq(S) /\ s \in Seq(S)
      BY <1>2, <1>4
    <3> QED
      BY <3>1, ConcatProperties
  <2> HIDE DEF q
  <2>1. q \in Seq(S) /\ Len(q) = 2 + Len(s)
    BY <2>0, <1>4
  <2>2. \A i \in 1..(2 + Len(s)) : q[i] = IF i <= 2 THEN StarDot[i] ELSE s[i - 2]
    BY <2>0, <1>4
  <2>3. ASSUME NEW i \in 1..Len(p) PROVE p[i] = q[i]
    <3>1. CASE i <= 2
      <4>1. i = 1 \/ i = 2
        BY <3>1
      <4> QED
        BY <4>1, <3>1, <2>2, <1>1, <1>2, <1>4
    <3>2. CASE i > 2
      <4>1. i - 2 \in 1..(Len(p) - 2) /\ (i - 2) + 2 = i /\ i \in 1..(2 + Len(s)) /\ ~(i <= 2)
        BY <3>2, <1>1, <1>2
      <4> QED
        BY <4>1, <2>2, <1>2
    <3> QED
      BY <3>1, <3>2, <1>1
  <2> QED
    <3>1. Len(p) = Len(q)
      BY <2>1, <1>1, <1>2
    <3>2. p = q
      BY <2>1, <2>3, <3>1, SeqEqual
    <3> QED
      BY <3>2 DEF q
<1>8. SuffixMatches(p, t) <=> IsSuffix(d, t) \/ t = s
  BY DEF SuffixMatches, d, s
<1>9. t = s => Apex(p, t)
  BY <1>7 DEF Apex, StarDot
<1> QED
  BY <1>6, <1>8, <1>9

\* The branch for prefix* looks at the front of the text.
LEMMA PrefixBranch ==
  ASSUME NEW S, NEW p \in Seq(S), NEW t \in Seq(S), Len(p) > 0
  PROVE  IsPrefix(Front(p), t) <=> /\ Len(p) - 1 <= Len(t)
                                   /\ \A i \in 1..(Len(p) - 1) : p[i] = t[i]
<1> DEFINE f == SubSeq(p, 1, Len(p) - 1)
<1>1. Len(p) \in Nat \ {0}
  OBVIOUS
<1>2. f \in Seq(S) /\ Len(f) = Len(p) - 1 /\ \A i \in 1..(Len(p) - 1) : f[i] = p[i]
  <2>1. 1 \in Int /\ Len(p) - 1 \in Int /\ \A i \in 1..(Len(p) - 1) : p[i] \in S
    BY <1>1
  <2>2. /\ f \in Seq(S) /\ Len(f) = IF 1 <= Len(p) - 1 THEN Len(p) - 1 - 1 + 1 ELSE 0
        /\ \A i \in 1..(Len(p) - 1 - 1 + 1) : f[i] = p[1 + i - 1]
    BY <2>1, SubSeqProperties
  <2> HIDE DEF f
  <2>3. Len(f) = Len(p) - 1
    <3>1. Len(f) = IF 1 <= Len(p) - 1 THEN Len(p) - 1 - 1 + 1 ELSE 0
      BY <2>2
    <3> QED
      BY <1>1, <3>1, Counting
  <2>4. ASSUME NEW i \in 1..(Len(p) - 1) PROVE f[i] = p[i]
    <3>1. i \in 1..(Len(p) - 1 - 1 + 1) /\ 1 + i - 1 = i
      BY <1>1
    <3> QED
      BY <2>2, <3>1
  <2> QED
    BY <2>2, <2>3, <2>4
<1> HIDE DEF f
<1>3. IsPrefix(f, t) <=> Len(f) <= Len(t) /\ \A i \in 1..Len(f) : f[i] = t[i]
  BY <1>2, PrefixFacts
<1> QED
  BY <1>2, <1>3 DEF Front, f

\* What the predicate lets in, the reference covers.
LEMMA MatchedIsCovered ==
  ASSUME NEW S, {Star, Dot} \subseteq S, NEW p \in Seq(S), NEW t \in Seq(S), Len(p) > 0,
         Matches(p, t)
  PROVE  Glob(p, t) \/ Apex(p, t)
<1>1. Len(p) \in Nat \ {0} /\ Len(t) \in Nat
  OBVIOUS
<1>2. PICK ends : Reaches(p, t, ends) /\ (Glob(p, t) <=> Len(t) \in ends[Len(p)])
  BY GlobFacts
<1>3. 0 \in ends[0]
  BY <1>2 DEF Reaches
<1>4. CASE ~Contains(p, Star)
  <2>1. t = p
    <3>1. ~IsPrefix(StarDot, p)
      BY <1>1, <1>4, StarDotFacts DEF Contains
    <3> QED
      BY <1>4, <3>1 DEF Matches, StarDot
  <2>2. Stands(p, 0, t, 0, Len(p))
    BY <2>1 DEF Stands
  <2>3. 0 + Len(p) \in ends[0 + Len(p)]
    <3>1. 0 \in Nat /\ Len(p) \in Nat /\ 0 + Len(p) <= Len(p) /\ 0 + Len(p) <= Len(t)
      BY <1>1, <2>1
    <3> QED
      BY <1>2, <1>3, <2>2, <3>1, LettersReach
  <2> QED
    BY <1>1, <1>2, <2>1, <2>3
<1>5. CASE Contains(p, Star) /\ IsPrefix(StarDot, p)
  <2>1. SuffixMatches(p, t)
    BY <1>5 DEF Matches, StarDot
  <2> DEFINE n == Len(p) - 1
             j == Len(t) - n
  <2>2. SUFFICES ASSUME n <= Len(t), \A i \in 1..n : p[i + 1] = t[j + i]
                 PROVE  Glob(p, t)
    BY <1>5, <2>1, SuffixBranch
  <2>3. j \in Nat /\ j \in 0..Len(t) /\ n \in Nat /\ 1 + n = Len(p) /\ j + n = Len(t)
    BY <1>1, <2>2
  <2>4. ends[1] = Reach(Star, ends[0], t)
    <3>1. 1 \in 1..Len(p) /\ 1 - 1 = 0 /\ p[1] = Star
      BY <1>1, <1>5, StarDotFacts
    <3> QED
      BY <3>1, <1>2 DEF Reaches
  <2>5. j \in ends[1]
    BY <1>3, <2>3, <2>4 DEF Reach
  <2>6. Stands(p, 1, t, j, n)
    BY <2>2, <2>3 DEF Stands
  <2> HIDE DEF n, j
  <2>7. j + n \in ends[1 + n]
    <3>1. 1 \in Nat /\ 1 + n <= Len(p) /\ j + n <= Len(t)
      BY <1>1, <2>3
    <3> QED
      BY <1>2, <2>3, <2>5, <2>6, <3>1, LettersReach
  <2> QED
    BY <1>2, <2>3, <2>7
<1>6. CASE Contains(p, Star) /\ ~IsPrefix(StarDot, p)
  <2>1. Last(p) = Star /\ IsPrefix(Front(p), t)
    BY <1>6 DEF Matches, StarDot
  <2> DEFINE n == Len(p) - 1
  <2>2. n \in Nat /\ n <= Len(t) /\ \A i \in 1..n : p[i] = t[i]
    BY <1>1, <2>1, PrefixBranch
  <2>3. Stands(p, 0, t, 0, n)
    BY <2>2 DEF Stands
  <2>4. 0 + n \in ends[0 + n]
    <3>1. 0 \in Nat /\ n \in Nat /\ 0 + n <= Len(p) /\ 0 + n <= Len(t)
      BY <1>1, <2>2
    <3> HIDE DEF n
    <3> QED
      BY <1>2, <1>3, <2>3, <3>1, LettersReach
  <2>5. ends[Len(p)] = Reach(Star, ends[n], t)
    BY <1>1, <1>2, <2>1 DEF Reaches, Last
  <2>6. n \in ends[n]
    BY <2>2, <2>4
  <2>7. Len(t) \in ends[Len(p)]
    BY <1>1, <2>2, <2>5, <2>6 DEF Reach
  <2> QED
    BY <1>2, <2>7
<1> QED
  BY <1>4, <1>5, <1>6

\* What an entry of a documented form covers, the predicate lets in.
LEMMA CoveredIsMatched ==
  ASSUME NEW S, {Star, Dot} \subseteq S, NEW p \in Seq(S), NEW t \in Seq(S), Len(p) > 0,
         Documented(p), Glob(p, t)
  PROVE  Matches(p, t)
<1>1. Len(p) \in Nat \ {0} /\ Len(t) \in Nat /\ DOMAIN p = 1..Len(p)
  OBVIOUS
<1>2. PICK ends : Reaches(p, t, ends) /\ Len(t) \in ends[Len(p)]
  BY GlobFacts
<1>3. ends[0] = {0}
  BY <1>2 DEF Reaches
<1>4. Contains(p, Star) <=> Stars(p) # {}
  BY <1>1 DEF Contains, Stars
<1>5. CASE Stars(p) = {}
  <2>1. NoStars(p, 0, Len(p))
    BY <1>1, <1>5 DEF Stars, NoStars
  <2>2. Len(t) \in ends[0 + Len(p)]
    BY <1>1, <1>2
  <2>3. Len(t) >= Len(p) /\ Len(t) - Len(p) \in ends[0]
        /\ Stands(p, 0, t, Len(t) - Len(p), Len(p))
    <3>1. 0 \in Nat /\ Len(p) \in Nat /\ Len(t) \in Nat /\ 0 + Len(p) <= Len(p)
      BY <1>1
    <3> QED
      BY <1>2, <2>1, <2>2, <3>1, ReachedLetters
  <2>4. Len(t) = Len(p)
    BY <1>1, <1>3, <2>3
  <2>5. \A x \in 1..Len(p) : t[x] = p[x]
    BY <1>1, <2>3, <2>4 DEF Stands
  <2>6. t = p
    BY <2>4, <2>5, SeqEqual
  <2>7. ~IsPrefix(StarDot, p)
    BY <1>1, <1>4, <1>5, StarDotFacts DEF Contains
  <2> QED
    BY <1>4, <1>5, <2>6, <2>7 DEF Matches, StarDot
<1>6. CASE Stars(p) = {1} /\ IsPrefix(<<Star, Dot>>, p)
  <2> DEFINE n == Len(p) - 1
  <2>1. n \in Nat /\ 1 + n = Len(p)
    BY <1>1
  <2>2. NoStars(p, 1, n)
    <3>1. ASSUME NEW x \in 1..n, p[1 + x] = Star PROVE FALSE
      <4>1. 1 + x \in DOMAIN p /\ 1 + x # 1
        BY <1>1, <3>1
      <4>2. 1 + x \in Stars(p)
        BY <3>1, <4>1 DEF Stars
      <4> QED
        BY <1>6, <4>1, <4>2
    <3> QED
      BY <3>1 DEF NoStars
  <2>3. Len(t) >= n /\ Stands(p, 1, t, Len(t) - n, n)
    <3> HIDE DEF n
    <3>1. Len(t) \in ends[1 + n] /\ 1 \in Nat /\ Len(t) \in Nat /\ 1 + n <= Len(p)
      BY <1>1, <1>2, <2>1
    <3> QED
      BY <1>2, <2>1, <2>2, <3>1, ReachedLetters
  <2>4. n <= Len(t) /\ \A i \in 1..n : p[i + 1] = t[(Len(t) - n) + i]
    BY <1>1, <2>1, <2>3 DEF Stands
  <2>5. SuffixMatches(p, t)
    BY <1>6, <2>4, SuffixBranch DEF StarDot
  <2> QED
    BY <1>4, <1>6, <2>5 DEF Matches
<1>7. CASE Stars(p) = {Len(p)}
  <2> DEFINE n == Len(p) - 1
  <2>1. n \in Nat /\ 0 + n = n /\ n + 1 = Len(p)
    BY <1>1
  <2>2. p[Len(p)] = Star
    BY <1>7 DEF Stars
  <2>3. ~IsPrefix(<<Star, Dot>>, p)
    <3>1. ASSUME IsPrefix(StarDot, p) PROVE FALSE
      <4>1. Len(p) >= 2 /\ p[1] = Star /\ 1 \in DOMAIN p
        BY <1>1, <3>1, StarDotFacts
      <4>2. 1 \in Stars(p)
        BY <4>1 DEF Stars
      <4> QED
        BY <1>7, <4>1, <4>2
    <3> QED
      BY <3>1 DEF StarDot
  <2>4. NoStars(p, 0, n)
    <3>1. ASSUME NEW x \in 1..n, p[0 + x] = Star PROVE FALSE
      <4>0. x \in DOMAIN p /\ x # Len(p) /\ 0 + x = x
        <5> HIDE DEF n
        <5>1. x \in 1..Len(p) /\ x # Len(p) /\ 0 + x = x
          BY <1>1, <2>1, Counting
        <5> QED
          BY <1>1, <5>1
      <4>1. x \in DOMAIN p /\ x # Len(p) /\ p[x] = Star
        BY <3>1, <4>0
      <4>2. x \in Stars(p)
        BY <4>1 DEF Stars
      <4> QED
        BY <1>7, <4>1, <4>2
    <3> QED
      BY <3>1 DEF NoStars
  <2>5. ends[Len(p)] = Reach(Star, ends[n], t)
    BY <1>1, <1>2, <2>2 DEF Reaches
  <2>6. PICK j \in ends[n] : j <= Len(t)
    BY <1>2, <2>5 DEF Reach
  <2>7. j = n /\ \A x \in 1..n : p[x] = t[x]
    <3> HIDE DEF n
    <3>1. j \in Nat
      <4>1. CASE n = 0
        BY <4>1, <2>6, <1>3
      <4>2. CASE n # 0
        <5>1. n \in 1..Len(p) /\ p[n] # Star
          <6>1. n \in 1..n /\ n \in 1..Len(p) /\ 0 + n = n
            BY <1>1, <4>2, <2>1
          <6> QED
            BY <2>4, <6>1 DEF NoStars
        <5>2. ends[n] = Reach(p[n], ends[n - 1], t)
          BY <5>1, <1>2 DEF Reaches
        <5> QED
          BY <5>1, <5>2, <2>6 DEF Reach
      <4> QED
        BY <4>1, <4>2
    <3>2. j \in ends[0 + n] /\ 0 \in Nat /\ 0 + n <= Len(p)
      BY <1>1, <2>1, <2>6
    <3>3. j >= n /\ j - n \in ends[0] /\ Stands(p, 0, t, j - n, n)
      BY <1>2, <2>1, <2>4, <3>1, <3>2, ReachedLetters
    <3>4. j = n
      BY <1>3, <2>1, <3>1, <3>3
    <3> QED
      BY <2>1, <3>3, <3>4 DEF Stands
  <2>8. IsPrefix(Front(p), t)
    BY <1>1, <2>6, <2>7, PrefixBranch
  <2> QED
    BY <1>4, <1>7, <2>2, <2>3, <2>8 DEF Matches, Last
<1> QED
  BY <1>5, <1>6, <1>7 DEF Documented

(***************************************************************************)
(* The list of patterns.                                                   *)
(***************************************************************************)
\* From u to v stands everything of a text that is no space, and nothing less.
Core(piece, u, v) ==
  /\ u \in 1..Len(piece) /\ v \in 1..Len(piece) /\ u <= v
  /\ piece[u] # Space /\ piece[v] # Space
  /\ \A k \in 1..(u - 1) : piece[k] = Space
  /\ \A k \in (v + 1)..Len(piece) : piece[k] = Space

\* Trim leaves the core,
LEMMA TrimLeavesCore ==
  ASSUME NEW S, NEW piece \in Seq(S), NEW u, NEW v, Core(piece, u, v)
  PROVE  Trim(piece) = SubSeq(piece, u, v) /\ Trim(piece) # <<>>
<1> DEFINE kept == {i \in DOMAIN piece : piece[i] # Space}
           m == Len(piece)
<1>1. m \in Nat /\ DOMAIN piece = 1..m /\ u \in 1..m /\ v \in 1..m /\ u <= v
  BY DEF Core
<1>2. kept \in SUBSET Nat /\ kept \in SUBSET (0..m) /\ u \in kept /\ v \in kept
  BY <1>1 DEF Core
<1>3. \A k \in kept : u <= k /\ k <= v
  <2>1. ASSUME NEW k \in kept, k < u PROVE FALSE
    <3>1. k \in 1..(u - 1)
      BY <1>1, <2>1
    <3> QED
      BY <3>1 DEF Core
  <2>2. ASSUME NEW k \in kept, v < k PROVE FALSE
    <3>1. k \in (v + 1)..m
      BY <1>1, <2>2
    <3> QED
      BY <3>1 DEF Core
  <2> QED
    BY <1>1, <2>1, <2>2
<1>4. Min(kept) \in kept /\ \A k \in kept : Min(kept) <= k
  <2> HIDE DEF kept
  <2> QED
    BY <1>2, MinFacts
<1>5. Max(kept) \in kept /\ \A k \in kept : k <= Max(kept)
  <2> HIDE DEF kept, m
  <2> QED
    BY <1>1, <1>2, MaxFacts
<1>6. Min(kept) = u /\ Max(kept) = v
  <2>1. Min(kept) <= u /\ u <= Min(kept) /\ Min(kept) \in Nat
    BY <1>2, <1>3, <1>4
  <2>2. Max(kept) <= v /\ v <= Max(kept) /\ Max(kept) \in Nat
    BY <1>2, <1>3, <1>5
  <2> HIDE DEF kept
  <2> QED
    BY <1>1, <2>1, <2>2
<1>7. Trim(piece) = SubSeq(piece, u, v)
  BY <1>2, <1>6 DEF Trim
<1>8. SubSeq(piece, u, v) # <<>>
  <2> DEFINE core == SubSeq(piece, u, v)
  <2>1. u \in Int /\ v \in Int /\ \A i \in u..v : piece[i] \in S
    BY <1>1
  <2>2. Len(core) = IF u <= v THEN v - u + 1 ELSE 0
    BY <2>1, SubSeqProperties
  <2> HIDE DEF core
  <2>3. Len(core) > 0
    BY <1>1, <2>2
  <2>4. core # <<>>
    BY <2>3
  <2> QED
    BY <2>4 DEF core
<1> QED
  BY <1>7, <1>8

\* and leaves nothing only of a text without one.
LEMMA TrimmedHasCore ==
  ASSUME NEW S, NEW piece \in Seq(S), Trim(piece) # <<>>
  PROVE  \E u, v \in 1..Len(piece) : Core(piece, u, v)
<1> DEFINE kept == {i \in DOMAIN piece : piece[i] # Space}
           m == Len(piece)
<1>1. m \in Nat /\ DOMAIN piece = 1..m
  OBVIOUS
<1>2. kept \in SUBSET Nat /\ kept \in SUBSET (0..m) /\ kept # {}
  BY <1>1 DEF Trim
<1>3. Min(kept) \in kept /\ \A k \in kept : Min(kept) <= k
  <2> HIDE DEF kept
  <2> QED
    BY <1>2, MinFacts
<1>4. Max(kept) \in kept /\ \A k \in kept : k <= Max(kept)
  <2> HIDE DEF kept, m
  <2> QED
    BY <1>1, <1>2, MaxFacts
<1>5. PICK u \in kept : \A k \in kept : u <= k
  BY <1>3
<1>6. PICK v \in kept : \A k \in kept : k <= v
  BY <1>4
<1>7. u \in 1..m /\ v \in 1..m /\ u <= v /\ piece[u] # Space /\ piece[v] # Space
  BY <1>1, <1>5
<1>8. ASSUME NEW k \in 1..(u - 1) PROVE piece[k] = Space
  <2>1. k \in DOMAIN piece /\ ~(u <= k)
    BY <1>1, <1>7
  <2> QED
    BY <1>5, <2>1
<1>9. ASSUME NEW k \in (v + 1)..m PROVE piece[k] = Space
  <2>1. k \in DOMAIN piece /\ ~(k <= v)
    BY <1>1, <1>7
  <2> QED
    BY <1>6, <2>1
<1> QED
  BY <1>7, <1>8, <1>9 DEF Core

Cuts(text) == {0, Len(text) + 1} \cup {i \in DOMAIN text : text[i] = Comma}
Gap(text, a, b) == /\ a \in Cuts(text) /\ b \in Cuts(text) /\ a < b
                   /\ ~\E k \in Cuts(text) : a < k /\ k < b

\* A part of a text, from the letter after a to the one before b.
LEMMA PieceFacts ==
  ASSUME NEW S, NEW text \in Seq(S), NEW a \in 0..(Len(text) + 1), NEW b \in 0..(Len(text) + 1),
         a < b
  PROVE  /\ SubSeq(text, a + 1, b - 1) \in Seq(S)
         /\ Len(SubSeq(text, a + 1, b - 1)) = b - a - 1
         /\ \A k \in 1..(b - a - 1) : SubSeq(text, a + 1, b - 1)[k] = text[a + k]
<1> DEFINE N == Len(text)
           piece == SubSeq(text, a + 1, b - 1)
<1>1. N \in Nat /\ \A i \in 1..N : text[i] \in S
  OBVIOUS
<1> HIDE DEF N
<1>2. a \in 0..(N + 1) /\ b \in 0..(N + 1)
  BY DEF N
<1>3. a + 1 \in Int /\ b - 1 \in Int /\ \A i \in (a + 1)..(b - 1) : text[i] \in S
  BY <1>1, <1>2
<1>4. /\ piece \in Seq(S)
      /\ Len(piece) = IF a + 1 <= b - 1 THEN b - 1 - (a + 1) + 1 ELSE 0
      /\ \A k \in 1..(b - 1 - (a + 1) + 1) : piece[k] = text[a + 1 + k - 1]
  BY <1>3, SubSeqProperties
<1> HIDE DEF piece
<1>5. Len(piece) = b - a - 1
  BY <1>2, <1>4
<1>6. ASSUME NEW k \in 1..(b - a - 1) PROVE piece[k] = text[a + k]
  <2>1. k \in 1..(b - 1 - (a + 1) + 1) /\ a + 1 + k - 1 = a + k
    BY <1>2
  <2> QED
    BY <1>4, <2>1
<1> QED
  BY <1>4, <1>5, <1>6 DEF piece

\* A part of a part.
LEMMA PieceOfPiece ==
  ASSUME NEW S, NEW text \in Seq(S), NEW a \in 0..(Len(text) + 1), NEW b \in 0..(Len(text) + 1),
         a < b, NEW u \in 1..(b - a - 1), NEW v \in 1..(b - a - 1)
  PROVE  SubSeq(SubSeq(text, a + 1, b - 1), u, v) = SubSeq(text, a + u, a + v)
<1>1. Len(text) \in Nat
  OBVIOUS
<1>2. /\ a + 1 \in 1..Len(text) /\ b - 1 \in 1..Len(text)
      /\ u \in 1..(b - 1 - (a + 1) + 1) /\ v \in 1..(b - 1 - (a + 1) + 1)
      /\ a + 1 + u - 1 = a + u /\ a + 1 + v - 1 = a + v
  BY <1>1
<1>3. SubSeq(SubSeq(text, a + 1, b - 1), u, v) = SubSeq(text, a + 1 + u - 1, a + 1 + v - 1)
  BY <1>2, SubSeqOfSubSeq
<1> QED
  BY <1>2, <1>3

\* What stands alone between two cuts is an entry,
LEMMA CoreIsEntry ==
  ASSUME NEW S, NEW text \in Seq(S), NEW a, NEW b, Gap(text, a, b),
         NEW u, NEW v, Core(SubSeq(text, a + 1, b - 1), u, v)
  PROVE  SubSeq(SubSeq(text, a + 1, b - 1), u, v) \in Entries(text)
<1> DEFINE N == Len(text)
           piece == SubSeq(text, a + 1, b - 1)
           from == a + u
           to == a + v
<1>1. N \in Nat /\ DOMAIN text = 1..N
  OBVIOUS
<1>2. /\ a \in 0..N /\ (a = 0 \/ text[a] = Comma)
      /\ b \in 1..(N + 1) /\ (b = N + 1 \/ text[b] = Comma) /\ a < b
  BY <1>1 DEF Gap, Cuts
<1>3. /\ Len(piece) = b - a - 1
      /\ \A k \in 1..(b - a - 1) : piece[k] = text[a + k]
  <2>1. a \in 0..(Len(text) + 1) /\ b \in 0..(Len(text) + 1)
    BY <1>1, <1>2
  <2> QED
    BY <1>2, <2>1, PieceFacts
<1> HIDE DEF piece
<1>4. /\ u \in 1..(b - a - 1) /\ v \in 1..(b - a - 1) /\ u <= v
      /\ piece[u] # Space /\ piece[v] # Space
      /\ \A k \in 1..(u - 1) : piece[k] = Space
      /\ \A k \in (v + 1)..(b - a - 1) : piece[k] = Space
  <2>1. Core(piece, u, v)
    BY DEF piece
  <2> QED
    BY <1>3, <2>1 DEF Core
<1> HIDE DEF N
<1>5. from \in 1..N /\ to \in 1..N /\ from <= to
  BY <1>1, <1>2, <1>4
<1>6. text[from] # Space /\ text[to] # Space
  BY <1>3, <1>4
<1>7. ASSUME NEW i \in from..to PROVE text[i] # Comma
  <2>1. i \in 1..N /\ a < i /\ i < b
    BY <1>1, <1>2, <1>4
  <2>2. i \notin Cuts(text)
    BY <2>1 DEF Gap
  <2> QED
    BY <1>1, <2>1, <2>2 DEF Cuts
<1>8. /\ a \in 0..(from - 1) /\ (a = 0 \/ text[a] = Comma)
      /\ \A k \in (a + 1)..(from - 1) : text[k] = Space
  <2>1. ASSUME NEW k \in (a + 1)..(from - 1) PROVE text[k] = Space
    <3>1. k - a \in 1..(u - 1) /\ k - a \in 1..(b - a - 1) /\ a + (k - a) = k
      BY <1>2, <1>4
    <3> QED
      BY <1>3, <1>4, <3>1
  <2>2. a \in 0..(from - 1)
    BY <1>2, <1>4
  <2> QED
    BY <1>2, <2>1, <2>2
<1>9. /\ b \in (to + 1)..(N + 1) /\ (b = N + 1 \/ text[b] = Comma)
      /\ \A k \in (to + 1)..(b - 1) : text[k] = Space
  <2>1. ASSUME NEW k \in (to + 1)..(b - 1) PROVE text[k] = Space
    <3>1. k - a \in (v + 1)..(b - a - 1) /\ k - a \in 1..(b - a - 1) /\ a + (k - a) = k
      BY <1>2, <1>4
    <3> QED
      BY <1>3, <1>4, <3>1
  <2>2. b \in (to + 1)..(N + 1)
    BY <1>1, <1>2, <1>4
  <2> QED
    BY <1>2, <2>1, <2>2
<1> HIDE DEF from, to
<1>10. Entry(text, from, to)
  BY <1>6, <1>7, <1>8, <1>9 DEF Entry, N
<1>11. SubSeq(text, from, to) \in Entries(text)
  <2> DEFINE spans == {r \in (DOMAIN text) \X (DOMAIN text) :
                         r[1] <= r[2] /\ Entry(text, r[1], r[2])}
  <2>1. Entries(text) = {SubSeq(text, r[1], r[2]) : r \in spans}
    BY DEF Entries
  <2>2. <<from, to>> \in spans
    BY <1>1, <1>5, <1>10
  <2> HIDE DEF spans
  <2>3. SubSeq(text, <<from, to>>[1], <<from, to>>[2]) \in Entries(text)
    BY <2>1, <2>2
  <2> QED
    BY <2>3
<1>12. SubSeq(piece, u, v) = SubSeq(text, from, to)
  <2>1. a \in 0..(Len(text) + 1) /\ b \in 0..(Len(text) + 1)
    BY <1>1, <1>2 DEF N
  <2> QED
    BY <1>2, <1>4, <2>1, PieceOfPiece DEF piece, from, to
<1> QED
  BY <1>11, <1>12 DEF piece

\* and every entry stands between two cuts.
LEMMA EntryIsCore ==
  ASSUME NEW S, NEW text \in Seq(S), NEW from \in DOMAIN text, NEW to \in DOMAIN text,
         from <= to, Entry(text, from, to)
  PROVE  \E a, b \in Cuts(text) :
           /\ Gap(text, a, b)
           /\ \E u, v : /\ Core(SubSeq(text, a + 1, b - 1), u, v)
                        /\ SubSeq(SubSeq(text, a + 1, b - 1), u, v) = SubSeq(text, from, to)
<1> DEFINE N == Len(text)
<1>1. N \in Nat /\ DOMAIN text = 1..N /\ from \in 1..N /\ to \in 1..N
  OBVIOUS
<1> HIDE DEF N
<1>2. PICK a \in 0..(from - 1) :
        /\ a = 0 \/ text[a] = Comma
        /\ \A k \in (a + 1)..(from - 1) : text[k] = Space
  BY DEF Entry
<1>3. PICK b \in (to + 1)..(N + 1) :
        /\ b = N + 1 \/ text[b] = Comma
        /\ \A k \in (to + 1)..(b - 1) : text[k] = Space
  BY DEF Entry, N
<1>4. a \in Cuts(text) /\ b \in Cuts(text) /\ a < b /\ a \in 0..(N + 1) /\ b \in 0..(N + 1)
  BY <1>1, <1>2, <1>3 DEF Cuts, N
<1>5. Comma # Space
  BY Zenon DEF Comma, Space
<1>6. ASSUME NEW k \in Cuts(text), a < k, k < b PROVE FALSE
  <2>1. k \in 1..N /\ text[k] = Comma
    BY <1>1, <1>2, <1>3, <1>6 DEF Cuts, N
  <2>2. CASE k < from
    <3>1. k \in (a + 1)..(from - 1)
      BY <1>1, <1>2, <1>6, <2>1, <2>2
    <3> QED
      BY <1>2, <1>5, <2>1, <3>1
  <2>3. CASE k > to
    <3>1. k \in (to + 1)..(b - 1)
      BY <1>1, <1>3, <1>6, <2>1, <2>3
    <3> QED
      BY <1>3, <1>5, <2>1, <3>1
  <2>4. CASE k \in from..to
    BY <2>1, <2>4 DEF Entry
  <2> QED
    BY <1>1, <2>1, <2>2, <2>3, <2>4
<1>7. Gap(text, a, b)
  BY <1>4, <1>6 DEF Gap
<1> DEFINE piece == SubSeq(text, a + 1, b - 1)
           u == from - a
           v == to - a
<1>8. /\ Len(piece) = b - a - 1
      /\ \A k \in 1..(b - a - 1) : piece[k] = text[a + k]
  <2>1. a \in 0..(Len(text) + 1) /\ b \in 0..(Len(text) + 1)
    BY <1>4 DEF N
  <2> QED
    BY <1>4, <2>1, PieceFacts
<1> HIDE DEF piece
<1>9. /\ u \in 1..(b - a - 1) /\ v \in 1..(b - a - 1) /\ u <= v
      /\ a + u = from /\ a + v = to
  BY <1>1, <1>2, <1>3
<1>10. piece[u] # Space /\ piece[v] # Space
  BY <1>8, <1>9 DEF Entry
<1>11. ASSUME NEW k \in 1..(u - 1) PROVE piece[k] = Space
  <2>1. k \in 1..(b - a - 1) /\ a + k \in (a + 1)..(from - 1)
    BY <1>1, <1>2, <1>3
  <2> QED
    BY <1>2, <1>8, <2>1
<1>12. ASSUME NEW k \in (v + 1)..(b - a - 1) PROVE piece[k] = Space
  <2>1. k \in 1..(b - a - 1) /\ a + k \in (to + 1)..(b - 1)
    BY <1>1, <1>2, <1>3
  <2> QED
    BY <1>3, <1>8, <2>1
<1> HIDE DEF u, v
<1>13. Core(piece, u, v)
  BY <1>8, <1>9, <1>10, <1>11, <1>12 DEF Core
<1>14. SubSeq(piece, u, v) = SubSeq(text, from, to)
  <2>1. a \in 0..(Len(text) + 1) /\ b \in 0..(Len(text) + 1)
    BY <1>4 DEF N
  <2>2. SubSeq(SubSeq(text, a + 1, b - 1), u, v) = SubSeq(text, a + u, a + v)
    BY <1>4, <1>9, <2>1, PieceOfPiece
  <2> QED
    BY <1>9, <2>2 DEF piece
<1> QED
  BY <1>4, <1>7, <1>13, <1>14 DEF piece

\* So the layer is built with the entries of the list, whatever stands in it.
LEMMA PatternsAreEntries ==
  ASSUME NEW S, NEW text \in Seq(S)
  PROVE  Patterns(text) = Entries(text)
<1>1. ASSUME NEW e \in Patterns(text) PROVE e \in Entries(text)
  <2>1. e # <<>> /\ \E piece \in SplitAtCommas(text) : e = Trim(piece)
    BY DEF Patterns
  <2>2. PICK a \in Cuts(text), b \in Cuts(text) :
          Gap(text, a, b) /\ e = Trim(SubSeq(text, a + 1, b - 1))
    BY <2>1 DEF SplitAtCommas, Gap, Cuts
  <2> DEFINE piece == SubSeq(text, a + 1, b - 1)
  <2>3. piece \in Seq(S)
    <3>1. a \in 0..(Len(text) + 1) /\ b \in 0..(Len(text) + 1) /\ a < b
      BY <2>2 DEF Gap, Cuts
    <3> QED
      BY <3>1, PieceFacts
  <2>4. PICK u, v \in 1..Len(piece) : Core(piece, u, v)
    BY <2>1, <2>2, <2>3, TrimmedHasCore
  <2>5. e = SubSeq(piece, u, v)
    BY <2>2, <2>3, <2>4, TrimLeavesCore
  <2> QED
    BY <2>2, <2>4, <2>5, CoreIsEntry
<1>2. ASSUME NEW e \in Entries(text) PROVE e \in Patterns(text)
  <2>1. PICK from \in DOMAIN text, to \in DOMAIN text :
          from <= to /\ Entry(text, from, to) /\ e = SubSeq(text, from, to)
    BY DEF Entries
  <2>2. PICK a, b \in Cuts(text) :
          /\ Gap(text, a, b)
          /\ \E u, v : /\ Core(SubSeq(text, a + 1, b - 1), u, v)
                       /\ SubSeq(SubSeq(text, a + 1, b - 1), u, v) = SubSeq(text, from, to)
    BY <2>1, EntryIsCore
  <2> DEFINE piece == SubSeq(text, a + 1, b - 1)
  <2>3. PICK u, v : Core(piece, u, v) /\ SubSeq(piece, u, v) = e
    BY <2>1, <2>2
  <2>4. piece \in Seq(S)
    <3>1. a \in 0..(Len(text) + 1) /\ b \in 0..(Len(text) + 1) /\ a < b
      BY <2>2 DEF Gap, Cuts
    <3> QED
      BY <3>1, PieceFacts
  <2>5. e = Trim(piece) /\ e # <<>>
    BY <2>3, <2>4, TrimLeavesCore
  <2>6. piece \in SplitAtCommas(text)
    <3> DEFINE gaps == {c \in Cuts(text) \X Cuts(text) :
                          c[1] < c[2] /\ ~\E k \in Cuts(text) : c[1] < k /\ k < c[2]}
    <3>1. SplitAtCommas(text) = {SubSeq(text, c[1] + 1, c[2] - 1) : c \in gaps}
      BY DEF SplitAtCommas, Cuts
    <3>2. <<a, b>> \in gaps
      BY <2>2 DEF Gap
    <3> HIDE DEF gaps
    <3>3. SubSeq(text, <<a, b>>[1] + 1, <<a, b>>[2] - 1) \in SplitAtCommas(text)
      BY <3>1, <3>2
    <3> QED
      BY <3>3
  <2> QED
    BY <2>5, <2>6 DEF Patterns
<1> QED
  BY <1>1, <1>2

(***************************************************************************)
(* The theorems.                                                           *)
(***************************************************************************)
\* The layer knows the patterns of its setting, and its answer is theirs.
Inv ==
  /\ allowed_origins \in AllowedOrigins
  /\ patterns = None => admitted = None
  /\ patterns # None => patterns = Patterns(allowed_origins)
  /\ admitted # None =>
       /\ origin \in Origin /\ admitted \in BOOLEAN
       /\ admitted = TRUE <=> \E pattern \in patterns : Matches(pattern, origin)

\* A request is answered from the setting alone, however many came before it.
THEOREM Invariance == Spec => []Inv
<1>1. Init => Inv
  BY DEF Init, Inv
<1>2. Inv /\ [Next]_vars => Inv'
  <2> SUFFICES ASSUME Inv, [Next]_vars PROVE Inv'
    OBVIOUS
  <2>1. CASE CorsLayer
    BY <2>1, NoneAssumption DEF CorsLayer, Inv
  <2>2. ASSUME NEW o \in Origin, Request(o) PROVE Inv'
    <3>1. /\ admitted' \in BOOLEAN
          /\ admitted' = TRUE <=> \E pattern \in patterns : Matches(pattern, o)
      BY <2>2, Zenon DEF Request
    <3> QED
      BY <2>2, <3>1, NoneAssumption DEF Request, Inv
  <2>3. CASE UNCHANGED vars
    BY <2>3 DEF vars, Inv
  <2> QED
    BY <2>1, <2>2, <2>3 DEF Next
<1> QED
  BY <1>1, <1>2, PTL DEF Spec

\* The letters of a setting and an origin, and those that mean something.
Letters == ToSet(allowed_origins) \cup ToSet(origin) \cup {Star, Dot}

\* What can be said of an answer: the setting and the origin are texts, and the
\* layer decides by the entries of the setting, none of which is empty.
LEMMA AnswerFacts ==
  ASSUME Inv, admitted # None
  PROVE  /\ origin \in Seq(Letters)
         /\ \A entry \in Entries(allowed_origins) : entry \in Seq(Letters) /\ Len(entry) > 0
         /\ admitted = TRUE <=> \E entry \in Entries(allowed_origins) : Matches(entry, origin)
<1>1. allowed_origins \in Seq(ToSet(allowed_origins)) /\ origin \in Seq(ToSet(origin))
  BY TextAssumption DEF Inv
<1>2. allowed_origins \in Seq(Letters) /\ origin \in Seq(Letters)
  <2>1. ToSet(allowed_origins) \subseteq Letters /\ ToSet(origin) \subseteq Letters
    BY DEF Letters
  <2> QED
    BY <1>1, <2>1, SeqMonotonic
<1>3. patterns = Entries(allowed_origins)
  BY <1>2, PatternsAreEntries DEF Inv
<1>4. ASSUME NEW entry \in Entries(allowed_origins)
      PROVE  entry \in Seq(Letters) /\ Len(entry) > 0
  <2>1. PICK from \in DOMAIN allowed_origins, to \in DOMAIN allowed_origins :
          from <= to /\ entry = SubSeq(allowed_origins, from, to)
    BY DEF Entries
  <2>2. /\ from \in 1..Len(allowed_origins) /\ to \in 1..Len(allowed_origins)
        /\ from \in Int /\ to \in Int
        /\ \A i \in from..to : allowed_origins[i] \in Letters
    BY <1>2
  <2>3. /\ SubSeq(allowed_origins, from, to) \in Seq(Letters)
        /\ Len(SubSeq(allowed_origins, from, to)) = IF from <= to THEN to - from + 1 ELSE 0
    BY <2>2, SubSeqProperties
  <2>4. Len(entry) = to - from + 1
    BY <2>1, <2>3
  <2>5. to - from + 1 > 0
    BY <2>1, <2>2
  <2> QED
    BY <2>1, <2>3, <2>4, <2>5
<1>5. admitted = TRUE <=> \E entry \in Entries(allowed_origins) : Matches(entry, origin)
  BY <1>3 DEF Inv
<1> QED
  BY <1>2, <1>4, <1>5

\* No origin is admitted but by an entry that covers it or names its apex.
THEOREM OnlyCoveredAreAdmitted == Spec => []AdmitsOnlyCovered
<1>1. Inv => AdmitsOnlyCovered
  <2> SUFFICES ASSUME Inv, admitted = TRUE
               PROVE  \E entry \in Entries(allowed_origins) :
                        Glob(entry, origin) \/ Apex(entry, origin)
    BY DEF AdmitsOnlyCovered
  <2>1. admitted # None
    BY NoneAssumption
  <2>2. PICK entry \in Entries(allowed_origins) : Matches(entry, origin)
    BY <2>1, AnswerFacts
  <2>3. origin \in Seq(Letters) /\ entry \in Seq(Letters) /\ Len(entry) > 0
    BY <2>1, AnswerFacts
  <2>4. {Star, Dot} \subseteq Letters
    BY DEF Letters
  <2> QED
    BY <2>2, <2>3, <2>4, MatchedIsCovered
<1> QED
  BY <1>1, Invariance, PTL

\* Every origin that an entry of a documented form covers is admitted.
THEOREM DocumentedFormsAreAdmitted == Spec => []DocumentedFormsWork
<1>1. Inv => DocumentedFormsWork
  <2> SUFFICES ASSUME Inv, admitted = FALSE, NEW entry \in Entries(allowed_origins),
                      Documented(entry), Glob(entry, origin)
               PROVE  FALSE
    BY DEF DocumentedFormsWork
  <2>1. admitted # None
    BY NoneAssumption
  <2>2. origin \in Seq(Letters) /\ entry \in Seq(Letters) /\ Len(entry) > 0
    BY <2>1, AnswerFacts
  <2>3. {Star, Dot} \subseteq Letters
    BY DEF Letters
  <2>4. Matches(entry, origin)
    BY <2>2, <2>3, CoveredIsMatched
  <2>5. admitted = TRUE
    BY <2>1, <2>4, AnswerFacts
  <2> QED
    BY <2>5
<1> QED
  BY <1>1, Invariance, PTL
=============================================================================
