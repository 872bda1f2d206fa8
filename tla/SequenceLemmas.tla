-------------------------- MODULE SequenceLemmas ---------------------------
(* Lemmas about the operators of the community modules that the models are   *)
(* built from: Max, FlattenSeq, and the folds.  An induction over a sequence *)
(* or a set is an argument about the least counterexample.                   *)
EXTENDS FiniteSetTheorems, SequencesExt, SequenceTheorems, WellFoundedInduction, TLAPS

-----------------------------------------------------------------------------
(* Least and greatest elements *)

\* A set of numbers has a least one.
LEMMA LeastOf ==
  ASSUME NEW T \in SUBSET Nat, T # {}
  PROVE  \E t \in T : \A u \in T : t <= u
  <1> DEFINE R == {ss \in Nat \X Nat : ss[1] < ss[2]}
  <1>1. IsWellFoundedOn(R, Nat)
    BY NatLessThanWellFounded DEF OpToRel
  <1>2. \E t \in T : \A u \in T : <<u, t>> \notin R
    <2> HIDE DEF R
    <2> QED BY <1>1, WFMin
  <1>3. PICK t \in T : \A u \in T : <<u, t>> \notin R
    BY <1>2
  <1>4. ASSUME NEW u \in T PROVE t <= u
    <2>1. ~(u < t)
      BY <1>3
    <2>2. u \in Nat /\ t \in Nat
      OBVIOUS
    <2> QED BY <2>1, <2>2
  <1> QED BY <1>4

\* A set of places has a last one,
LEMMA GreatestOf ==
  ASSUME NEW n \in Nat, NEW S \in SUBSET (1..n), S # {}
  PROVE  Max(S) \in S /\ \A i \in S : i <= Max(S)
  <1> DEFINE T == {n - i : i \in S}
  <1>1. PICK k \in T : \A u \in T : k <= u
    <2>1. \A i \in S : n - i \in Nat
      OBVIOUS
    <2>2. T \in SUBSET Nat /\ T # {}
      BY <2>1
    <2> HIDE DEF T
    <2> QED BY <2>2, LeastOf
  <1>2. PICK j \in S : k = n - j
    OBVIOUS
  <1>3. ASSUME NEW i \in S PROVE j >= i
    <2>1. n - i \in T
      OBVIOUS
    <2>2. n - j <= n - i
      BY <1>1, <1>2, <2>1
    <2> QED BY <2>2
  <1>4. Max(S) \in S /\ \A i \in S : Max(S) >= i
    BY <1>3 DEF Max
  <1> QED BY <1>4

\* and it is that which none exceeds.
LEMMA MaxIs ==
  ASSUME NEW S \in SUBSET Nat, NEW n \in S, \A i \in S : i <= n
  PROVE  Max(S) = n
  <1>1. \A i \in S : n >= i
    OBVIOUS
  <1>2. Max(S) \in S /\ \A i \in S : Max(S) >= i
    BY <1>1 DEF Max
  <1>3. Max(S) \in Nat /\ n \in Nat
    BY <1>2
  <1>4. Max(S) >= n /\ n >= Max(S)
    BY <1>1, <1>2
  <1> QED BY <1>3, <1>4

\* Every number is twice a number, or one more.
LEMMA Halves == \A m \in Nat : \E j \in Nat : m = 2 * j \/ m = 2 * j + 1
  <1>1. \A m \in Nat : m \div 2 \in Nat /\ (m = 2 * (m \div 2) \/ m = 2 * (m \div 2) + 1)
    OBVIOUS
  <1> QED BY <1>1

-----------------------------------------------------------------------------
(* Induction, with the set of what has the property in place of the property. *)

\* A set that has 0, and with each number up to n the next, has all of them.
LEMMA InductUpto ==
  ASSUME NEW n \in Nat, NEW A, 0 \in A, \A k \in 0..n - 1 : k \in A => k + 1 \in A
  PROVE  \A k \in 0..n : k \in A
  <1> DEFINE Bad == {k \in 0..n : k \notin A}
  <1> SUFFICES ASSUME Bad # {} PROVE FALSE
    OBVIOUS
  <1>1. PICK k \in Bad : \A u \in Bad : k <= u
    <2>1. Bad \in SUBSET Nat
      OBVIOUS
    <2> HIDE DEF Bad
    <2> QED BY <2>1, LeastOf
  <1>2. k \in 0..n /\ k \notin A /\ k # 0
    OBVIOUS
  <1>3. k - 1 \in 0..n - 1 /\ (k - 1) + 1 = k /\ ~(k <= k - 1)
    BY <1>2
  <1>4. k - 1 \notin A
    BY <1>2, <1>3
  <1>5. k - 1 \in Bad
    BY <1>2, <1>3, <1>4
  <1> QED BY <1>1, <1>3, <1>5

\* The first i elements of s.
Upto(s, i) == [j \in 1..i |-> s[j]]

\* The first n elements, as a sequence,
LEMMA UptoType ==
  ASSUME NEW S, NEW s \in Seq(S), NEW i \in 0..Len(s)
  PROVE  /\ Upto(s, i) \in Seq(S) /\ Len(Upto(s, i)) = i
         /\ \A j \in 1..i : Upto(s, i)[j] = s[j]
  <1>1. \A j \in 1..Len(s) : s[j] \in S
    BY ElementOfSeq
  <1> QED BY <1>1 DEF Upto

\* and one element more.
LEMMA UptoAppend ==
  ASSUME NEW S, NEW s \in Seq(S), NEW i \in 0..Len(s) - 1
  PROVE  Upto(s, i + 1) = Append(Upto(s, i), s[i + 1])
  <1>1. s[i + 1] \in S /\ i \in 0..Len(s) /\ i + 1 \in 0..Len(s)
    BY ElementOfSeq
  <1> DEFINE u == Upto(s, i)
             v == Upto(s, i + 1)
  <1>2. /\ u \in Seq(S) /\ Len(u) = i /\ \A j \in 1..i : u[j] = s[j]
        /\ v \in Seq(S) /\ Len(v) = i + 1 /\ \A j \in 1..i + 1 : v[j] = s[j]
    BY <1>1, UptoType
  <1> HIDE DEF u, v
  <1>3. v = Append(u, s[i + 1])
    <2>1. Append(u, s[i + 1]) \in Seq(S) /\ Len(Append(u, s[i + 1])) = i + 1
      BY <1>1, <1>2
    <2>2. \A j \in 1..i + 1 : Append(u, s[i + 1])[j] = v[j]
      BY <1>1, <1>2
    <2> QED BY <1>2, <2>1, <2>2, SeqEqual
  <1> QED BY <1>3 DEF u, v

\* A set that has the empty sequence, and with s every longer one, has all of them.
LEMMA InductSeq ==
  ASSUME NEW S, NEW A, <<>> \in A,
         \A s \in Seq(S) : s \in A => \A x \in S : Append(s, x) \in A
  PROVE  Seq(S) \subseteq A
  <1> SUFFICES ASSUME NEW s \in Seq(S) PROVE s \in A
    OBVIOUS
  <1> DEFINE B == {k \in 0..Len(s) : Upto(s, k) \in A}
  <1>1. Upto(s, 0) = <<>>
    BY DEF Upto
  <1>2. 0 \in B
    BY <1>1
  <1>3. ASSUME NEW k \in 0..Len(s) - 1, k \in B PROVE k + 1 \in B
    <2>1. k \in 0..Len(s) /\ k + 1 \in 1..Len(s) /\ k + 1 \in 0..Len(s)
      OBVIOUS
    <2>2. Upto(s, k) \in Seq(S) /\ s[k + 1] \in S
      BY <2>1, UptoType, ElementOfSeq
    <2>3. Upto(s, k + 1) = Append(Upto(s, k), s[k + 1])
      BY UptoAppend
    <2>4. Upto(s, k + 1) \in A
      BY <1>3, <2>2, <2>3
    <2> QED BY <2>1, <2>4
  <1>4. Len(s) \in B
    <2>1. Len(s) \in Nat
      OBVIOUS
    <2> HIDE DEF B
    <2>2. \A k \in 0..Len(s) : k \in B
      BY <1>2, <1>3, <2>1, InductUpto
    <2> QED BY <2>1, <2>2
  <1>5. Upto(s, Len(s)) = s
    BY LenProperties DEF Upto
  <1> QED BY <1>4, <1>5

\* The start of a concatenation, if it goes beyond the first part or does not.
LEMMA PrefixOfFirst ==
  ASSUME NEW S, NEW s \in Seq(S), NEW t \in Seq(S), NEW j \in 0..Len(s)
  PROVE  SubSeq(s \o t, 1, j) = SubSeq(s, 1, j)
  BY ConcatProperties

\* A prefix of a concatenation that goes beyond its first part.
LEMMA PrefixBeyond ==
  ASSUME NEW S, NEW s \in Seq(S), NEW t \in Seq(S), NEW j \in 0..Len(t)
  PROVE  SubSeq(s \o t, 1, Len(s) + j) = s \o SubSeq(t, 1, j)
  <1> DEFINE u == SubSeq(s \o t, 1, Len(s) + j)
             v == SubSeq(t, 1, j)
  <1>1. s \o t \in Seq(S) /\ Len(s \o t) = Len(s) + Len(t)
        /\ \A i \in 1..Len(s) + Len(t) : (s \o t)[i] = IF i <= Len(s) THEN s[i] ELSE t[i - Len(s)]
    BY ConcatProperties
  <1>2. u \in Seq(S) /\ Len(u) = Len(s) + j /\ \A i \in 1..Len(s) + j : u[i] = (s \o t)[i]
    BY <1>1
  <1>3. v \in Seq(S) /\ Len(v) = j /\ \A i \in 1..j : v[i] = t[i]
    OBVIOUS
  <1> HIDE DEF u, v
  <1>4. s \o v \in Seq(S) /\ Len(s \o v) = Len(s) + j
        /\ \A i \in 1..Len(s) + j : (s \o v)[i] = IF i <= Len(s) THEN s[i] ELSE v[i - Len(s)]
    BY <1>3, ConcatProperties
  <1>5. ASSUME NEW i \in 1..Len(s) + j PROVE u[i] = (s \o v)[i]
    <2>1. CASE i <= Len(s)
      BY <1>1, <1>2, <1>4, <2>1
    <2>2. CASE ~(i <= Len(s))
      <3>1. i - Len(s) \in 1..j /\ i \in 1..Len(s) + Len(t)
        BY <2>2
      <3>2. u[i] = t[i - Len(s)]
        BY <1>1, <1>2, <2>2, <3>1
      <3>3. (s \o v)[i] = v[i - Len(s)]
        BY <1>4, <2>2
      <3> QED BY <1>3, <3>1, <3>2, <3>3
    <2> QED BY <2>1, <2>2
  <1>6. u = s \o v
    BY <1>2, <1>4, <1>5, SeqEqual
  <1> QED BY <1>6 DEF u, v

\* h is a function of 0..k that starts with v, and goes on from each value with F.
Follows(h, k, V, v, F) ==
  h \in [0..k -> V] /\ h[0] = v /\ \A n \in 1..k : h[n] = F[n][h[n - 1]]

\* The first k of F stay in V.
Keeps(F, k, V) == \A n \in 1..k : \A x \in V : F[n][x] \in V

\* Such a function exists.
LEMMA Recursion ==
  ASSUME NEW k \in Nat, NEW V, NEW v \in V, NEW F, Keeps(F, k, V)
  PROVE  \E h : Follows(h, k, V, v, F)
  <1> USE DEF Keeps
  <1> DEFINE Good(n, h) == Follows(h, n, V, v, F)
             A == {n \in 0..k : \E h : Good(n, h)}
  <1>1. 0 \in A
    <2> DEFINE h == [i \in 0..0 |-> v]
    <2>1. Good(0, h)
      BY DEF Follows
    <2> HIDE DEF h, Good
    <2> QED BY <2>1
  <1>2. ASSUME NEW n \in 0..k - 1, n \in A PROVE n + 1 \in A
    <2>1. PICK h : Good(n, h)
      BY <1>2
    <2> USE DEF Follows
    <2>2. n + 1 \in 1..k /\ n + 1 \in 0..k /\ (n + 1) - 1 = n /\ n \in 0..n
      OBVIOUS
    <2> DEFINE g == [i \in 0..n + 1 |-> IF i = n + 1 THEN F[n + 1][h[n]] ELSE h[i]]
    <2>3. g \in [0..n + 1 -> V]
      <3>1. h[n] \in V /\ F[n + 1][h[n]] \in V
        BY <2>1, <2>2
      <3>2. \A i \in 0..n + 1 : i # n + 1 => h[i] \in V
        BY <2>1
      <3> QED BY <3>1, <3>2
    <2>4. \A i \in 0..n : g[i] = h[i]
      OBVIOUS
    <2>5. g[n + 1] = F[n + 1][h[n]]
      OBVIOUS
    <2> HIDE DEF g
    <2>6. g[0] = v
      BY <2>1, <2>4
    <2>7. ASSUME NEW i \in 1..n + 1 PROVE g[i] = F[i][g[i - 1]]
      <3>1. g[i - 1] = h[i - 1]
        BY <2>4
      <3>2. CASE i = n + 1
        BY <2>2, <2>5, <3>1, <3>2
      <3>3. CASE i # n + 1
        <4>1. i \in 1..n /\ i \in 0..n
          BY <3>3
        <4>2. g[i] = h[i] /\ h[i] = F[i][h[i - 1]]
          BY <2>1, <2>4, <4>1
        <4> QED BY <3>1, <4>2
      <3> QED BY <3>2, <3>3
    <2>8. Good(n + 1, g)
      BY <2>3, <2>6, <2>7
    <2> HIDE DEF Good
    <2> QED BY <2>2, <2>8
  <1>3. k \in A
    <2> HIDE DEF A
    <2>1. \A n \in 0..k : n \in A
      <3>1. \A n \in 0..k - 1 : n \in A => n + 1 \in A
        BY <1>2
      <3> QED BY <1>1, <3>1, InductUpto
    <2> QED BY <2>1
  <1> QED BY <1>3

\* Append moves into a concatenation.
LEMMA ConcatAppend ==
  ASSUME NEW S, NEW s \in Seq(S), NEW t \in Seq(S), NEW x \in S
  PROVE  s \o Append(t, x) = Append(s \o t, x)
  OBVIOUS

\* A part in two.
LEMMA SubSeqSplit ==
  ASSUME NEW S, NEW s \in Seq(S), NEW a \in Nat, NEW b \in Nat, NEW c \in Nat,
         a <= b, b <= c, c <= Len(s)
  PROVE  SubSeq(s, a + 1, c) = SubSeq(s, a + 1, b) \o SubSeq(s, b + 1, c)
  <1> DEFINE u == SubSeq(s, a + 1, b)
             v == SubSeq(s, b + 1, c)
             t == SubSeq(s, a + 1, c)
  <1>1. t \in Seq(S) /\ Len(t) = c - a /\ \A i \in 1..c - a : t[i] = s[a + i]
    <2>1. CASE a = c
      BY <2>1, SubSeqEmpty
    <2>2. CASE a # c
      BY <2>2
    <2> QED BY <2>1, <2>2
  <1>2. u \in Seq(S) /\ Len(u) = b - a /\ \A i \in 1..b - a : u[i] = s[a + i]
    <2>1. CASE a = b
      BY <2>1, SubSeqEmpty
    <2>2. CASE a # b
      BY <2>2
    <2> QED BY <2>1, <2>2
  <1>3. v \in Seq(S) /\ Len(v) = c - b /\ \A i \in 1..c - b : v[i] = s[b + i]
    <2>1. CASE b = c
      BY <2>1, SubSeqEmpty
    <2>2. CASE b # c
      BY <2>2
    <2> QED BY <2>1, <2>2
  <1> HIDE DEF t, u, v
  <1>4. u \o v \in Seq(S) /\ Len(u \o v) = c - a
        /\ \A i \in 1..c - a : (u \o v)[i] = IF i <= b - a THEN u[i] ELSE v[i - (b - a)]
    <2>1. /\ u \o v \in Seq(S) /\ Len(u \o v) = Len(u) + Len(v)
          /\ \A i \in 1..Len(u) + Len(v) : (u \o v)[i] = IF i <= Len(u) THEN u[i] ELSE v[i - Len(u)]
      BY <1>2, <1>3, ConcatProperties
    <2>2. Len(u) + Len(v) = c - a
      BY <1>2, <1>3
    <2> QED BY <1>2, <2>1, <2>2
  <1>5. ASSUME NEW i \in 1..c - a PROVE t[i] = (u \o v)[i]
    <2>1. CASE i <= b - a
      <3>1. i \in 1..b - a
        BY <2>1
      <3> QED BY <1>1, <1>2, <1>4, <2>1, <3>1
    <2>2. CASE ~(i <= b - a)
      <3>1. i - (b - a) \in 1..c - b /\ b + (i - (b - a)) = a + i
        BY <2>2
      <3> QED BY <1>1, <1>3, <1>4, <2>2, <3>1
    <2> QED BY <2>1, <2>2
  <1>6. t = u \o v
    BY <1>1, <1>4, <1>5, SeqEqual
  <1> QED BY <1>6 DEF t, u, v

\* A part of a part.
LEMMA SubSeqWithin ==
  ASSUME NEW S, NEW s \in Seq(S), NEW a \in Nat, NEW b \in Nat, b <= Len(s),
         NEW i \in Nat \ {0}, NEW j \in Nat, i <= j, a + j <= b
  PROVE  SubSeq(SubSeq(s, a + 1, b), i, j) = SubSeq(s, a + i, a + j)
  <1> DEFINE t == SubSeq(s, a + 1, b)
             u == SubSeq(t, i, j)
             v == SubSeq(s, a + i, a + j)
  <1>1. t \in Seq(S) /\ Len(t) = b - a /\ \A k \in 1..b - a : t[k] = s[a + k]
    OBVIOUS
  <1>2. v \in Seq(S) /\ Len(v) = j - i + 1 /\ \A k \in 1..j - i + 1 : v[k] = s[a + i + k - 1]
    OBVIOUS
  <1> HIDE DEF t, v
  <1>3. u \in Seq(S) /\ Len(u) = j - i + 1 /\ \A k \in 1..j - i + 1 : u[k] = t[i + k - 1]
    BY <1>1
  <1> HIDE DEF u
  <1>4. ASSUME NEW k \in 1..j - i + 1 PROVE u[k] = v[k]
    <2>1. i + k - 1 \in 1..b - a /\ a + (i + k - 1) = a + i + k - 1
      OBVIOUS
    <2> QED BY <1>1, <1>2, <1>3, <2>1
  <1>5. u = v
    BY <1>2, <1>3, <1>4, SeqEqual
  <1> QED BY <1>5 DEF t, u, v

-----------------------------------------------------------------------------
(* FlattenSeq *)

\* h[i] joins the first i of seqs.
Joins(h, seqs, n) == h = [i \in 1..n |-> IF i = 1 THEN seqs[i] ELSE h[i - 1] \o seqs[i]]

LEMMA JoinsAt ==
  ASSUME NEW h, NEW seqs, NEW n \in Nat, Joins(h, seqs, n), NEW i \in 1..n
  PROVE  h[i] = IF i = 1 THEN seqs[i] ELSE h[i - 1] \o seqs[i]
  <1>1. h = [j \in 1..n |-> IF j = 1 THEN seqs[j] ELSE h[j - 1] \o seqs[j]]
    BY DEF Joins
  <1> QED BY <1>1

LEMMA JoinsExist ==
  ASSUME NEW S, NEW seqs \in Seq(Seq(S)), NEW n \in 0..Len(seqs)
  PROVE  \E h : Joins(h, seqs, n) /\ \A i \in 1..n : h[i] \in Seq(S)
  <1> DEFINE Good(k) == \E h : Joins(h, seqs, k) /\ \A i \in 1..k : h[i] \in Seq(S)
             Bad     == {k \in 0..Len(seqs) : ~Good(k)}
  <1> SUFFICES ASSUME Bad # {} PROVE FALSE
    OBVIOUS
  <1>1. PICK k \in Bad : \A u \in Bad : k <= u
    <2>1. Bad \in SUBSET Nat
      OBVIOUS
    <2> HIDE DEF Bad
    <2> QED BY <2>1, LeastOf
  <1>2. k \in 0..Len(seqs) /\ ~Good(k)
    OBVIOUS
  <1>3. Good(0)
    <2>1. Joins(<<>>, seqs, 0)
      BY DEF Joins
    <2> QED BY <2>1
  <1>4. k # 0 /\ k \in 1..Len(seqs)
    BY <1>2, <1>3
  <1>5. Good(k - 1)
    <2>1. k - 1 \in 0..Len(seqs) /\ ~(k <= k - 1)
      BY <1>4
    <2> QED BY <1>1, <2>1
  <1>6. PICK h : Joins(h, seqs, k - 1) /\ \A i \in 1..k - 1 : h[i] \in Seq(S)
    BY <1>5
  <1>7. k - 1 \in Nat
    BY <1>4
  <1> DEFINE last == IF k = 1 THEN seqs[k] ELSE h[k - 1] \o seqs[k]
             g    == [i \in 1..k |-> IF i = k THEN last ELSE h[i]]
  <1>8. last \in Seq(S)
    <2>1. seqs[k] \in Seq(S)
      BY <1>4
    <2>2. k # 1 => h[k - 1] \in Seq(S)
      BY <1>4, <1>6
    <2> QED BY <2>1, <2>2
  <1>9. \A i \in 1..k : g[i] = IF i = 1 THEN seqs[i] ELSE g[i - 1] \o seqs[i]
    <2> SUFFICES ASSUME NEW i \in 1..k
                 PROVE  g[i] = IF i = 1 THEN seqs[i] ELSE g[i - 1] \o seqs[i]
      OBVIOUS
    <2>1. i # 1 => g[i - 1] = h[i - 1]
      BY <1>4
    <2>2. CASE i = k
      BY <2>1, <2>2
    <2>3. CASE i # k
      <3>1. i \in 1..k - 1
        BY <1>4, <2>3
      <3>2. h[i] = IF i = 1 THEN seqs[i] ELSE h[i - 1] \o seqs[i]
        BY <1>6, <1>7, <3>1, JoinsAt
      <3> HIDE DEF last
      <3> QED BY <2>1, <2>3, <3>2
    <2> QED BY <2>2, <2>3
  <1>10. \A i \in 1..k : g[i] \in Seq(S)
    <2> HIDE DEF last
    <2> QED BY <1>4, <1>6, <1>8
  <1>11. Joins(g, seqs, k)
    <2>1. g = [i \in 1..k |-> g[i]]
      OBVIOUS
    <2> HIDE DEF g
    <2> QED BY <1>9, <2>1 DEF Joins
  <1> HIDE DEF g
  <1> QED BY <1>2, <1>10, <1>11

LEMMA FlattenIs ==
  ASSUME NEW S, NEW seqs \in Seq(Seq(S)), NEW h, Joins(h, seqs, Len(seqs)), Len(seqs) # 0
  PROVE  FlattenSeq(seqs) = h[Len(seqs)]
  <1> DEFINE n == Len(seqs)
  <1>0. n \in Nat
    OBVIOUS
  <1>1. PICK f : f = (CHOOSE g : Joins(g, seqs, n)) /\ Joins(f, seqs, n)
    OBVIOUS
  <1>2. FlattenSeq(seqs) = f[n]
    BY <1>1 DEF FlattenSeq, Joins
  <1>3. f[n] = h[n]
    <2> DEFINE Bad == {i \in 1..n : f[i] # h[i]}
    <2> SUFFICES ASSUME Bad # {} PROVE FALSE
      BY <1>0
    <2>1. PICK i \in Bad : \A u \in Bad : i <= u
      <3>1. Bad \in SUBSET Nat
        OBVIOUS
      <3> HIDE DEF Bad
      <3> QED BY <3>1, LeastOf
    <2>2. i \in 1..n /\ f[i] # h[i]
      OBVIOUS
    <2>3. /\ f[i] = IF i = 1 THEN seqs[i] ELSE f[i - 1] \o seqs[i]
          /\ h[i] = IF i = 1 THEN seqs[i] ELSE h[i - 1] \o seqs[i]
      BY <1>0, <1>1, <2>2, JoinsAt
    <2>4. i # 1 /\ f[i - 1] # h[i - 1]
      BY <2>2, <2>3
    <2>5. i - 1 \in Bad /\ ~(i <= i - 1)
      BY <2>2, <2>4
    <2> QED BY <2>1, <2>5
  <1> QED BY <1>2, <1>3

LEMMA FlattenType ==
  ASSUME NEW S, NEW seqs \in Seq(Seq(S))
  PROVE  FlattenSeq(seqs) \in Seq(S)
  <1>1. CASE Len(seqs) = 0
    <2>1. seqs = <<>>
      BY <1>1
    <2> QED BY <2>1, <1>1 DEF FlattenSeq
  <1>2. CASE Len(seqs) # 0
    <2>1. Len(seqs) \in 0..Len(seqs) /\ Len(seqs) \in 1..Len(seqs)
      BY <1>2
    <2>2. PICK h : Joins(h, seqs, Len(seqs)) /\ \A i \in 1..Len(seqs) : h[i] \in Seq(S)
      BY <2>1, JoinsExist
    <2> QED BY <1>2, <2>1, <2>2, FlattenIs
  <1> QED BY <1>1, <1>2

LEMMA FlattenAppend ==
  ASSUME NEW S, NEW seqs \in Seq(Seq(S)), NEW t \in Seq(S)
  PROVE  FlattenSeq(Append(seqs, t)) = FlattenSeq(seqs) \o t
  <1> DEFINE n == Len(seqs)
             more == Append(seqs, t)
  <1>0. n \in Nat /\ more \in Seq(Seq(S)) /\ Len(more) = n + 1
    OBVIOUS
  <1>1. (\A i \in 1..n : more[i] = seqs[i]) /\ more[n + 1] = t
    OBVIOUS
  <1> HIDE DEF more
  <1>2. PICK h : Joins(h, more, n + 1)
    <2>1. n + 1 \in 0..Len(more)
      BY <1>0
    <2> QED BY <1>0, <2>1, JoinsExist
  <1>3. FlattenSeq(more) = h[n + 1]
    BY <1>0, <1>2, FlattenIs
  <1>4. h[n + 1] = IF n = 0 THEN t ELSE h[n] \o t
    <2>1. n + 1 \in Nat /\ n + 1 \in 1..n + 1 /\ (n + 1) - 1 = n
      BY <1>0
    <2> QED BY <1>0, <1>1, <1>2, <2>1, JoinsAt
  <1>5. CASE n = 0
    <2>1. seqs = <<>> /\ FlattenSeq(seqs) = <<>>
      BY <1>5 DEF FlattenSeq
    <2>2. <<>> \o t = t
      OBVIOUS
    <2> QED BY <1>3, <1>4, <1>5, <2>1, <2>2 DEF more
  <1>6. CASE n # 0
    <2> DEFINE r == [i \in 1..n |-> h[i]]
    <2>1. \A i \in 1..n : r[i] = IF i = 1 THEN seqs[i] ELSE r[i - 1] \o seqs[i]
      <3> SUFFICES ASSUME NEW i \in 1..n
                   PROVE  r[i] = IF i = 1 THEN seqs[i] ELSE r[i - 1] \o seqs[i]
        OBVIOUS
      <3>1. h[i] = IF i = 1 THEN more[i] ELSE h[i - 1] \o more[i]
        <4>1. i \in 1..n + 1 /\ n + 1 \in Nat
          BY <1>0
        <4> QED BY <1>2, <4>1, JoinsAt
      <3>2. i # 1 => r[i - 1] = h[i - 1]
        BY <1>0
      <3> QED BY <1>1, <3>1, <3>2
    <2>2. Joins(r, seqs, n)
      <3>1. r = [i \in 1..n |-> r[i]]
        OBVIOUS
      <3> HIDE DEF r
      <3> QED BY <2>1, <3>1 DEF Joins
    <2>3. FlattenSeq(seqs) = r[n] /\ r[n] = h[n]
      BY <1>0, <1>6, <2>2, FlattenIs
    <2> QED BY <1>3, <1>4, <1>6, <2>3 DEF more
  <1> QED BY <1>5, <1>6

LEMMA UptoNext ==
  ASSUME NEW S, NEW s \in Seq(S), NEW i \in 1..Len(s)
  PROVE  /\ i = 1 => Upto(s, i) = <<s[i]>>
         /\ i # 1 => Upto(s, i) = Upto(s, i - 1) \o <<s[i]>>
  <1>1. \A j \in 1..Len(s) : s[j] \in S
    BY ElementOfSeq
  <1>2. \A j \in 0..Len(s) : Upto(s, j) \in Seq(S) /\ Len(Upto(s, j)) = j
    BY <1>1 DEF Upto
  <1>3. <<s[i]>> \in Seq(S) /\ Len(<<s[i]>>) = 1 /\ <<s[i]>>[1] = s[i]
    BY <1>1
  <1>4. CASE i = 1
    <2>1. Upto(s, 1) \in Seq(S) /\ Len(Upto(s, 1)) = 1 /\ Upto(s, 1)[1] = s[1]
      BY <1>2, <1>4 DEF Upto
    <2>2. Upto(s, 1) = <<s[1]>>
      BY <2>1, <1>3, <1>4, SeqEqual
    <2> QED BY <2>2, <1>4
  <1>5. CASE i # 1
    <2> DEFINE t == Upto(s, i - 1)
    <2>1. t \in Seq(S) /\ Len(t) = i - 1 /\ Upto(s, i) \in Seq(S) /\ Len(Upto(s, i)) = i
      BY <1>2, <1>5
    <2>2. \A j \in 1..i - 1 : t[j] = s[j]
      BY DEF Upto
    <2>3. \A j \in 1..i : Upto(s, i)[j] = s[j]
      BY DEF Upto
    <2> HIDE DEF t
    <2>4. /\ t \o <<s[i]>> \in Seq(S)
          /\ Len(t \o <<s[i]>>) = i
          /\ \A j \in 1..i : (t \o <<s[i]>>)[j] = s[j]
      <3>1. t \o <<s[i]>> \in Seq(S) /\ Len(t \o <<s[i]>>) = i
        BY <2>1, <1>3
      <3>2. ASSUME NEW j \in 1..i PROVE (t \o <<s[i]>>)[j] = s[j]
        BY <2>1, <2>2, <1>3
      <3> QED BY <3>1, <3>2
    <2>5. Upto(s, i) = t \o <<s[i]>>
      BY <2>1, <2>3, <2>4, SeqEqual
    <2> QED BY <2>5, <1>5 DEF t
  <1> QED BY <1>4, <1>5

\* Sequences of one element each, joined, are those elements.
LEMMA FlattenSingles ==
  ASSUME NEW S, NEW s \in Seq(S), NEW seqs \in Seq(Seq(S)),
         Len(seqs) = Len(s), \A i \in 1..Len(s) : seqs[i] = <<s[i]>>
  PROVE  FlattenSeq(seqs) = s
  <1> DEFINE n == Len(s)
             g == [i \in 1..n |-> Upto(s, i)]
  <1>0. n \in Nat
    OBVIOUS
  <1>1. CASE n = 0
    <2>1. s = <<>> /\ seqs = <<>>
      BY <1>1
    <2> QED BY <2>1 DEF FlattenSeq
  <1>2. CASE n # 0
    <2>1. ASSUME NEW i \in 1..n
          PROVE  g[i] = IF i = 1 THEN seqs[i] ELSE g[i - 1] \o seqs[i]
      <3>1. i # 1 => g[i - 1] = Upto(s, i - 1)
        OBVIOUS
      <3> QED BY <3>1, UptoNext
    <2>2. Joins(g, seqs, n)
      <3>1. g = [i \in 1..n |-> g[i]]
        OBVIOUS
      <3> HIDE DEF g
      <3> QED BY <2>1, <3>1 DEF Joins
    <2>3. FlattenSeq(seqs) = g[n]
      <3> HIDE DEF g
      <3> QED BY <1>2, <2>2, FlattenIs
    <2>4. g[n] = Upto(s, n)
      BY <1>0, <1>2
    <2>5. Upto(s, n) = s
      BY LenProperties DEF Upto
    <2> QED BY <2>3, <2>4, <2>5
  <1> QED BY <1>1, <1>2

\* c is n sequences.
Lists(c, n, S) == c = [i \in 1..n |-> c[i]] /\ \A i \in 1..n : c[i] \in Seq(S)

\* They are joined one after the other.
JoinedUpto(c, n, S) ==
  /\ Upto(c, n) = c
  /\ FlattenSeq(Upto(c, 0)) = <<>>
  /\ \A k \in 0..n : FlattenSeq(Upto(c, k)) \in Seq(S)
  /\ \A k \in 1..n : FlattenSeq(Upto(c, k)) = FlattenSeq(Upto(c, k - 1)) \o c[k]

LEMMA FlattenUpto ==
  ASSUME NEW S, NEW n \in Nat, NEW c, Lists(c, n, S)
  PROVE  JoinedUpto(c, n, S)
  <1>0. c = [i \in 1..n |-> c[i]] /\ \A i \in 1..n : c[i] \in Seq(S)
    BY DEF Lists
  <1>1. \A k \in Nat : \A g : g = [i \in 1..k |-> g[i]] /\ (\A i \in 1..k : g[i] \in Seq(S))
                              => g \in Seq(Seq(S)) /\ Len(g) = k
    <2> SUFFICES ASSUME NEW k \in Nat, NEW g, g = [i \in 1..k |-> g[i]],
                        \A i \in 1..k : g[i] \in Seq(S)
                 PROVE  g \in Seq(Seq(S)) /\ Len(g) = k
      OBVIOUS
    <2>1. \A T : \A h \in [1..k -> T] : h \in Seq(T)
      BY SeqDef
    <2>2. g \in [1..k -> Seq(S)]
      OBVIOUS
    <2>3. g \in Seq(Seq(S)) /\ DOMAIN g = 1..k
      BY <2>1, <2>2
    <2> QED BY <2>3, LenProperties
  <1>2. ASSUME NEW k \in 0..n
        PROVE  /\ Upto(c, k) \in Seq(Seq(S)) /\ Len(Upto(c, k)) = k
               /\ \A i \in 1..k : Upto(c, k)[i] = c[i]
    <2> DEFINE g == Upto(c, k)
    <2>1. g = [i \in 1..k |-> g[i]] /\ \A i \in 1..k : g[i] = c[i]
      BY DEF Upto
    <2>2. k \in Nat /\ \A i \in 1..k : c[i] \in Seq(S)
      BY <1>0
    <2> HIDE DEF g
    <2>3. g \in Seq(Seq(S)) /\ Len(g) = k
      BY <1>1, <2>1, <2>2
    <2> QED BY <2>1, <2>3 DEF g
  <1>3. Upto(c, n) = c
    BY <1>0 DEF Upto
  <1>4. FlattenSeq(Upto(c, 0)) = <<>>
    <2>1. Upto(c, 0) = <<>>
      BY <1>2
    <2> QED BY <2>1 DEF FlattenSeq
  <1>5. \A k \in 0..n : FlattenSeq(Upto(c, k)) \in Seq(S)
    BY <1>2, FlattenType
  <1>6. ASSUME NEW k \in 1..n
        PROVE  FlattenSeq(Upto(c, k)) = FlattenSeq(Upto(c, k - 1)) \o c[k]
    <2> DEFINE g == Upto(c, k)
               h == Upto(c, k - 1)
    <2>1. k - 1 \in 0..n /\ k \in 0..n /\ c[k] \in Seq(S)
      BY <1>0
    <2>2. /\ g \in Seq(Seq(S)) /\ Len(g) = k /\ \A i \in 1..k : g[i] = c[i]
          /\ h \in Seq(Seq(S)) /\ Len(h) = k - 1 /\ \A i \in 1..k - 1 : h[i] = c[i]
      BY <1>2, <2>1
    <2> HIDE DEF g, h
    <2>3. /\ Append(h, c[k]) \in Seq(Seq(S)) /\ Len(Append(h, c[k])) = k
          /\ \A i \in 1..k : Append(h, c[k])[i] = c[i]
      <3>1. Append(h, c[k]) \in Seq(Seq(S)) /\ Len(Append(h, c[k])) = k
        BY <2>1, <2>2, AppendProperties
      <3>2. Append(h, c[k])[k] = c[k]
        BY <2>1, <2>2, AppendProperties
      <3>3. ASSUME NEW i \in 1..k - 1 PROVE Append(h, c[k])[i] = c[i]
        <4>2. h \in Seq(Seq(S)) /\ i \in 1..Len(h)
          BY <2>2
        <4>3. Append(h, c[k])[i] = h[i]
          BY <2>1, <4>2, AppendProperties
        <4>4. h[i] = c[i]
          BY <2>2
        <4> QED BY <4>3, <4>4
      <3>4. \A i \in 1..k : i = k \/ i \in 1..k - 1
        BY <2>1
      <3> QED BY <3>1, <3>2, <3>3, <3>4
    <2>4. g = Append(h, c[k])
      <3>1. \A a, b \in Seq(Seq(S)) :
              Len(a) = Len(b) /\ (\A i \in 1..Len(a) : a[i] = b[i]) => a = b
        BY SeqEqual
      <3>2. Len(g) = Len(Append(h, c[k])) /\ \A i \in 1..Len(g) : g[i] = Append(h, c[k])[i]
        BY <2>2, <2>3
      <3> QED BY <2>2, <2>3, <3>1, <3>2
    <2> QED BY <2>1, <2>2, <2>4, FlattenAppend DEF g, h
  <1> QED BY <1>3, <1>4, <1>5, <1>6 DEF JoinedUpto

-----------------------------------------------------------------------------
(* The folds are recursive functions on the subsets of a set.  Two of them   *)
(* are the same if they are on a set whenever they are on the set without    *)
(* one of its elements, which the fold may choose as it likes.               *)

\* f and g go on alike.
Steps(f, g, D) ==
  \A s \in SUBSET D : s # {} => \E x \in s : f[s \ {x}] = g[s \ {x}] => f[s] = g[s]

LEMMA SameFold ==
  ASSUME NEW D, IsFiniteSet(D), NEW f, NEW g, f[{}] = g[{}], Steps(f, g, D)
  PROVE  \A s \in SUBSET D : f[s] = g[s]
  <1> DEFINE Bad == {s \in SUBSET D : f[s] # g[s]}
             T   == {Cardinality(s) : s \in Bad}
  <1> SUFFICES ASSUME Bad # {} PROVE FALSE
    OBVIOUS
  <1>1. \A s \in SUBSET D : IsFiniteSet(s) /\ Cardinality(s) \in Nat
    BY FS_Subset, FS_CardinalityType
  <1>2. PICK t \in T : \A u \in T : t <= u
    <2>1. T \in SUBSET Nat /\ T # {}
      BY <1>1
    <2> HIDE DEF T
    <2> QED BY <2>1, LeastOf
  <1>3. PICK s \in Bad : t = Cardinality(s)
    OBVIOUS
  <1>4. s \in SUBSET D /\ f[s] # g[s] /\ s # {}
    OBVIOUS
  <1>5. PICK x \in s : f[s \ {x}] = g[s \ {x}] => f[s] = g[s]
    BY <1>4 DEF Steps
  <1>6. Cardinality(s \ {x}) = Cardinality(s) - 1 /\ s \ {x} \in SUBSET D
    BY <1>1, <1>4, FS_RemoveElement
  <1>7. s \ {x} \in Bad
    BY <1>4, <1>5, <1>6
  <1>8. t <= t - 1 /\ t \in Nat
    <2>1. Cardinality(s \ {x}) \in T
      BY <1>7
    <2> HIDE DEF T, Bad
    <2> QED BY <1>1, <1>2, <1>3, <1>4, <1>6, <2>1
  <1> QED BY <1>8

-----------------------------------------------------------------------------
(* Sums *)

\* h[i] is the sum of the first i of w.
Sums(h, w, n) == h = [i \in 0..n |-> IF i = 0 THEN 0 ELSE h[i - 1] + w[i]]

Total(w, n) == (CHOOSE h : Sums(h, w, n))[n]

LEMMA SumsAt ==
  ASSUME NEW h, NEW w, NEW n \in Nat, Sums(h, w, n), NEW i \in 0..n
  PROVE  h[i] = IF i = 0 THEN 0 ELSE h[i - 1] + w[i]
  <1>1. h = [j \in 0..n |-> IF j = 0 THEN 0 ELSE h[j - 1] + w[j]]
    BY DEF Sums
  <1> QED BY <1>1

LEMMA SumsExist ==
  ASSUME NEW n \in Nat, NEW w, \A i \in 1..n : w[i] \in Nat, NEW m \in 0..n
  PROVE  \E h : Sums(h, w, m) /\ \A i \in 0..m : h[i] \in Nat
  <1> DEFINE Good(k) == \E h : Sums(h, w, k) /\ \A i \in 0..k : h[i] \in Nat
             Bad     == {k \in 0..n : ~Good(k)}
  <1> SUFFICES ASSUME Bad # {} PROVE FALSE
    OBVIOUS
  <1>1. PICK k \in Bad : \A u \in Bad : k <= u
    <2>1. Bad \in SUBSET Nat
      OBVIOUS
    <2> HIDE DEF Bad
    <2> QED BY <2>1, LeastOf
  <1>2. k \in 0..n /\ ~Good(k)
    OBVIOUS
  <1>3. Good(0)
    <2> DEFINE z == [i \in 0..0 |-> 0]
    <2>1. z = [i \in 0..0 |-> IF i = 0 THEN 0 ELSE z[i - 1] + w[i]]
      OBVIOUS
    <2>2. \A i \in 0..0 : z[i] \in Nat
      OBVIOUS
    <2> HIDE DEF z
    <2> QED BY <2>1, <2>2 DEF Sums
  <1>4. k # 0 /\ k \in 1..n /\ k - 1 \in Nat
    BY <1>2, <1>3
  <1>5. Good(k - 1)
    <2>1. k - 1 \in 0..n /\ ~(k <= k - 1)
      BY <1>4
    <2> QED BY <1>1, <2>1
  <1>6. PICK h : Sums(h, w, k - 1) /\ \A i \in 0..k - 1 : h[i] \in Nat
    BY <1>5
  <1> DEFINE g == [i \in 0..k |-> IF i = k THEN h[k - 1] + w[k] ELSE h[i]]
  <1>7. \A i \in 0..k : g[i] = IF i = 0 THEN 0 ELSE g[i - 1] + w[i]
    <2> SUFFICES ASSUME NEW i \in 0..k PROVE g[i] = IF i = 0 THEN 0 ELSE g[i - 1] + w[i]
      OBVIOUS
    <2>1. i # 0 => g[i - 1] = h[i - 1]
      BY <1>4
    <2>2. CASE i = k
      BY <1>4, <2>1, <2>2
    <2>3. CASE i # k
      <3>1. i \in 0..k - 1
        BY <1>4, <2>3
      <3>2. h[i] = IF i = 0 THEN 0 ELSE h[i - 1] + w[i]
        BY <1>4, <1>6, <3>1, SumsAt
      <3> QED BY <2>1, <2>3, <3>2
    <2> QED BY <2>2, <2>3
  <1>8. \A i \in 0..k : g[i] \in Nat
    <2>1. w[k] \in Nat /\ h[k - 1] \in Nat
      BY <1>4, <1>6
    <2> QED BY <1>4, <1>6, <2>1
  <1>9. Sums(g, w, k)
    <2>1. g = [i \in 0..k |-> g[i]]
      OBVIOUS
    <2> HIDE DEF g
    <2> QED BY <1>7, <2>1 DEF Sums
  <1> HIDE DEF g
  <1> QED BY <1>2, <1>8, <1>9

\* Sums of what is alike are alike.
LEMMA SumsAgree ==
  ASSUME NEW n \in Nat, NEW m \in Nat, NEW w, NEW v, NEW h, NEW g,
         Sums(h, w, n), Sums(g, v, m), NEW k \in 0..n, k <= m,
         \A i \in 1..k : w[i] = v[i]
  PROVE  h[k] = g[k]
  <1> DEFINE Bad == {i \in 0..k : h[i] # g[i]}
  <1> SUFFICES ASSUME Bad # {} PROVE FALSE
    OBVIOUS
  <1>1. PICK i \in Bad : \A u \in Bad : i <= u
    <2>1. Bad \in SUBSET Nat
      OBVIOUS
    <2> HIDE DEF Bad
    <2> QED BY <2>1, LeastOf
  <1>2. i \in 0..k /\ h[i] # g[i] /\ i \in 0..n /\ i \in 0..m
    OBVIOUS
  <1>3. /\ h[i] = IF i = 0 THEN 0 ELSE h[i - 1] + w[i]
        /\ g[i] = IF i = 0 THEN 0 ELSE g[i - 1] + v[i]
    BY <1>2, SumsAt
  <1>4. i # 0 /\ h[i - 1] # g[i - 1]
    BY <1>2, <1>3
  <1>5. i - 1 \in Bad /\ ~(i <= i - 1)
    BY <1>2, <1>4
  <1> QED BY <1>1, <1>5

LEMMA TotalIs ==
  ASSUME NEW n \in Nat, NEW w, \A i \in 1..n : w[i] \in Nat
  PROVE  /\ Total(w, n) \in Nat
         /\ Total(w, 0) = 0
         /\ \A k \in 1..n : Total(w, k) = Total(w, k - 1) + w[k]
  <1>1. ASSUME NEW m \in 0..n
        PROVE  \E h : Sums(h, w, m) /\ Total(w, m) = h[m] /\ h[m] \in Nat
    <2>1. PICK g : Sums(g, w, m) /\ \A i \in 0..m : g[i] \in Nat
      BY SumsExist
    <2>2. Sums(CHOOSE h : Sums(h, w, m), w, m)
      BY <2>1
    <2>3. m \in Nat /\ m \in 0..m /\ \A i \in 1..m : w[i] = w[i]
      OBVIOUS
    <2>4. Total(w, m) = g[m]
      BY <2>1, <2>2, <2>3, SumsAgree DEF Total
    <2> QED BY <2>1, <2>3, <2>4
  <1>2. Total(w, n) \in Nat
    BY <1>1
  <1>3. Total(w, 0) = 0
    <2>1. 0 \in 0..n /\ 0 \in Nat /\ 0 \in 0..0
      OBVIOUS
    <2>2. PICK h : Sums(h, w, 0) /\ Total(w, 0) = h[0]
      BY <1>1, <2>1
    <2> QED BY <2>1, <2>2, SumsAt
  <1>4. ASSUME NEW k \in 1..n PROVE Total(w, k) = Total(w, k - 1) + w[k]
    <2>1. k \in 0..n /\ k - 1 \in 0..n /\ k \in Nat /\ k - 1 \in Nat
      OBVIOUS
    <2>2. PICK h : Sums(h, w, k) /\ Total(w, k) = h[k]
      BY <1>1, <2>1
    <2>3. PICK g : Sums(g, w, k - 1) /\ Total(w, k - 1) = g[k - 1]
      BY <1>1, <2>1
    <2>4. h[k] = h[k - 1] + w[k]
      BY <2>1, <2>2, SumsAt
    <2>5. h[k - 1] = g[k - 1]
      <3>1. k - 1 \in 0..k /\ k - 1 <= k - 1 /\ \A i \in 1..k - 1 : w[i] = w[i]
        OBVIOUS
      <3> QED BY <2>1, <2>2, <2>3, <3>1, SumsAgree
    <2> QED BY <2>2, <2>3, <2>4, <2>5
  <1> QED BY <1>2, <1>3, <1>4

LEMMA TotalAgrees ==
  ASSUME NEW n \in Nat, NEW w, NEW v,
         \A i \in 1..n : w[i] \in Nat /\ w[i] = v[i]
  PROVE  Total(w, n) = Total(v, n)
  <1>1. n \in 0..n
    OBVIOUS
  <1>2. (\E h : Sums(h, w, n)) /\ (\E h : Sums(h, v, n))
    BY <1>1, SumsExist
  <1>3. Sums(CHOOSE h : Sums(h, w, n), w, n) /\ Sums(CHOOSE h : Sums(h, v, n), v, n)
    BY <1>2
  <1> QED BY <1>1, <1>3, SumsAgree DEF Total

\* The sum over a set of places: the others count nothing.
Only(w, s, n) == [i \in 1..n |-> IF i \in s THEN w[i] ELSE 0]
TotalOf(w, s, n) == Total(Only(w, s, n), n)

LEMMA TotalOfIs ==
  ASSUME NEW n \in Nat, NEW w, \A i \in 1..n : w[i] \in Nat
  PROVE  /\ \A s : TotalOf(w, s, n) \in Nat
         /\ TotalOf(w, {}, n) = 0
         /\ TotalOf(w, 1..n, n) = Total(w, n)
         /\ \A s : \A x \in s : x \in 1..n => TotalOf(w, s, n) = w[x] + TotalOf(w, s \ {x}, n)
  <1>1. \A s : \A i \in 1..n : Only(w, s, n)[i] \in Nat /\ Only(w, s, n)[i] = IF i \in s THEN w[i] ELSE 0
    BY DEF Only
  <1>2. ASSUME NEW s
        PROVE  /\ TotalOf(w, s, n) \in Nat
               /\ Total(Only(w, s, n), 0) = 0
               /\ \A k \in 1..n : Total(Only(w, s, n), k) =
                    Total(Only(w, s, n), k - 1) + IF k \in s THEN w[k] ELSE 0
               /\ \A k \in 0..n : Total(Only(w, s, n), k) \in Nat
    <2> DEFINE v == Only(w, s, n)
    <2>1. \A i \in 1..n : v[i] \in Nat /\ v[i] = IF i \in s THEN w[i] ELSE 0
      BY <1>1
    <2> HIDE DEF v
    <2>2. Total(v, n) \in Nat /\ Total(v, 0) = 0 /\ \A k \in 1..n : Total(v, k) = Total(v, k - 1) + v[k]
      BY <2>1, TotalIs
    <2>3. ASSUME NEW k \in 0..n PROVE Total(v, k) \in Nat
      <3>1. k \in Nat /\ \A i \in 1..k : v[i] \in Nat
        BY <2>1
      <3> QED BY <3>1, TotalIs
    <2>4. \A k \in 1..n : Total(v, k) = Total(v, k - 1) + IF k \in s THEN w[k] ELSE 0
      BY <2>1, <2>2
    <2> QED BY <2>2, <2>3, <2>4 DEF v, TotalOf
  <1>3. TotalOf(w, {}, n) = 0
    <2> DEFINE v   == Only(w, {}, n)
               Bad == {k \in 0..n : Total(v, k) # 0}
    <2>1. Total(v, 0) = 0 /\ \A k \in 1..n : Total(v, k) = Total(v, k - 1) + 0
      BY <1>2
    <2> HIDE DEF v
    <2>2. ASSUME Bad # {} PROVE FALSE
      <3>1. PICK k \in Bad : \A u \in Bad : k <= u
        <4>1. Bad \in SUBSET Nat
          OBVIOUS
        <4> HIDE DEF Bad
        <4> QED BY <2>2, <4>1, LeastOf
      <3>2. k \in 1..n /\ Total(v, k) # 0
        BY <2>1
      <3>3. k - 1 \in 0..n /\ ~(k <= k - 1)
        BY <3>2
      <3>4. Total(v, k - 1) = 0
        BY <3>1, <3>3
      <3> QED BY <2>1, <3>2, <3>4
    <2>3. n \in 0..n
      OBVIOUS
    <2> QED BY <2>2, <2>3 DEF TotalOf, v
  <1>4. TotalOf(w, 1..n, n) = Total(w, n)
    <2> DEFINE v == Only(w, 1..n, n)
    <2>1. \A i \in 1..n : v[i] \in Nat /\ v[i] = w[i]
      BY <1>1
    <2> HIDE DEF v
    <2>2. Total(v, n) = Total(w, n)
      BY <2>1, TotalAgrees
    <2> QED BY <2>2 DEF v, TotalOf
  <1>5. ASSUME NEW s, NEW x \in s, x \in 1..n
        PROVE  TotalOf(w, s, n) = w[x] + TotalOf(w, s \ {x}, n)
    <2> DEFINE a == Only(w, s, n)
               b == Only(w, s \ {x}, n)
               More(k) == IF x <= k THEN w[x] ELSE 0
               Bad == {k \in 0..n : Total(a, k) # More(k) + Total(b, k)}
    <2>1. /\ Total(a, 0) = 0
          /\ \A k \in 1..n : Total(a, k) = Total(a, k - 1) + IF k \in s THEN w[k] ELSE 0
          /\ \A k \in 0..n : Total(a, k) \in Nat
      BY <1>2
    <2>2. /\ Total(b, 0) = 0
          /\ \A k \in 1..n : Total(b, k) = Total(b, k - 1) + IF k \in s \ {x} THEN w[k] ELSE 0
          /\ \A k \in 0..n : Total(b, k) \in Nat
      BY <1>2
    <2>3. w[x] \in Nat /\ More(0) = 0
      BY <1>5
    <2> HIDE DEF a, b
    <2>4. ASSUME Bad # {} PROVE FALSE
      <3>1. PICK k \in Bad : \A u \in Bad : k <= u
        <4>1. Bad \in SUBSET Nat
          OBVIOUS
        <4> HIDE DEF Bad
        <4> QED BY <2>4, <4>1, LeastOf
      <3>2. k \in 0..n /\ Total(a, k) # More(k) + Total(b, k)
        OBVIOUS
      <3>3. k \in 1..n
        BY <2>1, <2>2, <2>3, <3>2
      <3>4. k - 1 \in 0..n /\ ~(k <= k - 1)
        BY <3>3
      <3>5. Total(a, k - 1) = More(k - 1) + Total(b, k - 1)
        BY <3>1, <3>4
      <3>6. Total(a, k - 1) \in Nat /\ Total(b, k - 1) \in Nat
        BY <2>1, <2>2, <3>4
      <3>7. CASE k = x
        <4>1. Total(a, k) = Total(a, k - 1) + w[k] /\ Total(b, k) = Total(b, k - 1) + 0
          BY <2>1, <2>2, <3>3, <3>7
        <4>2. More(k) = w[k] /\ More(k - 1) = 0
          BY <3>3, <3>7
        <4> HIDE DEF More
        <4> QED BY <2>3, <3>2, <3>5, <3>6, <3>7, <4>1, <4>2
      <3>8. CASE k # x
        <4>1. More(k) = More(k - 1) /\ More(k) \in Nat
          BY <1>5, <2>3, <3>3, <3>8
        <4>2. k \in s <=> k \in s \ {x}
          BY <3>8
        <4>3. w[k] \in Nat
          BY <3>3
        <4> HIDE DEF More
        <4> QED BY <2>1, <2>2, <3>2, <3>3, <3>5, <3>6, <4>1, <4>2, <4>3
      <3> QED BY <3>7, <3>8
    <2>5. n \in 0..n /\ More(n) = w[x]
      BY <1>5
    <2>6. Total(a, n) = More(n) + Total(b, n)
      <3> HIDE DEF More
      <3> QED BY <2>4, <2>5
    <2> HIDE DEF More
    <2> QED BY <2>5, <2>6 DEF TotalOf, a, b
  <1> QED BY <1>2, <1>3, <1>4, <1>5

\* f goes on from a set without one of its places to that set, adding what is there.
Adds(f, w, D) ==
  /\ f[{}] = 0
  /\ \A s \in SUBSET D : s # {} =>
       \E x \in s : f[s \ {x}] \in Nat => f[s] = w[x] + f[s \ {x}]

LEMMA SumOver ==
  ASSUME NEW n \in Nat, NEW w, \A i \in 1..n : w[i] \in Nat, NEW D \in SUBSET (1..n),
         NEW f, Adds(f, w, D)
  PROVE  f[D] = TotalOf(w, D, n)
  <1> DEFINE g == [s \in SUBSET D |-> TotalOf(w, s, n)]
  <1>1. /\ \A s : TotalOf(w, s, n) \in Nat
        /\ TotalOf(w, {}, n) = 0
        /\ \A s : \A x \in s : x \in 1..n => TotalOf(w, s, n) = w[x] + TotalOf(w, s \ {x}, n)
    BY TotalOfIs
  <1>2. IsFiniteSet(D)
    <2>1. IsFiniteSet(1..n)
      BY FS_Interval
    <2> QED BY <2>1, FS_Subset
  <1>3. f[{}] = g[{}]
    BY <1>1 DEF Adds
  <1>4. ASSUME NEW s \in SUBSET D, s # {}
        PROVE  \E x \in s : f[s \ {x}] = g[s \ {x}] => f[s] = g[s]
    <2>1. PICK x \in s : f[s \ {x}] \in Nat => f[s] = w[x] + f[s \ {x}]
      BY <1>4 DEF Adds
    <2>2. g[s] = w[x] + g[s \ {x}] /\ g[s \ {x}] \in Nat
      <3>1. s \ {x} \in SUBSET D /\ x \in 1..n
        OBVIOUS
      <3> QED BY <1>1, <3>1
    <2> HIDE DEF g
    <2> QED BY <2>1, <2>2
  <1>5. \A s \in SUBSET D : f[s] = g[s]
    <2> HIDE DEF g
    <2>1. Steps(f, g, D)
      BY <1>4 DEF Steps
    <2>2. f[{}] = g[{}]
      BY <1>3
    <2>3. \A E, h : IsFiniteSet(E) /\ f[{}] = h[{}] /\ Steps(f, h, E) => \A s \in SUBSET E : f[s] = h[s]
      BY SameFold
    <2> QED BY <1>2, <2>1, <2>2, <2>3
  <1> QED BY <1>5
=============================================================================
