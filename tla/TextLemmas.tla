----------------------------- MODULE TextLemmas -----------------------------
(***************************************************************************)
(* Facts about numbers and sequences the proofs about the text functions   *)
(* share: the least and the largest index of a kind, pieces of a sequence, *)
(* and what the flattening of a sequence of sequences is made of.          *)
(*                                                                         *)
(* Induction takes the form of the least counterexample: a nonempty set of *)
(* naturals has a least element.                                           *)
(***************************************************************************)
EXTENDS Integers, Sequences, FiniteSetsExt, SequencesExt, WellFoundedInduction,
        SequenceTheorems, TLAPS

-----------------------------------------------------------------------------
(* Least and largest.                                                      *)

\* A nonempty set of naturals has a least element.
LEMMA LeastOfNat ==
  ASSUME NEW S \in SUBSET Nat, S # {}
  PROVE  \E n \in S : \A m \in S : n <= m
<1>1. PICK R : R = {p \in Nat \X Nat : p[1] < p[2]}
  OBVIOUS
<1>2. IsWellFoundedOn(R, Nat)
  BY NatLessThanWellFounded, <1>1 DEF OpToRel
<1>3. \A x, y \in Nat : x < y => <<x, y>> \in R
  BY <1>1
<1>4. PICK n \in S : \A m \in S : <<m, n>> \notin R
  BY <1>2, WFMin
<1>5. \A m \in S : n \in Nat /\ m \in Nat
  OBVIOUS
<1>6. \A m \in S : ~ (m < n)
  BY <1>3, <1>4, <1>5
<1>7. \A m \in S : n <= m
  BY <1>5, <1>6
<1>8. QED
  BY <1>7

\* Min is that element.
LEMMA MinIsLeast ==
  ASSUME NEW S \in SUBSET Nat, S # {}
  PROVE  Min(S) \in S /\ Min(S) \in Nat /\ \A m \in S : Min(S) <= m
<1>1. \E n \in S : \A m \in S : n <= m
  BY LeastOfNat
<1>2. Min(S) \in S /\ \A m \in S : Min(S) <= m
  BY <1>1 DEF Min
<1>3. QED
  BY <1>2

\* A nonempty set of naturals below a bound has a largest element: its distance
\* from the bound is the least.  Max is that element.
LEMMA MaxIsLargest ==
  ASSUME NEW b \in Nat, NEW S \in SUBSET (0..b), S # {}
  PROVE  Max(S) \in S /\ Max(S) \in Nat /\ \A m \in S : m <= Max(S)
<1>1. PICK D : D = {d \in Nat : b - d \in S}
  OBVIOUS
<1>2. D # {}
  <2>1. PICK m \in S : m \in 0..b
    OBVIOUS
  <2>2. b - m \in Nat /\ b - (b - m) = m
    BY <2>1
  <2>3. QED
    BY <1>1, <2>1, <2>2
<1>3. PICK d \in D : \A e \in D : d <= e
  BY <1>1, <1>2, LeastOfNat
<1>4. d \in Nat /\ b - d \in S
  BY <1>1, <1>3
<1>5. \A m \in S : m <= b - d
  <2>1. TAKE m \in S
  <2>2. m \in 0..b
    OBVIOUS
  <2>3. b - m \in Nat /\ b - (b - m) = m
    BY <2>2
  <2>4. b - m \in D
    BY <1>1, <2>3
  <2>5. d <= b - m
    BY <1>3, <2>4
  <2>6. QED
    BY <1>4, <2>2, <2>5
<1>6. \A m \in S : b - d >= m
  <2>1. TAKE m \in S
  <2>2. m <= b - d /\ m \in 0..b
    BY <1>5
  <2>3. QED
    BY <1>4, <2>2
<1>7. Max(S) \in S /\ \A m \in S : Max(S) >= m
  BY <1>4, <1>6 DEF Max
<1>8. Max(S) \in 0..b /\ \A m \in S : m \in 0..b
  BY <1>7
<1>9. QED
  BY <1>7, <1>8

-----------------------------------------------------------------------------
(* Parts of a sequence.                                                    *)

\* The piece at each place of a part.
LEMMA Part ==
  ASSUME NEW S, NEW q \in Seq(S), NEW a \in 1..Len(q), NEW c \in a..Len(q)
  PROVE  /\ SubSeq(q, a, c) \in Seq(S)
         /\ SubSeq(q, a, c) # << >>
         /\ Len(SubSeq(q, a, c)) = c - a + 1
         /\ \A i \in 1..c - a + 1 : SubSeq(q, a, c)[i] = q[a + i - 1]
         /\ \A i \in a..c : SubSeq(q, a, c)[i - a + 1] = q[i]
<1>1. a \in Int /\ c \in Int /\ \A i \in a..c : q[i] \in S
  OBVIOUS
<1>2. /\ SubSeq(q, a, c) \in Seq(S)
      /\ Len(SubSeq(q, a, c)) = c - a + 1
      /\ \A i \in 1..c - a + 1 : SubSeq(q, a, c)[i] = q[a + i - 1]
  BY <1>1, SubSeqProperties
<1>3. \A i \in a..c : i - a + 1 \in 1..c - a + 1 /\ a + (i - a + 1) - 1 = i
  OBVIOUS
<1>4. SubSeq(q, a, c) # << >>
  BY <1>2
<1>5. QED
  BY <1>2, <1>3, <1>4

\* A part of a part is a part.
LEMMA PartOfPart ==
  ASSUME NEW S, NEW q \in Seq(S), NEW a \in 1..Len(q), NEW c \in a..Len(q),
         NEW x \in 1..c - a + 1, NEW y \in x..c - a + 1
  PROVE  SubSeq(SubSeq(q, a, c), x, y) = SubSeq(q, a + x - 1, a + y - 1)
<1>1. a \in 1..Len(q) /\ c \in 1..Len(q) /\ x \in 1..c - a + 1 /\ y \in 1..c - a + 1
  OBVIOUS
<1>2. QED
  BY <1>1, SubSeqOfSubSeq

\* The pieces of a part, which may be empty.
LEMMA PiecesOfPart ==
  ASSUME NEW S, NEW q \in Seq(S), NEW a \in Nat, NEW c \in Int, 1 <= a, c <= Len(q)
  PROVE  /\ SubSeq(q, a, c) \in Seq(S)
         /\ Len(SubSeq(q, a, c)) = IF a <= c THEN c - a + 1 ELSE 0
         /\ \A i \in 1..c - a + 1 : SubSeq(q, a, c)[i] = q[a + i - 1]
         /\ ToSet(SubSeq(q, a, c)) = {q[i] : i \in a..c}
<1>1. Len(q) \in Nat /\ \A i \in a..c : i \in 1..Len(q) /\ q[i] \in S
  OBVIOUS
<1>2. PICK t : t = SubSeq(q, a, c)
  OBVIOUS
<1>3. /\ t \in Seq(S)
      /\ Len(t) = IF a <= c THEN c - a + 1 ELSE 0
      /\ \A i \in 1..c - a + 1 : t[i] = q[a + i - 1]
  BY <1>1, <1>2, SubSeqProperties
<1>4. DOMAIN t = 1..Len(t) /\ 1..Len(t) = 1..c - a + 1
  BY <1>1, <1>3
<1>5. \A i \in 1..c - a + 1 : a + i - 1 \in a..c
  OBVIOUS
<1>6. \A i \in a..c : i - a + 1 \in 1..c - a + 1 /\ a + (i - a + 1) - 1 = i
  OBVIOUS
<1>7. ToSet(t) \subseteq {q[i] : i \in a..c}
  BY <1>3, <1>4, <1>5 DEF ToSet
<1>8. {q[i] : i \in a..c} \subseteq ToSet(t)
  <2>1. SUFFICES ASSUME NEW i \in a..c PROVE q[i] \in ToSet(t)
    OBVIOUS
  <2>2. PICK k \in 1..c - a + 1 : a + k - 1 = i
    BY <1>6
  <2>3. t[k] = q[i] /\ k \in DOMAIN t
    BY <1>3, <1>4, <2>2
  <2>4. QED
    BY <2>3 DEF ToSet
<1>9. QED
  BY <1>2, <1>3, <1>7, <1>8

-----------------------------------------------------------------------------
(* What a sequence is put together from.                                   *)

\* Two sequences one behind the other.
LEMMA PiecesOfBoth ==
  ASSUME NEW S, NEW s \in Seq(S), NEW t \in Seq(S), NEW m \in Nat, NEW n \in Nat,
         m = Len(s), n = Len(t), NEW u, u = s \o t
  PROVE  /\ u \in Seq(S)
         /\ Len(u) = m + n
         /\ \A i \in 1..m : u[i] = s[i]
         /\ \A i \in 1..n : u[m + i] = t[i]
<1>1. /\ u \in Seq(S) /\ Len(u) = m + n
      /\ \A i \in 1..m + n : u[i] = IF i <= m THEN s[i] ELSE t[i - m]
  BY ConcatProperties
<1>2. \A i \in 1..n : m + i \in 1..m + n /\ ~ (m + i <= m) /\ m + i - m = i
  OBVIOUS
<1>3. \A i \in 1..m : i \in 1..m + n /\ i <= m
  OBVIOUS
<1>4. QED
  BY <1>1, <1>2, <1>3

\* The pieces of a prefix's prefix are pieces of the whole.
LEMMA PiecesOfPrefix ==
  ASSUME NEW a, NEW u, NEW v, NEW m \in Nat, NEW k \in Nat, m <= k,
         \A i \in 1..k : a[i] = u[i], \A i \in 1..m : u[i] = v[i]
  PROVE  \A i \in 1..m : a[i] = v[i]
<1>1. \A i \in 1..m : i \in 1..k
  OBVIOUS
<1>2. QED
  BY <1>1

\* And so are those of a part of that prefix that stands m pieces in.
LEMMA PiecesOfSuffix ==
  ASSUME NEW a, NEW u, NEW t, NEW m \in Nat, NEW n \in Nat, NEW k \in Nat, m + n <= k,
         \A i \in 1..k : a[i] = u[i], \A i \in 1..n : u[m + i] = t[i]
  PROVE  \A i \in 1..n : a[m + i] = t[i]
<1>1. \A i \in 1..n : m + i \in 1..k
  OBVIOUS
<1>2. QED
  BY <1>1

\* b stands in t, behind the first o pieces.
Embeds(b, t, o) == o + Len(b) <= Len(t) /\ \A j \in 1..Len(b) : t[o + j] = b[j]

\* Every one of the parts B stands somewhere in t, and every place of t is in one.
Tiled(t, B) ==
  /\ \A b \in B : \E o \in Nat : Embeds(b, t, o)
  /\ \A i \in 1..Len(t) : \E b \in B, o \in Nat : Embeds(b, t, o) /\ i \in o + 1 .. o + Len(b)

\* A sequence is its own part.
LEMMA TiledByItself ==
  ASSUME NEW S, NEW t \in Seq(S)
  PROVE  Tiled(t, {t})
<1>1. Len(t) \in Nat /\ 0 + Len(t) = Len(t)
  OBVIOUS
<1>2. Embeds(t, t, 0)
  BY <1>1 DEF Embeds
<1>3. QED
  BY <1>1, <1>2 DEF Tiled

\* Two sequences one behind the other are made of the parts of both.
LEMMA TiledConcat ==
  ASSUME NEW S, NEW s \in Seq(S), NEW t \in Seq(S),
         NEW B \in SUBSET Seq(S), NEW C \in SUBSET Seq(S), Tiled(s, B), Tiled(t, C)
  PROVE  Tiled(s \o t, B \cup C)
<1>1. PICK u : u = s \o t
  OBVIOUS
<1>2. PICK m \in Nat, n \in Nat : m = Len(s) /\ n = Len(t)
  OBVIOUS
<1>3. /\ Len(u) = m + n
      /\ \A i \in 1..m : u[i] = s[i]
      /\ \A i \in 1..n : u[m + i] = t[i]
  <2>1. Len(u) = m + n /\ \A i \in 1..m + n : u[i] = IF i <= m THEN s[i] ELSE t[i - m]
    BY <1>1, <1>2, ConcatProperties
  <2>2. \A i \in 1..n : m + i \in 1..m + n /\ ~ (m + i <= m) /\ m + i - m = i
    OBVIOUS
  <2>3. \A i \in 1..m : i \in 1..m + n /\ i <= m
    OBVIOUS
  <2>4. QED
    BY <2>1, <2>2, <2>3
<1>4. ASSUME NEW b \in B, NEW o \in Nat, Embeds(b, s, o) PROVE Embeds(b, u, o)
  <2>1. Len(b) \in Nat /\ o + Len(b) <= m /\ \A j \in 1..Len(b) : s[o + j] = b[j]
    BY <1>2, <1>4 DEF Embeds
  <2>2. \A j \in 1..Len(b) : o + j \in 1..m
    BY <2>1
  <2>3. QED
    BY <1>3, <2>1, <2>2 DEF Embeds
<1>5. ASSUME NEW c \in C, NEW o \in Nat, Embeds(c, t, o) PROVE Embeds(c, u, m + o)
  <2>1. Len(c) \in Nat /\ o + Len(c) <= n /\ \A j \in 1..Len(c) : t[o + j] = c[j]
    BY <1>2, <1>5 DEF Embeds
  <2>2. \A j \in 1..Len(c) : o + j \in 1..n /\ m + o + j = m + (o + j)
    BY <2>1
  <2>3. \A j \in 1..Len(c) : u[m + o + j] = c[j]
    BY <1>3, <2>1, <2>2
  <2>4. QED
    BY <1>3, <2>1, <2>3 DEF Embeds
<1>6. \A b \in B \cup C : \E o \in Nat : Embeds(b, u, o)
  <2>1. ASSUME NEW b \in B PROVE \E o \in Nat : Embeds(b, u, o)
    BY <1>4 DEF Tiled
  <2>2. ASSUME NEW c \in C PROVE \E o \in Nat : Embeds(c, u, o)
    <3>1. PICK o \in Nat : Embeds(c, t, o)
      BY DEF Tiled
    <3>2. m + o \in Nat
      OBVIOUS
    <3>3. QED
      BY <1>5, <3>1, <3>2
  <2>3. QED
    BY <2>1, <2>2
<1>7. ASSUME NEW i \in 1..Len(u)
      PROVE  \E b \in B \cup C, o \in Nat : Embeds(b, u, o) /\ i \in o + 1 .. o + Len(b)
  <2>1. CASE i <= m
    <3>1. i \in 1..Len(s)
      BY <1>2, <2>1
    <3>2. PICK b \in B, o \in Nat : Embeds(b, s, o) /\ i \in o + 1 .. o + Len(b)
      BY <3>1 DEF Tiled
    <3>3. QED
      BY <1>4, <3>2
  <2>2. CASE i > m
    <3>1. i - m \in 1..Len(t)
      BY <1>2, <1>3, <2>2
    <3>2. PICK c \in C, o \in Nat : Embeds(c, t, o) /\ i - m \in o + 1 .. o + Len(c)
      BY <3>1 DEF Tiled
    <3>3. Len(c) \in Nat /\ m + o \in Nat /\ i \in m + o + 1 .. m + o + Len(c)
      BY <1>3, <3>2
    <3>4. Embeds(c, u, m + o)
      BY <1>5, <3>2
    <3>5. QED
      BY <3>3, <3>4
  <2>3. QED
    BY <1>2, <1>3, <2>1, <2>2
<1>8. Tiled(u, B \cup C)
  BY <1>6, <1>7 DEF Tiled
<1>9. QED
  BY <1>1, <1>8

-----------------------------------------------------------------------------
(* FlattenSeq, by its recursion.                                           *)

FlatTo(ss, n, flat) ==
  flat = [i \in 1..n |-> IF i = 1 THEN ss[i] ELSE flat[i-1] \o ss[i]]

\* The recursion has a solution of every length: of none, and one more.
LEMMA FlatExists ==
  ASSUME NEW ss, NEW n \in Nat
  PROVE  \E flat : FlatTo(ss, n, flat)
<1>1. PICK W : W = {k \in Nat : ~ \E flat : FlatTo(ss, k, flat)}
  OBVIOUS
<1>2. SUFFICES ASSUME W # {} PROVE FALSE
  BY <1>1
<1>3. PICK k \in W : \A i \in W : k <= i
  BY <1>1, <1>2, LeastOfNat
<1>4. k \in Nat /\ ~ \E flat : FlatTo(ss, k, flat)
  BY <1>1, <1>3
<1>5. ASSUME k = 0 PROVE FALSE
  <2>1. PICK f : f = [i \in 1..0 |-> ss[i]]
    OBVIOUS
  <2>2. 1..0 = {}
    OBVIOUS
  <2>3. FlatTo(ss, 0, f)
    BY <2>1, <2>2 DEF FlatTo
  <2>4. QED
    BY <1>4, <1>5, <2>3
<1>6. k # 0
  BY <1>5
<1>7. k - 1 \in Nat /\ k - 1 \notin W
  BY <1>3, <1>4, <1>6
<1>8. PICK g : FlatTo(ss, k - 1, g)
  BY <1>1, <1>7
<1>9. \A i \in 1..k - 1 : g[i] = IF i = 1 THEN ss[i] ELSE g[i-1] \o ss[i]
  BY <1>4, <1>8 DEF FlatTo
<1>10. PICK last : last = IF k = 1 THEN ss[k] ELSE g[k-1] \o ss[k]
  OBVIOUS
<1>11. PICK f : f = [i \in 1..k |-> IF i = k THEN last ELSE g[i]]
  OBVIOUS
<1>12. \A i \in 1..k : f[i] = IF i = 1 THEN ss[i] ELSE f[i-1] \o ss[i]
  <2>1. TAKE i \in 1..k
  <2>2. i - 1 # k /\ (i # 1 => i - 1 \in 1..k) /\ (i # k => i \in 1..k - 1)
    BY <1>4
  <2>3. i # 1 => f[i-1] = g[i-1]
    BY <1>11, <2>2
  <2>4. CASE i = k
    BY <1>10, <1>11, <2>3, <2>4
  <2>5. CASE i # k
    BY <1>9, <1>11, <2>2, <2>3, <2>5
  <2>6. QED
    BY <2>4, <2>5
<1>13. FlatTo(ss, k, f)
  BY <1>11, <1>12 DEF FlatTo
<1>14. QED
  BY <1>4, <1>13

\* FlattenSeq is the last value of that solution.
LEMMA FlattenIsDefined ==
  ASSUME NEW S, NEW ss \in Seq(Seq(S)), ss # << >>
  PROVE  \E flat : /\ FlattenSeq(ss) = flat[Len(ss)]
                   /\ \A i \in 1..Len(ss) :
                        flat[i] = IF i = 1 THEN ss[i] ELSE flat[i-1] \o ss[i]
<1>1. Len(ss) \in Nat /\ Len(ss) # 0
  OBVIOUS
<1>2. PICK f : f = CHOOSE flat : FlatTo(ss, Len(ss), flat)
  OBVIOUS
<1>3. FlatTo(ss, Len(ss), f)
  BY <1>1, <1>2, FlatExists
<1>4. FlattenSeq(ss) = f[Len(ss)]
  BY <1>1, <1>2 DEF FlattenSeq, FlatTo
<1>5. \A i \in 1..Len(ss) : f[i] = IF i = 1 THEN ss[i] ELSE f[i-1] \o ss[i]
  BY <1>1, <1>3 DEF FlatTo
<1>6. QED
  BY <1>4, <1>5

\* A flattened sequence is made of its parts.
LEMMA FlattenTiled ==
  ASSUME NEW S, NEW ss \in Seq(Seq(S))
  PROVE  FlattenSeq(ss) \in Seq(S) /\ Tiled(FlattenSeq(ss), {ss[i] : i \in 1..Len(ss)})
<1>1. Len(ss) \in Nat /\ \A i \in 1..Len(ss) : ss[i] \in Seq(S)
  OBVIOUS
<1>2. CASE ss = << >>
  <2>1. Len(ss) = 0 /\ FlattenSeq(ss) = << >> /\ 1..Len(ss) = {}
    BY <1>2 DEF FlattenSeq
  <2>2. Tiled(<< >>, {ss[i] : i \in 1..Len(ss)})
    BY <2>1 DEF Tiled
  <2>3. QED
    BY <2>1, <2>2
<1>3. CASE ss # << >>
  <2>1. PICK f :
          /\ FlattenSeq(ss) = f[Len(ss)]
          /\ \A i \in 1..Len(ss) : f[i] = IF i = 1 THEN ss[i] ELSE f[i-1] \o ss[i]
    BY <1>3, FlattenIsDefined
  <2>2. PICK W : W = {k \in 1..Len(ss) : ~ (/\ f[k] \in Seq(S)
                                            /\ Tiled(f[k], {ss[i] : i \in 1..k}))}
    OBVIOUS
  <2>3. ASSUME W # {} PROVE FALSE
    <3>1. W \in SUBSET Nat
      BY <1>1, <2>2
    <3>2. PICK k \in W : \A i \in W : k <= i
      BY <2>3, <3>1, LeastOfNat
    <3>3. k \in 1..Len(ss) /\ ss[k] \in Seq(S)
      BY <1>1, <2>2, <3>2
    <3>4. Tiled(ss[k], {ss[k]})
      BY <3>3, TiledByItself
    <3>5. CASE k = 1
      <4>1. f[k] = ss[k] /\ {ss[i] : i \in 1..k} = {ss[k]}
        BY <2>1, <3>3, <3>5
      <4>2. QED
        BY <2>2, <3>2, <3>3, <3>4, <4>1
    <3>6. CASE k # 1
      <4>1. k - 1 \in 1..Len(ss) /\ k - 1 \notin W
        BY <1>1, <3>2, <3>3, <3>6
      <4>2. PICK g : g = f[k-1]
        OBVIOUS
      <4>3. PICK B : B = {ss[i] : i \in 1..k - 1}
        OBVIOUS
      <4>4. PICK C : C = {ss[k]}
        OBVIOUS
      <4>5. g \in Seq(S) /\ Tiled(g, B)
        BY <2>2, <4>1, <4>2, <4>3
      <4>6. f[k] = g \o ss[k]
        BY <2>1, <3>3, <3>6, <4>2
      <4>7. B \in SUBSET Seq(S) /\ C \in SUBSET Seq(S) /\ Tiled(ss[k], C)
        BY <1>1, <3>3, <3>4, <4>3, <4>4
      <4>8. f[k] \in Seq(S)
        BY <3>3, <4>5, <4>6
      <4>9. Tiled(g \o ss[k], B \cup C)
        BY <3>3, <4>5, <4>7, TiledConcat
      <4>10. {ss[i] : i \in 1..k} = B \cup C
        <5>1. \A i \in 1..k : i = k \/ i \in 1..k - 1
          BY <3>3
        <5>2. 1..k - 1 \subseteq 1..k /\ k \in 1..k
          BY <3>3
        <5>3. QED
          BY <4>3, <4>4, <5>1, <5>2
      <4>11. QED
        BY <2>2, <3>2, <4>6, <4>8, <4>9, <4>10
    <3>7. QED
      BY <3>5, <3>6
  <2>4. Len(ss) \in 1..Len(ss) /\ Len(ss) \notin W
    BY <1>1, <1>3, <2>3
  <2>5. QED
    BY <2>1, <2>2, <2>4
<1>4. QED
  BY <1>2, <1>3

=============================================================================
