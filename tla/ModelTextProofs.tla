-------------------------- MODULE ModelTextProofs --------------------------
(***************************************************************************)
(* Theorems about ModelText, for router's answers of any length, any       *)
(* references and any CTEs: what the text functions find in a text is      *)
(* related to what the text was written for.                               *)
(*                                                                         *)
(* A text is put together from parts, and each part of the proof goes the  *)
(* way back: from the places of the marks the code looks for to the part   *)
(* they came from.                                                         *)
(***************************************************************************)
EXTENDS ModelText, TextLemmas, FiniteSetTheorems

-----------------------------------------------------------------------------
(* Replies.                                                                *)

TextOf(r) == FlattenSeq([i \in DOMAIN r.parts |-> r.parts[i].text])

\* One part is the text, and two behind an empty one are its halves.
LEMMA FlattenOne ==
  ASSUME NEW S, NEW t \in Seq(S)
  PROVE  FlattenSeq(<< t >>) = t
<1>1. << t >> \in Seq(Seq(S)) /\ << t >> # << >> /\ Len(<< t >>) = 1
  OBVIOUS
<1>2. PICK f : /\ FlattenSeq(<< t >>) = f[Len(<< t >>)]
               /\ \A i \in 1..Len(<< t >>) :
                    f[i] = IF i = 1 THEN << t >>[i] ELSE f[i-1] \o << t >>[i]
  BY <1>1, FlattenIsDefined
<1>3. f[1] = << t >>[1]
  BY <1>1, <1>2
<1>4. QED
  BY <1>1, <1>2, <1>3

\* Behind an empty sequence two make up their concatenation.
LEMMA FlattenThree ==
  ASSUME NEW S, NEW s \in Seq(S), NEW t \in Seq(S)
  PROVE  FlattenSeq(<< << >>, s, t >>) = s \o t
<1>1. PICK ss : ss = << << >>, s, t >>
  OBVIOUS
<1>2. /\ ss \in Seq(Seq(S)) /\ ss # << >> /\ Len(ss) = 3
      /\ ss[1] = << >> /\ ss[2] = s /\ ss[3] = t
  <2>1. << >> \in Seq(S)
    OBVIOUS
  <2>2. << << >>, s, t >> \in Seq(Seq(S))
    BY <2>1
  <2>3. ss \in Seq(Seq(S))
    BY <1>1, <2>2
  <2>4. ss # << >> /\ Len(ss) = 3 /\ ss[1] = << >> /\ ss[2] = s /\ ss[3] = t
    BY <1>1
  <2>5. QED
    BY <2>3, <2>4
<1>3. PICK f : /\ FlattenSeq(ss) = f[3]
               /\ \A i \in 1..3 : f[i] = IF i = 1 THEN ss[i] ELSE f[i-1] \o ss[i]
  <2>1. PICK g : /\ FlattenSeq(ss) = g[Len(ss)]
                 /\ \A i \in 1..Len(ss) : g[i] = IF i = 1 THEN ss[i] ELSE g[i-1] \o ss[i]
    BY <1>2, FlattenIsDefined
  <2>2. QED
    BY <1>2, <2>1
<1>4. f[1] = << >> /\ f[2] = f[1] \o s /\ f[3] = f[2] \o t
  <2>1. f[1] = << >>
    BY <1>2, <1>3
  <2>2. f[2] = f[1] \o s
    BY <1>2, <1>3
  <2>3. f[3] = f[2] \o t
    BY <1>2, <1>3
  <2>4. QED
    BY <2>1, <2>2, <2>3
<1>5. f[2] = s
  BY <1>4, ConcatEmptySeq
<1>6. QED
  BY <1>1, <1>3, <1>4, <1>5

\* An answer in one part says that part, to either provider.
LEMMA OnePartSaysIt ==
  ASSUME NEW S, NEW t \in Seq(S), NEW p \in Providers,
         NEW r, r = [fate |-> "answered", parts |-> << TextPart(t) >>]
  PROVE  Generate(p, r) = Says(t) /\ TextOf(r) = t
<1>1. /\ r.fate = "answered" /\ r.parts # << >> /\ DOMAIN r.parts = {1}
      /\ r.parts[1].type = "text" /\ r.parts[1].text = t
  BY DEF TextPart
<1>2. [i \in DOMAIN r.parts |-> r.parts[i].text] = << t >>
  BY <1>1
<1>3. [i \in DOMAIN r.parts |-> IF r.parts[i].type = "text" THEN r.parts[i].text ELSE << >>]
        = << t >>
  BY <1>1
<1>4. FlattenSeq(<< t >>) = t
  BY FlattenOne
<1>5. OpenAI(r.parts) = Says(t)
  BY <1>1 DEF OpenAI
<1>6. Anthropic(r.parts) = Says(t)
  BY <1>3, <1>4 DEF Anthropic
<1>7. QED
  BY <1>1, <1>2, <1>4, <1>5, <1>6 DEF Generate, TextOf, Providers

\* An answer in two parts behind one that is no text says both.
LEMMA TwoPartsSayBoth ==
  ASSUME NEW S, NEW s \in Seq(S), NEW t \in Seq(S),
         NEW r, r = [fate |-> "answered", parts |-> << Thinking, TextPart(s), TextPart(t) >>]
  PROVE  Generate("anthropic", r) = Says(s \o t) /\ TextOf(r) = s \o t
<1>1. /\ r.fate = "answered" /\ DOMAIN r.parts = 1..3
      /\ r.parts[1] = Thinking /\ r.parts[2] = TextPart(s) /\ r.parts[3] = TextPart(t)
  OBVIOUS
<1>2. [i \in DOMAIN r.parts |-> r.parts[i].text] = << << >>, s, t >>
  BY <1>1 DEF TextPart, Thinking
<1>3. [i \in DOMAIN r.parts |-> IF r.parts[i].type = "text" THEN r.parts[i].text ELSE << >>]
        = << << >>, s, t >>
  BY <1>1 DEF TextPart, Thinking
<1>4. FlattenSeq(<< << >>, s, t >>) = s \o t
  BY FlattenThree
<1>5. Anthropic(r.parts) = Says(s \o t)
  BY <1>3, <1>4 DEF Anthropic
<1>6. QED
  BY <1>1, <1>2, <1>4, <1>5 DEF Generate, TextOf

\* A reply without text has none to either provider, if it is an answer to it.
LEMMA TextlessSaysNothing ==
  ASSUME NEW r \in Textless, NEW p \in Providers
  PROVE  /\ TextOf(r) = << >>
         /\ Generate(p, r) = Fails \/ Generate(p, r) = Says(<< >>)
<1>1. FlattenSeq(<< >>) = << >> /\ << >> \in Seq(STRING)
  BY DEF FlattenSeq
<1>2. FlattenSeq(<< << >> >>) = << >>
  BY <1>1, FlattenOne
<1>3. CASE r.parts = << >>
  <2>1. [i \in DOMAIN r.parts |-> r.parts[i].text] = << >>
    BY <1>3
  <2>2. [i \in DOMAIN r.parts |-> IF r.parts[i].type = "text" THEN r.parts[i].text ELSE << >>]
          = << >>
    BY <1>3
  <2>3. Anthropic(r.parts) = Says(<< >>) /\ OpenAI(r.parts) = Fails
    BY <1>1, <1>3, <2>2 DEF Anthropic, OpenAI
  <2>4. QED
    BY <1>1, <2>1, <2>3 DEF TextOf, Generate
<1>4. CASE r.parts = << TextPart(<< >>) >>
  <2>1. [i \in DOMAIN r.parts |-> r.parts[i].text] = << << >> >>
    BY <1>4 DEF TextPart
  <2>2. [i \in DOMAIN r.parts |-> IF r.parts[i].type = "text" THEN r.parts[i].text ELSE << >>]
          = << << >> >>
    BY <1>4 DEF TextPart
  <2>3. r.parts # << >> /\ r.parts[1].text = << >>
    BY <1>4 DEF TextPart
  <2>4. Anthropic(r.parts) = Says(<< >>) /\ OpenAI(r.parts) = Says(<< >>)
    BY <1>2, <2>2, <2>3 DEF Anthropic, OpenAI
  <2>5. QED
    BY <1>2, <2>1, <2>4 DEF TextOf, Generate
<1>5. CASE r.parts = << Thinking >>
  <2>1. [i \in DOMAIN r.parts |-> r.parts[i].text] = << << >> >>
    BY <1>5 DEF Thinking
  <2>2. [i \in DOMAIN r.parts |-> IF r.parts[i].type = "text" THEN r.parts[i].text ELSE << >>]
          = << << >> >>
    BY <1>5 DEF Thinking
  <2>3. r.parts # << >> /\ r.parts[1].text = << >>
    BY <1>5 DEF Thinking
  <2>4. Anthropic(r.parts) = Says(<< >>) /\ OpenAI(r.parts) = Says(<< >>)
    BY <1>2, <2>2, <2>3 DEF Anthropic, OpenAI
  <2>5. QED
    BY <1>2, <2>1, <2>4 DEF TextOf, Generate
<1>6. QED
  BY <1>3, <1>4, <1>5 DEF Textless

\* Every way a provider may wrap an answer says the answer.
LEMMA RepliesSayIt ==
  ASSUME NEW S, NEW t \in Seq(S), provider \in Providers, NEW r \in Replies(t)
  PROVE  Generate(provider, r) = Says(t) /\ TextOf(r) = t
<1>1. CASE r = [fate |-> "answered", parts |-> << TextPart(t) >>]
  BY <1>1, OnePartSaysIt
<1>2. ASSUME provider = "anthropic", NEW i \in DOMAIN t,
             r = [fate |-> "answered",
                  parts |-> << Thinking, TextPart(SubSeq(t, 1, i)),
                               TextPart(SubSeq(t, i + 1, Len(t))) >>]
      PROVE  Generate(provider, r) = Says(t) /\ TextOf(r) = t
  <2>1. Len(t) \in Nat /\ i \in 1..Len(t)
    OBVIOUS
  <2>2. SubSeq(t, 1, i) \in Seq(S) /\ SubSeq(t, i + 1, Len(t)) \in Seq(S)
    <3>1. \A k \in 1..i : t[k] \in S
      BY <2>1
    <3>2. \A k \in i + 1..Len(t) : t[k] \in S
      BY <2>1
    <3>3. QED
      BY <2>1, <3>1, <3>2, SubSeqProperties
  <2>3. SubSeq(t, 1, i) \o SubSeq(t, i + 1, Len(t)) = t
    <3>1. 1 \in 1..Len(t) + 1 /\ i \in 1 - 1 .. Len(t) /\ Len(t) \in i .. Len(t)
      BY <2>1
    <3>2. SubSeq(t, 1, i) \o SubSeq(t, i + 1, Len(t)) = SubSeq(t, 1, Len(t))
      BY <3>1, ConcatAdjacentSubSeq
    <3>3. QED
      BY <3>2, SubSeqFull
  <2>4. QED
    BY <1>2, <2>2, <2>3, TwoPartsSayBoth
<1>3. QED
  BY <1>1, <1>2 DEF Replies, PartsOf

-----------------------------------------------------------------------------
(* The router.                                                             *)

\* Where the pieces of a kind are.
LEMMA FirstAndLast ==
  ASSUME NEW S, NEW t \in Seq(S), NEW p, At(t, p) # {}
  PROVE  /\ Min(At(t, p)) \in 1..Len(t) /\ t[Min(At(t, p))] = p
         /\ \A i \in 1..Len(t) : t[i] = p => Min(At(t, p)) <= i
         /\ Max(At(t, p)) \in 1..Len(t) /\ t[Max(At(t, p))] = p
         /\ \A i \in 1..Len(t) : t[i] = p => i <= Max(At(t, p))
<1>1. Len(t) \in Nat /\ DOMAIN t = 1..Len(t)
  OBVIOUS
<1>2. /\ \A i \in At(t, p) : i \in 1..Len(t) /\ t[i] = p
      /\ \A i \in 1..Len(t) : t[i] = p => i \in At(t, p)
  BY <1>1 DEF At
<1>3. At(t, p) \in SUBSET Nat /\ At(t, p) \in SUBSET (0..Len(t))
  BY <1>1, <1>2
<1>4. Min(At(t, p)) \in At(t, p) /\ \A i \in At(t, p) : Min(At(t, p)) <= i
  BY <1>3, MinIsLeast
<1>5. Max(At(t, p)) \in At(t, p) /\ \A i \in At(t, p) : i <= Max(At(t, p))
  BY <1>1, <1>3, MaxIsLargest
<1>6. QED
  BY <1>2, <1>4, <1>5

\* The pieces between two places.
LEMMA PiecesBetween ==
  ASSUME NEW S, NEW t \in Seq(S), NEW x \in 1..Len(t), NEW y \in 1..Len(t)
  PROVE  ToSet(SubSeq(t, x + 1, y - 1)) = {t[i] : i \in x + 1 .. y - 1}
<1>1. x + 1 \in Nat /\ y - 1 \in Int /\ 1 <= x + 1 /\ y - 1 <= Len(t)
  OBVIOUS
<1>2. QED
  BY <1>1, PiecesOfPart

\* A text that is parsed holds an array, and its names are the ones taken.
LEMMA ParsedIsAnArray ==
  ASSUME NEW S, NEW t \in Seq(S), Parsed(t, Names)
  PROVE  \E a \in Arrays(t) : ToSet(ArrayIn(t)) = {t[i] : i \in a[1] + 1 .. a[2] - 1}
<1>1. PICK x \in 1..Len(t), y \in 1..Len(t) :
        /\ x = Min(At(t, "[")) /\ t[x] = "["
        /\ y = Max(At(t, "]")) /\ t[y] = "]"
        /\ x < y
  BY FirstAndLast DEF Parsed
<1>2. Len(t) \in Nat /\ DOMAIN t = 1..Len(t) /\ x \in Nat /\ y \in Nat
  OBVIOUS
<1>3. ToSet(ArrayIn(t)) = {t[i] : i \in x + 1 .. y - 1}
  <2>1. ToSet(SubSeq(t, x + 1, y - 1)) = {t[i] : i \in x + 1 .. y - 1}
    BY PiecesBetween
  <2>2. QED
    BY <1>1, <2>1 DEF ArrayIn
<1>4. \A i \in x + 1 .. y - 1 : t[i] \in Names
  BY <1>3 DEF Parsed
<1>5. <<x, y>> \in Arrays(t)
  BY <1>1, <1>2, <1>4 DEF Arrays
<1>6. <<x, y>>[1] = x /\ <<x, y>>[2] = y
  OBVIOUS
<1>7. QED
  BY <1>3, <1>5, <1>6

\* A text with an array is parsed, unless a second bracket opens before it or
\* closes behind it.
LEMMA ArrayIsParsed ==
  ASSUME NEW S, NEW t \in Seq(S), NEW a \in Arrays(t),
         \A i \in 1 .. a[1] - 1 : t[i] # "[",
         \A i \in a[2] + 1 .. Len(t) : t[i] # "]"
  PROVE  Parsed(t, Names)
<1>1. PICK x \in 1..Len(t), y \in 1..Len(t) :
        /\ x = a[1] /\ y = a[2]
        /\ x < y /\ t[x] = "[" /\ t[y] = "]"
        /\ \A i \in x + 1 .. y - 1 : t[i] \in Names
  <2>1. a \in (DOMAIN t) \X (DOMAIN t) /\ DOMAIN t = 1..Len(t)
    BY DEF Arrays
  <2>2. a[1] \in 1..Len(t) /\ a[2] \in 1..Len(t)
    BY <2>1
  <2>3. /\ a[1] < a[2] /\ t[a[1]] = "[" /\ t[a[2]] = "]"
        /\ \A i \in a[1] + 1 .. a[2] - 1 : t[i] \in Names
    BY DEF Arrays
  <2>4. QED
    BY <2>2, <2>3
<1>2. Len(t) \in Nat /\ DOMAIN t = 1..Len(t) /\ x \in Nat /\ y \in Nat
  OBVIOUS
<1>3. At(t, "[") # {} /\ At(t, "]") # {}
  BY <1>1, <1>2 DEF At
<1>4. Min(At(t, "[")) = x
  <2>1. PICK m \in 1..Len(t) : m = Min(At(t, "[")) /\ t[m] = "[" /\ m <= x
    <3>1. /\ Min(At(t, "[")) \in 1..Len(t) /\ t[Min(At(t, "["))] = "["
          /\ \A i \in 1..Len(t) : t[i] = "[" => Min(At(t, "[")) <= i
      BY <1>3, FirstAndLast
    <3>2. QED
      BY <1>1, <3>1
  <2>2. m \notin 1 .. x - 1
    BY <1>1, <2>1
  <2>3. QED
    BY <1>2, <2>1, <2>2
<1>5. Max(At(t, "]")) = y
  <2>1. PICK m \in 1..Len(t) : m = Max(At(t, "]")) /\ t[m] = "]" /\ y <= m
    <3>1. /\ Max(At(t, "]")) \in 1..Len(t) /\ t[Max(At(t, "]"))] = "]"
          /\ \A i \in 1..Len(t) : t[i] = "]" => i <= Max(At(t, "]"))
      BY <1>3, FirstAndLast
    <3>2. QED
      BY <1>1, <3>1
  <2>2. m \notin y + 1 .. Len(t)
    BY <1>1, <2>1
  <2>3. QED
    BY <1>2, <2>1, <2>2
<1>6. ToSet(ArrayIn(t)) = {t[i] : i \in x + 1 .. y - 1}
  <2>1. ToSet(SubSeq(t, x + 1, y - 1)) = {t[i] : i \in x + 1 .. y - 1}
    BY PiecesBetween
  <2>2. QED
    BY <1>4, <1>5, <2>1 DEF ArrayIn
<1>7. QED
  BY <1>1, <1>3, <1>4, <1>5, <1>6 DEF Parsed

\* Of the tables a name can mean, which are those that differ from it in case only,
\* one is chosen.
LEMMA CanonicalChoosesOne ==
  ASSUME NEW S, NEW s \in Seq(S), NEW n
  PROVE  /\ \A u \in Canonical(n, s) : u \in ToSet(s) /\ Lower(u) = Lower(n)
         /\ \A u \in ToSet(s) : Lower(u) = Lower(n) => Canonical(n, s) # {}
<1>1. PICK I : I = {i \in DOMAIN s : Lower(s[i]) = Lower(n)}
  OBVIOUS
<1>2. Len(s) \in Nat /\ DOMAIN s = 1..Len(s)
  OBVIOUS
<1>3. CASE I = {}
  <2>1. Canonical(n, s) = {}
    BY <1>1, <1>3 DEF Canonical
  <2>2. \A u \in ToSet(s) : Lower(u) # Lower(n)
    BY <1>1, <1>3 DEF ToSet
  <2>3. QED
    BY <2>1, <2>2
<1>4. CASE I # {}
  <2>1. I \in SUBSET (0..Len(s))
    BY <1>1, <1>2
  <2>2. PICK m \in I : m = Max(I)
    BY <1>2, <1>4, <2>1, MaxIsLargest
  <2>3. Canonical(n, s) = {s[m]}
    BY <1>1, <1>4, <2>2 DEF Canonical
  <2>4. s[m] \in ToSet(s) /\ Lower(s[m]) = Lower(n)
    BY <1>1, <2>2 DEF ToSet
  <2>5. QED
    BY <2>3, <2>4
<1>5. QED
  BY <1>3, <1>4

\* Of the tables some names can mean, the ones chosen stand for all of them.
LEMMA FilterKnownStandsForAll ==
  ASSUME NEW S, NEW s \in Seq(S), NEW names,
         NEW known, known = {u \in ToSet(s) : Lower(u) \in {Lower(n) : n \in names}}
  PROVE  /\ FilterKnown(names, s) \subseteq known
         /\ \A u \in known : u \in FilterKnown(names, s) \/
                              \E v \in FilterKnown(names, s) \ {u} : Lower(v) = Lower(u)
<1>1. ASSUME NEW v \in FilterKnown(names, s) PROVE v \in known
  <2>1. PICK n \in names : v \in Canonical(n, s)
    BY DEF FilterKnown
  <2>2. v \in ToSet(s) /\ Lower(v) = Lower(n)
    BY <2>1, CanonicalChoosesOne
  <2>3. QED
    BY <2>1, <2>2
<1>2. ASSUME NEW u \in known
      PROVE  \E v \in FilterKnown(names, s) : Lower(v) = Lower(u)
  <2>1. PICK n \in names : u \in ToSet(s) /\ Lower(u) = Lower(n)
    OBVIOUS
  <2>2. PICK v : v \in Canonical(n, s)
    BY <2>1, CanonicalChoosesOne
  <2>3. Lower(v) = Lower(u)
    BY <2>1, <2>2, CanonicalChoosesOne
  <2>4. v \in FilterKnown(names, s)
    BY <2>1, <2>2 DEF FilterKnown
  <2>5. QED
    BY <2>3, <2>4
<1>3. QED
  BY <1>1, <1>2

-----------------------------------------------------------------------------
(* The generator.                                                          *)

\* Trimming a text that does not begin with an end of line takes ends of lines from
\* its end.
LEMMA LinesTrimmed ==
  ASSUME NEW S, NEW t \in Seq(S), NEW n \in Nat, n = Len(t), n > 0, t[1] # "\n"
  PROVE  \E y \in 1..n : /\ TrimLines(t) = SubSeq(t, 1, y)
                         /\ t[y] # "\n"
                         /\ \A i \in 1..n : i > y => t[i] = "\n"
<1>1. PICK solid : solid = {i \in DOMAIN t : t[i] # "\n"}
  OBVIOUS
<1>2. DOMAIN t = 1..n /\ 1 \in solid /\ solid \in SUBSET Nat /\ solid \in SUBSET (0..n)
  BY <1>1
<1>3. Min(solid) \in solid /\ Min(solid) <= 1
  BY <1>2, MinIsLeast
<1>4. Min(solid) = 1
  <2>1. PICK x \in solid : x = Min(solid) /\ x <= 1
    BY <1>3
  <2>2. x \in 1..n
    BY <1>1, <1>2, <2>1
  <2>3. QED
    BY <2>1, <2>2
<1>5. PICK y \in solid : y = Max(solid) /\ \A i \in solid : i <= y
  BY <1>2, MaxIsLargest
<1>6. TrimLines(t) = SubSeq(t, 1, y)
  BY <1>1, <1>2, <1>4, <1>5 DEF TrimLines
<1>7. \A i \in 1..n : i > y => t[i] = "\n"
  BY <1>1, <1>2, <1>5
<1>8. QED
  BY <1>1, <1>2, <1>5, <1>6, <1>7

\* The first piece of a kind is the k-th.
FirstAt(t, p, k) == k \in 1..Len(t) /\ t[k] = p /\ \A i \in 1..k - 1 : t[i] # p

\* What is in front of it and behind it.
Halves(b, r, t, k) ==
  /\ Len(b) = k - 1
  /\ \A i \in 1..k - 1 : b[i] = t[i]
  /\ Len(r) = Len(t) - k
  /\ \A i \in 1..Len(t) - k : r[i] = t[k + i]

\* Before and After are those halves.
LEMMA Split ==
  ASSUME NEW S, NEW t \in Seq(S), NEW p, NEW k, FirstAt(t, p, k)
  PROVE  /\ At(t, p) # {}
         /\ Before(t, p) \in Seq(S) /\ After(t, p) \in Seq(S)
         /\ Halves(Before(t, p), After(t, p), t, k)
<1>1. PICK n \in Nat :
        n = Len(t) /\ k \in 1..n /\ t[k] = p /\ \A i \in 1..k - 1 : t[i] # p
  BY DEF FirstAt
<1>2. DOMAIN t = 1..n /\ k \in Nat /\ 1 <= k /\ k <= n
  BY <1>1
<1>3. At(t, p) # {}
  BY <1>1, <1>2 DEF At
<1>4. Min(At(t, p)) = k
  <2>1. PICK m \in 1..n : m = Min(At(t, p)) /\ t[m] = p /\ m <= k
    BY <1>1, <1>3, FirstAndLast
  <2>2. m \notin 1 .. k - 1
    BY <1>1, <2>1
  <2>3. QED
    BY <1>2, <2>1, <2>2
<1>5. Before(t, p) = SubSeq(t, 1, k - 1) /\ After(t, p) = SubSeq(t, k + 1, n)
  BY <1>1, <1>4 DEF Before, After
<1>6. /\ SubSeq(t, 1, k - 1) \in Seq(S)
      /\ Len(SubSeq(t, 1, k - 1)) = k - 1
      /\ \A i \in 1..k - 1 : SubSeq(t, 1, k - 1)[i] = t[i]
  <2>1. /\ SubSeq(t, 1, k - 1) \in Seq(S)
        /\ Len(SubSeq(t, 1, k - 1)) = IF 1 <= k - 1 THEN k - 1 - 1 + 1 ELSE 0
        /\ \A i \in 1..k - 1 - 1 + 1 : SubSeq(t, 1, k - 1)[i] = t[1 + i - 1]
    BY <1>1, <1>2, PiecesOfPart
  <2>2. k - 1 - 1 + 1 = k - 1 /\ \A i \in 1..k - 1 : 1 + i - 1 = i
    BY <1>2
  <2>3. QED
    BY <1>2, <2>1, <2>2
<1>7. /\ SubSeq(t, k + 1, n) \in Seq(S)
      /\ Len(SubSeq(t, k + 1, n)) = n - k
      /\ \A i \in 1..n - k : SubSeq(t, k + 1, n)[i] = t[k + i]
  <2>1. /\ SubSeq(t, k + 1, n) \in Seq(S)
        /\ Len(SubSeq(t, k + 1, n)) = IF k + 1 <= n THEN n - (k + 1) + 1 ELSE 0
        /\ \A i \in 1..n - (k + 1) + 1 : SubSeq(t, k + 1, n)[i] = t[k + 1 + i - 1]
    BY <1>1, <1>2, PiecesOfPart
  <2>2. n - (k + 1) + 1 = n - k /\ \A i \in 1..n - k : k + 1 + i - 1 = k + i
    BY <1>2
  <2>3. QED
    BY <1>2, <2>1, <2>2
<1>8. QED
  BY <1>1, <1>3, <1>5, <1>6, <1>7 DEF Halves

\* What an answer to the generator's prompt is made of.
AnswerPieces == {"SELECT", "\n", "rest", "SELECT_rest", "fence", "sql", "sql:", "prose"}

\* The model's SQL holds no fence and begins and ends with a piece of its own.
LEMMA LinesShape ==
  ASSUME NEW lines \in Lines
  PROVE  /\ lines \in Seq(AnswerPieces) /\ Len(lines) > 0
         /\ \A i \in 1..Len(lines) : lines[i] # "fence"
         /\ lines[1] \notin {"\n", "sql", "sql:"} /\ lines[Len(lines)] # "\n"
         /\ lines[1] = "SELECT" => Len(lines) = 3 /\ lines[2] = "\n" /\ lines[3] = "rest"
<1>1. CASE lines = <<"SELECT", "\n", "rest">>
  <2>1. lines[1] = "SELECT" /\ lines[2] = "\n" /\ lines[3] = "rest" /\ Len(lines) = 3
    BY <1>1
  <2>2. <<"SELECT", "\n", "rest">> \in Seq(AnswerPieces)
    BY DEF AnswerPieces
  <2>3. lines \in Seq(AnswerPieces)
    BY <1>1, <2>2
  <2>4. \A i \in 1..3 : i = 1 \/ i = 2 \/ i = 3
    OBVIOUS
  <2>5. QED
    BY <2>1, <2>3, <2>4
<1>2. CASE lines = <<"SELECT_rest">>
  <2>1. lines[1] = "SELECT_rest" /\ Len(lines) = 1
    BY <1>2
  <2>2. <<"SELECT_rest">> \in Seq(AnswerPieces)
    BY DEF AnswerPieces
  <2>3. lines \in Seq(AnswerPieces)
    BY <1>2, <2>2
  <2>4. \A i \in 1..1 : i = 1
    OBVIOUS
  <2>5. QED
    BY <2>1, <2>3, <2>4
<1>3. lines = <<"SELECT", "\n", "rest">> \/ lines = <<"SELECT_rest">>
  BY Zenon DEF Lines
<1>4. QED
  BY <1>1, <1>2, <1>3

\* A text that holds no fence and begins and ends within a line.
Solid(s) ==
  /\ s \in Seq(AnswerPieces) /\ Len(s) > 0
  /\ \A i \in 1..Len(s) : s[i] # "fence"
  /\ s[1] # "\n" /\ s[Len(s)] # "\n"

\* It stands behind the o-th piece of an answer; an end of line follows, and then a
\* fence or the answer's end.
Stands(s, a, o) ==
  /\ a \in Seq(AnswerPieces)
  /\ Len(a) >= o + Len(s) + 1
  /\ \A i \in 1..Len(s) : a[o + i] = s[i]
  /\ a[o + Len(s) + 1] = "\n"
  /\ Len(a) > o + Len(s) + 1 => a[o + Len(s) + 2] = "fence"

\* An answer with its fence at the f-th piece, then h pieces in front of the SQL: a
\* tag, an end of line, or both.
Fenced(a, lines, f, h) ==
  /\ a \in Seq(AnswerPieces)
  /\ a[1] # "\n"
  /\ \A i \in 1..f - 1 : a[i] # "fence"
  /\ a[f] = "fence"
  /\ \/ h = 0
     \/ h = 1 /\ a[f + 1] \in {"\n", "sql", "sql:"}
     \/ h = 2 /\ a[f + 1] \in {"sql", "sql:"} /\ a[f + 2] = "\n"
  /\ Len(a) >= f + h + Len(lines) + 1
  /\ \A i \in 1..Len(lines) : a[f + h + i] = lines[i]
  /\ a[f + h + Len(lines) + 1] = "\n"
  /\ Len(a) > f + h + Len(lines) + 1 => a[f + h + Len(lines) + 2] = "fence"

\* An answer that is not the SQL alone is fenced.
LEMMA AnswerShape ==
  ASSUME NEW lines \in Lines, NEW a \in Answers(lines), a # lines
  PROVE  \E f, h \in Nat : f > 0 /\ Fenced(a, lines, f, h)
<1>1. PICK pre, tag, nl, post :
        /\ pre \in {<< >>, <<"prose", "\n">>}
        /\ tag \in {<< >>, <<"sql">>, <<"sql:">>}
        /\ nl \in {<< >>, <<"\n">>}
        /\ post \in {<< >>, <<"fence">>, <<"fence", "\n", "prose">>}
        /\ a = Wrapped(pre, tag, nl, lines, post)
  BY DEF Answers
<1>2. PICK p : p \in Nat /\ p = Len(pre) /\ pre \in Seq(AnswerPieces)
               /\ (\A i \in 1..p : pre[i] # "fence") /\ (p > 0 => pre[1] = "prose")
  <2>1. CASE pre = << >>
    BY <2>1
  <2>2. CASE pre = <<"prose", "\n">>
    <3>1. Len(pre) = 2 /\ pre[1] = "prose" /\ pre[2] = "\n"
      BY <2>2
    <3>2. <<"prose", "\n">> \in Seq(AnswerPieces)
      BY DEF AnswerPieces
    <3>3. \A i \in 1..2 : i = 1 \/ i = 2
      OBVIOUS
    <3>4. QED
      BY <2>2, <3>1, <3>2, <3>3
  <2>3. QED
    BY <1>1, <2>1, <2>2
<1>3. PICK g : g \in Nat /\ g = Len(tag) /\ tag \in Seq(AnswerPieces)
               /\ (g = 0 \/ (g = 1 /\ tag[1] \in {"sql", "sql:"}))
  <2>1. CASE tag = << >>
    BY <2>1
  <2>2. CASE tag = <<"sql">>
    <3>1. <<"sql">> \in Seq(AnswerPieces)
      BY DEF AnswerPieces
    <3>2. QED
      BY <2>2, <3>1
  <2>3. CASE tag = <<"sql:">>
    <3>1. <<"sql:">> \in Seq(AnswerPieces)
      BY DEF AnswerPieces
    <3>2. QED
      BY <2>3, <3>1
  <2>4. QED
    BY <1>1, <2>1, <2>2, <2>3
<1>4. PICK n : n \in Nat /\ n = Len(nl) /\ nl \in Seq(AnswerPieces)
               /\ (n = 0 \/ (n = 1 /\ nl[1] = "\n"))
  <2>1. CASE nl = << >>
    BY <2>1
  <2>2. CASE nl = <<"\n">>
    <3>1. <<"\n">> \in Seq(AnswerPieces)
      BY DEF AnswerPieces
    <3>2. QED
      BY <2>2, <3>1
  <2>3. QED
    BY <1>1, <2>1, <2>2
<1>5. PICK q : q \in Nat /\ q = Len(post) /\ post \in Seq(AnswerPieces)
               /\ (q > 0 => post[1] = "fence")
  <2>1. CASE post = << >>
    BY <2>1
  <2>2. CASE post = <<"fence">>
    <3>1. <<"fence">> \in Seq(AnswerPieces)
      BY DEF AnswerPieces
    <3>2. QED
      BY <2>2, <3>1
  <2>3. CASE post = <<"fence", "\n", "prose">>
    <3>1. <<"fence", "\n", "prose">> \in Seq(AnswerPieces)
      BY DEF AnswerPieces
    <3>2. Len(post) = 3 /\ post[1] = "fence"
      BY <2>3
    <3>3. QED
      BY <2>3, <3>1, <3>2
  <2>4. QED
    BY <1>1, <2>1, <2>2, <2>3
<1>6. PICK l : l \in Nat /\ l = Len(lines) /\ lines \in Seq(AnswerPieces)
  BY LinesShape
<1>7. PICK one, fence, end :
        /\ one = 1 /\ one \in Nat /\ fence = <<"fence">> /\ end = <<"\n">>
        /\ one = Len(fence) /\ fence \in Seq(AnswerPieces) /\ fence[1] = "fence"
        /\ one = Len(end) /\ end \in Seq(AnswerPieces) /\ end[1] = "\n"
  <2>1. PICK fence : fence = <<"fence">>
    OBVIOUS
  <2>2. PICK end : end = <<"\n">>
    OBVIOUS
  <2>3. PICK one : one = 1
    OBVIOUS
  <2>4. <<"fence">> \in Seq(AnswerPieces) /\ <<"\n">> \in Seq(AnswerPieces)
    BY DEF AnswerPieces
  <2>5. one = Len(fence) /\ fence[1] = "fence" /\ fence \in Seq(AnswerPieces)
    BY <2>1, <2>3, <2>4
  <2>6. one = Len(end) /\ end[1] = "\n" /\ end \in Seq(AnswerPieces)
    BY <2>2, <2>3, <2>4
  <2>7. one \in Nat
    BY <2>3
  <2>8. QED
    BY <2>1, <2>2, <2>3, <2>5, <2>6, <2>7, Zenon
<1>8. PICK k1, k2, k3, k4, k5 : /\ k1 = p + one /\ k1 \in Nat
                                /\ k2 = k1 + g /\ k2 \in Nat
                                /\ k3 = k2 + n /\ k3 \in Nat
                                /\ k4 = k3 + l /\ k4 \in Nat
                                /\ k5 = k4 + one /\ k5 \in Nat
  <2>1. p \in Nat /\ g \in Nat /\ n \in Nat /\ l \in Nat /\ one \in Nat
    BY <1>2, <1>3, <1>4, <1>6, <1>7
  <2>2. PICK k1, k2, k3, k4, k5 :
          k1 = p + one /\ k2 = k1 + g /\ k3 = k2 + n /\ k4 = k3 + l /\ k5 = k4 + one
    OBVIOUS
  <2>3. k1 \in Nat /\ k2 \in Nat /\ k3 \in Nat /\ k4 \in Nat /\ k5 \in Nat
    BY <2>1, <2>2
  <2>4. QED
    BY <2>2, <2>3, Zenon
<1>9. PICK u1, u2, u3, u4, u5 : /\ u1 = pre \o fence
                                /\ u2 = u1 \o tag
                                /\ u3 = u2 \o nl
                                /\ u4 = u3 \o lines
                                /\ u5 = u4 \o end
  OBVIOUS
<1>10. a = u5 \o post
  BY <1>1, <1>7, <1>9 DEF Wrapped
<1>11. /\ u1 \in Seq(AnswerPieces) /\ Len(u1) = k1 /\ \A i \in 1..p : u1[i] = pre[i]
       /\ \A i \in 1..one : u1[p + i] = fence[i]
  <2>1. pre \in Seq(AnswerPieces) /\ p = Len(pre) /\ p \in Nat
    BY <1>2, <1>8
  <2>2. fence \in Seq(AnswerPieces) /\ one = Len(fence) /\ one \in Nat
    BY <1>7
  <2>3. u1 = pre \o fence
    BY <1>9, <1>10
  <2>4. /\ u1 \in Seq(AnswerPieces) /\ Len(u1) = p + one /\ \A i \in 1..p : u1[i] = pre[i]
        /\ \A i \in 1..one : u1[p + i] = fence[i]
    BY <2>1, <2>2, <2>3, PiecesOfBoth
  <2>5. QED
    BY <1>8, <2>4
<1>12. /\ u2 \in Seq(AnswerPieces) /\ Len(u2) = k2 /\ \A i \in 1..k1 : u2[i] = u1[i]
       /\ \A i \in 1..g : u2[k1 + i] = tag[i]
  <2>1. u1 \in Seq(AnswerPieces) /\ k1 = Len(u1) /\ k1 \in Nat
    BY <1>11, <1>8
  <2>2. tag \in Seq(AnswerPieces) /\ g = Len(tag) /\ g \in Nat
    BY <1>3
  <2>3. u2 = u1 \o tag
    BY <1>9, <1>10
  <2>4. /\ u2 \in Seq(AnswerPieces) /\ Len(u2) = k1 + g /\ \A i \in 1..k1 : u2[i] = u1[i]
        /\ \A i \in 1..g : u2[k1 + i] = tag[i]
    BY <2>1, <2>2, <2>3, PiecesOfBoth
  <2>5. QED
    BY <1>8, <2>4
<1>13. /\ u3 \in Seq(AnswerPieces) /\ Len(u3) = k3 /\ \A i \in 1..k2 : u3[i] = u2[i]
       /\ \A i \in 1..n : u3[k2 + i] = nl[i]
  <2>1. u2 \in Seq(AnswerPieces) /\ k2 = Len(u2) /\ k2 \in Nat
    BY <1>12, <1>8
  <2>2. nl \in Seq(AnswerPieces) /\ n = Len(nl) /\ n \in Nat
    BY <1>4
  <2>3. u3 = u2 \o nl
    BY <1>9, <1>10
  <2>4. /\ u3 \in Seq(AnswerPieces) /\ Len(u3) = k2 + n /\ \A i \in 1..k2 : u3[i] = u2[i]
        /\ \A i \in 1..n : u3[k2 + i] = nl[i]
    BY <2>1, <2>2, <2>3, PiecesOfBoth
  <2>5. QED
    BY <1>8, <2>4
<1>14. /\ u4 \in Seq(AnswerPieces) /\ Len(u4) = k4 /\ \A i \in 1..k3 : u4[i] = u3[i]
       /\ \A i \in 1..l : u4[k3 + i] = lines[i]
  <2>1. u3 \in Seq(AnswerPieces) /\ k3 = Len(u3) /\ k3 \in Nat
    BY <1>13, <1>8
  <2>2. lines \in Seq(AnswerPieces) /\ l = Len(lines) /\ l \in Nat
    BY <1>6
  <2>3. u4 = u3 \o lines
    BY <1>9, <1>10
  <2>4. /\ u4 \in Seq(AnswerPieces) /\ Len(u4) = k3 + l /\ \A i \in 1..k3 : u4[i] = u3[i]
        /\ \A i \in 1..l : u4[k3 + i] = lines[i]
    BY <2>1, <2>2, <2>3, PiecesOfBoth
  <2>5. QED
    BY <1>8, <2>4
<1>15. /\ u5 \in Seq(AnswerPieces) /\ Len(u5) = k5 /\ \A i \in 1..k4 : u5[i] = u4[i]
       /\ \A i \in 1..one : u5[k4 + i] = end[i]
  <2>1. u4 \in Seq(AnswerPieces) /\ k4 = Len(u4) /\ k4 \in Nat
    BY <1>14, <1>8
  <2>2. end \in Seq(AnswerPieces) /\ one = Len(end) /\ one \in Nat
    BY <1>7
  <2>3. u5 = u4 \o end
    BY <1>9, <1>10
  <2>4. /\ u5 \in Seq(AnswerPieces) /\ Len(u5) = k4 + one /\ \A i \in 1..k4 : u5[i] = u4[i]
        /\ \A i \in 1..one : u5[k4 + i] = end[i]
    BY <2>1, <2>2, <2>3, PiecesOfBoth
  <2>5. QED
    BY <1>8, <2>4
<1>16. /\ a \in Seq(AnswerPieces) /\ Len(a) = k5 + q /\ \A i \in 1..k5 : a[i] = u5[i]
       /\ \A i \in 1..q : a[k5 + i] = post[i]
  <2>1. u5 \in Seq(AnswerPieces) /\ k5 = Len(u5) /\ k5 \in Nat
    BY <1>15, <1>8
  <2>2. post \in Seq(AnswerPieces) /\ q = Len(post) /\ q \in Nat
    BY <1>5
  <2>3. a = u5 \o post
    BY <1>9, <1>10
  <2>4. /\ a \in Seq(AnswerPieces) /\ Len(a) = k5 + q /\ \A i \in 1..k5 : a[i] = u5[i]
        /\ \A i \in 1..q : a[k5 + i] = post[i]
    BY <2>1, <2>2, <2>3, PiecesOfBoth
  <2>5. QED
    BY <1>8, <2>4
<1>17. /\ p \in Nat /\ g \in Nat /\ n \in Nat /\ l \in Nat /\ q \in Nat /\ one \in Nat
       /\ p <= k1 /\ k1 <= k2 /\ k2 <= k3 /\ k3 <= k4 /\ k4 <= k5
       /\ p + one <= k1 /\ k1 + g <= k2 /\ k2 + n <= k3 /\ k3 + l <= k4 /\ k4 + one <= k5
  <2>1. p \in Nat /\ g \in Nat /\ n \in Nat /\ l \in Nat /\ q \in Nat /\ one \in Nat
    BY <1>2, <1>3, <1>4, <1>5, <1>6, <1>7
  <2>2. QED
    BY <1>8, <2>1
<1>18. \A i \in 1..k4 : a[i] = u4[i]
  BY <1>8, <1>15, <1>16, <1>17, PiecesOfPrefix
<1>19. \A i \in 1..k3 : a[i] = u3[i]
  BY <1>8, <1>14, <1>17, <1>18, PiecesOfPrefix
<1>20. \A i \in 1..k2 : a[i] = u2[i]
  BY <1>8, <1>13, <1>17, <1>19, PiecesOfPrefix
<1>21. \A i \in 1..k1 : a[i] = u1[i]
  BY <1>8, <1>12, <1>17, <1>20, PiecesOfPrefix
<1>22. \A i \in 1..p : a[i] = pre[i]
  BY <1>8, <1>11, <1>17, <1>21, PiecesOfPrefix
<1>23. \A i \in 1..one : a[p + i] = fence[i]
  BY <1>8, <1>11, <1>17, <1>21, PiecesOfSuffix
<1>24. \A i \in 1..g : a[k1 + i] = tag[i]
  BY <1>8, <1>12, <1>17, <1>20, PiecesOfSuffix
<1>25. \A i \in 1..n : a[k2 + i] = nl[i]
  BY <1>8, <1>13, <1>17, <1>19, PiecesOfSuffix
<1>26. \A i \in 1..l : a[k3 + i] = lines[i]
  BY <1>8, <1>14, <1>17, <1>18, PiecesOfSuffix
<1>27. \A i \in 1..one : a[k4 + i] = end[i]
  BY <1>8, <1>15, <1>16, <1>17, PiecesOfSuffix
<1>28. PICK f, h : /\ f = k1 /\ h = g + n /\ f \in Nat /\ h \in Nat /\ f > 0 /\ f = p + 1
                   /\ k2 = f + g /\ k3 = f + h /\ k4 = f + h + l /\ k5 = f + h + l + 1
                   /\ l = Len(lines) /\ Len(a) = f + h + l + 1 + q /\ q \in Nat
  <2>1. PICK f, h : f = k1 /\ h = g + n
    OBVIOUS
  <2>2. p \in Nat /\ g \in Nat /\ n \in Nat /\ l \in Nat /\ one = 1
    BY <1>7, <1>17
  <2>3. f \in Nat /\ h \in Nat /\ f > 0 /\ f = p + 1
    BY <1>8, <2>1, <2>2
  <2>4. k2 = f + g /\ k3 = f + h
    BY <1>8, <2>1, <2>2, <2>3
  <2>5. k4 = f + h + l /\ k5 = f + h + l + 1
    BY <1>8, <2>2, <2>3, <2>4
  <2>6. l = Len(lines) /\ q \in Nat /\ Len(a) = f + h + l + 1 + q
    BY <1>5, <1>6, <1>16, <2>5
  <2>7. QED
    BY <2>1, <2>3, <2>4, <2>5, <2>6, Zenon
<1>29. a[f] = "fence" /\ a[k5] = "\n"
  <2>1. 1 \in 1..one /\ f = p + 1 /\ k5 = k4 + 1
    BY <1>7, <1>8, <1>28
  <2>2. QED
    BY <1>7, <1>23, <1>27, <2>1
<1>30. a[1] # "\n" /\ \A i \in 1..f - 1 : a[i] # "fence"
  <2>1. f - 1 = p /\ (p = 0 \/ 1 \in 1..p)
    BY <1>2, <1>28
  <2>2. \A i \in 1..p : a[i] # "fence"
    BY <1>2, <1>22
  <2>3. p = 0 => a[1] = "fence"
    BY <1>28, <1>29
  <2>4. 1 \in 1..p => a[1] = "prose"
    BY <1>2, <1>22
  <2>5. QED
    BY <2>1, <2>2, <2>3, <2>4
<1>31. \/ h = 0
       \/ h = 1 /\ a[f + 1] \in {"\n", "sql", "sql:"}
       \/ h = 2 /\ a[f + 1] \in {"sql", "sql:"} /\ a[f + 2] = "\n"
  <2>1. ASSUME g = 1 PROVE a[f + 1] \in {"sql", "sql:"}
    <3>1. 1 \in 1..g
      BY <2>1
    <3>2. a[k1 + 1] = tag[1]
      BY <1>24, <3>1
    <3>3. tag[1] \in {"sql", "sql:"}
      BY <1>3, <2>1
    <3>4. QED
      BY <1>28, <3>2, <3>3
  <2>2. ASSUME n = 1 PROVE a[f + g + 1] = "\n"
    <3>1. 1 \in 1..n
      BY <2>2
    <3>2. a[k2 + 1] = nl[1]
      BY <1>25, <3>1
    <3>3. QED
      BY <1>4, <1>28, <2>2, <3>2
  <2>3. (g = 0 \/ g = 1) /\ (n = 0 \/ n = 1) /\ h = g + n /\ f \in Nat
    BY <1>3, <1>4, <1>28
  <2>4. CASE g = 0 /\ n = 0
    BY <2>3, <2>4
  <2>5. CASE g = 1 /\ n = 0
    BY <2>1, <2>3, <2>5
  <2>6. CASE g = 0 /\ n = 1
    BY <2>2, <2>3, <2>6
  <2>7. CASE g = 1 /\ n = 1
    <3>1. f + g + 1 = f + 2 /\ h = 2
      BY <2>3, <2>7
    <3>2. QED
      BY <2>1, <2>2, <2>7, <3>1
  <2>8. QED
    BY <2>3, <2>4, <2>5, <2>6, <2>7
<1>32. q > 0 => a[f + h + l + 2] = "fence"
  <2>1. q > 0 => 1 \in 1..q
    BY <1>5
  <2>2. k5 + 1 = f + h + l + 2
    BY <1>6, <1>28
  <2>3. q > 0 => a[k5 + 1] = post[1]
    BY <1>16, <2>1
  <2>4. QED
    BY <1>5, <2>2, <2>3
<1>33. /\ a[f + h + l + 1] = "\n" /\ \A i \in 1..l : a[f + h + i] = lines[i]
       /\ Len(a) >= f + h + l + 1
       /\ (Len(a) > f + h + l + 1 => q > 0)
  <2>1. a[f + h + l + 1] = "\n" /\ k3 = f + h
    BY <1>28, <1>29
  <2>2. \A i \in 1..l : a[f + h + i] = lines[i]
    BY <1>26, <2>1
  <2>3. Len(a) >= f + h + l + 1 /\ (Len(a) > f + h + l + 1 => q > 0)
    <3>1. PICK z : z = f + h + l + 1
      OBVIOUS
    <3>2. f \in Nat /\ h \in Nat /\ l \in Nat /\ q \in Nat
      BY <1>6, <1>28
    <3>3. z \in Nat
      BY <3>1, <3>2
    <3>4. Len(a) = z + q
      BY <1>28, <3>1
    <3>5. Len(a) >= z /\ (Len(a) > z => q > 0)
      BY <3>2, <3>3, <3>4
    <3>6. QED
      BY <3>1, <3>5
  <2>4. QED
    BY <2>1, <2>2, <2>3
<1>34. Fenced(a, lines, f, h)
  BY <1>16, <1>28, <1>29, <1>30, <1>31, <1>32, <1>33 DEF Fenced
<1>35. QED
  BY <1>28, <1>34

\* A beginning of the SQL and of the end of line behind it, trimmed.
LEMMA TrimmedSql ==
  ASSUME NEW lines, Solid(lines), NEW l \in Nat, l = Len(lines),
         NEW d \in Seq(AnswerPieces), NEW m \in Nat, m = Len(d), 1 <= m, m <= l + 1,
         \A i \in 1..m : i <= l => d[i] = lines[i],
         m = l + 1 => d[m] = "\n"
  PROVE  IsPrefix(TrimLines(d), lines) /\ (m = l + 1 => TrimLines(d) = lines)
<1>1. /\ lines \in Seq(AnswerPieces) /\ l > 0 /\ lines[1] # "\n" /\ lines[l] # "\n"
  BY DEF Solid
<1>2. d[1] = lines[1] /\ 1 \in 1..m
  BY <1>1
<1>3. PICK y \in 1..m : /\ TrimLines(d) = SubSeq(d, 1, y)
                        /\ d[y] # "\n"
                        /\ \A i \in 1..m : i > y => d[i] = "\n"
  <2>1. d[1] # "\n" /\ m > 0
    BY <1>1, <1>2
  <2>2. QED
    BY <2>1, LinesTrimmed
<1>4. y <= l /\ y \in Nat /\ y \in 1..Len(d) /\ y \in 1..Len(lines)
  BY <1>3
<1>5. PICK x : x = SubSeq(d, 1, y)
  OBVIOUS
<1>6. x \in Seq(AnswerPieces) /\ Len(x) = y /\ \A i \in 1..y : x[i] = d[i]
  <2>1. /\ SubSeq(d, 1, y) \in Seq(AnswerPieces) /\ Len(SubSeq(d, 1, y)) = y - 1 + 1
        /\ \A i \in 1..y - 1 + 1 : SubSeq(d, 1, y)[i] = d[1 + i - 1]
    <3>1. 1 \in 1..Len(d) /\ y \in 1..Len(d)
      BY <1>4
    <3>2. QED
      BY <3>1, Part
  <2>2. y - 1 + 1 = y /\ \A i \in 1..y : 1 + i - 1 = i
    BY <1>4
  <2>3. QED
    BY <1>5, <2>1, <2>2
<1>7. \A i \in 1..y : x[i] = lines[i]
  BY <1>4, <1>6
<1>8. PICK z : z = SubSeq(lines, 1, y)
  OBVIOUS
<1>9. z \in Seq(AnswerPieces) /\ Len(z) = y /\ \A i \in 1..y : z[i] = lines[i]
  <2>1. /\ SubSeq(lines, 1, y) \in Seq(AnswerPieces) /\ Len(SubSeq(lines, 1, y)) = y - 1 + 1
        /\ \A i \in 1..y - 1 + 1 : SubSeq(lines, 1, y)[i] = lines[1 + i - 1]
    <3>1. 1 \in 1..Len(lines) /\ y \in 1..Len(lines)
      BY <1>4
    <3>2. QED
      BY <1>1, <3>1, Part
  <2>2. y - 1 + 1 = y /\ \A i \in 1..y : 1 + i - 1 = i
    BY <1>4
  <2>3. QED
    BY <1>8, <2>1, <2>2
<1>10. x = z
  BY <1>6, <1>7, <1>9, SeqEqual
<1>11. IsPrefix(x, lines)
  BY <1>1, <1>4, <1>6, <1>8, <1>10 DEF IsPrefix
<1>12. ASSUME m = l + 1 PROVE x = lines
  <2>1. y = l
    <3>1. l \in 1..m /\ d[l] = lines[l]
      BY <1>1, <1>12
    <3>2. ~ (l > y)
      BY <1>1, <1>3, <3>1
    <3>3. QED
      BY <1>4, <3>2
  <2>2. QED
    BY <1>1, <1>6, <1>7, <2>1, SeqEqual
<1>13. QED
  BY <1>3, <1>5, <1>11, <1>12

\* What is left of a fenced answer once it is cut off behind the n-th piece and
\* trimmed: a part of it that reaches the fence.
LEMMA FenceIsReached ==
  ASSUME NEW lines, NEW a, NEW f \in Nat, NEW h \in Nat, f > 0, Fenced(a, lines, f, h),
         NEW n \in 0..Len(a), NEW t, t = SubSeq(a, 1, n), At(t, "fence") # {}
  PROVE  \E u \in Seq(AnswerPieces) :
           /\ u = TrimLines(t) /\ Embeds(u, a, 0) /\ f <= Len(u) /\ u[Len(u)] # "\n"
           /\ \A i \in At(t, "fence") : i \in 1..Len(u) /\ a[i] = "fence"
<1>1. /\ a \in Seq(AnswerPieces) /\ a[f] = "fence" /\ a[1] # "\n"
      /\ \A i \in 1..f - 1 : a[i] # "fence"
  BY DEF Fenced
<1>2. Len(a) \in Nat /\ n \in Nat /\ n <= Len(a)
  BY <1>1
<1>3. /\ t \in Seq(AnswerPieces) /\ Len(t) = n /\ \A i \in 1..n : t[i] = a[i]
  <2>1. 1 \in Nat /\ n \in Int /\ 1 <= 1 /\ n <= Len(a)
    BY <1>2
  <2>2. /\ SubSeq(a, 1, n) \in Seq(AnswerPieces)
        /\ Len(SubSeq(a, 1, n)) = IF 1 <= n THEN n - 1 + 1 ELSE 0
        /\ \A i \in 1..n - 1 + 1 : SubSeq(a, 1, n)[i] = a[1 + i - 1]
    BY <1>1, <2>1, PiecesOfPart
  <2>3. n - 1 + 1 = n /\ (~ (1 <= n) => n = 0) /\ \A i \in 1..n : 1 + i - 1 = i
    BY <1>2
  <2>4. QED
    BY <2>2, <2>3
<1>4. DOMAIN t = 1..n
  BY <1>2, <1>3
<1>5. PICK j \in 1..n : t[j] = "fence"
  BY <1>4 DEF At
<1>6. f <= j
  <2>1. j \notin 1..f - 1
    BY <1>1, <1>3, <1>5
  <2>2. QED
    BY <2>1
<1>7. f \in 1..n /\ n > 0 /\ t[f] = "fence" /\ t[1] # "\n"
  <2>1. f \in 1..n /\ 1 \in 1..n /\ n > 0
    BY <1>6
  <2>2. QED
    BY <1>1, <1>3, <2>1
<1>8. PICK y \in 1..n : /\ TrimLines(t) = SubSeq(t, 1, y)
                        /\ t[y] # "\n"
                        /\ \A i \in 1..n : i > y => t[i] = "\n"
  BY <1>2, <1>3, <1>7, LinesTrimmed
<1>9. y \in f..n
  <2>1. ~ (f > y)
    BY <1>7, <1>8
  <2>2. QED
    BY <1>7, <2>1
<1>10. PICK u : u = SubSeq(t, 1, y)
  OBVIOUS
<1>11. u \in Seq(AnswerPieces) /\ Len(u) = y /\ \A i \in 1..y : u[i] = t[i]
  <2>1. 1 \in 1..Len(t) /\ y \in 1..Len(t)
    BY <1>3
  <2>2. /\ SubSeq(t, 1, y) \in Seq(AnswerPieces) /\ Len(SubSeq(t, 1, y)) = y - 1 + 1
        /\ \A i \in 1..y - 1 + 1 : SubSeq(t, 1, y)[i] = t[1 + i - 1]
    BY <1>3, <2>1, Part
  <2>3. y - 1 + 1 = y /\ \A i \in 1..y : 1 + i - 1 = i
    OBVIOUS
  <2>4. QED
    BY <1>10, <2>2, <2>3
<1>12. y \in 1..y /\ \A i \in 1..y : i \in 1..n
  OBVIOUS
<1>13. (\A i \in 1..y : u[i] = a[i] /\ t[i] = a[i]) /\ u[y] # "\n"
  BY <1>3, <1>8, <1>11, <1>12
<1>14. Embeds(u, a, 0)
  <2>1. 0 + Len(u) <= Len(a) /\ Len(u) = y /\ \A i \in 1..y : 0 + i = i
    BY <1>2, <1>11
  <2>2. QED
    BY <1>13, <2>1 DEF Embeds
<1>15. \A i \in At(t, "fence") : i \in 1..y /\ a[i] = "fence"
  <2>1. SUFFICES ASSUME NEW i \in At(t, "fence") PROVE i \in 1..y /\ a[i] = "fence"
    OBVIOUS
  <2>2. i \in 1..n /\ t[i] = "fence"
    BY <1>4 DEF At
  <2>3. ~ (i > y)
    BY <1>8, <2>2
  <2>4. QED
    BY <1>3, <2>2, <2>3
<1>16. u = TrimLines(t) /\ f <= Len(u) /\ u[Len(u)] # "\n"
  BY <1>8, <1>9, <1>10, <1>11, <1>13
<1>17. \A i \in At(t, "fence") : i \in 1..Len(u) /\ a[i] = "fence"
  BY <1>11, <1>15
<1>18. QED
  BY <1>11, <1>14, <1>16, <1>17, Zenon

\* What is behind the fence.
LEMMA BehindFence ==
  ASSUME NEW lines, NEW a, NEW f \in Nat, NEW h \in Nat, f > 0, Fenced(a, lines, f, h),
         NEW u \in Seq(AnswerPieces), Embeds(u, a, 0), f <= Len(u)
  PROVE  /\ At(u, "fence") # {} /\ After(u, "fence") \in Seq(AnswerPieces)
         /\ Len(After(u, "fence")) = Len(u) - f
         /\ Embeds(After(u, "fence"), a, f)
<1>1. PICK y \in Nat : y = Len(u) /\ y <= Len(a) /\ \A i \in 1..y : u[i] = a[i]
  BY DEF Embeds
<1>2. a[f] = "fence" /\ (\A i \in 1..f - 1 : a[i] # "fence")
  BY DEF Fenced
<1>3. FirstAt(u, "fence", f)
  <2>1. f \in 1..y /\ \A i \in 1..f - 1 : i \in 1..y
    BY <1>1
  <2>2. QED
    BY <1>1, <1>2, <2>1 DEF FirstAt
<1>4. /\ At(u, "fence") # {} /\ After(u, "fence") \in Seq(AnswerPieces)
      /\ Halves(Before(u, "fence"), After(u, "fence"), u, f)
  BY <1>3, Split
<1>5. PICK r : r = After(u, "fence")
  OBVIOUS
<1>6. Len(r) = y - f /\ \A i \in 1..y - f : r[i] = u[f + i]
  BY <1>1, <1>4, <1>5 DEF Halves
<1>7. \A i \in 1..y - f : f + i \in 1..y
  OBVIOUS
<1>8. Embeds(r, a, f)
  <2>1. f + (y - f) = y
    BY <1>1
  <2>2. QED
    BY <1>1, <1>6, <1>7, <2>1 DEF Embeds
<1>9. QED
  BY <1>1, <1>4, <1>5, <1>6, <1>8

\* The first line of a text, and what is behind it.
LEMMA FirstLine ==
  ASSUME NEW S, NEW t \in Seq(S), At(t, "\n") # {}
  PROVE  \E k \in 1..Len(t) :
           /\ t[k] = "\n"
           /\ After(t, "\n") \in Seq(S)
           /\ Halves(Before(t, "\n"), After(t, "\n"), t, k)
<1>1. PICK k \in 1..Len(t) : t[k] = "\n" /\ \A i \in 1..Len(t) : t[i] = "\n" => k <= i
  BY FirstAndLast
<1>2. \A i \in 1..k - 1 : t[i] # "\n"
  <2>1. \A i \in 1..k - 1 : i \in 1..Len(t) /\ ~ (k <= i)
    OBVIOUS
  <2>2. QED
    BY <1>1, <2>1
<1>3. FirstAt(t, "\n", k)
  BY <1>1, <1>2 DEF FirstAt
<1>4. After(t, "\n") \in Seq(S) /\ Halves(Before(t, "\n"), After(t, "\n"), t, k)
  BY <1>3, Split
<1>5. QED
  BY <1>1, <1>4

\* The first line of a text is l.
FirstLineIs(t, l) == At(t, "\n") # {} /\ Before(t, "\n") = l

\* It is, whatever is behind it, if its pieces are those of l and then a line ends.
LEMMA FirstLineLength ==
  ASSUME NEW t \in Seq(AnswerPieces), NEW l, FirstLineIs(t, l), NEW g \in Nat, g = Len(l)
  PROVE  /\ g + 1 \in 1..Len(t) /\ t[g + 1] = "\n" /\ \A i \in 1..g : t[i] = l[i]
         /\ After(t, "\n") \in Seq(AnswerPieces)
         /\ Len(After(t, "\n")) = Len(t) - (g + 1)
         /\ \A i \in 1..Len(t) - (g + 1) : After(t, "\n")[i] = t[g + 1 + i]
<1>1. PICK k \in 1..Len(t) :
        /\ t[k] = "\n" /\ After(t, "\n") \in Seq(AnswerPieces)
        /\ Halves(Before(t, "\n"), After(t, "\n"), t, k)
  BY FirstLine DEF FirstLineIs
<1>2. /\ Len(l) = k - 1 /\ \A i \in 1..k - 1 : l[i] = t[i]
      /\ Len(After(t, "\n")) = Len(t) - k
      /\ \A i \in 1..Len(t) - k : After(t, "\n")[i] = t[k + i]
  BY <1>1 DEF Halves, FirstLineIs
<1>3. k = g + 1 /\ k - 1 = g
  BY <1>2
<1>4. QED
  BY <1>1, <1>2, <1>3

\* If the fence's first line is empty or one word, that is dropped.
LEMMA FirstLineDropped ==
  ASSUME NEW rest \in Seq(AnswerPieces), NEW l \in {<< >>, <<"sql">>, <<"SELECT">>},
         FirstLineIs(rest, l)
  PROVE  WithoutTag(rest, Tags) = After(rest, "\n")
<1>1. \/ Before(rest, "\n") = << >>
      \/ \E w \in Tags : Before(rest, "\n") = <<w>>
  BY DEF Tags, FirstLineIs
<1>2. QED
  BY <1>1 DEF WithoutTag, FirstLineIs

\* If not, nothing is.
LEMMA FirstLineKept ==
  ASSUME NEW rest \in Seq(AnswerPieces), ~ FirstLineIs(rest, << >>),
         ~ FirstLineIs(rest, <<"sql">>), ~ FirstLineIs(rest, <<"SELECT">>)
  PROVE  WithoutTag(rest, Tags) = rest
  BY DEF WithoutTag, FirstLineIs, Tags

\* What is dropped of the text behind a fence leaves a part of the answer.
LEMMA DroppedLineEmbeds ==
  ASSUME NEW a \in Seq(AnswerPieces), NEW f \in Nat,
         NEW rest \in Seq(AnswerPieces), Embeds(rest, a, f),
         NEW l, FirstLineIs(rest, l), NEW g \in Nat, g = Len(l)
  PROVE  /\ Embeds(After(rest, "\n"), a, f + (g + 1))
         /\ Len(rest) = g + 1 + Len(After(rest, "\n"))
<1>1. PICK b, r, k : b = After(rest, "\n") /\ r = Len(rest) /\ k = g + 1
  OBVIOUS
<1>2. k \in 1..r /\ Len(b) = r - k /\ \A i \in 1..r - k : b[i] = rest[k + i]
  <2>1. /\ g + 1 \in 1..Len(rest)
        /\ Len(After(rest, "\n")) = Len(rest) - (g + 1)
        /\ \A i \in 1..Len(rest) - (g + 1) : After(rest, "\n")[i] = rest[g + 1 + i]
    BY FirstLineLength
  <2>2. QED
    BY <1>1, <2>1
<1>3. r \in Nat /\ k \in Nat /\ Len(b) \in Nat /\ r = k + Len(b)
  BY <1>1, <1>2
<1>4. f + r <= Len(a) /\ \A i \in 1..r : a[f + i] = rest[i]
  BY <1>1 DEF Embeds
<1>5. f + k + Len(b) <= Len(a)
  BY <1>3, <1>4
<1>6. \A i \in 1..Len(b) : a[f + k + i] = b[i]
  <2>1. TAKE i \in 1..Len(b)
  <2>2. k + i \in 1..r /\ f + (k + i) = f + k + i /\ i \in 1..r - k
    BY <1>2, <1>3
  <2>3. QED
    BY <1>2, <1>4, <2>2
<1>7. QED
  BY <1>1, <1>3, <1>5, <1>6 DEF Embeds

\* The SQL up to a closing fence, or what there is of it.
SqlOf(body, lines) ==
  /\ IsPrefix(TrimLines(Block(body)), lines)
  /\ At(body, "fence") # {} => TrimLines(Block(body)) = lines

\* That is what is taken of the text behind the tag.
LEMMA BlockIsSql ==
  ASSUME NEW lines, Solid(lines), NEW a, NEW o \in Nat, Stands(lines, a, o),
         NEW body \in Seq(AnswerPieces), Embeds(body, a, o), Len(body) > 0,
         body[Len(body)] # "\n"
  PROVE  SqlOf(body, lines)
<1>1. PICK b \in Nat : /\ b = Len(body) /\ b > 0 /\ o + b <= Len(a) /\ body[b] # "\n"
                       /\ \A i \in 1..b : body[i] = a[o + i]
  BY DEF Embeds
<1>2. PICK l : /\ l = Len(lines) /\ l \in Nat /\ l > 0
               /\ \A i \in 1..l : lines[i] # "fence"
  BY DEF Solid
<1>3. PICK z : z = o + l + 1 /\ z \in Nat
  BY <1>2
<1>4. /\ \A i \in 1..l : a[o + i] = lines[i]
      /\ a[z] = "\n"
      /\ Len(a) > z => a[z + 1] = "fence"
  <2>1. o + l + 2 = z + 1
    BY <1>2, <1>3
  <2>2. QED
    BY <1>2, <1>3, <2>1 DEF Stands
<1>5. \A i \in 1..b : i <= l => body[i] = lines[i]
  <2>1. \A i \in 1..b : i <= l => i \in 1..l
    BY <1>2
  <2>2. QED
    BY <1>1, <1>4, <2>1
<1>6. l + 1 \in 1..b => body[l + 1] = "\n"
  <2>1. o + (l + 1) = z
    BY <1>2, <1>3
  <2>2. QED
    BY <1>1, <1>4, <2>1
<1>7. l + 2 \in 1..b => body[l + 2] = "fence"
  <2>1. ASSUME l + 2 \in 1..b PROVE body[l + 2] = "fence"
    <3>1. o + (l + 2) = z + 1 /\ l + 2 <= b
      BY <1>2, <1>3, <2>1
    <3>2. Len(a) \in Nat
      BY DEF Stands
    <3>3. Len(a) > z
      BY <1>1, <1>2, <1>3, <3>1, <3>2
    <3>4. body[l + 2] = a[z + 1]
      BY <1>1, <2>1, <3>1
    <3>5. QED
      BY <1>4, <3>3, <3>4
  <2>2. QED
    BY <2>1
<1>8. CASE At(body, "fence") = {}
  <2>1. Block(body) = body
    BY <1>8 DEF Block
  <2>2. \A i \in 1..b : body[i] # "fence"
    <3>1. DOMAIN body = 1..b
      BY <1>1
    <3>2. \A i \in DOMAIN body : body[i] # "fence"
      BY <1>8 DEF At
    <3>3. QED
      BY <3>1, <3>2
  <2>3. b <= l + 1
    <3>1. l + 2 \notin 1..b
      BY <1>7, <2>2
    <3>2. QED
      BY <1>1, <1>2, <3>1
  <2>4. b # l + 1
    <3>1. b \in 1..b
      BY <1>1
    <3>2. QED
      BY <1>1, <1>6, <3>1
  <2>5. IsPrefix(TrimLines(body), lines)
    <3>1. 1 <= b /\ (b = l + 1 => body[b] = "\n")
      BY <1>1, <2>4
    <3>2. QED
      BY <1>1, <1>2, <1>5, <2>3, <3>1, TrimmedSql
  <2>6. QED
    BY <1>8, <2>1, <2>5 DEF SqlOf
<1>9. CASE At(body, "fence") # {}
  <2>1. PICK k \in 1..b : body[k] = "fence" /\ \A i \in 1..b : body[i] = "fence" => k <= i
    <3>1. PICK x \in Nat : x = Min(At(body, "fence")) /\ x \in 1..Len(body) /\ body[x] = "fence"
                           /\ \A i \in 1..Len(body) : body[i] = "fence" => x <= i
      BY <1>9, FirstAndLast
    <3>2. QED
      BY <1>1, <3>1
  <2>2. k = l + 2
    <3>1. k \in Nat /\ k <= b /\ k >= 1 /\ b \in Nat
      BY <1>1
    <3>2. ~ (k <= l)
      <4>1. ASSUME k <= l PROVE FALSE
        <5>1. k \in 1..l /\ body[k] = lines[k]
          BY <1>2, <1>5, <3>1, <4>1
        <5>2. QED
          BY <1>2, <2>1, <5>1
      <4>2. QED
        BY <4>1
    <3>3. k # l + 1
      BY <1>6, <2>1
    <3>4. ~ (k > l + 2)
      <4>1. ASSUME k > l + 2 PROVE FALSE
        <5>1. l + 2 \in 1..b
          BY <1>2, <3>1, <4>1
        <5>2. k <= l + 2
          BY <1>7, <2>1, <5>1
        <5>3. QED
          BY <1>2, <3>1, <4>1, <5>2
      <4>2. QED
        BY <4>1
    <3>5. QED
      BY <1>2, <3>1, <3>2, <3>3, <3>4
  <2>3. FirstAt(body, "fence", k)
    <3>1. \A i \in 1..k - 1 : i \in 1..b /\ ~ (k <= i)
      BY <1>1
    <3>2. QED
      BY <1>1, <2>1, <3>1 DEF FirstAt
  <2>4. PICK d \in Seq(AnswerPieces) : d = Block(body) /\ Len(d) = k - 1
                                       /\ \A i \in 1..k - 1 : d[i] = body[i]
    <3>1. /\ Before(body, "fence") \in Seq(AnswerPieces)
          /\ Halves(Before(body, "fence"), After(body, "fence"), body, k)
      BY <2>3, Split
    <3>2. Block(body) = Before(body, "fence")
      BY <1>9 DEF Block
    <3>3. QED
      BY <3>1, <3>2 DEF Halves
  <2>5. PICK m : m = l + 1 /\ m \in Nat /\ k - 1 = m /\ m \in 1..b
    BY <1>2, <2>2
  <2>6. \A i \in 1..m : i <= l => d[i] = lines[i]
    <3>1. \A i \in 1..m : i \in 1..b
      BY <2>5
    <3>2. QED
      BY <1>5, <2>4, <2>5, <3>1
  <2>7. d[m] = "\n" /\ Len(d) = m
    <3>1. m \in 1..m
      BY <1>2, <2>5
    <3>2. d[m] = body[m] /\ Len(d) = m
      BY <2>4, <2>5, <3>1
    <3>3. QED
      BY <1>6, <2>5, <3>2
  <2>8. IsPrefix(TrimLines(d), lines) /\ TrimLines(d) = lines
    <3>1. 1 <= m /\ m <= l + 1 /\ m = l + 1
      BY <1>2, <2>5
    <3>2. l \in Nat /\ l = Len(lines) /\ m \in Nat /\ m = Len(d)
      BY <1>2, <2>5, <2>7
    <3>3. d \in Seq(AnswerPieces)
      BY <2>4
    <3>4. m = l + 1 => d[m] = "\n"
      BY <2>7
    <3>5. IsPrefix(TrimLines(d), lines) /\ (m = l + 1 => TrimLines(d) = lines)
      BY <2>6, <3>1, <3>2, <3>3, <3>4, TrimmedSql
    <3>6. QED
      BY <3>1, <3>5
  <2>9. QED
    BY <2>4, <2>8 DEF SqlOf
<1>10. QED
  BY <1>8, <1>9

\* u is what is left of t once it is trimmed: a part of a that reaches the fence.
Reached(t, u, a, f) ==
  /\ u \in Seq(AnswerPieces) /\ u = TrimLines(t)
  /\ Embeds(u, a, 0) /\ f <= Len(u) /\ u[Len(u)] # "\n"
  /\ \A i \in At(t, "fence") : i \in 1..Len(u) /\ a[i] = "fence"

\* body is what is left of t for its SQL: it stands behind the o-th piece of a, and
\* but for the first fence all of t's are in it.
Left(t, a, f, body, o) ==
  /\ body \in Seq(AnswerPieces) /\ f <= o
  /\ ExtractSQL(t, Tags) = TrimLines(Block(body))
  /\ Embeds(body, a, o)
  /\ Len(body) > 0 => body[Len(body)] # "\n"
  /\ \A i \in At(t, "fence") : a[i] = "fence" /\ (i = f \/ i \in o + 1 .. o + Len(body))

\* What is taken of t is s, or a beginning of it if there is no second fence.
IsTaken(t, s) ==
  /\ IsPrefix(ExtractSQL(t, Tags), s)
  /\ Cardinality(At(t, "fence")) = 2 => ExtractSQL(t, Tags) = s

\* With one fence only, nothing more is to be shown than a beginning.
LEMMA OneFence ==
  ASSUME NEW a, NEW f \in Nat, NEW t, At(t, "fence") # {}, NEW body, NEW o \in Nat,
         Left(t, a, f, body, o), At(body, "fence") = {}
  PROVE  Cardinality(At(t, "fence")) # 2
<1>1. PICK b \in Nat : b = Len(body) /\ \A i \in 1..b : body[i] = a[o + i]
  BY DEF Left, Embeds
<1>2. DOMAIN body = 1..b
  BY <1>1 DEF Left
<1>3. \A i \in 1..b : body[i] # "fence"
  BY <1>2 DEF At
<1>4. ASSUME NEW j \in At(t, "fence") PROVE j = f
  <2>1. j = f \/ j \in o + 1 .. o + b
    BY <1>1 DEF Left
  <2>2. ASSUME j \in o + 1 .. o + b PROVE FALSE
    <3>1. a[j] = "fence"
      BY DEF Left
    <3>2. j - o \in 1..b /\ o + (j - o) = j
      BY <2>2
    <3>3. QED
      BY <1>1, <1>3, <3>1, <3>2
  <2>3. QED
    BY <2>1, <2>2
<1>5. PICK C : C = {f}
  OBVIOUS
<1>6. At(t, "fence") = C
  <2>1. \E j : j \in At(t, "fence")
    OBVIOUS
  <2>2. QED
    BY <1>4, <1>5, <2>1
<1>7. Cardinality(C) = 1
  BY <1>5, FS_Singleton
<1>8. QED
  BY <1>6, <1>7

\* If nothing is left, the SQL that is taken is empty.
LEMMA EmptyIsTaken ==
  ASSUME NEW a, NEW f \in Nat, NEW t, At(t, "fence") # {}, NEW body, NEW o \in Nat,
         Left(t, a, f, body, o), body = << >>, NEW s, Solid(s)
  PROVE  IsTaken(t, s)
<1>1. At(body, "fence") = {}
  BY DEF At
<1>2. TrimLines(<< >>) = << >>
  BY DEF TrimLines
<1>3. ExtractSQL(t, Tags) = << >>
  BY <1>1, <1>2 DEF Left, Block
<1>4. IsPrefix(<< >>, s)
  <2>1. s \in Seq(AnswerPieces) /\ Len(s) \in Nat
    BY DEF Solid
  <2>2. SubSeq(s, 1, 0) = << >>
    BY <2>1
  <2>3. Len(<< >>) = 0 /\ 0 <= Len(s)
    BY <2>1
  <2>4. QED
    BY <2>2, <2>3 DEF IsPrefix
<1>5. QED
  BY <1>1, <1>3, <1>4, OneFence DEF IsTaken

\* A text that stands where what is left begins is taken.
LEMMA LeftIsTaken ==
  ASSUME NEW a, NEW f \in Nat, NEW t, At(t, "fence") # {}, NEW body, NEW o \in Nat,
         Left(t, a, f, body, o), NEW s, Solid(s), Stands(s, a, o)
  PROVE  IsTaken(t, s)
<1>1. /\ body \in Seq(AnswerPieces) /\ Embeds(body, a, o)
      /\ ExtractSQL(t, Tags) = TrimLines(Block(body))
      /\ Len(body) > 0 => body[Len(body)] # "\n"
  BY DEF Left
<1>2. At(body, "fence") = {} => Cardinality(At(t, "fence")) # 2
  BY OneFence
<1>3. CASE Len(body) > 0
  <2>1. SqlOf(body, s)
    BY <1>1, <1>3, BlockIsSql
  <2>2. QED
    BY <1>1, <1>2, <2>1 DEF SqlOf, IsTaken
<1>4. CASE ~ (Len(body) > 0)
  <2>1. body = << >>
    BY <1>1, <1>4
  <2>2. QED
    BY <2>1, EmptyIsTaken
<1>5. QED
  BY <1>3, <1>4

\* What is left behind the fence and a first line that is dropped, or none.
LEMMA LeftBehind ==
  ASSUME NEW lines, NEW a, NEW f \in Nat, NEW h \in Nat, f > 0, Fenced(a, lines, f, h),
         NEW t, NEW u, Reached(t, u, a, f),
         NEW body \in Seq(AnswerPieces), body = WithoutTag(After(u, "fence"), Tags),
         NEW g \in Nat, Embeds(body, a, f + g), Len(After(u, "fence")) = g + Len(body),
         \A i \in 1..g : a[f + i] # "fence"
  PROVE  Left(t, a, f, body, f + g)
<1>1. /\ u \in Seq(AnswerPieces) /\ u = TrimLines(t) /\ Embeds(u, a, 0) /\ f <= Len(u)
      /\ u[Len(u)] # "\n"
      /\ \A i \in At(t, "fence") : i \in 1..Len(u) /\ a[i] = "fence"
  BY DEF Reached
<1>2. At(u, "fence") # {} /\ Len(After(u, "fence")) = Len(u) - f
  <2>1. u \in Seq(AnswerPieces) /\ Embeds(u, a, 0) /\ f <= Len(u)
    BY <1>1
  <2>2. QED
    BY <2>1, BehindFence
<1>3. PICK b, y, o : b = Len(body) /\ y = Len(u) /\ o = f + g
  OBVIOUS
<1>4. b \in Nat /\ y \in Nat /\ o \in Nat /\ f <= o /\ y = o + b
  <2>1. b \in Nat /\ y \in Nat /\ o \in Nat /\ f <= o
    BY <1>1, <1>3
  <2>2. y - f = g + b
    BY <1>2, <1>3
  <2>3. QED
    BY <1>3, <2>1, <2>2
<1>5. ExtractSQL(t, Tags) = TrimLines(Block(body))
  BY <1>1, <1>2 DEF ExtractSQL
<1>6. b > 0 => body[b] # "\n"
  <2>1. ASSUME b > 0 PROVE body[b] # "\n"
    <3>1. b \in 1..b /\ y \in 1..y /\ 0 + y = y
      BY <1>4, <2>1
    <3>2. body[b] = a[o + b]
      BY <1>3, <3>1 DEF Embeds
    <3>3. u[y] = a[0 + y]
      BY <1>1, <1>3, <3>1 DEF Embeds
    <3>4. QED
      BY <1>1, <1>3, <1>4, <3>1, <3>2, <3>3
  <2>2. QED
    BY <2>1
<1>7. ASSUME NEW i \in At(t, "fence")
      PROVE  a[i] = "fence" /\ (i = f \/ i \in o + 1 .. o + b)
  <2>1. i \in 1..y /\ a[i] = "fence"
    BY <1>1, <1>3
  <2>2. ~ (i < f)
    <3>1. \A j \in 1..f - 1 : a[j] # "fence"
      BY DEF Fenced
    <3>2. i < f => i \in 1..f - 1
      BY <1>4, <2>1
    <3>3. QED
      BY <2>1, <3>1, <3>2
  <2>3. ~ (i > f /\ i <= o)
    <3>1. i > f /\ i <= o => i - f \in 1..g /\ f + (i - f) = i
      BY <1>3, <1>4, <2>1
    <3>2. QED
      BY <2>1, <3>1
  <2>4. QED
    BY <1>4, <2>1, <2>2, <2>3
<1>8. QED
  BY <1>3, <1>4, <1>5, <1>6, <1>7 DEF Left

\* The SQL stands behind what is in front of it.
LEMMA SqlStands ==
  ASSUME NEW lines \in Lines, NEW a, NEW f \in Nat, NEW h \in Nat, Fenced(a, lines, f, h)
  PROVE  /\ Solid(lines) /\ Stands(lines, a, f + h)
         /\ a[f + h + 1] = lines[1]
         /\ h \in {0, 1, 2} /\ \A i \in 1..h : a[f + i] # "fence"
<1>1. Solid(lines)
  BY LinesShape DEF Solid
<1>2. Stands(lines, a, f + h)
  BY DEF Stands, Fenced
<1>3. a[f + h + 1] = lines[1]
  <2>1. 1 \in 1..Len(lines)
    BY <1>1 DEF Solid
  <2>2. QED
    BY <1>2, <2>1 DEF Stands
<1>4. h \in {0, 1, 2} /\ \A i \in 1..h : a[f + i] # "fence"
  <2>1. \/ h = 0
        \/ h = 1 /\ a[f + 1] \in {"\n", "sql", "sql:"}
        \/ h = 2 /\ a[f + 1] \in {"sql", "sql:"} /\ a[f + 2] = "\n"
    BY DEF Fenced
  <2>2. \A i \in 1..h : (h = 1 \/ h = 2) /\ (i = 1 \/ (i = 2 /\ h = 2))
    BY <2>1
  <2>3. h = 1 \/ h = 2 => a[f + 1] # "fence"
    BY <2>1
  <2>4. h = 2 => a[f + 2] # "fence"
    BY <2>1
  <2>5. QED
    BY <2>1, <2>2, <2>3, <2>4
<1>5. QED
  BY <1>1, <1>2, <1>3, <1>4

\* Behind an empty first line, or one that is a tag, the SQL is taken.
LEMMA TagIsDropped ==
  ASSUME NEW lines \in Lines, NEW a, NEW f \in Nat, NEW h \in Nat, f > 0,
         Fenced(a, lines, f, h), NEW t, At(t, "fence") # {}, NEW u, Reached(t, u, a, f),
         NEW l, NEW g \in Nat, g = Len(l), g = 0 \/ (g = 1 /\ l[1] = "sql"),
         FirstLineIs(After(u, "fence"), l),
         WithoutTag(After(u, "fence"), Tags) = After(After(u, "fence"), "\n")
  PROVE  IsTaken(t, lines)
<1>1. PICK rest : rest = After(u, "fence")
  OBVIOUS
<1>2. rest \in Seq(AnswerPieces) /\ Embeds(rest, a, f) /\ FirstLineIs(rest, l)
  BY <1>1, BehindFence DEF Reached
<1>3. g \in Nat /\ g = Len(l) /\ (g = 0 \/ (g = 1 /\ l[1] = "sql"))
  OBVIOUS
<1>4. /\ g + 1 \in 1..Len(rest) /\ rest[g + 1] = "\n" /\ \A i \in 1..g : rest[i] = l[i]
      /\ After(rest, "\n") \in Seq(AnswerPieces)
  BY <1>2, <1>3, FirstLineLength
<1>5. a[f + 1] \in {"\n", "sql"} /\ a[f + (g + 1)] = "\n"
  <2>1. 1 \in 1..Len(rest)
    BY <1>3, <1>4
  <2>2. a[f + 1] = rest[1] /\ a[f + (g + 1)] = rest[g + 1]
    BY <1>2, <1>4, <2>1 DEF Embeds
  <2>3. rest[1] \in {"\n", "sql"}
    <3>1. g = 1 => 1 \in 1..g
      OBVIOUS
    <3>2. QED
      BY <1>3, <1>4, <3>1
  <2>4. QED
    BY <1>4, <2>2, <2>3
<1>6. h = g + 1
  <2>1. lines[1] \notin {"\n", "sql", "sql:"} /\ a[f + h + 1] = lines[1]
    BY LinesShape, SqlStands
  <2>2. CASE h = 0
    <3>1. f + h + 1 = f + 1
      BY <2>2
    <3>2. QED
      BY <1>5, <2>1, <3>1
  <2>3. CASE h = 1 /\ a[f + 1] \in {"\n", "sql", "sql:"}
    <3>1. h = 1
      BY <2>3
    <3>2. g # 1
      <4>1. ASSUME g = 1 PROVE FALSE
        <5>1. f + (g + 1) = f + h + 1
          BY <3>1, <4>1
        <5>2. a[f + h + 1] = "\n"
          BY <1>5, <5>1
        <5>3. QED
          BY <2>1, <5>2
      <4>2. QED
        BY <4>1
    <3>3. g = 0
      BY <1>3, <3>2
    <3>4. QED
      BY <3>1, <3>3
  <2>4. CASE h = 2 /\ a[f + 1] \in {"sql", "sql:"}
    <3>1. g # 0
      <4>1. ASSUME g = 0 PROVE FALSE
        <5>1. f + (g + 1) = f + 1
          BY <4>1
        <5>2. a[f + 1] = "\n"
          BY <1>5, <5>1
        <5>3. QED
          BY <2>4, <5>2
      <4>2. QED
        BY <4>1
    <3>2. g = 1
      BY <1>3, <3>1
    <3>3. QED
      BY <2>4, <3>2
  <2>5. QED
    BY <2>2, <2>3, <2>4 DEF Fenced
<1>7. PICK body : body = After(rest, "\n")
  OBVIOUS
<1>8. Embeds(body, a, f + h) /\ Len(rest) = h + Len(body)
  <2>1. a \in Seq(AnswerPieces)
    BY DEF Fenced
  <2>2. /\ Embeds(After(rest, "\n"), a, f + (g + 1))
        /\ Len(rest) = g + 1 + Len(After(rest, "\n"))
    BY <1>2, <1>3, <2>1, DroppedLineEmbeds
  <2>3. QED
    BY <1>6, <1>7, <2>2
<1>9. WithoutTag(rest, Tags) = After(rest, "\n")
  BY <1>1
<1>10. Solid(lines) /\ Stands(lines, a, f + h) /\ \A i \in 1..h : a[f + i] # "fence"
  <2>1. Solid(lines) /\ Stands(lines, a, f + h)
    BY SqlStands
  <2>2. \A i \in 1..h : a[f + i] # "fence"
    BY SqlStands, SMTT(30)
  <2>3. QED
    BY <2>1, <2>2
<1>11. Left(t, a, f, body, f + h)
  <2>1. /\ body \in Seq(AnswerPieces) /\ body = WithoutTag(After(u, "fence"), Tags)
        /\ Embeds(body, a, f + h) /\ Len(After(u, "fence")) = h + Len(body)
    BY <1>1, <1>4, <1>7, <1>8, <1>9
  <2>2. QED
    BY <1>10, <2>1, LeftBehind
<1>12. PICK o \in Nat : o = f + h
  OBVIOUS
<1>13. Left(t, a, f, body, o) /\ Solid(lines) /\ Stands(lines, a, o)
  BY <1>10, <1>11, <1>12
<1>14. QED
  BY <1>13, LeftIsTaken

\* If the SQL's own first line is one word, on the fence's line, the rest is taken.
LEMMA WordIsDropped ==
  ASSUME NEW lines \in Lines, NEW a, NEW f \in Nat, NEW h \in Nat, f > 0,
         Fenced(a, lines, f, h), NEW t, At(t, "fence") # {}, NEW u, Reached(t, u, a, f),
         FirstLineIs(After(u, "fence"), <<"SELECT">>)
  PROVE  IsTaken(t, After(lines, "\n"))
<1>1. PICK rest, l, g : rest = After(u, "fence") /\ l = <<"SELECT">> /\ g = 1
  OBVIOUS
<1>2. rest \in Seq(AnswerPieces) /\ Embeds(rest, a, f) /\ FirstLineIs(rest, l)
  BY <1>1, BehindFence DEF Reached
<1>3. g \in Nat /\ g = Len(l) /\ l[1] = "SELECT" /\ 1 \in 1..g /\ g + 1 = 2
  BY <1>1
<1>4. /\ 2 \in 1..Len(rest) /\ rest[1] = "SELECT" /\ After(rest, "\n") \in Seq(AnswerPieces)
  BY <1>2, <1>3, FirstLineLength
<1>5. a[f + 1] = "SELECT"
  <2>1. 1 \in 1..Len(rest)
    BY <1>4
  <2>2. QED
    BY <1>2, <1>4, <2>1 DEF Embeds
<1>6. h = 0
  BY <1>5 DEF Fenced
<1>7. f + h = f /\ f + h + 1 = f + 1
  BY <1>6
<1>8. PICK k : k = Len(lines) /\ k = 3 /\ lines[1] = "SELECT" /\ lines[2] = "\n" /\ lines[3] = "rest"
               /\ lines \in Seq(AnswerPieces)
  <2>1. lines[1] = "SELECT"
    BY <1>5, <1>7, SqlStands
  <2>2. QED
    BY <2>1, LinesShape
<1>9. PICK s : s = After(lines, "\n")
  OBVIOUS
<1>10. s \in Seq(AnswerPieces) /\ Len(s) = 1 /\ s[1] = "rest"
  <2>1. FirstAt(lines, "\n", 2)
    <3>1. 2 \in 1..Len(lines) /\ \A i \in 1..2 - 1 : i = 1
      BY <1>8
    <3>2. QED
      BY <1>8, <3>1 DEF FirstAt
  <2>2. /\ After(lines, "\n") \in Seq(AnswerPieces)
        /\ Halves(Before(lines, "\n"), After(lines, "\n"), lines, 2)
    BY <1>8, <2>1, Split
  <2>3. Len(After(lines, "\n")) = 1 /\ 1 \in 1..Len(lines) - 2 /\ 2 + 1 = 3
    BY <1>8, <2>2 DEF Halves
  <2>4. After(lines, "\n")[1] = "rest"
    BY <1>8, <2>2, <2>3 DEF Halves
  <2>5. QED
    BY <1>9, <2>2, <2>3, <2>4
<1>11. \A i \in 1..1 : i = 1
  OBVIOUS
<1>12. Solid(s)
  BY <1>10, <1>11 DEF Solid
<1>13. /\ a \in Seq(AnswerPieces) /\ Len(a) >= f + 4 /\ a[f + 3] = "rest" /\ a[f + 4] = "\n"
       /\ a[f + 2] = "\n" /\ (Len(a) > f + 4 => a[f + 5] = "fence")
  <2>1. Stands(lines, a, f)
    BY <1>7, SqlStands
  <2>2. f + Len(lines) + 1 = f + 4 /\ f + Len(lines) + 2 = f + 5
    BY <1>8
  <2>3. 2 \in 1..Len(lines) /\ 3 \in 1..Len(lines)
    BY <1>8
  <2>4. QED
    BY <1>8, <2>1, <2>2, <2>3, SMTT(30) DEF Stands
<1>14. Stands(s, a, f + 2)
  <2>1. f + 2 + 1 + 1 = f + 4 /\ f + 2 + 1 + 2 = f + 5 /\ f + 2 + 1 = f + 3
    OBVIOUS
  <2>2. \A i \in 1..1 : a[f + 2 + i] = s[i]
    BY <1>10, <1>11, <1>13, <2>1
  <2>3. QED
    BY <1>10, <1>13, <2>1, <2>2 DEF Stands
<1>15. PICK body : body = After(rest, "\n")
  OBVIOUS
<1>16. Embeds(body, a, f + 2) /\ Len(rest) = 2 + Len(body)
  BY <1>2, <1>3, <1>13, <1>15, DroppedLineEmbeds
<1>17. body = WithoutTag(rest, Tags) /\ body \in Seq(AnswerPieces)
  BY <1>1, <1>2, <1>4, <1>15, FirstLineDropped
<1>18. \A i \in 1..2 : a[f + i] # "fence"
  <2>1. \A i \in 1..2 : i = 1 \/ i = 2
    OBVIOUS
  <2>2. QED
    BY <1>5, <1>13, <2>1
<1>19. Left(t, a, f, body, f + 2)
  BY <1>1, <1>16, <1>17, <1>18, LeftBehind
<1>20. IsTaken(t, s)
  BY <1>12, <1>14, <1>19, LeftIsTaken
<1>21. QED
  BY <1>9, <1>20

\* What stands in front of the SQL stands there together with it.
LEMMA HeadStands ==
  ASSUME NEW lines \in Lines, NEW a, NEW f \in Nat, NEW h \in Nat, Fenced(a, lines, f, h),
         NEW head \in Seq(AnswerPieces), h = Len(head), h > 0, head[1] # "\n",
         \A i \in 1..h : head[i] = a[f + i]
  PROVE  Solid(head \o lines) /\ Stands(head \o lines, a, f)
<1>1. /\ Solid(lines) /\ Stands(lines, a, f + h)
      /\ \A i \in 1..h : a[f + i] # "fence"
  BY SqlStands
<1>2. PICK l, s, n : l = Len(lines) /\ s = head \o lines /\ n = h + l
  OBVIOUS
<1>3. /\ lines \in Seq(AnswerPieces) /\ l \in Nat /\ l > 0 /\ lines[l] # "\n"
      /\ \A i \in 1..l : lines[i] # "fence"
  BY <1>1, <1>2 DEF Solid
<1>4. /\ s \in Seq(AnswerPieces) /\ Len(s) = h + l
      /\ \A i \in 1..h : s[i] = head[i]
      /\ \A i \in 1..l : s[h + i] = lines[i]
  BY <1>2, <1>3, PiecesOfBoth
<1>5. n \in Nat /\ n > 0 /\ Len(s) = n /\ 1 \in 1..h /\ l \in 1..l
  BY <1>2, <1>3, <1>4
<1>6. \A i \in 1..n : i \in 1..h \/ (i - h \in 1..l /\ h + (i - h) = i /\ f + h + (i - h) = f + i)
  BY <1>2, <1>3
<1>7. \A i \in 1..l : a[f + h + i] = lines[i]
  BY <1>1, <1>2 DEF Stands
<1>8. \A i \in 1..n : s[i] = a[f + i] /\ s[i] # "fence"
  <2>1. TAKE i \in 1..n
  <2>2. CASE i \in 1..h
    BY <1>1, <1>4, <2>2
  <2>3. CASE i - h \in 1..l /\ h + (i - h) = i /\ f + h + (i - h) = f + i
    <3>1. PICK j \in 1..l : j = i - h
      BY <2>3
    <3>2. s[h + j] = lines[j] /\ a[f + h + j] = lines[j] /\ lines[j] # "fence"
      BY <1>3, <1>4, <1>7
    <3>3. h + j = i /\ f + h + j = f + i
      BY <2>3, <3>1
    <3>4. QED
      BY <3>2, <3>3
  <2>4. QED
    BY <1>6, <2>2, <2>3
<1>9. Solid(s)
  <2>1. s[n] = lines[l]
    BY <1>2, <1>4, <1>5
  <2>2. s[1] = head[1]
    BY <1>4, <1>5
  <2>3. QED
    BY <1>3, <1>4, <1>5, <1>8, <2>1, <2>2 DEF Solid
<1>10. Stands(s, a, f)
  <2>1. f + h + l + 1 = f + n + 1 /\ f + h + l + 2 = f + n + 2
    BY <1>2, <1>3
  <2>2. /\ a \in Seq(AnswerPieces) /\ Len(a) >= f + n + 1 /\ a[f + n + 1] = "\n"
        /\ Len(a) > f + n + 1 => a[f + n + 2] = "fence"
    BY <1>1, <1>2, <2>1 DEF Stands
  <2>3. QED
    BY <1>5, <1>8, <2>2 DEF Stands
<1>11. QED
  BY <1>2, <1>9, <1>10

\* A first line that is kept begins with the tag and what is between it and the SQL,
\* or with the SQL, which is taken with it.
LEMMA LineIsKept ==
  ASSUME NEW lines \in Lines, NEW a, NEW f \in Nat, NEW h \in Nat, f > 0,
         Fenced(a, lines, f, h), NEW t, At(t, "fence") # {}, NEW u, Reached(t, u, a, f),
         NEW rest, rest = After(u, "fence"), ~ FirstLineIs(rest, << >>),
         ~ FirstLineIs(rest, <<"sql">>), ~ FirstLineIs(rest, <<"SELECT">>)
  PROVE  IF rest # << >> /\ rest[1] \in {"sql", "sql:"}
         THEN \E nl \in {<< >>, <<"\n">>} : IsTaken(t, << rest[1] >> \o nl \o lines)
         ELSE IsTaken(t, lines)
<1>1. rest \in Seq(AnswerPieces) /\ Embeds(rest, a, f)
  BY BehindFence DEF Reached
<1>2. rest = WithoutTag(rest, Tags)
  BY <1>1, FirstLineKept
<1>3. Left(t, a, f, rest, f + 0)
  <2>1. PICK g \in Nat : g = 0
    OBVIOUS
  <2>2. f + g = f /\ Len(rest) = g + Len(rest) /\ 1..g = {}
    BY <1>1, <2>1
  <2>3. Embeds(rest, a, f + g) /\ \A i \in 1..g : a[f + i] # "fence"
    BY <1>1, <2>2
  <2>4. Left(t, a, f, rest, f + g)
    BY <1>1, <1>2, <2>2, <2>3, LeftBehind
  <2>5. QED
    BY <2>1, <2>4
<1>4. Left(t, a, f, rest, f)
  <2>1. f + 0 = f
    OBVIOUS
  <2>2. QED
    BY <1>3, <2>1
<1>5. rest # << >> => rest[1] = a[f + 1]
  <2>1. rest # << >> => 1 \in 1..Len(rest)
    BY <1>1
  <2>2. QED
    BY <1>1, <2>1 DEF Embeds
<1>6. CASE rest = << >>
  <2>1. IsTaken(t, lines)
    BY <1>4, <1>6, EmptyIsTaken, SqlStands
  <2>2. QED
    BY <1>6, <2>1
<1>7. CASE rest # << >> /\ rest[1] \in {"sql", "sql:"}
  <2>1. PICK tag \in {"sql", "sql:"} : tag = rest[1] /\ tag = a[f + 1]
    BY <1>5, <1>7
  <2>2. tag \in AnswerPieces /\ tag # "\n"
    BY <2>1 DEF AnswerPieces
  <2>3. PICK nl : nl = IF h = 2 THEN <<"\n">> ELSE << >>
    OBVIOUS
  <2>4. PICK head : /\ head = << tag >> \o nl /\ head \in Seq(AnswerPieces) /\ h = Len(head)
                    /\ h > 0 /\ head[1] # "\n" /\ \A i \in 1..h : head[i] = a[f + i]
    <3>1. PICK one : one = << tag >>
      OBVIOUS
    <3>2. one \in Seq(AnswerPieces) /\ Len(one) = 1 /\ one[1] = tag
      BY <2>2, <3>1
    <3>3. CASE h = 2 /\ a[f + 2] = "\n"
      <4>1. PICK e \in AnswerPieces : e = "\n"
        BY DEF AnswerPieces
      <4>2. nl = << e >>
        BY <2>3, <3>3, <4>1
      <4>3. PICK both : both = << tag, e >>
        OBVIOUS
      <4>4. both \in Seq(AnswerPieces) /\ Len(both) = 2 /\ both[1] = tag /\ both[2] = e
        BY <2>2, <4>3
      <4>5. both = << tag >> \o nl
        BY <2>2, <4>2, <4>3
      <4>6. \A i \in 1..2 : i = 1 \/ i = 2
        OBVIOUS
      <4>7. \A i \in 1..2 : both[i] = a[f + i]
        BY <2>1, <3>3, <4>1, <4>4, <4>6
      <4>8. both[1] # "\n" /\ h = Len(both) /\ h > 0 /\ h = 2
        BY <2>2, <3>3, <4>4
      <4>9. QED
        BY <4>4, <4>5, <4>7, <4>8
    <3>4. CASE h = 1
      <4>1. nl = << >>
        BY <2>3, <3>4
      <4>2. << tag >> \o nl = one
        BY <3>1, <3>2, <4>1, ConcatEmptySeq
      <4>3. \A i \in 1..1 : i = 1
        OBVIOUS
      <4>4. \A i \in 1..1 : one[i] = a[f + i]
        BY <2>1, <3>2, <4>3
      <4>5. one[1] # "\n" /\ h = Len(one) /\ h > 0 /\ h = 1
        BY <2>2, <3>2, <3>4
      <4>6. QED
        BY <3>2, <4>2, <4>4, <4>5
    <3>5. h # 0
      <4>1. ASSUME h = 0 PROVE FALSE
        <5>1. f + h + 1 = f + 1
          BY <4>1
        <5>2. tag = lines[1]
          BY <2>1, <5>1, SqlStands
        <5>3. QED
          BY <2>1, <5>2, LinesShape
      <4>2. QED
        BY <4>1
    <3>6. (h = 2 /\ a[f + 2] = "\n") \/ h = 1
      BY <3>5 DEF Fenced
    <3>7. QED
      BY <3>3, <3>4, <3>6
  <2>5. Solid(head \o lines) /\ Stands(head \o lines, a, f)
    <3>1. h = Len(head) /\ head \in Seq(AnswerPieces)
      BY <2>4
    <3>2. h > 0 /\ head[1] # "\n" /\ \A i \in 1..h : head[i] = a[f + i]
      BY <2>4
    <3>3. QED
      BY <3>1, <3>2, HeadStands, ZenonT(30)
  <2>6. IsTaken(t, head \o lines)
    BY <1>4, <2>5, LeftIsTaken
  <2>7. nl \in {<< >>, <<"\n">>}
    BY <2>3
  <2>8. IsTaken(t, << rest[1] >> \o nl \o lines)
    BY <2>1, <2>4, <2>6
  <2>9. QED
    BY <1>7, <2>7, <2>8
<1>8. CASE rest # << >> /\ rest[1] \notin {"sql", "sql:"}
  <2>1. h = 0
    <3>1. rest[1] # "\n"
      <4>1. ASSUME rest[1] = "\n" PROVE FALSE
        <5>1. FirstAt(rest, "\n", 1)
          <6>1. 1 \in 1..Len(rest) /\ 1..1 - 1 = {}
            BY <1>1, <1>8
          <6>2. QED
            BY <4>1, <6>1 DEF FirstAt
        <5>2. /\ At(rest, "\n") # {} /\ Before(rest, "\n") \in Seq(AnswerPieces)
              /\ Halves(Before(rest, "\n"), After(rest, "\n"), rest, 1)
          BY <1>1, <5>1, Split
        <5>3. Len(Before(rest, "\n")) = 0
          BY <5>2 DEF Halves
        <5>4. Before(rest, "\n") = << >>
          BY <5>2, <5>3
        <5>5. QED
          BY <5>2, <5>4 DEF FirstLineIs
      <4>2. QED
        BY <4>1
    <3>2. a[f + 1] \notin {"\n", "sql", "sql:"}
      BY <1>5, <1>8, <3>1
    <3>3. QED
      BY <3>2 DEF Fenced
  <2>2. f + h = f
    BY <2>1
  <2>3. Solid(lines) /\ Stands(lines, a, f)
    <3>1. Solid(lines) /\ Stands(lines, a, f + h)
      BY SqlStands
    <3>2. QED
      BY <2>2, <3>1
  <2>4. IsTaken(t, lines)
    BY <1>4, <2>3, LeftIsTaken
  <2>5. QED
    BY <1>8, <2>4
<1>9. QED
  BY <1>6, <1>7, <1>8

\* Of an answer cut off anywhere, its SQL is taken as the property says.
LEMMA FencedIsTakenOut ==
  ASSUME NEW lines \in Lines, NEW a, NEW f \in Nat, NEW h \in Nat, f > 0,
         Fenced(a, lines, f, h),
         NEW n \in 0..Len(a), NEW t, t = SubSeq(a, 1, n), At(t, "fence") # {},
         NEW rest, rest = After(TrimLines(t), "fence")
  PROVE  IF FirstLineIs(rest, << >>) \/ FirstLineIs(rest, <<"sql">>) THEN IsTaken(t, lines)
         ELSE IF FirstLineIs(rest, <<"SELECT">>) THEN IsTaken(t, After(lines, "\n"))
         ELSE IF rest # << >> /\ rest[1] \in {"sql", "sql:"}
              THEN \E nl \in {<< >>, <<"\n">>} : IsTaken(t, << rest[1] >> \o nl \o lines)
         ELSE IsTaken(t, lines)
<1>1. PICK u : Reached(t, u, a, f)
  BY FenceIsReached DEF Reached
<1>2. rest = After(u, "fence")
  BY <1>1 DEF Reached
<1>3. rest \in Seq(AnswerPieces)
  BY <1>1, <1>2, BehindFence DEF Reached
<1>4. FirstLineIs(rest, << >>) \/ FirstLineIs(rest, <<"sql">>) => IsTaken(t, lines)
  <2>1. ASSUME FirstLineIs(rest, << >>) PROVE IsTaken(t, lines)
    <3>1. WithoutTag(rest, Tags) = After(rest, "\n")
      BY <1>3, <2>1, FirstLineDropped
    <3>2. PICK l, g : l = << >> /\ g = 0
      OBVIOUS
    <3>3. FirstLineIs(After(u, "fence"), l)
      BY <1>2, <2>1, <3>2
    <3>4. WithoutTag(After(u, "fence"), Tags) = After(After(u, "fence"), "\n")
      BY <1>2, <3>1
    <3>5. g \in Nat /\ g = Len(l) /\ g = 0
      BY <3>2
    <3>6. QED
      BY <1>1, <3>3, <3>4, <3>5, TagIsDropped
  <2>2. ASSUME FirstLineIs(rest, <<"sql">>) PROVE IsTaken(t, lines)
    <3>1. WithoutTag(rest, Tags) = After(rest, "\n")
      BY <1>3, <2>2, FirstLineDropped
    <3>2. PICK l, g : l = <<"sql">> /\ g = 1
      OBVIOUS
    <3>3. FirstLineIs(After(u, "fence"), l)
      BY <1>2, <2>2, <3>2
    <3>4. WithoutTag(After(u, "fence"), Tags) = After(After(u, "fence"), "\n")
      BY <1>2, <3>1
    <3>5. g \in Nat /\ g = Len(l) /\ (g = 0 \/ (g = 1 /\ l[1] = "sql"))
      BY <3>2
    <3>6. QED
      BY <1>1, <3>3, <3>4, <3>5, TagIsDropped
  <2>3. QED
    BY <2>1, <2>2
<1>5. FirstLineIs(rest, <<"SELECT">>) => IsTaken(t, After(lines, "\n"))
  BY <1>1, <1>2, WordIsDropped
<1>6. CASE \/ FirstLineIs(rest, << >>) \/ FirstLineIs(rest, <<"sql">>)
           \/ FirstLineIs(rest, <<"SELECT">>)
  BY <1>4, <1>5, <1>6
<1>7. CASE ~ (\/ FirstLineIs(rest, << >>) \/ FirstLineIs(rest, <<"sql">>)
              \/ FirstLineIs(rest, <<"SELECT">>))
  <2>1. IF rest # << >> /\ rest[1] \in {"sql", "sql:"}
        THEN \E nl \in {<< >>, <<"\n">>} : IsTaken(t, << rest[1] >> \o nl \o lines)
        ELSE IsTaken(t, lines)
    BY <1>1, <1>2, <1>7, LineIsKept
  <2>2. QED
    BY <1>7, <2>1
<1>8. QED
  BY <1>6, <1>7

-----------------------------------------------------------------------------
(* Queries.                                                                *)

\* r stands behind FROM or JOIN in t.
IsRead(t, r) ==
  \E j \in 1..Len(t) - 1 : t[j] \in {Word("from"), Word("join")} /\ t[j + 1] = r

\* The head of a CTE called n, of which the first expression sees no more.
IsHead(t, n) ==
  \E j \in 1..Len(t) - 3 : /\ t[j] \in {Word("with"), Word("comma")}
                           /\ t[j + 1] = Plain(n)
                           /\ t[j + 2] = Word("as")
                           /\ t[j + 3] = Word("(")

\* In b, the references behind FROM or JOIN are among refs and the names in front
\* of AS among names; neither word is at an edge where it would meet another part.
Holds(b, refs, names) ==
  /\ \A x \in 1..Len(b) : b[x] \in {Word("from"), Word("join")} =>
       x < Len(b) /\ (b[x + 1].form # "word" => b[x + 1] \in refs)
  /\ \A x \in 1..Len(b) : b[x] = Word("as") =>
       x > 1 /\ (b[x - 1].form = "plain" => b[x - 1].name \in names)

\* What holds for the parts holds for the whole.
LEMMA PartsHold ==
  ASSUME NEW S, NEW t \in Seq(S), NEW B \in SUBSET Seq(S), Tiled(t, B), NEW refs, NEW names,
         \A b \in B : Holds(b, refs, names)
  PROVE  /\ \A r : IsRead(t, r) /\ r.form # "word" => r \in refs
         /\ \A n : IsHead(t, n) => n \in names
<1>1. ASSUME NEW r, IsRead(t, r), r.form # "word" PROVE r \in refs
  <2>1. PICK j \in 1..Len(t) - 1 : t[j] \in {Word("from"), Word("join")} /\ t[j + 1] = r
    BY <1>1 DEF IsRead
  <2>2. j \in 1..Len(t)
    OBVIOUS
  <2>3. PICK b \in B, o \in Nat : Embeds(b, t, o) /\ j \in o + 1 .. o + Len(b)
    BY <2>2 DEF Tiled
  <2>4. PICK x : x = j - o
    OBVIOUS
  <2>5. x \in 1..Len(b) /\ o + x = j /\ Len(b) \in Nat
    BY <2>3, <2>4
  <2>6. b[x] = t[j]
    BY <2>3, <2>5 DEF Embeds
  <2>7. x < Len(b) /\ (b[x + 1].form # "word" => b[x + 1] \in refs)
    BY <2>1, <2>5, <2>6 DEF Holds
  <2>8. x + 1 \in 1..Len(b) /\ o + (x + 1) = j + 1
    BY <2>5, <2>7
  <2>9. b[x + 1] = r
    BY <2>1, <2>3, <2>8 DEF Embeds
  <2>10. QED
    BY <1>1, <2>7, <2>9
<1>2. ASSUME NEW n, IsHead(t, n) PROVE n \in names
  <2>1. PICK j \in 1..Len(t) - 3 : t[j + 1] = Plain(n) /\ t[j + 2] = Word("as")
    BY <1>2 DEF IsHead
  <2>2. j + 2 \in 1..Len(t)
    OBVIOUS
  <2>3. PICK b \in B, o \in Nat : Embeds(b, t, o) /\ j + 2 \in o + 1 .. o + Len(b)
    BY <2>2 DEF Tiled
  <2>4. PICK x : x = j + 2 - o
    OBVIOUS
  <2>5. x \in 1..Len(b) /\ o + x = j + 2 /\ Len(b) \in Nat
    BY <2>3, <2>4
  <2>6. b[x] = t[j + 2]
    BY <2>3, <2>5 DEF Embeds
  <2>7. x > 1 /\ (b[x - 1].form = "plain" => b[x - 1].name \in names)
    BY <2>1, <2>5, <2>6 DEF Holds
  <2>8. x - 1 \in 1..Len(b) /\ o + (x - 1) = j + 1
    BY <2>5, <2>7
  <2>9. b[x - 1] = Plain(n)
    BY <2>1, <2>3, <2>8 DEF Embeds
  <2>10. Plain(n).form = "plain" /\ Plain(n).name = n
    BY DEF Plain, Ref
  <2>11. QED
    BY <2>7, <2>9, <2>10
<1>3. QED
  BY <1>1, <1>2

\* What a part reads the whole reads, and a head in a part is one in the whole.
LEMMA WholeReads ==
  ASSUME NEW S, NEW t \in Seq(S), NEW b \in Seq(S), NEW o \in Nat, Embeds(b, t, o)
  PROVE  /\ \A r : IsRead(b, r) => IsRead(t, r)
         /\ \A n : IsHead(b, n) => IsHead(t, n)
<1>1. PICK k \in Nat, m \in Nat : k = Len(b) /\ m = Len(t) /\ o + k <= m
                                 /\ \A x \in 1..k : t[o + x] = b[x]
  BY DEF Embeds
<1>2. ASSUME NEW r, IsRead(b, r) PROVE IsRead(t, r)
  <2>1. PICK x \in 1..k - 1 : b[x] \in {Word("from"), Word("join")} /\ b[x + 1] = r
    BY <1>1, <1>2 DEF IsRead
  <2>2. PICK j : j = o + x
    OBVIOUS
  <2>3. j \in 1..m - 1 /\ j + 1 = o + (x + 1) /\ x \in 1..k /\ x + 1 \in 1..k
    BY <1>1, <2>2
  <2>4. t[j] = b[x] /\ t[j + 1] = b[x + 1]
    BY <1>1, <2>2, <2>3
  <2>5. QED
    BY <1>1, <2>1, <2>3, <2>4 DEF IsRead
<1>3. ASSUME NEW n, IsHead(b, n) PROVE IsHead(t, n)
  <2>1. PICK x \in 1..k - 3 : /\ b[x] \in {Word("with"), Word("comma")}
                              /\ b[x + 1] = Plain(n)
                              /\ b[x + 2] = Word("as")
                              /\ b[x + 3] = Word("(")
    BY <1>1, <1>3 DEF IsHead
  <2>2. PICK j : j = o + x
    OBVIOUS
  <2>3. /\ j \in 1..m - 3 /\ j + 1 = o + (x + 1) /\ j + 2 = o + (x + 2) /\ j + 3 = o + (x + 3)
        /\ x \in 1..k /\ x + 1 \in 1..k /\ x + 2 \in 1..k /\ x + 3 \in 1..k
    BY <1>1, <2>2
  <2>4. t[j] = b[x] /\ t[j + 1] = b[x + 1] /\ t[j + 2] = b[x + 2] /\ t[j + 3] = b[x + 3]
    BY <1>1, <2>2, <2>3
  <2>5. QED
    BY <1>1, <2>1, <2>3, <2>4 DEF IsHead
<1>4. QED
  BY <1>2, <1>3

\* Words are alike if they are the same, and no reference is one.
LEMMA WordsDiffer ==
  /\ \A v, w : Word(v) = Word(w) => v = w
  /\ \A w : Word(w).form = "word" /\ Word(w).name = w
  /\ \A f, s, n : Ref(f, s, n).form = f /\ Ref(f, s, n).name = n
  /\ \A n : Plain(n).form = "plain" /\ Plain(n).schema = "public" /\ Plain(n).name = n
<1>1. \A w : Word(w).form = "word" /\ Word(w).name = w
  BY DEF Word
<1>2. \A f, s, n : Ref(f, s, n).form = f /\ Ref(f, s, n).name = n
  BY DEF Ref
<1>3. \A n : Plain(n).form = "plain" /\ Plain(n).schema = "public" /\ Plain(n).name = n
  BY DEF Plain, Ref
<1>4. ASSUME NEW v, NEW w, Word(v) = Word(w) PROVE v = w
  BY <1>1, <1>4
<1>5. QED
  BY <1>1, <1>2, <1>3, <1>4

\* What a query's text is made of.
Marks == {"with", "comma", "glued", "recursive", "(x)", "as", "materialized", "(",
          "select", "from", ")", "join", "comment", "table"}

QueryPieces ==
  {Word(w) : w \in Marks} \cup Refs
  \cup {Plain(n) : n \in STRING} \cup {Plain(n) : n \in {"col", "only", "lateral"}}
  \cup {Ref("quoted", "public", n) : n \in STRING}

\* The words a text holds are pieces of it.
LEMMA WordsArePieces ==
  ASSUME NEW w \in Marks
  PROVE  Word(w) \in QueryPieces
  BY DEF QueryPieces

\* A piece that is none of the words the expressions begin at or end with.
Idle(p) == p \notin {Word("from"), Word("join"), Word("as")}

\* Every other word is idle, and so is every reference.
LEMMA IdlePieces ==
  /\ \A w : w \notin {"from", "join", "as"} => Idle(Word(w))
  /\ \A p : p.form # "word" => Idle(p)
<1>1. ASSUME NEW w, w \notin {"from", "join", "as"} PROVE Idle(Word(w))
  BY <1>1, WordsDiffer DEF Idle
<1>2. ASSUME NEW p, p.form # "word" PROVE Idle(p)
  BY <1>2, WordsDiffer DEF Idle
<1>3. QED
  BY <1>1, <1>2

\* The start of a CTE is one word, or two with RECURSIVE.
LEMMA OpeningShape ==
  ASSUME NEW i, NEW head
  PROVE  /\ Opening(i, head) \in Seq(QueryPieces)
         /\ Len(Opening(i, head)) \in {1, 2}
         /\ \A x \in 1..Len(Opening(i, head)) : Idle(Opening(i, head)[x])
         /\ head = "plain" => /\ Len(Opening(i, head)) = 1
                              /\ Opening(i, head)[1] \in {Word("with"), Word("comma")}
<1>1. \A w \in {"with", "comma", "glued", "recursive"} : Word(w) \in QueryPieces /\ Idle(Word(w))
  <2>1. TAKE w \in {"with", "comma", "glued", "recursive"}
  <2>2. w \in Marks /\ w \notin {"from", "join", "as"}
    BY DEF Marks
  <2>3. QED
    BY <2>2, WordsArePieces, IdlePieces
<1>2. ASSUME NEW w \in {"with", "comma", "glued", "recursive"}
      PROVE  /\ << Word(w) >> \in Seq(QueryPieces) /\ Len(<< Word(w) >>) = 1
             /\ << Word(w) >>[1] = Word(w)
  <2>1. PICK p \in QueryPieces : p = Word(w)
    BY <1>1
  <2>2. << p >> \in Seq(QueryPieces) /\ Len(<< p >>) = 1 /\ << p >>[1] = p
    OBVIOUS
  <2>3. QED
    BY <2>1, <2>2
<1>3. CASE head = "glued"
  <2>1. Opening(i, head) = << Word("glued") >>
    BY <1>3 DEF Opening
  <2>2. \A x \in 1..1 : x = 1
    OBVIOUS
  <2>3. QED
    BY <1>1, <1>2, <1>3, <2>1, <2>2
<1>4. CASE head # "glued"
  <2>1. PICK v \in {"with", "comma"} : v = IF i = 1 THEN "with" ELSE "comma"
    OBVIOUS
  <2>2. PICK s : s = << Word(v) >>
    OBVIOUS
  <2>3. PICK r : r = IF head = "recursive" THEN << Word("recursive") >> ELSE << >>
    OBVIOUS
  <2>4. Opening(i, head) = s \o r
    BY <1>4, <2>1, <2>2, <2>3 DEF Opening
  <2>5. s \in Seq(QueryPieces) /\ Len(s) = 1 /\ s[1] = Word(v) /\ Idle(s[1])
    BY <1>1, <1>2, <2>2
  <2>6. CASE head = "recursive"
    <3>1. r \in Seq(QueryPieces) /\ Len(r) = 1 /\ r[1] = Word("recursive") /\ Idle(r[1])
      BY <1>1, <1>2, <2>3, <2>6
    <3>2. PICK u : u = s \o r
      OBVIOUS
    <3>3. PICK one \in Nat, two \in Nat : one = 1 /\ two = 1
      OBVIOUS
    <3>4. /\ u \in Seq(QueryPieces) /\ Len(u) = one + two
          /\ \A x \in 1..one : u[x] = s[x]
          /\ \A x \in 1..two : u[one + x] = r[x]
      <4>1. one \in Nat /\ one = Len(s) /\ two \in Nat /\ two = Len(r)
        BY <2>5, <3>1, <3>3
      <4>2. s \in Seq(QueryPieces) /\ r \in Seq(QueryPieces)
        BY <2>5, <3>1
      <4>3. QED
        BY <3>2, <4>1, <4>2, PiecesOfBoth
    <3>5. Len(u) = 2 /\ u[1] = s[1] /\ u[2] = r[1]
      BY <3>3, <3>4
    <3>6. \A x \in 1..2 : x = 1 \/ x = 2
      OBVIOUS
    <3>7. QED
      BY <2>4, <2>5, <2>6, <3>1, <3>2, <3>4, <3>5, <3>6
  <2>7. CASE head # "recursive"
    <3>1. r = << >>
      BY <2>3, <2>7
    <3>2. Opening(i, head) = s
      BY <2>4, <2>5, <3>1, ConcatEmptySeq
    <3>3. \A x \in 1..1 : x = 1
      OBVIOUS
    <3>4. s[1] \in {Word("with"), Word("comma")}
      BY <2>1, <2>5
    <3>5. QED
      BY <2>5, <3>2, <3>3, <3>4
  <2>8. QED
    BY <2>6, <2>7
<1>5. QED
  BY <1>3, <1>4

\* The text of a CTE.
LEMMA CteShape ==
  ASSUME NEW i, NEW cte, cte.ref \in Refs, cte.name \in STRING, NEW refs, NEW names,
         cte.ref \in refs, cte.name \in names
  PROVE  /\ CteText(i, cte) \in Seq(QueryPieces)
         /\ IsRead(CteText(i, cte), cte.ref)
         /\ Holds(CteText(i, cte), refs, names)
         /\ cte.head = "plain" => IsHead(CteText(i, cte), cte.name)
<1>1. PICK open, name, cols, as, mat, tail :
        /\ open = Opening(i, cte.head)
        /\ name = << Ref(IF cte.head = "quoted" THEN "quoted" ELSE "plain", "public", cte.name) >>
        /\ cols = IF cte.head = "columns" THEN << Word("(x)") >> ELSE << >>
        /\ as = << Word("as") >>
        /\ mat = IF cte.head = "materialized" THEN << Word("materialized") >> ELSE << >>
        /\ tail = << Word("("), Word("select"), Word("from"), cte.ref, Word(")") >>
  OBVIOUS
<1>2. \A w \in Marks : << Word(w) >> \in Seq(QueryPieces) /\ Len(<< Word(w) >>) = 1
                        /\ << Word(w) >>[1] = Word(w)
  <2>1. TAKE w \in Marks
  <2>2. PICK p \in QueryPieces : p = Word(w)
    BY WordsArePieces
  <2>3. << p >> \in Seq(QueryPieces) /\ Len(<< p >>) = 1 /\ << p >>[1] = p
    OBVIOUS
  <2>4. QED
    BY <2>2, <2>3
<1>3. "(x)" \in Marks /\ "as" \in Marks /\ "materialized" \in Marks /\ "(" \in Marks
      /\ "select" \in Marks /\ "from" \in Marks /\ ")" \in Marks
  BY DEF Marks
<1>4. PICK o : /\ o \in Nat /\ o = Len(open) /\ open \in Seq(QueryPieces)
               /\ (o = 1 \/ o = 2)
               /\ (\A x \in 1..o : Idle(open[x]))
               /\ (cte.head = "plain" => o = 1 /\ open[1] \in {Word("with"), Word("comma")})
  BY <1>1, OpeningShape
<1>5. /\ name \in Seq(QueryPieces) /\ Len(name) = 1 /\ Idle(name[1])
      /\ name[1].name = cte.name /\ (cte.head = "plain" => name[1] = Plain(cte.name))
  <2>1. PICK p : p = Ref(IF cte.head = "quoted" THEN "quoted" ELSE "plain", "public", cte.name)
    OBVIOUS
  <2>2. p = Ref("quoted", "public", cte.name) \/ p = Plain(cte.name)
    BY <2>1 DEF Plain
  <2>3. cte.head = "plain" => p = Plain(cte.name)
    BY <2>1 DEF Plain
  <2>4. p \in QueryPieces
    BY <2>2 DEF QueryPieces
  <2>5. p.form # "word" /\ p.name = cte.name
    BY <2>2, WordsDiffer
  <2>6. << p >> \in Seq(QueryPieces) /\ Len(<< p >>) = 1 /\ << p >>[1] = p
    BY <2>4
  <2>7. QED
    BY <1>1, <2>1, <2>3, <2>5, <2>6, IdlePieces
<1>6. PICK k : /\ k \in Nat /\ k = Len(cols) /\ cols \in Seq(QueryPieces)
               /\ (k = 0 \/ (k = 1 /\ cols[1] = Word("(x)")))
               /\ (cte.head = "plain" => k = 0)
  <2>1. CASE cte.head = "columns"
    BY <1>1, <1>2, <1>3, <2>1
  <2>2. CASE cte.head # "columns"
    BY <1>1, <2>2
  <2>3. QED
    BY <2>1, <2>2
<1>7. as \in Seq(QueryPieces) /\ Len(as) = 1 /\ as[1] = Word("as")
  BY <1>1, <1>2, <1>3
<1>8. PICK m : /\ m \in Nat /\ m = Len(mat) /\ mat \in Seq(QueryPieces)
               /\ (m = 0 \/ (m = 1 /\ mat[1] = Word("materialized")))
               /\ (cte.head = "plain" => m = 0)
  <2>1. CASE cte.head = "materialized"
    BY <1>1, <1>2, <1>3, <2>1
  <2>2. CASE cte.head # "materialized"
    BY <1>1, <2>2
  <2>3. QED
    BY <2>1, <2>2
<1>9. /\ tail \in Seq(QueryPieces) /\ Len(tail) = 5
      /\ tail[1] = Word("(") /\ tail[2] = Word("select") /\ tail[3] = Word("from")
      /\ tail[4] = cte.ref /\ tail[5] = Word(")")
  <2>1. PICK p1 \in QueryPieces, p2 \in QueryPieces, p3 \in QueryPieces, p4 \in QueryPieces,
             p5 \in QueryPieces :
          /\ p1 = Word("(") /\ p2 = Word("select") /\ p3 = Word("from")
          /\ p4 = cte.ref /\ p5 = Word(")")
    <3>1. cte.ref \in QueryPieces
      BY DEF QueryPieces
    <3>2. QED
      BY <1>3, <3>1, WordsArePieces
  <2>2. PICK t : t = << p1, p2, p3, p4, p5 >>
    OBVIOUS
  <2>3. /\ t \in Seq(QueryPieces) /\ Len(t) = 5
        /\ t[1] = p1 /\ t[2] = p2 /\ t[3] = p3 /\ t[4] = p4 /\ t[5] = p5
    BY <2>2
  <2>4. t = tail
    BY <1>1, <2>1, <2>2
  <2>5. QED
    BY <2>1, <2>3, <2>4
<1>10. PICK one, five : one = 1 /\ one \in Nat /\ five = 5 /\ five \in Nat
                        /\ one = Len(name) /\ one = Len(as) /\ five = Len(tail)
  BY <1>5, <1>7, <1>9
<1>11. PICK k1, k2, k3, k4 : /\ k1 = o + one /\ k1 \in Nat
                             /\ k2 = k1 + k /\ k2 \in Nat
                             /\ k3 = k2 + one /\ k3 \in Nat
                             /\ k4 = k3 + m /\ k4 \in Nat
  BY <1>4, <1>6, <1>8, <1>10
<1>12. PICK u1, u2, u3, u4, b : /\ u1 = open \o name
                                /\ u2 = u1 \o cols
                                /\ u3 = u2 \o as
                                /\ u4 = u3 \o mat
                                /\ b = u4 \o tail
  OBVIOUS
<1>13. b = CteText(i, cte)
  BY <1>1, <1>12 DEF CteText
<1>14. /\ u1 \in Seq(QueryPieces) /\ Len(u1) = k1 /\ \A x \in 1..o : u1[x] = open[x]
       /\ \A x \in 1..one : u1[o + x] = name[x]
  <2>1. open \in Seq(QueryPieces) /\ o = Len(open) /\ o \in Nat
    BY <1>4, <1>11
  <2>2. name \in Seq(QueryPieces) /\ one = Len(name) /\ one \in Nat
    BY <1>5, <1>10
  <2>3. u1 = open \o name
    BY <1>12
  <2>4. /\ u1 \in Seq(QueryPieces) /\ Len(u1) = o + one /\ \A x \in 1..o : u1[x] = open[x]
        /\ \A x \in 1..one : u1[o + x] = name[x]
    BY <2>1, <2>2, <2>3, PiecesOfBoth
  <2>5. QED
    BY <1>11, <2>4
<1>15. /\ u2 \in Seq(QueryPieces) /\ Len(u2) = k2 /\ \A x \in 1..k1 : u2[x] = u1[x]
       /\ \A x \in 1..k : u2[k1 + x] = cols[x]
  <2>1. u1 \in Seq(QueryPieces) /\ k1 = Len(u1) /\ k1 \in Nat
    BY <1>14, <1>11
  <2>2. cols \in Seq(QueryPieces) /\ k = Len(cols) /\ k \in Nat
    BY <1>6
  <2>3. u2 = u1 \o cols
    BY <1>12
  <2>4. /\ u2 \in Seq(QueryPieces) /\ Len(u2) = k1 + k /\ \A x \in 1..k1 : u2[x] = u1[x]
        /\ \A x \in 1..k : u2[k1 + x] = cols[x]
    BY <2>1, <2>2, <2>3, PiecesOfBoth
  <2>5. QED
    BY <1>11, <2>4
<1>16. /\ u3 \in Seq(QueryPieces) /\ Len(u3) = k3 /\ \A x \in 1..k2 : u3[x] = u2[x]
       /\ \A x \in 1..one : u3[k2 + x] = as[x]
  <2>1. u2 \in Seq(QueryPieces) /\ k2 = Len(u2) /\ k2 \in Nat
    BY <1>15, <1>11
  <2>2. as \in Seq(QueryPieces) /\ one = Len(as) /\ one \in Nat
    BY <1>7, <1>10
  <2>3. u3 = u2 \o as
    BY <1>12
  <2>4. /\ u3 \in Seq(QueryPieces) /\ Len(u3) = k2 + one /\ \A x \in 1..k2 : u3[x] = u2[x]
        /\ \A x \in 1..one : u3[k2 + x] = as[x]
    BY <2>1, <2>2, <2>3, PiecesOfBoth
  <2>5. QED
    BY <1>11, <2>4
<1>17. /\ u4 \in Seq(QueryPieces) /\ Len(u4) = k4 /\ \A x \in 1..k3 : u4[x] = u3[x]
       /\ \A x \in 1..m : u4[k3 + x] = mat[x]
  <2>1. u3 \in Seq(QueryPieces) /\ k3 = Len(u3) /\ k3 \in Nat
    BY <1>16, <1>11
  <2>2. mat \in Seq(QueryPieces) /\ m = Len(mat) /\ m \in Nat
    BY <1>8
  <2>3. u4 = u3 \o mat
    BY <1>12
  <2>4. /\ u4 \in Seq(QueryPieces) /\ Len(u4) = k3 + m /\ \A x \in 1..k3 : u4[x] = u3[x]
        /\ \A x \in 1..m : u4[k3 + x] = mat[x]
    BY <2>1, <2>2, <2>3, PiecesOfBoth
  <2>5. QED
    BY <1>11, <2>4
<1>18. /\ b \in Seq(QueryPieces) /\ Len(b) = k4 + five /\ \A x \in 1..k4 : b[x] = u4[x]
       /\ \A x \in 1..five : b[k4 + x] = tail[x]
  <2>1. u4 \in Seq(QueryPieces) /\ k4 = Len(u4) /\ k4 \in Nat
    BY <1>17, <1>11
  <2>2. tail \in Seq(QueryPieces) /\ five = Len(tail) /\ five \in Nat
    BY <1>9, <1>10
  <2>3. b = u4 \o tail
    BY <1>12
  <2>4. /\ b \in Seq(QueryPieces) /\ Len(b) = k4 + five /\ \A x \in 1..k4 : b[x] = u4[x]
        /\ \A x \in 1..five : b[k4 + x] = tail[x]
    BY <2>1, <2>2, <2>3, PiecesOfBoth
  <2>5. QED
    BY <1>11, <2>4
<1>19. /\ o \in Nat /\ k \in Nat /\ m \in Nat /\ one \in Nat /\ k1 \in Nat /\ k2 \in Nat
       /\ k3 \in Nat /\ k4 \in Nat /\ o <= k1 /\ k1 <= k2 /\ k2 <= k3 /\ k3 <= k4
       /\ o + one <= k1 /\ k1 + k <= k2 /\ k2 + one <= k3 /\ k3 + m <= k4
  <2>1. /\ o \in Nat /\ k \in Nat /\ m \in Nat /\ one \in Nat /\ k1 \in Nat /\ k2 \in Nat
        /\ k3 \in Nat /\ k4 \in Nat
    BY <1>4, <1>6, <1>8, <1>10, <1>11
  <2>2. k1 = o + one /\ k2 = k1 + k /\ k3 = k2 + one /\ k4 = k3 + m
    BY <1>11
  <2>3. o <= k1 /\ k1 <= k2 /\ k2 <= k3 /\ k3 <= k4
    BY <2>1, <2>2
  <2>4. o + one <= k1 /\ k1 + k <= k2 /\ k2 + one <= k3 /\ k3 + m <= k4
    BY <2>1, <2>2
  <2>5. QED
    BY <2>1, <2>3, <2>4
<1>20. /\ o \in Nat /\ k \in Nat /\ m \in Nat /\ k1 \in Nat /\ k2 \in Nat /\ k3 \in Nat /\ k4 \in Nat
       /\ k1 = o + 1 /\ k2 = k1 + k /\ k3 = k2 + 1 /\ k4 = k3 + m
  <2>1. one = 1
    BY <1>10
  <2>2. k1 = o + one /\ k2 = k1 + k /\ k3 = k2 + one /\ k4 = k3 + m
    BY <1>11
  <2>3. QED
    BY <1>19, <2>1, <2>2
<1>21. o >= 1
  BY <1>4
<1>22. \A x \in 1..k3 : b[x] = u3[x]
  <2>1. k3 \in Nat /\ k4 \in Nat /\ k3 <= k4
    BY <1>19
  <2>2. (\A x \in 1..k4 : b[x] = u4[x]) /\ (\A x \in 1..k3 : u4[x] = u3[x])
    BY <1>17, <1>18
  <2>3. QED
    BY <2>1, <2>2, PiecesOfPrefix
<1>23. \A x \in 1..k2 : b[x] = u2[x]
  <2>1. k2 \in Nat /\ k3 \in Nat /\ k2 <= k3
    BY <1>19
  <2>2. (\A x \in 1..k3 : b[x] = u3[x]) /\ (\A x \in 1..k2 : u3[x] = u2[x])
    BY <1>16, <1>22
  <2>3. QED
    BY <2>1, <2>2, PiecesOfPrefix
<1>24. \A x \in 1..k1 : b[x] = u1[x]
  <2>1. k1 \in Nat /\ k2 \in Nat /\ k1 <= k2
    BY <1>19
  <2>2. (\A x \in 1..k2 : b[x] = u2[x]) /\ (\A x \in 1..k1 : u2[x] = u1[x])
    BY <1>15, <1>23
  <2>3. QED
    BY <2>1, <2>2, PiecesOfPrefix
<1>25. \A x \in 1..o : b[x] = open[x]
  <2>1. o \in Nat /\ k1 \in Nat /\ o <= k1
    BY <1>19
  <2>2. (\A x \in 1..k1 : b[x] = u1[x]) /\ (\A x \in 1..o : u1[x] = open[x])
    BY <1>14, <1>24
  <2>3. QED
    BY <2>1, <2>2, PiecesOfPrefix
<1>26. \A x \in 1..one : b[o + x] = name[x]
  BY <1>14, <1>19, <1>24, PiecesOfSuffix
<1>27. \A x \in 1..k : b[k1 + x] = cols[x]
  BY <1>15, <1>19, <1>23, PiecesOfSuffix
<1>28. b[k3] = as[1]
  <2>1. k3 \in 1..k3 /\ k3 = k2 + 1
    BY <1>20
  <2>2. 1 \in 1..one
    BY <1>10
  <2>3. u3[k2 + 1] = as[1]
    BY <1>16, <2>2
  <2>4. QED
    BY <1>22, <2>1, <2>3
<1>29. \A x \in 1..m : b[k3 + x] = mat[x]
  BY <1>17, <1>18, <1>19, PiecesOfSuffix
<1>30. /\ Len(b) = k4 + 5 /\ k4 >= 1 /\ k3 >= 2
       /\ b[k4 + 1] = Word("(") /\ b[k4 + 2] = Word("select") /\ b[k4 + 3] = Word("from")
       /\ b[k4 + 4] = cte.ref /\ b[k4 + 5] = Word(")")
  <2>1. 1 \in 1..five /\ 2 \in 1..five /\ 3 \in 1..five /\ 4 \in 1..five /\ 5 \in 1..five
    BY <1>10
  <2>2. /\ b[k4 + 1] = tail[1] /\ b[k4 + 2] = tail[2] /\ b[k4 + 3] = tail[3]
        /\ b[k4 + 4] = tail[4] /\ b[k4 + 5] = tail[5]
    BY <1>18, <2>1
  <2>3. Len(b) = k4 + 5
    BY <1>10, <1>18
  <2>4. k4 >= 1 /\ k3 >= 2
    BY <1>20, <1>21
  <2>5. QED
    BY <1>9, <2>2, <2>3, <2>4
<1>31. /\ b[k1].name = cte.name /\ (cte.head = "plain" => b[k1] = Plain(cte.name))
       /\ b[k3] = Word("as") /\ Idle(b[k1])
  <2>1. 1 \in 1..one
    BY <1>10
  <2>2. b[k1] = name[1] /\ b[k3] = as[1]
    BY <1>26, <1>28, <1>20, <2>1
  <2>3. QED
    BY <1>5, <1>7, <2>2
<1>32. \A w : w \notin {"from", "join", "as"} => Idle(Word(w))
  BY IdlePieces
<1>33. /\ \A x \in 1..o : Idle(b[x])
       /\ \A x \in 1..k : Idle(b[k1 + x]) /\ b[k1 + x] = Word("(x)")
       /\ \A x \in 1..m : Idle(b[k3 + x])
  <2>1. \A x \in 1..o : Idle(b[x])
    BY <1>4, <1>25
  <2>2. \A x \in 1..k : b[k1 + x] = Word("(x)")
    <3>1. \A x \in 1..k : k = 1 /\ x = 1
      BY <1>6
    <3>2. QED
      BY <1>6, <1>27, <3>1
  <2>3. \A x \in 1..m : b[k3 + x] = Word("materialized")
    <3>1. \A x \in 1..m : m = 1 /\ x = 1
      BY <1>8
    <3>2. QED
      BY <1>8, <1>29, <3>1
  <2>4. QED
    BY <1>32, <2>1, <2>2, <2>3
<1>34. Idle(b[k4 + 1]) /\ Idle(b[k4 + 2]) /\ Idle(b[k4 + 4]) /\ Idle(b[k4 + 5])
  <2>1. cte.ref.form # "word"
    BY QueryAssumption DEF Forms
  <2>2. Idle(cte.ref)
    BY <2>1, IdlePieces
  <2>3. QED
    BY <1>30, <1>32, <2>2
<1>35. ASSUME NEW x \in 1..Len(b), ~ Idle(b[x]) PROVE x = k3 \/ x = k4 + 3
  <2>1. x \in Nat /\ x >= 1 /\ x <= k4 + 5
    BY <1>30
  <2>2. x \notin 1..o
    BY <1>33, <1>35
  <2>3. x # k1
    BY <1>31, <1>35
  <2>4. ~ (x > k1 /\ x <= k2)
    <3>1. x > k1 /\ x <= k2 => x - k1 \in 1..k /\ k1 + (x - k1) = x
      BY <1>20, <2>1
    <3>2. QED
      BY <1>33, <1>35, <3>1
  <2>5. ~ (x > k3 /\ x <= k4)
    <3>1. x > k3 /\ x <= k4 => x - k3 \in 1..m /\ k3 + (x - k3) = x
      BY <1>20, <2>1
    <3>2. QED
      BY <1>33, <1>35, <3>1
  <2>6. x \notin {k4 + 1, k4 + 2, k4 + 4, k4 + 5}
    BY <1>34, <1>35
  <2>7. x <= o \/ x = k1 \/ (x > k1 /\ x <= k2) \/ x = k3 \/ (x > k3 /\ x <= k4) \/ x > k4
    BY <1>20, <2>1
  <2>8. x > k4 => x \in {k4 + 1, k4 + 2, k4 + 3, k4 + 4, k4 + 5}
    BY <1>20, <2>1
  <2>9. x <= o => x \in 1..o
    BY <1>4, <2>1
  <2>10. QED
    BY <2>2, <2>3, <2>4, <2>5, <2>6, <2>7, <2>8, <2>9
<1>36. IsRead(b, cte.ref)
  <2>1. k4 + 3 \in 1..Len(b) - 1 /\ k4 + 3 + 1 = k4 + 4
    <3>1. k4 \in Nat /\ Len(b) = k4 + 5
      BY <1>20, <1>30
    <3>2. QED
      BY <3>1
  <2>2. QED
    BY <1>30, <2>1 DEF IsRead
<1>37. Holds(b, refs, names)
  <2>1. ASSUME NEW x \in 1..Len(b), b[x] \in {Word("from"), Word("join")}
        PROVE  x < Len(b) /\ (b[x + 1].form # "word" => b[x + 1] \in refs)
    <3>1. x = k3 \/ x = k4 + 3
      BY <1>35, <2>1 DEF Idle
    <3>2. x # k3
      BY <1>31, <2>1, WordsDiffer
    <3>3. x = k4 + 3 /\ x + 1 = k4 + 4 /\ x < Len(b)
      <4>1. k4 \in Nat /\ Len(b) = k4 + 5
        BY <1>20, <1>30
      <4>2. QED
        BY <3>1, <3>2, <4>1
    <3>4. QED
      BY <1>30, <3>3
  <2>2. ASSUME NEW x \in 1..Len(b), b[x] = Word("as")
        PROVE  x > 1 /\ (b[x - 1].form = "plain" => b[x - 1].name \in names)
    <3>1. x = k3 \/ x = k4 + 3
      BY <1>35, <2>2 DEF Idle
    <3>2. x # k4 + 3
      BY <1>30, <2>2, WordsDiffer
    <3>3. x = k3 /\ x > 1 /\ x - 1 = k2
      BY <1>20, <1>21, <3>1, <3>2
    <3>4. CASE k = 0
      <4>1. k2 = k1
        BY <1>11, <3>4
      <4>2. b[x - 1].name = cte.name
        BY <1>31, <3>3, <4>1
      <4>3. QED
        BY <3>3, <4>2
    <3>5. CASE k = 1
      <4>1. k2 = k1 + 1 /\ 1 \in 1..k
        BY <1>11, <3>5
      <4>2. b[x - 1] = Word("(x)")
        BY <1>33, <3>3, <4>1
      <4>3. b[x - 1].form = "word"
        BY <4>2, WordsDiffer
      <4>4. QED
        BY <3>3, <4>3
    <3>6. QED
      BY <1>6, <3>4, <3>5
  <2>3. QED
    BY <2>1, <2>2 DEF Holds
<1>38. ASSUME cte.head = "plain" PROVE IsHead(b, cte.name)
  <2>1. o = 1 /\ k = 0 /\ m = 0 /\ Len(b) = k4 + 5
    BY <1>4, <1>6, <1>8, <1>30, <1>38
  <2>2. o = 1 /\ k1 = 2 /\ k3 = 3 /\ k4 + 1 = 4 /\ Len(b) = 8
    BY <1>20, <2>1
  <2>3. 1 \in 1..o /\ b[1] = open[1]
    BY <1>25, <2>2
  <2>4. b[1] \in {Word("with"), Word("comma")}
    BY <1>4, <1>38, <2>3
  <2>5. b[2] = Plain(cte.name) /\ b[3] = Word("as") /\ b[4] = Word("(")
    BY <1>30, <1>31, <1>38, <2>2
  <2>6. 1 \in 1..Len(b) - 3 /\ 1 + 1 = 2 /\ 1 + 2 = 3 /\ 1 + 3 = 4
    BY <2>2
  <2>7. QED
    BY <2>4, <2>5, <2>6 DEF IsHead
<1>39. QED
  BY <1>13, <1>18, <1>36, <1>37, <1>38

\* The links whose source stands behind FROM or JOIN, and those with a name to the
\* first expression that is none.
ReadLinks == {"from", "join", "subquery", "lateral"}

Misleading == {"only", "lateral"}

\* A text where every FROM and JOIN is followed by a word or one of refs.
LEMMA FollowedHolds ==
  ASSUME NEW b, NEW refs, NEW names,
         \A x \in 1..Len(b) : \/ Idle(b[x])
                              \/ /\ x < Len(b) /\ b[x] # Word("as")
                                 /\ b[x + 1].form # "word" => b[x + 1] \in refs
  PROVE  Holds(b, refs, names)
  BY DEF Holds, Idle

\* The text of a source.
LEMMA SourceShape ==
  ASSUME NEW s, s.ref \in Refs, s.link \in Links, NEW refs, NEW names,
         s.link \in ReadLinks => s.ref \in refs,
         s.link \in Misleading => Plain(s.link) \in refs
  PROVE  /\ SourceText(s) \in Seq(QueryPieces)
         /\ s.link \in ReadLinks => IsRead(SourceText(s), s.ref)
         /\ s.link \in Misleading => IsRead(SourceText(s), Plain(s.link))
         /\ Holds(SourceText(s), refs, names)
<1>1. \A w : w \notin {"from", "join", "as"} => Idle(Word(w))
  BY IdlePieces
<1>2. PICK p \in QueryPieces : p = s.ref /\ Idle(p)
  <2>1. s.ref.form # "word"
    BY QueryAssumption DEF Forms
  <2>2. QED
    BY <2>1, IdlePieces DEF QueryPieces
<1>3. Word("from") # Word("as") /\ Word("join") # Word("as")
  BY WordsDiffer
<1>4. \A w : Word(w).form = "word"
  BY WordsDiffer
<1>5. PICK j \in QueryPieces, o \in QueryPieces, z \in QueryPieces, c \in QueryPieces,
           e \in QueryPieces, f \in QueryPieces :
        /\ j = Word("join") /\ o = Word("(") /\ z = Word("select") /\ c = Word(")")
        /\ e = Word("comment") /\ f = Word("from")
  <2>1. /\ "join" \in Marks /\ "(" \in Marks /\ "select" \in Marks /\ ")" \in Marks
        /\ "comment" \in Marks /\ "from" \in Marks
    BY DEF Marks
  <2>2. QED
    BY <2>1, WordsArePieces
<1>6. Idle(o) /\ Idle(z) /\ Idle(c) /\ Idle(e) /\ j # Word("as") /\ f # Word("as")
  BY <1>1, <1>3, <1>5
<1>7. o.form = "word" /\ e.form = "word"
  BY <1>4, <1>5
<1>8. CASE s.link = "subquery"
  <2>1. PICK b : b = << j, o, z, f, p, c >>
    OBVIOUS
  <2>2. b = SourceText(s)
    <3>1. Lead(s.link) = << j, o, z, f >>
      BY <1>5, <1>8 DEF Lead
    <3>2. SourceText(s) = << j, o, z, f >> \o << p >> \o << c >>
      BY <1>2, <1>5, <1>8, <3>1 DEF SourceText
    <3>3. QED
      BY <2>1, <3>2
  <2>3. b \in Seq(QueryPieces) /\ Len(b) = 6
    BY <2>1
  <2>4. b[1] = j /\ b[2] = o /\ b[3] = z /\ b[4] = f /\ b[5] = p /\ b[6] = c
    BY <2>1
  <2>5. \A x \in 1..6 : x = 1 \/ x = 2 \/ x = 3 \/ x = 4 \/ x = 5 \/ x = 6
    OBVIOUS
  <2>6. s.ref \in refs
    BY <1>8 DEF ReadLinks
  <2>7. \A x \in 1..Len(b) : \/ Idle(b[x])
                               \/ /\ x < Len(b) /\ b[x] # Word("as")
                                  /\ b[x + 1].form # "word" => b[x + 1] \in refs
    <3>1. b[1] # Word("as") /\ (b[1 + 1].form # "word" => b[1 + 1] \in refs)
      BY <1>6, <1>7, <2>4, <1>2, <2>6
    <3>2. b[4] # Word("as") /\ (b[4 + 1].form # "word" => b[4 + 1] \in refs)
      BY <1>6, <1>7, <2>4, <1>2, <2>6
    <3>3. Idle(b[2]) /\ Idle(b[3]) /\ Idle(b[5]) /\ Idle(b[6])
      BY <1>2, <1>6, <2>4
    <3>4. QED
      BY <2>3, <2>5, <3>1, <3>2, <3>3
  <2>8. Holds(b, refs, names)
    BY <2>7, FollowedHolds
  <2>9. IsRead(b, s.ref)
    <3>1. 4 \in 1..Len(b) - 1 /\ b[4] = Word("from") /\ b[4 + 1] = s.ref
      BY <1>2, <1>5, <2>3, <2>4
    <3>2. QED
      BY <3>1 DEF IsRead
  <2>10. s.link \notin Misleading
    BY <1>8 DEF ReadLinks, Misleading
  <2>11. QED
    BY <2>2, <2>3, <2>8, <2>9, <2>10
<1>9. CASE s.link = "lateral"
  <2>1. PICK m \in QueryPieces : m = Plain("lateral") /\ Idle(m)
    <3>1. Plain("lateral").form # "word"
      BY WordsDiffer
    <3>2. QED
      BY <3>1, IdlePieces DEF QueryPieces
  <2>2. PICK b : b = << j, m, o, z, f, p, c >>
    OBVIOUS
  <2>3. b = SourceText(s)
    <3>1. Lead(s.link) = << j, m, o, z, f >>
      BY <1>5, <1>9, <2>1 DEF Lead
    <3>2. SourceText(s) = << j, m, o, z, f >> \o << p >> \o << c >>
      BY <1>2, <1>5, <1>9, <3>1 DEF SourceText
    <3>3. QED
      BY <2>2, <3>2
  <2>4. b \in Seq(QueryPieces) /\ Len(b) = 7
    BY <2>2
  <2>5. b[1] = j /\ b[2] = m /\ b[3] = o /\ b[4] = z /\ b[5] = f /\ b[6] = p /\ b[7] = c
    BY <2>2
  <2>6. \A x \in 1..7 : x = 1 \/ x = 2 \/ x = 3 \/ x = 4 \/ x = 5 \/ x = 6 \/ x = 7
    OBVIOUS
  <2>7. s.ref \in refs /\ m \in refs
    BY <1>9, <2>1 DEF ReadLinks, Misleading
  <2>8. \A x \in 1..Len(b) : \/ Idle(b[x])
                               \/ /\ x < Len(b) /\ b[x] # Word("as")
                                  /\ b[x + 1].form # "word" => b[x + 1] \in refs
    <3>1. b[1] # Word("as") /\ (b[1 + 1].form # "word" => b[1 + 1] \in refs)
      BY <1>6, <1>7, <2>5, <1>2, <2>7
    <3>2. b[5] # Word("as") /\ (b[5 + 1].form # "word" => b[5 + 1] \in refs)
      BY <1>6, <1>7, <2>5, <1>2, <2>7
    <3>3. Idle(b[2]) /\ Idle(b[3]) /\ Idle(b[4]) /\ Idle(b[6]) /\ Idle(b[7])
      BY <1>2, <1>6, <2>5, <2>1
    <3>4. QED
      BY <2>4, <2>6, <3>1, <3>2, <3>3
  <2>9. Holds(b, refs, names)
    BY <2>8, FollowedHolds
  <2>10. IsRead(b, s.ref)
    <3>1. 5 \in 1..Len(b) - 1 /\ b[5] = Word("from") /\ b[5 + 1] = s.ref
      BY <1>2, <1>5, <2>4, <2>5
    <3>2. QED
      BY <3>1 DEF IsRead
  <2>11. IsRead(b, Plain(s.link))
    <3>1. 1 \in 1..Len(b) - 1 /\ b[1] = Word("join") /\ b[1 + 1] = Plain(s.link)
      BY <1>5, <1>9, <2>1, <2>4, <2>5
    <3>2. QED
      BY <3>1 DEF IsRead
  <2>12. QED
    BY <2>3, <2>4, <2>9, <2>10, <2>11
<1>10. CASE s.link = "only"
  <2>1. PICK m \in QueryPieces : m = Plain("only") /\ Idle(m)
    <3>1. Plain("only").form # "word"
      BY WordsDiffer
    <3>2. QED
      BY <3>1, IdlePieces DEF QueryPieces
  <2>2. PICK b : b = << j, m, p >>
    OBVIOUS
  <2>3. b = SourceText(s)
    <3>1. Lead(s.link) = << j, m >>
      BY <1>5, <1>10, <2>1 DEF Lead
    <3>2. SourceText(s) = << j, m >> \o << p >> \o << >>
      BY <1>2, <1>5, <1>10, <3>1 DEF SourceText
    <3>3. QED
      BY <2>2, <3>2
  <2>4. b \in Seq(QueryPieces) /\ Len(b) = 3
    BY <2>2
  <2>5. b[1] = j /\ b[2] = m /\ b[3] = p
    BY <2>2
  <2>6. \A x \in 1..3 : x = 1 \/ x = 2 \/ x = 3
    OBVIOUS
  <2>7. m \in refs
    BY <1>10, <2>1 DEF Misleading
  <2>8. \A x \in 1..Len(b) : \/ Idle(b[x])
                               \/ /\ x < Len(b) /\ b[x] # Word("as")
                                  /\ b[x + 1].form # "word" => b[x + 1] \in refs
    <3>1. b[1] # Word("as") /\ (b[1 + 1].form # "word" => b[1 + 1] \in refs)
      BY <1>6, <1>7, <2>5, <1>2, <2>7
    <3>2. Idle(b[2]) /\ Idle(b[3])
      BY <1>2, <1>6, <2>5, <2>1
    <3>3. QED
      BY <2>4, <2>6, <3>1, <3>2
  <2>9. Holds(b, refs, names)
    BY <2>8, FollowedHolds
  <2>10. IsRead(b, Plain(s.link))
    <3>1. 1 \in 1..Len(b) - 1 /\ b[1] = Word("join") /\ b[1 + 1] = Plain(s.link)
      BY <1>5, <1>10, <2>1, <2>4, <2>5
    <3>2. QED
      BY <3>1 DEF IsRead
  <2>11. s.link \notin ReadLinks
    BY <1>10 DEF ReadLinks, Misleading
  <2>12. QED
    BY <2>3, <2>4, <2>9, <2>10, <2>11
<1>11. CASE s.link = "parenthesis"
  <2>1. PICK b : b = << j, o, p, c >>
    OBVIOUS
  <2>2. b = SourceText(s)
    <3>1. Lead(s.link) = << j, o >>
      BY <1>5, <1>11 DEF Lead
    <3>2. SourceText(s) = << j, o >> \o << p >> \o << c >>
      BY <1>2, <1>5, <1>11, <3>1 DEF SourceText
    <3>3. QED
      BY <2>1, <3>2
  <2>3. b \in Seq(QueryPieces) /\ Len(b) = 4
    BY <2>1
  <2>4. b[1] = j /\ b[2] = o /\ b[3] = p /\ b[4] = c
    BY <2>1
  <2>5. \A x \in 1..4 : x = 1 \/ x = 2 \/ x = 3 \/ x = 4
    OBVIOUS
  <2>6. \A x \in 1..Len(b) : \/ Idle(b[x])
                               \/ /\ x < Len(b) /\ b[x] # Word("as")
                                  /\ b[x + 1].form # "word" => b[x + 1] \in refs
    <3>1. b[1] # Word("as") /\ (b[1 + 1].form # "word" => b[1 + 1] \in refs)
      BY <1>6, <1>7, <2>4
    <3>2. Idle(b[2]) /\ Idle(b[3]) /\ Idle(b[4])
      BY <1>2, <1>6, <2>4
    <3>3. QED
      BY <2>3, <2>5, <3>1, <3>2
  <2>7. Holds(b, refs, names)
    BY <2>6, FollowedHolds
  <2>8. s.link \notin ReadLinks /\ s.link \notin Misleading
    BY <1>11 DEF ReadLinks, Misleading
  <2>9. QED
    BY <2>2, <2>3, <2>7, <2>8
<1>12. CASE s.link = "comment"
  <2>1. PICK b : b = << j, e, p >>
    OBVIOUS
  <2>2. b = SourceText(s)
    <3>1. Lead(s.link) = << j, e >>
      BY <1>5, <1>12 DEF Lead
    <3>2. SourceText(s) = << j, e >> \o << p >> \o << >>
      BY <1>2, <1>5, <1>12, <3>1 DEF SourceText
    <3>3. QED
      BY <2>1, <3>2
  <2>3. b \in Seq(QueryPieces) /\ Len(b) = 3
    BY <2>1
  <2>4. b[1] = j /\ b[2] = e /\ b[3] = p
    BY <2>1
  <2>5. \A x \in 1..3 : x = 1 \/ x = 2 \/ x = 3
    OBVIOUS
  <2>6. \A x \in 1..Len(b) : \/ Idle(b[x])
                               \/ /\ x < Len(b) /\ b[x] # Word("as")
                                  /\ b[x + 1].form # "word" => b[x + 1] \in refs
    <3>1. b[1] # Word("as") /\ (b[1 + 1].form # "word" => b[1 + 1] \in refs)
      BY <1>6, <1>7, <2>4
    <3>2. Idle(b[2]) /\ Idle(b[3])
      BY <1>2, <1>6, <2>4
    <3>3. QED
      BY <2>3, <2>5, <3>1, <3>2
  <2>7. Holds(b, refs, names)
    BY <2>6, FollowedHolds
  <2>8. s.link \notin ReadLinks /\ s.link \notin Misleading
    BY <1>12 DEF ReadLinks, Misleading
  <2>9. QED
    BY <2>2, <2>3, <2>7, <2>8
<1>13. CASE s.link \in {"from", "join", "comma", "table"}
  <2>1. PICK w \in QueryPieces : w = Word(s.link)
    <3>1. s.link \in Marks
      BY <1>13 DEF Marks
    <3>2. QED
      BY <3>1, WordsArePieces
  <2>2. PICK b : b = << w, p >>
    OBVIOUS
  <2>3. b = SourceText(s)
    <3>1. Lead(s.link) = << w >>
      BY <1>13, <2>1 DEF Lead
    <3>2. SourceText(s) = << w >> \o << p >> \o << >>
      BY <1>2, <1>13, <3>1 DEF SourceText
    <3>3. QED
      BY <2>2, <3>2
  <2>4. b \in Seq(QueryPieces) /\ Len(b) = 2 /\ b[1] = w /\ b[2] = p
    BY <2>2
  <2>5. \A x \in 1..2 : x = 1 \/ x = 2
    OBVIOUS
  <2>6. Idle(b[2])
    BY <1>2, <2>4
  <2>7. s.link \notin Misleading
    BY <1>13 DEF Misleading
  <2>8. CASE s.link \in {"comma", "table"}
    <3>1. Idle(b[1])
      BY <1>1, <2>1, <2>4, <2>8
    <3>2. Holds(b, refs, names)
      BY <2>4, <2>5, <2>6, <3>1, FollowedHolds
    <3>3. s.link \notin ReadLinks
      BY <2>8 DEF ReadLinks
    <3>4. QED
      BY <2>3, <2>4, <2>7, <3>2, <3>3
  <2>9. CASE s.link \in {"from", "join"}
    <3>1. b[1] # Word("as") /\ b[1 + 1] = s.ref /\ b[1] \in {Word("from"), Word("join")}
      BY <1>2, <1>3, <2>1, <2>4, <2>9
    <3>2. s.ref \in refs
      BY <2>9 DEF ReadLinks
    <3>3. Holds(b, refs, names)
      BY <2>4, <2>5, <2>6, <3>1, <3>2, FollowedHolds
    <3>4. IsRead(b, s.ref)
      <4>1. 1 \in 1..Len(b) - 1
        BY <2>4
      <4>2. QED
        BY <3>1, <4>1 DEF IsRead
    <3>5. QED
      BY <2>3, <2>4, <2>7, <3>3, <3>4
  <2>10. QED
    BY <1>13, <2>8, <2>9
<1>14. QED
  BY <1>8, <1>9, <1>10, <1>11, <1>12, <1>13 DEF Links

\* SELECT, and what is hidden behind it.
LEMMA SelectShape ==
  ASSUME NEW refs, NEW names
  PROVE  << Word("select") >> \in Seq(QueryPieces) /\ Holds(<< Word("select") >>, refs, names)
<1>1. PICK p : p = Word("select")
  OBVIOUS
<1>2. "select" \in Marks
  BY DEF Marks
<1>3. p \in QueryPieces
  BY <1>1, <1>2, WordsArePieces
<1>4. Idle(p)
  BY <1>1, IdlePieces
<1>5. PICK b : b = << p >>
  OBVIOUS
<1>6. b \in Seq(QueryPieces) /\ Len(b) = 1 /\ b[1] = p
  BY <1>3, <1>5
<1>7. \A x \in 1..Len(b) : Idle(b[x])
  BY <1>4, <1>6
<1>8. Holds(b, refs, names)
  BY <1>7 DEF Holds, Idle
<1>9. QED
  BY <1>1, <1>5, <1>6, <1>8

\* FROM where it names no table: the first expression sees a reference there.
LEMMA HiddenShape ==
  ASSUME NEW refs, NEW names, Plain("col") \in refs
  PROVE  /\ << Word("from"), Plain("col") >> \in Seq(QueryPieces)
         /\ Holds(<< Word("from"), Plain("col") >>, refs, names)
<1>1. PICK p, r : p = Word("from") /\ r = Plain("col")
  OBVIOUS
<1>2. "from" \in Marks
  BY DEF Marks
<1>3. p \in QueryPieces /\ r \in QueryPieces
  BY <1>1, <1>2, WordsArePieces DEF QueryPieces
<1>4. Idle(r) /\ p # Word("as")
  <2>1. r.form # "word"
    BY <1>1, WordsDiffer
  <2>2. Word("from") # Word("as")
    BY WordsDiffer
  <2>3. QED
    BY <1>1, <2>1, <2>2, IdlePieces
<1>5. PICK b : b = << p, r >>
  OBVIOUS
<1>6. b \in Seq(QueryPieces) /\ Len(b) = 2 /\ b[1] = p /\ b[2] = r
  BY <1>3, <1>5
<1>7. \A x \in 1..Len(b) : x = 1 \/ (x = 2 /\ Idle(b[x]))
  BY <1>4, <1>6
<1>8. ASSUME NEW x \in 1..Len(b), b[x] \in {Word("from"), Word("join")}
      PROVE  x < Len(b) /\ (b[x + 1].form # "word" => b[x + 1] \in refs)
  <2>1. x = 1
    BY <1>7, <1>8 DEF Idle
  <2>2. x < Len(b) /\ b[x + 1] = r
    BY <1>6, <2>1
  <2>3. QED
    BY <1>1, <2>2
<1>9. ASSUME NEW x \in 1..Len(b) PROVE b[x] # Word("as")
  <2>1. CASE x = 1
    BY <1>4, <1>6, <2>1
  <2>2. CASE x # 1
    BY <1>7, <2>2 DEF Idle
  <2>3. QED
    BY <2>1, <2>2
<1>10. Holds(b, refs, names)
  BY <1>8, <1>9 DEF Holds
<1>11. QED
  BY <1>1, <1>5, <1>6, <1>10

\* What the proofs use of a query: its lists and what they hold.
WellFormed(q) ==
  /\ q.ctes \in Seq({q.ctes[i] : i \in DOMAIN q.ctes})
  /\ \A i \in DOMAIN q.ctes : /\ q.ctes[i].ref \in Refs
                              /\ q.ctes[i].name \in STRING
                              /\ Lower(q.ctes[i].name) = q.ctes[i].name
  /\ q.sources \in Seq({q.sources[i] : i \in DOMAIN q.sources})
  /\ \A i \in DOMAIN q.sources : /\ q.sources[i].ref \in Refs
                                 /\ q.sources[i].link \in Links
  /\ q.hidden \in BOOLEAN

\* The references the first expression sees of a query, and the names of its CTEs.
Seen(q) ==
  {q.ctes[i].ref : i \in DOMAIN q.ctes}
  \cup {q.sources[i].ref : i \in {j \in DOMAIN q.sources : q.sources[j].link \in ReadLinks}}
  \cup {Plain(q.sources[i].link) :
           i \in {j \in DOMAIN q.sources : q.sources[j].link \in Misleading}}
  \cup {r \in {Plain("col")} : q.hidden}

Named(q) == {q.ctes[i].name : i \in DOMAIN q.ctes}

\* The text of a query reads what is seen of it, and has the heads of its CTEs.
LEMMA TextReads ==
  ASSUME NEW q, WellFormed(q)
  PROVE  /\ Text(q) \in Seq(QueryPieces)
         /\ \A i \in DOMAIN q.ctes : IsRead(Text(q), q.ctes[i].ref)
         /\ \A i \in DOMAIN q.sources :
              /\ q.sources[i].link \in ReadLinks => IsRead(Text(q), q.sources[i].ref)
              /\ q.sources[i].link \in Misleading => IsRead(Text(q), Plain(q.sources[i].link))
         /\ \A r : IsRead(Text(q), r) /\ r.form # "word" => r \in Seen(q)
         /\ \A n : IsHead(Text(q), n) => n \in Named(q)
         /\ \A i \in DOMAIN q.ctes :
              q.ctes[i].head = "plain" => IsHead(Text(q), q.ctes[i].name)
<1>1. PICK c, s, D, E : c = q.ctes /\ s = q.sources /\ D = DOMAIN c /\ E = DOMAIN s
  OBVIOUS
<1>2. PICK cs, ss : /\ cs = [i \in D |-> CteText(i, c[i])]
                    /\ ss = [i \in E |-> SourceText(s[i])]
  OBVIOUS
<1>3. PICK f, g, one, hid :
        /\ f = FlattenSeq(cs) /\ g = FlattenSeq(ss) /\ one = << Word("select") >>
        /\ hid = IF q.hidden THEN << Word("from"), Plain("col") >> ELSE << >>
  OBVIOUS
<1>4. Text(q) = f \o one \o hid \o g
  BY <1>1, <1>2, <1>3 DEF Text
<1>5. \A i \in D : /\ cs[i] = CteText(i, c[i])
                   /\ cs[i] \in Seq(QueryPieces)
                   /\ IsRead(cs[i], c[i].ref)
                   /\ Holds(cs[i], Seen(q), Named(q))
                   /\ c[i].head = "plain" => IsHead(cs[i], c[i].name)
  <2>1. TAKE i \in D
  <2>2. c[i].ref \in Refs /\ c[i].name \in STRING
    BY <1>1 DEF WellFormed
  <2>3. c[i].ref \in Seen(q) /\ c[i].name \in Named(q)
    BY <1>1 DEF Seen, Named
  <2>4. /\ CteText(i, c[i]) \in Seq(QueryPieces)
        /\ IsRead(CteText(i, c[i]), c[i].ref)
        /\ Holds(CteText(i, c[i]), Seen(q), Named(q))
        /\ c[i].head = "plain" => IsHead(CteText(i, c[i]), c[i].name)
    BY <2>2, <2>3, CteShape
  <2>5. cs[i] = CteText(i, c[i])
    BY <1>2
  <2>6. QED
    BY <2>4, <2>5
<1>6. \A i \in E : /\ ss[i] = SourceText(s[i])
                   /\ ss[i] \in Seq(QueryPieces)
                   /\ s[i].link \in ReadLinks => IsRead(ss[i], s[i].ref)
                   /\ s[i].link \in Misleading => IsRead(ss[i], Plain(s[i].link))
                   /\ Holds(ss[i], Seen(q), Named(q))
  <2>1. TAKE i \in E
  <2>2. s[i].ref \in Refs /\ s[i].link \in Links
    BY <1>1 DEF WellFormed
  <2>3. /\ s[i].link \in ReadLinks => s[i].ref \in Seen(q)
        /\ s[i].link \in Misleading => Plain(s[i].link) \in Seen(q)
    BY <1>1 DEF Seen
  <2>4. /\ SourceText(s[i]) \in Seq(QueryPieces)
        /\ s[i].link \in ReadLinks => IsRead(SourceText(s[i]), s[i].ref)
        /\ s[i].link \in Misleading => IsRead(SourceText(s[i]), Plain(s[i].link))
        /\ Holds(SourceText(s[i]), Seen(q), Named(q))
    BY <2>2, <2>3, SourceShape
  <2>5. ss[i] = SourceText(s[i])
    BY <1>2
  <2>6. QED
    BY <2>4, <2>5
<1>7. cs \in Seq(Seq(QueryPieces)) /\ D = 1..Len(cs)
  <2>1. c \in Seq({c[i] : i \in D})
    BY <1>1 DEF WellFormed
  <2>2. Len(c) \in Nat /\ D = 1..Len(c)
    BY <1>1, <2>1
  <2>3. cs \in [1..Len(c) -> Seq(QueryPieces)]
    BY <1>2, <1>5, <2>2
  <2>4. QED
    BY <2>2, <2>3
<1>8. ss \in Seq(Seq(QueryPieces)) /\ E = 1..Len(ss)
  <2>1. s \in Seq({s[i] : i \in E})
    BY <1>1 DEF WellFormed
  <2>2. Len(s) \in Nat /\ E = 1..Len(s)
    BY <1>1, <2>1
  <2>3. ss \in [1..Len(s) -> Seq(QueryPieces)]
    BY <1>2, <1>6, <2>2
  <2>4. QED
    BY <2>2, <2>3
<1>9. PICK B, C : B = {cs[i] : i \in D} /\ C = {ss[i] : i \in E}
  OBVIOUS
<1>10. f \in Seq(QueryPieces) /\ Tiled(f, B) /\ B \in SUBSET Seq(QueryPieces)
  <2>1. FlattenSeq(cs) \in Seq(QueryPieces) /\ Tiled(FlattenSeq(cs), {cs[i] : i \in 1..Len(cs)})
    BY <1>7, FlattenTiled
  <2>2. QED
    BY <1>3, <1>5, <1>7, <1>9, <2>1
<1>11. g \in Seq(QueryPieces) /\ Tiled(g, C) /\ C \in SUBSET Seq(QueryPieces)
  <2>1. FlattenSeq(ss) \in Seq(QueryPieces) /\ Tiled(FlattenSeq(ss), {ss[i] : i \in 1..Len(ss)})
    BY <1>8, FlattenTiled
  <2>2. QED
    BY <1>3, <1>6, <1>8, <1>9, <2>1
<1>12. one \in Seq(QueryPieces) /\ Holds(one, Seen(q), Named(q))
  BY <1>3, SelectShape
<1>13. hid \in Seq(QueryPieces) /\ Holds(hid, Seen(q), Named(q))
  <2>1. CASE q.hidden
    <3>1. Plain("col") \in Seen(q)
      BY <2>1 DEF Seen
    <3>2. QED
      BY <1>3, <2>1, <3>1, HiddenShape
  <2>2. CASE ~ q.hidden
    <3>1. hid = << >>
      BY <1>3, <2>2
    <3>2. hid \in Seq(QueryPieces) /\ 1..Len(hid) = {}
      BY <3>1
    <3>3. QED
      BY <3>2 DEF Holds
  <2>3. QED
    BY <2>1, <2>2
<1>14. PICK O, H : O = {one} /\ H = {hid}
  OBVIOUS
<1>15. Tiled(one, O) /\ Tiled(hid, H) /\ O \in SUBSET Seq(QueryPieces) /\ H \in SUBSET Seq(QueryPieces)
  BY <1>12, <1>13, <1>14, TiledByItself
<1>16. PICK u, v, t : u = f \o one /\ v = u \o hid /\ t = v \o g
  OBVIOUS
<1>17. u \in Seq(QueryPieces) /\ Tiled(u, B \cup O) /\ (B \cup O) \in SUBSET Seq(QueryPieces)
  <2>1. Tiled(f \o one, B \cup O)
    BY <1>10, <1>12, <1>15, TiledConcat
  <2>2. f \o one \in Seq(QueryPieces)
    BY <1>10, <1>12
  <2>3. QED
    BY <1>10, <1>15, <1>16, <2>1, <2>2
<1>18. /\ v \in Seq(QueryPieces) /\ Tiled(v, (B \cup O) \cup H)
       /\ ((B \cup O) \cup H) \in SUBSET Seq(QueryPieces)
  <2>1. Tiled(u \o hid, (B \cup O) \cup H)
    BY <1>13, <1>15, <1>17, TiledConcat
  <2>2. u \o hid \in Seq(QueryPieces)
    BY <1>13, <1>17
  <2>3. QED
    BY <1>15, <1>16, <1>17, <2>1, <2>2
<1>19. /\ t \in Seq(QueryPieces) /\ Tiled(t, ((B \cup O) \cup H) \cup C)
       /\ (((B \cup O) \cup H) \cup C) \in SUBSET Seq(QueryPieces)
  <2>1. Tiled(v \o g, ((B \cup O) \cup H) \cup C)
    BY <1>11, <1>18, TiledConcat
  <2>2. v \o g \in Seq(QueryPieces)
    BY <1>11, <1>18
  <2>3. QED
    BY <1>11, <1>16, <1>18, <2>1, <2>2
<1>20. PICK P : P = ((B \cup O) \cup H) \cup C
  OBVIOUS
<1>21. /\ t = Text(q) /\ t \in Seq(QueryPieces) /\ Tiled(t, P) /\ P \in SUBSET Seq(QueryPieces)
       /\ \A i \in D : cs[i] \in P
       /\ \A i \in E : ss[i] \in P
  BY <1>4, <1>9, <1>16, <1>19, <1>20
<1>22. \A b \in P : Holds(b, Seen(q), Named(q))
  BY <1>5, <1>6, <1>9, <1>12, <1>13, <1>14, <1>20
<1>23. /\ \A r : IsRead(t, r) /\ r.form # "word" => r \in Seen(q)
       /\ \A n : IsHead(t, n) => n \in Named(q)
  BY <1>21, <1>22, PartsHold
<1>24. ASSUME NEW b \in P
       PROVE  /\ \A r : IsRead(b, r) => IsRead(t, r)
              /\ \A n : IsHead(b, n) => IsHead(t, n)
  <2>1. PICK o \in Nat : Embeds(b, t, o)
    BY <1>21 DEF Tiled
  <2>2. b \in Seq(QueryPieces) /\ t \in Seq(QueryPieces)
    BY <1>21
  <2>3. QED
    BY <2>1, <2>2, WholeReads
<1>25. \A i \in D : IsRead(t, c[i].ref)
  BY <1>5, <1>21, <1>24
<1>26. \A i \in E : /\ s[i].link \in ReadLinks => IsRead(t, s[i].ref)
                    /\ s[i].link \in Misleading => IsRead(t, Plain(s[i].link))
  BY <1>6, <1>21, <1>24
<1>27. \A i \in D : c[i].head = "plain" => IsHead(t, c[i].name)
  BY <1>5, <1>21, <1>24
<1>28. QED
  BY <1>1, <1>21, <1>23, <1>25, <1>26, <1>27

\* A reference is what its form and its name say; a plain one is no word.
LEMMA PiecesAreReferences ==
  ASSUME NEW p \in QueryPieces, p.form = "plain"
  PROVE  p = Plain(p.name)
<1>1. CASE p \in {Word(w) : w \in Marks}
  BY <1>1, WordsDiffer
<1>2. CASE p \in Refs
  BY <1>2, QueryAssumption DEF Plain, Ref
<1>3. CASE p \in {Plain(n) : n \in STRING} \cup {Plain(n) : n \in {"col", "only", "lateral"}}
  BY <1>3, WordsDiffer
<1>4. CASE p \in {Ref("quoted", "public", n) : n \in STRING}
  BY <1>4, WordsDiffer
<1>5. QED
  BY <1>1, <1>2, <1>3, <1>4 DEF QueryPieces

\* The names the check finds are those of what FROM and JOIN read, and of the heads.
LEMMA ReferencesAreRead ==
  ASSUME NEW t, NEW n
  PROVE  n \in References(t) <=>
           n # NoName /\ \E r : IsRead(t, r) /\ r.form # "word" /\ NameIn(r) = n
<1>1. ASSUME n \in References(t)
      PROVE  n # NoName /\ \E r : IsRead(t, r) /\ r.form # "word" /\ NameIn(r) = n
  <2>1. PICK i \in 1..Len(t) - 1 : /\ t[i] \in {Word("from"), Word("join")}
                                   /\ t[i + 1].form # "word" /\ n = NameIn(t[i + 1])
                                   /\ n # NoName
    BY <1>1 DEF References
  <2>2. IsRead(t, t[i + 1])
    BY <2>1 DEF IsRead
  <2>3. QED
    BY <2>1, <2>2
<1>2. ASSUME n # NoName, NEW r, IsRead(t, r), r.form # "word", NameIn(r) = n
      PROVE  n \in References(t)
  <2>1. PICK i \in 1..Len(t) - 1 : t[i] \in {Word("from"), Word("join")} /\ t[i + 1] = r
    BY <1>2 DEF IsRead
  <2>2. QED
    BY <1>2, <2>1 DEF References
<1>3. QED
  BY <1>1, <1>2

\* The names of CTEs in a text are those of the heads in it.
LEMMA NamesAreHeads ==
  ASSUME NEW t \in Seq(QueryPieces), NEW n
  PROVE  n \in CteNames(t) <=> \E m : IsHead(t, m) /\ Lower(m) = n
<1>1. ASSUME n \in CteNames(t) PROVE \E m : IsHead(t, m) /\ Lower(m) = n
  <2>1. PICK i \in 1..Len(t) - 3 : /\ t[i] \in {Word("with"), Word("comma")}
                                   /\ t[i + 1].form = "plain"
                                   /\ t[i + 2] = Word("as")
                                   /\ t[i + 3] = Word("(")
                                   /\ n = Lower(t[i + 1].name)
    BY <1>1 DEF CteNames
  <2>2. t[i + 1] \in QueryPieces
    <3>1. i + 1 \in 1..Len(t)
      OBVIOUS
    <3>2. QED
      BY <3>1
  <2>3. PICK p : p = t[i + 1]
    OBVIOUS
  <2>4. p = Plain(p.name)
    BY <2>1, <2>2, <2>3, PiecesAreReferences
  <2>5. IsHead(t, p.name)
    BY <2>1, <2>3, <2>4 DEF IsHead
  <2>6. QED
    BY <2>1, <2>3, <2>5
<1>2. ASSUME NEW m, IsHead(t, m), Lower(m) = n PROVE n \in CteNames(t)
  <2>1. PICK i \in 1..Len(t) - 3 : /\ t[i] \in {Word("with"), Word("comma")}
                                   /\ t[i + 1] = Plain(m)
                                   /\ t[i + 2] = Word("as")
                                   /\ t[i + 3] = Word("(")
    BY <1>2 DEF IsHead
  <2>2. t[i + 1].form = "plain" /\ t[i + 1].name = m
    BY <2>1, WordsDiffer
  <2>3. QED
    BY <1>2, <2>1, <2>2 DEF CteNames
<1>3. QED
  BY <1>1, <1>2

\* Lower is done once and for all.
LEMMA LowerTwice ==
  ASSUME NEW n
  PROVE  Lower(Lower(n)) = Lower(n)
  BY DEF Lower

\* What the names of the heads of a query's text are.
LEMMA NamesOfText ==
  ASSUME NEW q, WellFormed(q)
  PROVE  /\ CteNames(Text(q)) \subseteq Named(q)
         /\ \A i \in DOMAIN q.ctes :
              q.ctes[i].head = "plain" => q.ctes[i].name \in CteNames(Text(q))
<1>1. PICK t : t = Text(q)
  OBVIOUS
<1>2. /\ t \in Seq(QueryPieces)
      /\ \A n : IsHead(t, n) => n \in Named(q)
      /\ \A i \in DOMAIN q.ctes : q.ctes[i].head = "plain" => IsHead(t, q.ctes[i].name)
  BY <1>1, TextReads
<1>3. \A i \in DOMAIN q.ctes : Lower(q.ctes[i].name) = q.ctes[i].name
  BY DEF WellFormed
<1>4. \A n \in Named(q) : Lower(n) = n
  BY <1>3 DEF Named
<1>5. ASSUME NEW n \in CteNames(t) PROVE n \in Named(q)
  <2>1. PICK m : IsHead(t, m) /\ Lower(m) = n
    BY <1>2, NamesAreHeads
  <2>2. QED
    BY <1>2, <1>4, <2>1
<1>6. ASSUME NEW i \in DOMAIN q.ctes, q.ctes[i].head = "plain" PROVE q.ctes[i].name \in CteNames(t)
  BY <1>2, <1>3, <1>6, NamesAreHeads
<1>7. QED
  BY <1>1, <1>5, <1>6

\* A place of a query is one of its lists; how it is linked says whether it is in the
\* text behind FROM or JOIN, and whether another name is.
LEMMA PlacesAreRead ==
  ASSUME NEW q, WellFormed(q), NEW p \in Places(q)
  PROVE  /\ p[2] \in Refs /\ p[3] \in Links
         /\ p[3] \in ReadLinks => IsRead(Text(q), p[2])
         /\ p[3] \in Misleading => IsRead(Text(q), Plain(p[3]))
<1>1. \A i \in DOMAIN q.ctes : q.ctes[i].ref \in Refs /\ IsRead(Text(q), q.ctes[i].ref)
  BY TextReads DEF WellFormed
<1>2. \A i \in DOMAIN q.sources :
        /\ q.sources[i].ref \in Refs /\ q.sources[i].link \in Links
        /\ q.sources[i].link \in ReadLinks => IsRead(Text(q), q.sources[i].ref)
        /\ q.sources[i].link \in Misleading => IsRead(Text(q), Plain(q.sources[i].link))
  BY TextReads DEF WellFormed
<1>3. CASE p \in {<<i, q.ctes[i].ref, "from">> : i \in DOMAIN q.ctes}
  <2>1. PICK i \in DOMAIN q.ctes : p = <<i, q.ctes[i].ref, "from">>
    BY <1>3
  <2>2. p[2] = q.ctes[i].ref /\ p[3] = "from"
    BY <2>1
  <2>3. "from" \in Links /\ "from" \notin Misleading
    BY DEF Links, Misleading
  <2>4. QED
    BY <1>1, <2>2, <2>3
<1>4. CASE p \in {<<Len(q.ctes) + 1, q.sources[i].ref, q.sources[i].link>> : i \in DOMAIN q.sources}
  <2>1. PICK i \in DOMAIN q.sources :
          p = <<Len(q.ctes) + 1, q.sources[i].ref, q.sources[i].link>>
    BY <1>4
  <2>2. p[2] = q.sources[i].ref /\ p[3] = q.sources[i].link
    BY <2>1
  <2>3. QED
    BY <1>2, <2>2
<1>5. QED
  BY <1>3, <1>4 DEF Places

\* Of what is seen of a query, all but what is hidden and the words that mislead
\* stands at a place of it.
LEMMA SeenIsPlaced ==
  ASSUME NEW q, NEW r \in Seen(q), ~ q.hidden
  PROVE  \E p \in Places(q) : p[2] = r \/ p[3] \in Misleading
<1>1. CASE r \in {q.ctes[i].ref : i \in DOMAIN q.ctes}
  <2>1. PICK i \in DOMAIN q.ctes : r = q.ctes[i].ref
    BY <1>1
  <2>2. PICK p : p = <<i, q.ctes[i].ref, "from">>
    OBVIOUS
  <2>3. p \in Places(q)
    BY <2>2 DEF Places
  <2>4. p[2] = r
    BY <2>1, <2>2
  <2>5. QED
    BY <2>3, <2>4
<1>2. CASE \E i \in DOMAIN q.sources : r = q.sources[i].ref \/ q.sources[i].link \in Misleading
  <2>1. PICK i \in DOMAIN q.sources : r = q.sources[i].ref \/ q.sources[i].link \in Misleading
    BY <1>2
  <2>2. PICK p : p = <<Len(q.ctes) + 1, q.sources[i].ref, q.sources[i].link>>
    OBVIOUS
  <2>3. p \in Places(q)
    BY <2>2 DEF Places
  <2>4. p[2] = r \/ p[3] \in Misleading
    BY <2>1, <2>2
  <2>5. QED
    BY <2>3, <2>4
<1>3. QED
  BY <1>1, <1>2 DEF Seen

\* A name that is read, and let pass, is a table's or a CTE's.
LEMMA ReadIsKnown ==
  ASSUME NEW q, WellFormed(q), NEW tables, ValidateTables(Text(q), tables),
         NEW r, r.form # "word", IsRead(Text(q), r)
  PROVE  NameIn(r) = NoName \/ NameIn(r) \in Named(q) \cup {Lower(n) : n \in tables}
<1>1. NameIn(r) # NoName => NameIn(r) \in References(Text(q))
  BY ReferencesAreRead
<1>2. NameIn(r) # NoName => \/ NameIn(r) \in {Lower(n) : n \in tables}
                           \/ NameIn(r) \in CteNames(Text(q))
  BY <1>1 DEF ValidateTables
<1>3. QED
  BY <1>2, NamesOfText

\* What the check lets pass: a name it reads is a table's or a CTE's.
LEMMA InventedPass ==
  ASSUME NEW q, WellFormed(q), NEW tables, ValidateTables(Text(q), tables),
         NEW p \in Places(q), NEW known, known = Named(q) \cup {Lower(n) : n \in tables},
         NEW cut, cut <=> Beginning(p[2].schema) # p[2].schema
  PROVE  \/ p[3] \in {"comma", "parenthesis", "comment", "table"}
         \/ p[3] = "only" /\ "only" \in known
         \/ p[2].form = "qualifiedQuoted" /\ ~ cut
         \/ /\ p[2].form \in {"bothQuoted", "schemaQuoted"} \/ cut
            /\ Lower(Beginning(p[2].schema)) \in known \cup {NoName}
         \/ /\ p[2].form \notin {"bothQuoted", "schemaQuoted"} /\ ~ cut
            /\ Lower(Beginning(p[2].name)) \in known \cup {NoName}
<1>1. PICK r : r = p[2]
  OBVIOUS
<1>2. /\ r \in Refs /\ p[3] \in Links
      /\ p[3] \in ReadLinks => IsRead(Text(q), r)
      /\ p[3] \in Misleading => IsRead(Text(q), Plain(p[3]))
  BY <1>1, PlacesAreRead
<1>3. CASE p[3] = "only"
  <2>1. PICK o : o = Plain("only")
    OBVIOUS
  <2>2. IsRead(Text(q), o)
    BY <1>2, <1>3, <2>1 DEF Misleading
  <2>3. o.form = "plain" /\ o.schema = "public" /\ o.name = "only"
    BY <2>1, WordsDiffer
  <2>4. NameIn(o) = "only"
    <3>1. Beginning("public") = "public" /\ Beginning("only") = "only" /\ Lower("only") = "only"
      BY DEF Beginning, Lower
    <3>2. QED
      BY <2>3, <3>1 DEF NameIn
  <2>5. "only" # NoName
    BY DEF NoName
  <2>6. QED
    BY <1>3, <2>2, <2>3, <2>4, <2>5, ReadIsKnown
<1>4. CASE p[3] \in ReadLinks
  <2>1. r.form # "word"
    BY <1>2, QueryAssumption DEF Forms
  <2>2. NameIn(r) \in known \cup {NoName}
    BY <1>2, <1>4, <2>1, ReadIsKnown
  <2>3. CASE r.form \in {"bothQuoted", "schemaQuoted"} \/ cut
    <3>1. NameIn(r) = Lower(Beginning(r.schema))
      BY <1>1, <2>3 DEF NameIn
    <3>2. QED
      BY <1>1, <2>2, <2>3, <3>1
  <2>4. CASE r.form \notin {"bothQuoted", "schemaQuoted"} /\ ~ cut /\ r.form # "qualifiedQuoted"
    <3>1. NameIn(r) = Lower(Beginning(r.name))
      BY <1>1, <2>4 DEF NameIn
    <3>2. QED
      BY <1>1, <2>2, <2>4, <3>1
  <2>5. CASE r.form = "qualifiedQuoted" /\ ~ cut
    BY <1>1, <2>5
  <2>6. QED
    BY <2>3, <2>4, <2>5
<1>5. QED
  BY <1>2, <1>3, <1>4 DEF Links, ReadLinks

\* What the check refuses: with nothing hidden, a place that is misread, a CTE's
\* whose head is not seen, or no table's.
LEMMA RealRefused ==
  ASSUME NEW q, WellFormed(q), ~ q.hidden, NEW tables, ~ ValidateTables(Text(q), tables)
  PROVE  \E p \in Places(q) :
           \/ p[3] \in {"only", "lateral"}
           \/ p[2].form \in {"function", "bothQuoted", "schemaQuoted"}
           \/ Beginning(p[2].name) # p[2].name
           \/ IsCte(q, p[1], p[2]) /\ ~ PlainHead(q, Folded(p[2]))
           \/ p \in Reads(q) /\ ~ Exists(p[2], tables)
<1>1. PICK n \in References(Text(q)) : n \notin {Lower(m) : m \in tables} /\ n \notin CteNames(Text(q))
  BY DEF ValidateTables
<1>2. PICK r : IsRead(Text(q), r) /\ r.form # "word" /\ NameIn(r) = n /\ n # NoName
  BY ReferencesAreRead
<1>3. r \in Seen(q)
  BY <1>2, TextReads
<1>4. PICK p \in Places(q) : p[2] = r \/ p[3] \in Misleading
  BY <1>3, SeenIsPlaced
<1>5. SUFFICES ASSUME p[3] \notin {"only", "lateral"},
                      p[2].form \notin {"function", "bothQuoted", "schemaQuoted"},
                      Beginning(p[2].name) = p[2].name,
                      IsCte(q, p[1], p[2]) => PlainHead(q, Folded(p[2])),
                      p \in Reads(q) => Exists(p[2], tables)
               PROVE  FALSE
  BY <1>4
<1>6. p[2] = r
  BY <1>4, <1>5 DEF Misleading
<1>7. r \in Refs
  BY <1>4, <1>6, PlacesAreRead
<1>8. r.schema = "public" /\ (IsCte(q, p[1], r) \/ p \in Reads(q))
  <2>1. CASE IsCte(q, p[1], r)
    <3>1. r.form \in {"plain", "quoted"}
      BY <2>1 DEF IsCte
    <3>2. QED
      BY <1>7, <2>1, <3>1, QueryAssumption
  <2>2. CASE ~ IsCte(q, p[1], r)
    <3>1. p \in Reads(q)
      BY <1>4, <1>5, <1>6, <2>2 DEF Reads
    <3>2. QED
      BY <1>5, <1>6, <3>1 DEF Exists
  <2>3. QED
    BY <2>1, <2>2
<1>9. Beginning(r.schema) = r.schema
  BY <1>8 DEF Beginning
<1>10. r.form # "qualifiedQuoted" /\ n = Lower(r.name)
  BY <1>2, <1>5, <1>6, <1>9 DEF NameIn
<1>11. Folded(r) = (IF r.form = "quoted" THEN r.name ELSE Lower(r.name))
  BY <1>5, <1>6, <1>10 DEF Folded
<1>12. Lower(Folded(r)) = n
  BY <1>10, <1>11, LowerTwice
<1>13. CASE IsCte(q, p[1], r)
  <2>1. PICK i \in DOMAIN q.ctes : q.ctes[i].name = Folded(r) /\ q.ctes[i].head = "plain"
    BY <1>5, <1>6, <1>13 DEF PlainHead
  <2>2. Folded(r) \in CteNames(Text(q))
    BY <2>1, NamesOfText
  <2>3. Lower(Folded(r)) = Folded(r)
    BY <2>1 DEF WellFormed
  <2>4. QED
    BY <1>1, <1>12, <2>2, <2>3
<1>14. CASE p \in Reads(q)
  <2>1. Folded(r) \in tables
    BY <1>5, <1>6, <1>14 DEF Exists
  <2>2. QED
    BY <1>1, <1>12, <2>1
<1>15. QED
  BY <1>8, <1>13, <1>14

-----------------------------------------------------------------------------
(* The invariant: what each stage has judged when it is over.              *)

Routed ==
  \/ ReplyText = << >> /\ verdict = "error"
  \/ /\ ReplyText \in Seq(RouterPieces)
     /\ selected = Route(ReplyText, schema, Names)
     /\ verdict = IF selected = {} THEN "error" ELSE "ok"

Generated ==
  \/ ReplyText = << >> /\ verdict = "error"
  \/ /\ written \in Lines
     /\ \E a \in Answers(written) : \E n \in 0..Len(a) : ReplyText = SubSeq(a, 1, n)
     /\ verdict = Result(Says(ReplyText))
     /\ sql = ExtractSQL(ReplyText, Tags)

Checked ==
  /\ WellFormed(query)
  /\ verdict = IF ValidateTables(Text(query), ToSet(schema)) THEN "ok" ELSE "error"

TextInv ==
  /\ schema \in Schemas
  /\ provider \in Providers
  /\ stage \in {"none", "route", "generate", "check"}
  /\ stage = "route" => Routed
  /\ stage = "generate" => Generated
  /\ stage = "check" => Checked

\* Nothing is found in an empty text.
LEMMA EmptyTextIsAnError ==
  /\ \A s : Route(<< >>, s, Names) = {}
  /\ Result(Fails) = "error" /\ Result(Says(<< >>)) = "error"
<1>1. \A p : At(<< >>, p) = {}
  BY DEF At
<1>2. ASSUME NEW s PROVE Route(<< >>, s, Names) = {}
  <2>1. ~ Parsed(<< >>, Names)
    BY <1>1 DEF Parsed
  <2>2. QED
    BY <2>1 DEF Route
<1>3. TrimLines(<< >>) = << >>
  BY DEF TrimLines
<1>4. ExtractSQL(<< >>, Tags) = << >>
  BY <1>1, <1>3 DEF ExtractSQL
<1>5. Result(Fails) = "error" /\ Result(Says(<< >>)) = "error"
  BY <1>4 DEF Result, Fails, Says
<1>6. QED
  BY <1>2, <1>5

\* The SQL of a reply is what is found in it, also when that is nothing.
LEMMA SqlIsExtracted ==
  ASSUME NEW t
  PROVE  (IF Result(Says(t)) = "ok" THEN ExtractSQL(t, Tags) ELSE << >>) = ExtractSQL(t, Tags)
  BY DEF Result, Says

\* LLMRouter.Route keeps the invariant, with a text or without.
LEMMA RouteKeepsTextInv ==
  ASSUME TextInv, Routing
  PROVE  TextInv'
<1>1. PICK t \in SeqOf(RouterPieces, MaxPieces) \cup {<< >>} :
        \E r \in {[fate |-> "answered", parts |-> << TextPart(t) >>]} \cup Textless : RouteReply(r)
  BY DEF Routing
<1>2. PICK r \in {[fate |-> "answered", parts |-> << TextPart(t) >>]} \cup Textless : RouteReply(r)
  BY <1>1
<1>3. schema \in Schemas /\ provider \in Providers
  BY DEF TextInv
<1>4. PICK answer : answer = Generate(provider, r)
  OBVIOUS
<1>5. /\ stage' = "route" /\ reply' = r /\ schema' = schema /\ provider' = provider
      /\ selected' = IF answer.ok THEN Route(answer.text, schema, Names) ELSE {}
      /\ verdict' = IF selected' = {} THEN "error" ELSE "ok"
  BY <1>2, <1>4 DEF RouteReply
<1>6. ReplyText' = TextOf(r)
  BY <1>5 DEF ReplyText, TextOf
<1>7. Routed'
  <2>1. CASE r \in Textless
    <3>1. ReplyText' = << >> /\ (answer = Fails \/ answer = Says(<< >>))
      BY <1>3, <1>4, <1>6, <2>1, TextlessSaysNothing
    <3>2. selected' = {}
      BY <1>5, <3>1, EmptyTextIsAnError DEF Fails, Says
    <3>3. QED
      BY <1>5, <3>1, <3>2 DEF Routed
  <2>2. CASE r = [fate |-> "answered", parts |-> << TextPart(t) >>]
    <3>1. t \in Seq(RouterPieces)
      <4>1. ASSUME NEW m \in 0..MaxPieces, t \in [1..m -> RouterPieces]
            PROVE  t \in Seq(RouterPieces)
        <5>1. m \in Nat
          OBVIOUS
        <5>2. QED
          BY <4>1, <5>1
      <4>2. CASE t \in SeqOf(RouterPieces, MaxPieces)
        BY <4>1, <4>2 DEF SeqOf
      <4>3. CASE t = << >>
        BY <4>3
      <4>4. QED
        BY <1>1, <4>2, <4>3
    <3>2. answer = Says(t) /\ ReplyText' = t
      BY <1>3, <1>4, <1>6, <2>2, <3>1, OnePartSaysIt
    <3>3. selected' = Route(t, schema, Names)
      BY <1>5, <3>2 DEF Says
    <3>4. QED
      BY <1>5, <3>1, <3>2, <3>3 DEF Routed
  <2>3. QED
    BY <1>2, <2>1, <2>2
<1>8. QED
  BY <1>3, <1>5, <1>7 DEF TextInv

\* An answer, and what max_tokens leaves of it, is made of the answer's pieces.
LEMMA AnswerIsText ==
  ASSUME NEW lines \in Lines, NEW a \in Answers(lines), NEW n \in 0..Len(a)
  PROVE  a \in Seq(AnswerPieces) /\ SubSeq(a, 1, n) \in Seq(AnswerPieces)
<1>1. a \in Seq(AnswerPieces)
  <2>1. CASE a = lines
    BY <2>1, LinesShape
  <2>2. CASE a # lines
    BY <2>2, AnswerShape DEF Fenced
  <2>3. QED
    BY <2>1, <2>2
<1>2. SubSeq(a, 1, n) \in Seq(AnswerPieces)
  <2>1. n \in Int /\ n <= Len(a) /\ 1 \in Nat /\ 1 <= 1
    BY <1>1
  <2>2. QED
    BY <1>1, <2>1, PiecesOfPart
<1>3. QED
  BY <1>1, <1>2

\* Generator.Generate keeps the invariant, with a text or without.
LEMMA GenerationKeepsTextInv ==
  ASSUME TextInv, Generation
  PROVE  TextInv'
<1>1. schema \in Schemas /\ provider \in Providers
  BY DEF TextInv
<1>2. ASSUME NEW lines, NEW r, GenerateReply(r, lines)
      PROVE  /\ stage' = "generate" /\ reply' = r /\ written' = lines
             /\ schema' = schema /\ provider' = provider
             /\ verdict' = Result(Generate(provider, r))
             /\ sql' = IF Result(Generate(provider, r)) = "ok"
                       THEN ExtractSQL(Generate(provider, r).text, Tags) ELSE << >>
             /\ ReplyText' = TextOf(r)
  BY <1>2 DEF GenerateReply, ReplyText, TextOf
<1>3. stage' = "generate" /\ schema' = schema /\ provider' = provider /\ Generated'
  <2>1. CASE \E r \in Textless : GenerateReply(r, << >>)
    <3>1. PICK r \in Textless : GenerateReply(r, << >>)
      BY <2>1
    <3>2. TextOf(r) = << >> /\ (Generate(provider, r) = Fails \/ Generate(provider, r) = Says(<< >>))
      BY <1>1, TextlessSaysNothing
    <3>3. Result(Generate(provider, r)) = "error"
      BY <3>2, EmptyTextIsAnError
    <3>4. ReplyText' = << >> /\ verdict' = "error"
      BY <1>2, <3>1, <3>2, <3>3
    <3>5. QED
      BY <1>2, <3>1, <3>4 DEF Generated
  <2>2. CASE \E lines \in Lines : \E a \in Answers(lines) : \E n \in 0 .. Len(a) :
               \E r \in Replies(SubSeq(a, 1, n)) : GenerateReply(r, lines)
    <3>1. PICK lines \in Lines : \E a \in Answers(lines) : \E n \in 0..Len(a) :
               \E r \in Replies(SubSeq(a, 1, n)) : GenerateReply(r, lines)
      BY <2>2
    <3>2. PICK a \in Answers(lines) : \E n \in 0..Len(a) :
               \E r \in Replies(SubSeq(a, 1, n)) : GenerateReply(r, lines)
      BY <3>1
    <3>3. PICK n \in 0..Len(a) : \E r \in Replies(SubSeq(a, 1, n)) : GenerateReply(r, lines)
      BY <3>2
    <3>4. PICK r \in Replies(SubSeq(a, 1, n)) : GenerateReply(r, lines)
      BY <3>3
    <3>5. PICK t : t = SubSeq(a, 1, n)
      OBVIOUS
    <3>6. t \in Seq(AnswerPieces) /\ r \in Replies(t)
      BY <3>5, AnswerIsText
    <3>7. Generate(provider, r) = Says(t) /\ TextOf(r) = t
      BY <1>1, <3>6, RepliesSayIt
    <3>8. ReplyText' = t /\ written' = lines /\ verdict' = Result(Says(t))
      BY <1>2, <3>4, <3>7
    <3>9. sql' = ExtractSQL(t, Tags)
      <4>1. Says(t).text = t
        BY DEF Says
      <4>2. sql' = IF Result(Says(t)) = "ok" THEN ExtractSQL(t, Tags) ELSE << >>
        BY <1>2, <3>4, <3>7, <4>1
      <4>3. QED
        BY <4>2, SqlIsExtracted
    <3>10. Generated'
      BY <3>5, <3>8, <3>9 DEF Generated
    <3>11. QED
      BY <1>2, <3>4, <3>10
  <2>3. QED
    BY <2>1, <2>2 DEF Generation
<1>4. QED
  BY <1>1, <1>3 DEF TextInv

\* The lists of a query are lists.
LEMMA SourcesAreLists ==
  ASSUME NEW s \in Sources
  PROVE  /\ s \in Seq({s[i] : i \in DOMAIN s})
         /\ \A i \in DOMAIN s : s[i].ref \in Refs /\ s[i].link \in Links
<1>1. PICK L : L = [link : Links, ref : Refs]
  OBVIOUS
<1>2. s \in Seq(L)
  BY <1>1, QueryAssumption
<1>3. Len(s) \in Nat /\ DOMAIN s = 1..Len(s) /\ \A i \in DOMAIN s : s[i] \in L
  BY <1>2
<1>4. s \in Seq({s[i] : i \in DOMAIN s})
  <2>1. PICK R : R = {s[i] : i \in DOMAIN s}
    OBVIOUS
  <2>2. s \in [1..Len(s) -> R]
    BY <1>2, <1>3, <2>1
  <2>3. QED
    BY <1>3, <2>1, <2>2
<1>5. QED
  BY <1>1, <1>3, <1>4

\* The same of the CTEs, whose names are folded.
LEMMA CtesAreLists ==
  ASSUME NEW c \in Ctes
  PROVE  /\ c \in Seq({c[i] : i \in DOMAIN c})
         /\ \A i \in DOMAIN c : /\ c[i].ref \in Refs
                                /\ c[i].name \in STRING
                                /\ Lower(c[i].name) = c[i].name
<1>1. PICK L : L = [name : STRING, head : Heads, ref : Refs]
  OBVIOUS
<1>2. c \in Seq(L) /\ \A i \in DOMAIN c : Lower(c[i].name) = c[i].name
  BY <1>1, QueryAssumption
<1>3. Len(c) \in Nat /\ DOMAIN c = 1..Len(c) /\ \A i \in DOMAIN c : c[i] \in L
  BY <1>2
<1>4. c \in Seq({c[i] : i \in DOMAIN c})
  <2>1. PICK R : R = {c[i] : i \in DOMAIN c}
    OBVIOUS
  <2>2. c \in [1..Len(c) -> R]
    BY <1>2, <1>3, <2>1
  <2>3. QED
    BY <1>3, <2>1, <2>2
<1>5. QED
  BY <1>1, <1>2, <1>3, <1>4

\* ValidateTables keeps the invariant: the query it judges is well formed.
LEMMA CheckingKeepsTextInv ==
  ASSUME TextInv, Checking
  PROVE  TextInv'
<1>1. PICK c \in Ctes, s \in Sources, h \in BOOLEAN :
        CheckTables([ctes |-> c, hidden |-> h, sources |-> s])
  BY DEF Checking
<1>2. PICK q : q = [ctes |-> c, hidden |-> h, sources |-> s]
  OBVIOUS
<1>3. q.ctes = c /\ q.sources = s /\ q.hidden = h
  BY <1>2
<1>4. WellFormed(q)
  BY <1>3, CtesAreLists, SourcesAreLists DEF WellFormed
<1>5. /\ stage' = "check" /\ query' = q /\ schema' = schema /\ provider' = provider
      /\ verdict' = IF ValidateTables(Text(q), ToSet(schema)) THEN "ok" ELSE "error"
  BY <1>1, <1>2 DEF CheckTables
<1>6. WellFormed(query')
  BY <1>4, <1>5
<1>7. Checked'
  BY <1>5, <1>6 DEF Checked, WellFormed
<1>8. QED
  BY <1>5, <1>7 DEF TextInv

\* Each stage has judged its text by what its functions find in it.
THEOREM TextInvHolds == Spec => []TextInv
<1>1. Init => TextInv
  BY DEF Init, TextInv
<1>2. TextInv /\ [Next]_vars => TextInv'
  <2>1. SUFFICES ASSUME TextInv, [Next]_vars PROVE TextInv'
    OBVIOUS
  <2>2. CASE Routing
    BY <2>1, <2>2, RouteKeepsTextInv
  <2>3. CASE Generation
    BY <2>1, <2>3, GenerationKeepsTextInv
  <2>4. CASE Checking
    BY <2>1, <2>4, CheckingKeepsTextInv
  <2>5. CASE UNCHANGED vars
    BY <2>1, <2>5 DEF TextInv, Routed, Generated, Checked, ReplyText, vars
  <2>6. QED
    BY <2>1, <2>2, <2>3, <2>4, <2>5 DEF Next
<1>3. QED
  BY <1>1, <1>2, PTL DEF Spec

-----------------------------------------------------------------------------
(* The properties.                                                         *)

\* The schema is a list of names.
LEMMA SchemaNames ==
  ASSUME schema \in Schemas
  PROVE  \E S : schema \in Seq(S)
<1>1. PICK T : T = {"cars", "Cars", "trips", "order-items"}
  OBVIOUS
<1>2. PICK c \in T, d \in T, u \in T, o \in T :
        c = "cars" /\ d = "Cars" /\ u = "trips" /\ o = "order-items"
  BY <1>1
<1>3. << >> \in Seq(T) /\ << c >> \in Seq(T) /\ << u >> \in Seq(T) /\ << c, u >> \in Seq(T)
      /\ << d, c >> \in Seq(T) /\ << c, o >> \in Seq(T)
  OBVIOUS
<1>4. schema \in Seq(T)
  BY <1>2, <1>3 DEF Schemas
<1>5. QED
  BY <1>4

\* By the invariant, what has no text is an error.
LEMMA TextInvError ==
  ASSUME TextInv
  PROVE  TextlessIsAnError
<1>1. SUFFICES ASSUME stage \in {"route", "generate"}, ReplyText = << >> PROVE verdict = "error"
  BY DEF TextlessIsAnError
<1>2. CASE stage = "route"
  <2>1. Routed
    BY <1>2 DEF TextInv
  <2>2. CASE selected = Route(ReplyText, schema, Names)
    <3>1. selected = {}
      BY <1>1, <2>2, EmptyTextIsAnError
    <3>2. QED
      BY <2>1, <3>1 DEF Routed
  <2>3. QED
    BY <2>1, <2>2 DEF Routed
<1>3. CASE stage = "generate"
  <2>1. Generated
    BY <1>3 DEF TextInv
  <2>2. QED
    BY <1>1, <2>1, EmptyTextIsAnError DEF Generated
<1>4. QED
  BY <1>1, <1>2, <1>3

\* By the invariant, an array that is found is followed.
LEMMA TextInvSelected ==
  ASSUME TextInv
  PROVE  NamedTablesAreSelected
<1>1. SUFFICES
        ASSUME stage = "route", schema # << >>
        PROVE  /\ verdict = "error" => \A a \in Arrays(ReplyText) :
                    \/ \E i \in 1 .. a[1] - 1 : ReplyText[i] = "["
                    \/ \E i \in a[2] + 1 .. Len(ReplyText) : ReplyText[i] = "]"
               /\ verdict = "ok" => \E a \in Arrays(ReplyText) :
                    LET named == {Lower(ReplyText[i]) : i \in a[1] + 1 .. a[2] - 1}
                        known == {t \in ToSet(schema) : Lower(t) \in named}
                    IN IF known = {} THEN selected = ToSet(schema)
                       ELSE /\ selected \subseteq known
                            /\ \A t \in known : t \in selected \/
                                  \E u \in selected \ {t} : Lower(u) = Lower(t)
  BY DEF NamedTablesAreSelected
<1>2. PICK t : t = ReplyText
  OBVIOUS
<1>3. /\ t = << >> /\ verdict = "error"
      \/ /\ t \in Seq(RouterPieces) /\ selected = Route(t, schema, Names)
         /\ verdict = IF selected = {} THEN "error" ELSE "ok"
  BY <1>1, <1>2 DEF TextInv, Routed
<1>4. PICK S : schema \in Seq(S)
  BY SchemaNames DEF TextInv
<1>5. PICK n \in Nat : n = Len(schema) /\ n > 0 /\ schema[1] \in ToSet(schema)
  <2>1. Len(schema) \in Nat /\ Len(schema) > 0
    BY <1>1, <1>4
  <2>2. schema[1] \in ToSet(schema)
    BY <1>4, <2>1 DEF ToSet
  <2>3. QED
    BY <2>1, <2>2
<1>6. ASSUME verdict = "error", NEW a \in Arrays(t)
      PROVE  \/ \E i \in 1 .. a[1] - 1 : t[i] = "["
             \/ \E i \in a[2] + 1 .. Len(t) : t[i] = "]"
  <2>1. SUFFICES ASSUME \A i \in 1 .. a[1] - 1 : t[i] # "[",
                        \A i \in a[2] + 1 .. Len(t) : t[i] # "]"
                 PROVE  FALSE
    OBVIOUS
  <2>2. t # << >>
    BY <1>6 DEF Arrays
  <2>3. t \in Seq(RouterPieces) /\ Route(t, schema, Names) = {}
    BY <1>3, <1>6, <2>2
  <2>4. Parsed(t, Names)
    BY <1>6, <2>1, <2>3, ArrayIsParsed
  <2>5. Route(t, schema, Names) # {}
    BY <1>1, <1>5, <2>4 DEF Route
  <2>6. QED
    BY <2>3, <2>5
<1>7. ASSUME verdict = "ok"
      PROVE  \E a \in Arrays(t) :
               LET named == {Lower(t[i]) : i \in a[1] + 1 .. a[2] - 1}
                   known == {u \in ToSet(schema) : Lower(u) \in named}
               IN IF known = {} THEN selected = ToSet(schema)
                  ELSE /\ selected \subseteq known
                       /\ \A u \in known : u \in selected \/
                             \E v \in selected \ {u} : Lower(v) = Lower(u)
  <2>1. t \in Seq(RouterPieces) /\ selected = Route(t, schema, Names) /\ selected # {}
    BY <1>3, <1>7
  <2>2. Parsed(t, Names)
    BY <2>1 DEF Route
  <2>3. PICK a \in Arrays(t) : ToSet(ArrayIn(t)) = {t[i] : i \in a[1] + 1 .. a[2] - 1}
    BY <2>1, <2>2, ParsedIsAnArray
  <2>4. PICK names, named, known :
          /\ names = ToSet(ArrayIn(t))
          /\ named = {Lower(t[i]) : i \in a[1] + 1 .. a[2] - 1}
          /\ known = {u \in ToSet(schema) : Lower(u) \in named}
    OBVIOUS
  <2>5. named = {Lower(x) : x \in names}
    BY <2>3, <2>4
  <2>6. known = {u \in ToSet(schema) : Lower(u) \in {Lower(x) : x \in names}}
    BY <2>4, <2>5
  <2>7. /\ FilterKnown(names, schema) \subseteq known
        /\ \A u \in known : u \in FilterKnown(names, schema) \/
                             \E v \in FilterKnown(names, schema) \ {u} : Lower(v) = Lower(u)
    BY <1>4, <2>6, FilterKnownStandsForAll
  <2>8. selected = IF FilterKnown(names, schema) = {} THEN ToSet(schema)
                   ELSE FilterKnown(names, schema)
    BY <1>1, <2>1, <2>2, <2>4 DEF Route
  <2>9. IF known = {} THEN selected = ToSet(schema)
        ELSE /\ selected \subseteq known
             /\ \A u \in known : u \in selected \/
                   \E v \in selected \ {u} : Lower(v) = Lower(u)
    <3>1. known = {} <=> FilterKnown(names, schema) = {}
      BY <2>7
    <3>2. QED
      BY <2>7, <2>8, <3>1
  <2>10. QED
    BY <2>4, <2>9
<1>8. QED
  BY <1>2, <1>6, <1>7

\* By the invariant, the SQL is what the fences hold.
LEMMA TextInvExtracted ==
  ASSUME TextInv
  PROVE  FencedSqlIsExtracted
<1>1. SUFFICES
        ASSUME stage = "generate", At(ReplyText, "fence") # {},
               NEW rest, rest = After(TrimLines(ReplyText), "fence")
        PROVE  IF FirstLineIs(rest, << >>) \/ FirstLineIs(rest, <<"sql">>) THEN Taken(written)
               ELSE IF FirstLineIs(rest, <<"SELECT">>) THEN Taken(After(written, "\n"))
               ELSE IF rest # << >> /\ rest[1] \in {"sql", "sql:"}
                    THEN \E nl \in {<< >>, <<"\n">>} : Taken(<< rest[1] >> \o nl \o written)
               ELSE Taken(written)
  BY DEF FencedSqlIsExtracted, FirstLineIs
<1>2. PICK t : t = ReplyText
  OBVIOUS
<1>3. t # << >>
  BY <1>1, <1>2 DEF At
<1>4. /\ written \in Lines
      /\ \E a \in Answers(written) : \E n \in 0..Len(a) : t = SubSeq(a, 1, n)
      /\ sql = ExtractSQL(t, Tags)
  BY <1>1, <1>2, <1>3 DEF TextInv, Generated
<1>5. PICK a \in Answers(written) : \E n \in 0..Len(a) : t = SubSeq(a, 1, n)
  BY <1>4
<1>6. PICK n \in 0..Len(a) : t = SubSeq(a, 1, n)
  BY <1>5
<1>7. a # written
  <2>1. SUFFICES ASSUME a = written PROVE FALSE
    OBVIOUS
  <2>2. a \in Seq(AnswerPieces) /\ \A i \in 1..Len(a) : a[i] # "fence"
    BY <1>4, <2>1, LinesShape
  <2>3. n \in 0..Len(a) /\ Len(a) \in Nat
    BY <1>6, <2>2
  <2>4. DOMAIN t = 1..n /\ \A i \in 1..n : t[i] = a[i]
    BY <1>6, <2>2, <2>3
  <2>5. \A i \in DOMAIN t : t[i] # "fence"
    BY <2>2, <2>3, <2>4
  <2>6. QED
    BY <1>1, <1>2, <2>5 DEF At
<1>8. PICK f, h \in Nat : f > 0 /\ Fenced(a, written, f, h)
  BY <1>4, <1>5, <1>7, AnswerShape
<1>9. IF FirstLineIs(rest, << >>) \/ FirstLineIs(rest, <<"sql">>) THEN IsTaken(t, written)
      ELSE IF FirstLineIs(rest, <<"SELECT">>) THEN IsTaken(t, After(written, "\n"))
      ELSE IF rest # << >> /\ rest[1] \in {"sql", "sql:"}
           THEN \E nl \in {<< >>, <<"\n">>} : IsTaken(t, << rest[1] >> \o nl \o written)
      ELSE IsTaken(t, written)
  BY <1>1, <1>2, <1>4, <1>6, <1>8, FencedIsTakenOut
<1>10. \A s : IsTaken(t, s) => Taken(s)
  BY <1>2, <1>4 DEF IsTaken, Taken
<1>11. QED
  BY <1>9, <1>10

\* By the invariant, a query that passes names what is known.
LEMMA TextInvUnseen ==
  ASSUME TextInv
  PROVE  InventedTablesPassOnlyUnseen
<1>1. SUFFICES
        ASSUME Judged("check", "ok"), NEW p \in Reads(query), NEW known,
               known = Named(query) \cup {Lower(t) : t \in ToSet(schema)},
               NEW cut, cut <=> Beginning(p[2].schema) # p[2].schema
        PROVE  \/ p[3] \in {"comma", "parenthesis", "comment", "table"}
               \/ p[3] = "only" /\ "only" \in known
               \/ p[2].form = "qualifiedQuoted" /\ ~ cut
               \/ /\ p[2].form \in {"bothQuoted", "schemaQuoted"} \/ cut
                  /\ Lower(Beginning(p[2].schema)) \in known \cup {NoName}
               \/ /\ p[2].form \notin {"bothQuoted", "schemaQuoted"} /\ ~ cut
                  /\ Lower(Beginning(p[2].name)) \in known \cup {NoName}
  BY DEF InventedTablesPassOnlyUnseen, Named
<1>2. PICK q, tables : q = query /\ tables = ToSet(schema)
  OBVIOUS
<1>3. WellFormed(q) /\ ValidateTables(Text(q), tables)
  BY <1>1, <1>2 DEF TextInv, Checked, Judged
<1>4. p \in Places(q) /\ known = Named(q) \cup {Lower(t) : t \in tables}
  BY <1>1, <1>2 DEF Reads
<1>5. QED
  BY <1>1, <1>3, <1>4, InventedPass, ZenonT(30)

\* By the invariant, a query that is refused has a place that is misread.
LEMMA TextInvMisread ==
  ASSUME TextInv
  PROVE  RealTablesAreRefusedOnlyMisread
<1>1. SUFFICES
        ASSUME Judged("check", "error"), \A p \in Reads(query) : Exists(p[2], ToSet(schema)),
               ~ query.hidden
        PROVE  \E p \in Places(query) :
                 \/ p[3] \in {"only", "lateral"}
                 \/ p[2].form \in {"function", "bothQuoted", "schemaQuoted"}
                 \/ Beginning(p[2].name) # p[2].name
                 \/ IsCte(query, p[1], p[2]) /\ ~ PlainHead(query, Folded(p[2]))
  BY DEF RealTablesAreRefusedOnlyMisread
<1>2. PICK q, tables : q = query /\ tables = ToSet(schema)
  OBVIOUS
<1>3. WellFormed(q) /\ ~ ValidateTables(Text(q), tables)
  BY <1>1, <1>2 DEF TextInv, Checked, Judged
<1>4. PICK p \in Places(q) :
        \/ p[3] \in {"only", "lateral"}
        \/ p[2].form \in {"function", "bothQuoted", "schemaQuoted"}
        \/ Beginning(p[2].name) # p[2].name
        \/ IsCte(q, p[1], p[2]) /\ ~ PlainHead(q, Folded(p[2]))
        \/ p \in Reads(q) /\ ~ Exists(p[2], tables)
  BY <1>1, <1>2, <1>3, RealRefused
<1>5. QED
  BY <1>1, <1>2, <1>4

\* A reply without text is an error of the stage that asked for it (Generate,
\* parseTableList, ExtractSQL), whatever the provider and the way it came to be.
THEOREM TextlessIsAnErrorHolds == Spec => []TextlessIsAnError
  BY TextInvHolds, TextInvError, PTL

\* The router (parseTableList, filterKnown) selects what the array in an answer of
\* any length names, and refuses an answer with one only for a stray bracket.
THEOREM NamedTablesAreSelectedHolds == Spec => []NamedTablesAreSelected
  BY TextInvHolds, TextInvSelected, PTL

\* Of a fenced answer, cut off anywhere, ExtractSQL takes the SQL, or a beginning
\* of it; behind a first line of one word it takes the rest, and a tag that it does
\* not know for one stays in front.
THEOREM FencedSqlIsExtractedHolds == Spec => []FencedSqlIsExtracted
  BY TextInvHolds, TextInvExtracted, PTL

\* Over queries with any number of CTEs and sources, of any references and names,
\* an invented table passes ValidateTables only where its two expressions do not
\* look, or read the name of a table or a CTE, or none.
THEOREM InventedTablesPassOnlyUnseenHolds == Spec => []InventedTablesPassOnlyUnseen
  BY TextInvHolds, TextInvUnseen, PTL

\* Over the same queries, ValidateTables refuses real tables only where the two
\* expressions take something else for a table, or cut a name short.
THEOREM RealTablesAreRefusedOnlyMisreadHolds == Spec => []RealTablesAreRefusedOnlyMisread
  BY TextInvHolds, TextInvMisread, PTL

=============================================================================
