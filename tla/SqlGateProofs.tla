--------------------------- MODULE SqlGateProofs ---------------------------
(***************************************************************************)
(* Theorems about SqlGate, for queries of any length: what the text checks *)
(* find and what PostgreSQL reads are related through the part of the      *)
(* query that is left when its ends are trimmed.                           *)
(***************************************************************************)
EXTENDS SqlGate, TextLemmas, FiniteSetTheorems

-----------------------------------------------------------------------------
(* Trimming.                                                               *)

\* What TrimSpace leaves begins and ends with a piece that is no end of line, and
\* only ends of lines are outside it.
LEMMA SpaceTrimmed ==
  ASSUME NEW q \in Seq(Pieces), Solid(q) # {}
  PROVE  \E a \in 1..Len(q), c \in 1..Len(q) :
           /\ a <= c
           /\ TrimSpace(q) = SubSeq(q, a, c)
           /\ q[a] # "\n"
           /\ q[c] # "\n"
           /\ \A i \in 1..Len(q) : i < a \/ i > c => q[i] = "\n"
<1>1. DOMAIN q = 1..Len(q) /\ Len(q) \in Nat
  OBVIOUS
<1>2. /\ Solid(q) \in SUBSET Nat
      /\ Solid(q) \in SUBSET (0..Len(q))
      /\ \A i \in Solid(q) : i \in 1..Len(q) /\ q[i] # "\n"
      /\ \A i \in 1..Len(q) : q[i] # "\n" => i \in Solid(q)
  BY <1>1 DEF Solid
<1>3. Min(Solid(q)) \in Solid(q) /\ \A i \in Solid(q) : Min(Solid(q)) <= i
  BY <1>2, MinIsLeast
<1>4. Max(Solid(q)) \in Solid(q) /\ \A i \in Solid(q) : i <= Max(Solid(q))
  BY <1>1, <1>2, MaxIsLargest
<1>5. TrimSpace(q) = SubSeq(q, Min(Solid(q)), Max(Solid(q)))
  BY DEF TrimSpace
<1>6. PICK a \in 1..Len(q), c \in 1..Len(q) : a = Min(Solid(q)) /\ c = Max(Solid(q))
  BY <1>2, <1>3, <1>4
<1>7. a <= c
  BY <1>3, <1>4, <1>6
<1>8. \A i \in 1..Len(q) : i < a \/ i > c => q[i] = "\n"
  <2>1. SUFFICES ASSUME NEW i \in 1..Len(q), i \in Solid(q)
                 PROVE  a <= i /\ i <= c
    BY <1>2
  <2>2. QED
    BY <1>3, <1>4, <1>6, <2>1
<1>9. QED
  BY <1>2, <1>3, <1>4, <1>5, <1>6, <1>7, <1>8

\* Only ends of lines and semicolons are trimmed: the rest begins and ends with
\* a piece that is no end of line.
LEMMA TrimmedPart ==
  ASSUME NEW q \in Seq(Pieces), Trimmed(q) # << >>
  PROVE  \E a \in 1..Len(q), c \in 1..Len(q) :
           /\ a <= c
           /\ Trimmed(q) = SubSeq(q, a, c)
           /\ q[a] # "\n"
           /\ q[c] # "\n"
           /\ \A i \in 1..Len(q) : i < a => q[i] = "\n"
           /\ \A i \in 1..Len(q) : i > c => q[i] \in {"\n", "semicolon"}
<1>1. Solid(<< >>) = {} /\ TrimSpace(<< >>) = << >>
  BY DEF Solid, TrimSpace
<1>2. TrimSemicolon(<< >>) = << >>
  BY DEF TrimSemicolon
<1>3. Solid(q) # {}
  <2>1. SUFFICES ASSUME Solid(q) = {} PROVE Trimmed(q) = << >>
    OBVIOUS
  <2>2. TrimSpace(q) = << >>
    BY <2>1 DEF TrimSpace
  <2>3. QED
    BY <1>1, <1>2, <2>2 DEF Trimmed
<1>4. PICK a \in 1..Len(q), b \in 1..Len(q) :
        /\ a <= b
        /\ TrimSpace(q) = SubSeq(q, a, b)
        /\ q[a] # "\n"
        /\ q[b] # "\n"
        /\ \A i \in 1..Len(q) : i < a \/ i > b => q[i] = "\n"
  BY <1>3, SpaceTrimmed
<1>5. /\ Len(q) \in Nat /\ a \in Nat /\ b \in Nat /\ 1 <= a /\ a <= b /\ b <= Len(q)
      /\ b \in a..Len(q)
  BY <1>4
<1>6. PICK t : t = TrimSpace(q)
  OBVIOUS
<1>7. /\ t \in Seq(Pieces)
      /\ t # << >>
      /\ Len(t) = b - a + 1
      /\ \A i \in a..b : t[i - a + 1] = q[i]
  <2>1. t = SubSeq(q, a, b)
    BY <1>4, <1>6
  <2>2. QED
    BY <1>5, <2>1, Part
<1>8. PICK e \in a..b :
        /\ TrimSemicolon(t) = SubSeq(q, a, e)
        /\ \A i \in 1..Len(q) : i > e => q[i] \in {"\n", "semicolon"}
  <2>1. CASE Last(t) # "semicolon"
    <3>1. TrimSemicolon(t) = SubSeq(q, a, b)
      BY <1>4, <1>6, <2>1 DEF TrimSemicolon
    <3>2. b \in a..b
      BY <1>5
    <3>3. QED
      BY <1>4, <1>5, <3>1, <3>2
  <2>2. CASE Last(t) = "semicolon"
    <3>1. t[b - a + 1] = q[b] /\ t[Len(t)] = "semicolon"
      BY <1>5, <1>7, <2>2 DEF Last
    <3>2. q[b] = "semicolon"
      BY <1>7, <3>1
    <3>3. TrimSemicolon(t) = SubSeq(t, 1, b - a)
      <4>1. TrimSemicolon(t) = SubSeq(t, 1, Len(t) - 1)
        BY <1>7, <2>2 DEF TrimSemicolon, Front
      <4>2. Len(t) - 1 = b - a
        BY <1>5, <1>7
      <4>3. QED
        BY <4>1, <4>2
    <3>4. a # b
      <4>1. SUFFICES ASSUME a = b PROVE Trimmed(q) = << >>
        OBVIOUS
      <4>2. SubSeq(t, 1, b - a) = << >>
        BY <4>1, SubSeqEmpty
      <4>3. QED
        BY <1>1, <1>6, <3>3, <4>2 DEF Trimmed
    <3>5. a <= b - 1 /\ b - 1 \in a..b /\ b - a \in 1..b - a + 1 /\ 1 \in 1..b - a + 1
      BY <1>5, <3>4
    <3>6. SubSeq(t, 1, b - a) = SubSeq(q, a + 1 - 1, a + (b - a) - 1)
      BY <1>4, <1>5, <1>6, <3>5, PartOfPart
    <3>7. TrimSemicolon(t) = SubSeq(q, a, b - 1)
      BY <1>5, <3>3, <3>6
    <3>8. \A i \in 1..Len(q) : i > b - 1 => q[i] \in {"\n", "semicolon"}
      BY <1>4, <1>5, <3>2
    <3>9. QED
      BY <3>5, <3>7, <3>8
  <2>3. QED
    BY <2>1, <2>2
<1>9. e \in Nat /\ a <= e /\ e <= b /\ e \in a..Len(q) /\ a \in a..e /\ a - a + 1 = 1
  BY <1>5, <1>8
<1>10. PICK u : u = TrimSemicolon(t)
  OBVIOUS
<1>11. /\ u \in Seq(Pieces)
       /\ Len(u) = e - a + 1
       /\ \A i \in a..e : u[i - a + 1] = q[i]
       /\ \A i \in 1..e - a + 1 : u[i] = q[a + i - 1]
  BY <1>5, <1>9, <1>8, <1>10, Part
<1>12. u[1] = q[a]
  BY <1>9, <1>11
<1>13. Solid(u) # {}
  <2>1. 1 \in DOMAIN u
    BY <1>5, <1>9, <1>11
  <2>2. QED
    BY <1>4, <1>12, <2>1 DEF Solid
<1>14. PICK x \in 1..Len(u), y \in 1..Len(u) :
        /\ x <= y
        /\ TrimSpace(u) = SubSeq(u, x, y)
        /\ u[y] # "\n"
        /\ \A i \in 1..Len(u) : i < x \/ i > y => u[i] = "\n"
  BY <1>11, <1>13, SpaceTrimmed
<1>15. Len(u) \in Nat /\ x \in Nat /\ y \in Nat /\ 1 <= y /\ y <= e - a + 1
  BY <1>5, <1>9, <1>11, <1>14
<1>16. x = 1
  BY <1>4, <1>15, <1>11, <1>12, <1>14
<1>17. PICK c \in Nat : c = a + y - 1 /\ a <= c /\ c <= e /\ c \in a..e /\ y = c - a + 1
  BY <1>5, <1>9, <1>15
<1>18. Trimmed(q) = SubSeq(q, a, c)
  <2>1. Trimmed(q) = SubSeq(u, 1, y)
    BY <1>6, <1>10, <1>14, <1>16 DEF Trimmed
  <2>2. SubSeq(u, 1, y) = SubSeq(q, a + 1 - 1, a + y - 1)
    <3>1. 1 \in 1..e - a + 1 /\ y \in 1..e - a + 1
      BY <1>5, <1>9, <1>15
    <3>2. QED
      BY <1>8, <1>10, <1>9, <3>1, PartOfPart
  <2>3. QED
    BY <1>5, <1>17, <2>1, <2>2
<1>19. q[c] # "\n"
  BY <1>11, <1>14, <1>17
<1>20. \A i \in 1..Len(q) : i > c => q[i] \in {"\n", "semicolon"}
  <2>1. SUFFICES ASSUME NEW i \in 1..Len(q), i > c, i <= e
                 PROVE  q[i] = "\n"
    BY <1>5, <1>9, <1>8
  <2>2. i - a + 1 \in 1..Len(u) /\ i - a + 1 > y
    BY <1>5, <1>9, <1>15, <1>11, <1>17, <2>1
  <2>3. QED
    <3>1. i \in a..e /\ u[i - a + 1] = "\n"
      BY <1>5, <1>9, <1>15, <1>14, <1>17, <2>1, <2>2
    <3>2. QED
      BY <1>11, <3>1
<1>21. QED
  <2>1. c \in 1..Len(q) /\ \A i \in 1..Len(q) : i < a => q[i] = "\n"
    BY <1>4, <1>5, <1>9, <1>17
  <2>2. QED
    BY <1>4, <1>17, <1>18, <1>19, <1>20, <2>1

\* The pieces of that part, at their places in the part.
LEMMA TrimmedPieces ==
  ASSUME NEW q \in Seq(Pieces), NEW a \in 1..Len(q), NEW c \in 1..Len(q), a <= c,
         Trimmed(q) = SubSeq(q, a, c)
  PROVE  /\ Trimmed(q) \in Seq(Pieces)
         /\ Trimmed(q) # << >>
         /\ Len(Trimmed(q)) = c - a + 1
         /\ \A i \in a..c : Trimmed(q)[i - a + 1] = q[i]
         /\ \A i \in 1..c - a + 1 : Trimmed(q)[i] = q[a + i - 1]
         /\ Trimmed(q)[1] = q[a]
         /\ Last(Trimmed(q)) = q[c]
<1>1. /\ Len(q) \in Nat /\ a \in Nat /\ c \in Nat
      /\ c \in a..Len(q) /\ a \in a..c /\ c \in a..c /\ a - a + 1 = 1
  OBVIOUS
<1>2. /\ Trimmed(q) \in Seq(Pieces)
      /\ Trimmed(q) # << >>
      /\ Len(Trimmed(q)) = c - a + 1
      /\ \A i \in a..c : Trimmed(q)[i - a + 1] = q[i]
      /\ \A i \in 1..c - a + 1 : Trimmed(q)[i] = q[a + i - 1]
  <2>1. PICK t : t = SubSeq(q, a, c)
    OBVIOUS
  <2>2. /\ t \in Seq(Pieces)
        /\ t # << >>
        /\ Len(t) = c - a + 1
        /\ \A i \in a..c : t[i - a + 1] = q[i]
        /\ \A i \in 1..c - a + 1 : t[i] = q[a + i - 1]
    BY <1>1, <2>1, Part
  <2>3. QED
    BY <2>1, <2>2
<1>3. Trimmed(q)[1] = q[a] /\ Trimmed(q)[c - a + 1] = q[c]
  BY <1>1, <1>2
<1>4. QED
  BY <1>2, <1>3 DEF Last

-----------------------------------------------------------------------------
(* Parts between semicolons.                                               *)

\* Where at most one part starts and the first piece is a word, no word is behind
\* a semicolon.
LEMMA OnePart ==
  ASSUME NEW t \in Seq(Pieces), t # << >>, Cardinality(Starts(t)) <= 1,
         t[1] \in {"SELECT", "WITH"},
         NEW j \in 1..Len(t), t[j] = "semicolon",
         NEW n \in 1..Len(t), n > j, t[n] # "\n"
  PROVE  t[n] = "semicolon"
<1>1. SUFFICES ASSUME t[n] # "semicolon" PROVE FALSE
  OBVIOUS
<1>2. Len(t) \in Nat /\ DOMAIN t = 1..Len(t) /\ j \in Nat /\ n \in Nat /\ 1 <= j
  OBVIOUS
<1>3. PICK W : W = {i \in 1..Len(t) : i > j /\ t[i] # "\n" /\ t[i] # "semicolon"}
  OBVIOUS
<1>4. W \in SUBSET Nat /\ W # {}
  BY <1>1, <1>2, <1>3
<1>5. PICK k \in W : \A i \in W : k <= i
  BY <1>4, LeastOfNat
<1>6. k \in 1..Len(t) /\ k > j /\ t[k] # "\n" /\ t[k] # "semicolon"
  BY <1>3, <1>5
<1>7. k \in Starts(t)
  <2>1. k \in Solid(t)
    BY <1>2, <1>6 DEF Solid
  <2>2. ASSUME NEW i \in Solid(t), i < k, t[i] # "semicolon"
        PROVE  \E l \in i + 1 .. k - 1 : t[l] = "semicolon"
    <3>1. i \in 1..Len(t) /\ t[i] # "\n" /\ i \in Nat /\ k \in Nat
      BY <1>2, <1>6 DEF Solid
    <3>2. i \notin W
      BY <1>5, <2>2, <3>1
    <3>3. i <= j
      BY <1>2, <1>3, <2>2, <3>1, <3>2
    <3>4. i # j
      BY <2>2
    <3>5. j \in i + 1 .. k - 1
      BY <1>2, <1>6, <3>1, <3>3, <3>4
    <3>6. QED
      BY <3>5
  <2>3. QED
    BY <1>6, <2>1, <2>2 DEF Starts
<1>8. 1 \in Starts(t)
  <2>1. 1 \in Solid(t) /\ t[1] # "semicolon"
    BY <1>2 DEF Solid
  <2>2. \A i \in Solid(t) : ~ (i < 1)
    BY <1>2 DEF Solid
  <2>3. QED
    BY <2>1, <2>2 DEF Starts
<1>9. IsFiniteSet(Starts(t))
  <2>1. Starts(t) \in SUBSET (1..Len(t)) /\ IsFiniteSet(1..Len(t))
    BY <1>2, FS_Interval DEF Starts, Solid
  <2>2. QED
    BY <2>1, FS_Subset
<1>10. 1 # k
  BY <1>2, <1>6
<1>11. PICK F : F = {1}
  OBVIOUS
<1>12. PICK P : P = F \cup {k}
  OBVIOUS
<1>13. Cardinality(P) = 2
  <2>1. IsFiniteSet(F) /\ Cardinality(F) = 1 /\ k \notin F
    BY <1>11, <1>10, FS_Singleton
  <2>2. Cardinality(P) = Cardinality(F) + 1
    BY <1>12, <2>1, FS_AddElement
  <2>3. QED
    BY <2>1, <2>2
<1>14. Cardinality(P) <= Cardinality(Starts(t)) /\ Cardinality(Starts(t)) \in Nat
  <2>1. P \in SUBSET Starts(t)
    BY <1>7, <1>8, <1>11, <1>12
  <2>2. QED
    BY <1>9, <2>1, FS_Subset, FS_CardinalityType
<1>15. QED
  BY <1>13, <1>14

-----------------------------------------------------------------------------
(* The mode of each piece, by its recursion.                               *)

\* What PostgreSQL is in behind a piece, by what it was in before it.
ModeAfter(mode, p) ==
  CASE mode = "code" /\ p = "'"     -> "literal"
    [] mode = "code" /\ p = "--"    -> "comment"
    [] mode = "literal" /\ p = "'"  -> "code"
    [] mode = "comment" /\ p = "\n" -> "code"
    [] OTHER -> mode

ModesTo(q, n, mode) ==
  mode = [i \in 0..n |-> IF i = 0 THEN "code" ELSE ModeAfter(mode[i-1], q[i])]

\* The recursion has a solution of every length: one of n pieces, and one more.
LEMMA ModesExist ==
  ASSUME NEW q, NEW n \in Nat
  PROVE  \E mode : ModesTo(q, n, mode)
<1>1. PICK W : W = {k \in Nat : ~ \E mode : ModesTo(q, k, mode)}
  OBVIOUS
<1>2. SUFFICES ASSUME W # {} PROVE FALSE
  BY <1>1
<1>3. PICK k \in W : \A i \in W : k <= i
  BY <1>1, <1>2, LeastOfNat
<1>4. k \in Nat /\ ~ \E mode : ModesTo(q, k, mode)
  BY <1>1, <1>3
<1>5. ASSUME k = 0 PROVE FALSE
  <2>1. PICK m : m = [i \in 0..0 |-> "code"]
    OBVIOUS
  <2>2. ModesTo(q, 0, m)
    BY <2>1 DEF ModesTo
  <2>3. QED
    BY <1>4, <1>5, <2>2
<1>6. k # 0
  BY <1>5
<1>7. k - 1 \in Nat /\ k - 1 \notin W
  BY <1>3, <1>4, <1>6
<1>8. PICK m : ModesTo(q, k - 1, m)
  BY <1>1, <1>7
<1>9. PICK f : f = [i \in 0..k |-> IF i = k THEN ModeAfter(m[k-1], q[k]) ELSE m[i]]
  OBVIOUS
<1>10. ModesTo(q, k, f)
  <2>1. \A i \in 0..k - 1 : m[i] = IF i = 0 THEN "code" ELSE ModeAfter(m[i-1], q[i])
    BY <1>4, <1>8 DEF ModesTo
  <2>2. \A i \in 0..k : f[i] = IF i = 0 THEN "code" ELSE ModeAfter(f[i-1], q[i])
    <3>1. TAKE i \in 0..k
    <3>2. CASE i = k
      BY <1>4, <1>6, <1>9, <3>2
    <3>3. CASE i # k /\ i # 0
      <4>1. i \in 0..k - 1 /\ i - 1 \in 0..k /\ i - 1 # k
        BY <1>4, <3>3
      <4>2. f[i] = m[i] /\ f[i-1] = m[i-1]
        BY <1>9, <3>3, <4>1
      <4>3. QED
        BY <2>1, <3>3, <4>1, <4>2
    <3>4. CASE i # k /\ i = 0
      <4>1. i \in 0..k - 1
        BY <1>4, <3>4
      <4>2. QED
        BY <1>9, <2>1, <3>4, <4>1
    <3>5. QED
      BY <3>2, <3>3, <3>4
  <2>3. QED
    BY <1>9, <2>2 DEF ModesTo
<1>11. QED
  BY <1>4, <1>10

\* Mode is that solution.
LEMMA ModeIsDefined ==
  ASSUME NEW q \in Seq(Pieces)
  PROVE  /\ Mode(q)[0] = "code"
         /\ \A i \in 1..Len(q) : Mode(q)[i] = ModeAfter(Mode(q)[i-1], q[i])
<1>1. Len(q) \in Nat
  OBVIOUS
<1>2. PICK f : ModesTo(q, Len(q), f)
  BY <1>1, ModesExist
<1>3. Mode(q) = CHOOSE mode : ModesTo(q, Len(q), mode)
  BY DEF Mode, ModesTo, ModeAfter
<1>4. ModesTo(q, Len(q), Mode(q))
  BY <1>2, <1>3
<1>5. \A i \in 0..Len(q) :
        Mode(q)[i] = IF i = 0 THEN "code" ELSE ModeAfter(Mode(q)[i-1], q[i])
  BY <1>1, <1>4 DEF ModesTo
<1>6. QED
  BY <1>1, <1>5

\* Queries that begin alike are read alike.
LEMMA ModesAgree ==
  ASSUME NEW q \in Seq(Pieces), NEW t \in Seq(Pieces), NEW n \in Nat,
         n <= Len(q), n <= Len(t), \A i \in 1..n : q[i] = t[i]
  PROVE  \A i \in 0..n : Mode(q)[i] = Mode(t)[i]
<1>1. PICK W : W = {i \in 0..n : Mode(q)[i] # Mode(t)[i]}
  OBVIOUS
<1>2. SUFFICES ASSUME W # {} PROVE FALSE
  BY <1>1
<1>3. W \in SUBSET Nat
  BY <1>1
<1>4. PICK k \in W : \A i \in W : k <= i
  BY <1>2, <1>3, LeastOfNat
<1>5. k \in 0..n /\ Mode(q)[k] # Mode(t)[k]
  BY <1>1, <1>4
<1>6. k # 0
  BY <1>5, ModeIsDefined
<1>7. k - 1 \in 0..n /\ k - 1 \notin W /\ k \in 1..n /\ k \in 1..Len(q) /\ k \in 1..Len(t)
  BY <1>4, <1>5, <1>6
<1>8. Mode(q)[k-1] = Mode(t)[k-1] /\ q[k] = t[k]
  BY <1>1, <1>7
<1>9. QED
  BY <1>5, <1>7, <1>8, ModeIsDefined

\* Ends of lines leave the code the code.
LEMMA BlanksAreCode ==
  ASSUME NEW q \in Seq(Pieces), NEW n \in Nat, n <= Len(q),
         \A i \in 1..n : q[i] = "\n"
  PROVE  Mode(q)[n] = "code"
<1>1. PICK W : W = {i \in 0..n : Mode(q)[i] # "code"}
  OBVIOUS
<1>2. SUFFICES ASSUME W # {} PROVE FALSE
  BY <1>1
<1>3. W \in SUBSET Nat
  BY <1>1
<1>4. PICK k \in W : \A i \in W : k <= i
  BY <1>2, <1>3, LeastOfNat
<1>5. k \in 0..n /\ Mode(q)[k] # "code"
  BY <1>1, <1>4
<1>6. k # 0
  BY <1>5, ModeIsDefined
<1>7. k - 1 \in 0..n /\ k - 1 \notin W /\ k \in 1..n /\ k \in 1..Len(q)
  BY <1>4, <1>5, <1>6
<1>8. Mode(q)[k-1] = "code" /\ q[k] = "\n"
  BY <1>1, <1>7
<1>9. Mode(q)[k] = ModeAfter("code", "\n")
  BY <1>7, <1>8, ModeIsDefined
<1>10. QED
  BY <1>5, <1>9 DEF ModeAfter

-----------------------------------------------------------------------------
(* What PostgreSQL reads of a query that passes.                           *)

\* What it reads at a place is the piece there, or nothing.
LEMMA CodeIsThePiece ==
  ASSUME NEW q \in Seq(Pieces)
  PROVE  /\ Code(q) \in Seq(Pieces)
         /\ Len(Code(q)) = Len(q)
         /\ DOMAIN Code(q) = 1..Len(q)
         /\ \A i \in 1..Len(q) :
              Code(q)[i] = IF Mode(q)[i-1] = "code" /\ q[i] # "--" THEN q[i] ELSE "\n"
         /\ \A i \in 1..Len(q) : Code(q)[i] # "\n" => Code(q)[i] = q[i]
<1>1. DOMAIN q = 1..Len(q) /\ Len(q) \in Nat /\ \A i \in 1..Len(q) : q[i] \in Pieces
  OBVIOUS
<1>2. "\n" \in Pieces
  BY DEF Pieces
<1>3. /\ DOMAIN Code(q) = 1..Len(q)
      /\ \A i \in 1..Len(q) :
           Code(q)[i] = IF Mode(q)[i-1] = "code" /\ q[i] # "--" THEN q[i] ELSE "\n"
  BY <1>1 DEF Code
<1>4. Code(q) \in [1..Len(q) -> Pieces]
  BY <1>1, <1>2 DEF Code
<1>5. Code(q) \in Seq(Pieces) /\ Len(Code(q)) = Len(q)
  BY <1>1, <1>3, <1>4, SeqDef
<1>6. QED
  BY <1>3, <1>5

\* A query that passes begins, behind ends of lines, with SELECT or WITH, and no
\* other word is behind a semicolon of it.
LEMMA CheckedShape ==
  ASSUME NEW q \in Seq(Pieces), Check(q)
  PROVE  \E a \in 1..Len(q) :
           /\ q[a] \in {"SELECT", "WITH"}
           /\ \A i \in 1..Len(q) : i < a => q[i] = "\n"
           /\ \A j, n \in 1..Len(q) :
                a < j /\ j < n /\ q[j] = "semicolon" => q[n] \in {"\n", "semicolon"}
<1>1. PICK a \in 1..Len(q), c \in 1..Len(q) :
        /\ a <= c
        /\ Trimmed(q) = SubSeq(q, a, c)
        /\ \A i \in 1..Len(q) : i < a => q[i] = "\n"
        /\ \A i \in 1..Len(q) : i > c => q[i] \in {"\n", "semicolon"}
  BY TrimmedPart DEF Check
<1>2. Len(q) \in Nat /\ a \in Nat /\ c \in Nat /\ 1 <= a /\ c <= Len(q)
  OBVIOUS
<1>3. PICK t : t = Trimmed(q)
  OBVIOUS
<1>4. /\ t \in Seq(Pieces)
      /\ t # << >>
      /\ Len(t) = c - a + 1
      /\ \A i \in a..c : t[i - a + 1] = q[i]
      /\ t[1] = q[a]
  <2>1. t = SubSeq(q, a, c)
    BY <1>1, <1>3
  <2>2. c \in a..Len(q) /\ a \in a..c /\ a - a + 1 = 1
    BY <1>1
  <2>3. /\ t \in Seq(Pieces)
        /\ t # << >>
        /\ Len(t) = c - a + 1
        /\ \A i \in a..c : t[i - a + 1] = q[i]
    BY <2>1, <2>2, Part
  <2>4. t[1] = q[a]
    BY <2>2, <2>3
  <2>5. QED
    BY <2>3, <2>4
<1>5. t[1] \in {"SELECT", "WITH"} /\ Cardinality(Starts(t)) <= 1
  BY <1>3, <1>4 DEF Check
<1>6. ASSUME NEW j \in 1..Len(q), NEW n \in 1..Len(q), a < j, j < n, q[j] = "semicolon"
      PROVE  q[n] \in {"\n", "semicolon"}
  <2>1. CASE n > c
    BY <1>1, <2>1
  <2>2. CASE n <= c
    <3>1. j \in a..c /\ n \in a..c
      BY <1>2, <1>6, <2>2
    <3>2. /\ j - a + 1 \in 1..Len(t)
          /\ n - a + 1 \in 1..Len(t)
          /\ n - a + 1 > j - a + 1
      BY <1>2, <1>4, <1>6, <3>1
    <3>3. t[j - a + 1] = "semicolon" /\ t[n - a + 1] = q[n]
      BY <1>4, <1>6, <3>1
    <3>4. t[n - a + 1] # "\n" => t[n - a + 1] = "semicolon"
      BY <1>4, <1>5, <3>2, <3>3, OnePart
    <3>5. QED
      BY <3>3, <3>4
  <2>3. QED
    BY <1>2, <2>1, <2>2
<1>7. QED
  BY <1>1, <1>4, <1>5, <1>6

\* It is one statement as PostgreSQL reads it: the word it begins with is code,
\* and a word of the code behind a semicolon of the code would be a word behind a
\* semicolon of the text.
LEMMA CheckedIsOneRead ==
  ASSUME NEW q \in Seq(Pieces), Check(q)
  PROVE  \E i \in DOMAIN q : Starts(Code(q)) = {i} /\ q[i] \in {"SELECT", "WITH"}
<1>1. PICK a \in 1..Len(q) :
        /\ q[a] \in {"SELECT", "WITH"}
        /\ \A i \in 1..Len(q) : i < a => q[i] = "\n"
        /\ \A j, n \in 1..Len(q) :
             a < j /\ j < n /\ q[j] = "semicolon" => q[n] \in {"\n", "semicolon"}
  BY CheckedShape
<1>2. DOMAIN q = 1..Len(q) /\ Len(q) \in Nat /\ a \in Nat
  OBVIOUS
<1>3. PICK d : d = Code(q)
  OBVIOUS
<1>4. /\ DOMAIN d = 1..Len(q)
      /\ \A i \in 1..Len(q) : d[i] = IF Mode(q)[i-1] = "code" /\ q[i] # "--" THEN q[i] ELSE "\n"
      /\ \A i \in 1..Len(q) : d[i] # "\n" => d[i] = q[i]
  BY <1>3, CodeIsThePiece
<1>5. Mode(q)[a - 1] = "code"
  <2>1. a - 1 \in Nat /\ a - 1 <= Len(q) /\ \A i \in 1..a - 1 : i \in 1..Len(q) /\ i < a
    BY <1>2
  <2>2. \A i \in 1..a - 1 : q[i] = "\n"
    BY <1>1, <2>1
  <2>3. QED
    BY <2>1, <2>2, BlanksAreCode
<1>6. d[a] = q[a]
  BY <1>1, <1>4, <1>5
<1>7. \A i \in Solid(d) : i \in 1..Len(q) /\ d[i] # "\n" /\ d[i] = q[i]
  BY <1>4 DEF Solid
<1>8. \A i \in Solid(d) : a <= i
  <2>1. TAKE i \in Solid(d)
  <2>2. i \in 1..Len(q) /\ q[i] # "\n"
    BY <1>7
  <2>3. QED
    BY <1>1, <1>2, <2>2
<1>9. a \in Solid(d) /\ d[a] # "semicolon"
  BY <1>1, <1>4, <1>6 DEF Solid
<1>10. a \in Starts(d)
  <2>1. \A i \in Solid(d) : ~ (i < a)
    BY <1>2, <1>7, <1>8
  <2>2. QED
    BY <1>9, <2>1 DEF Starts
<1>11. ASSUME NEW k \in Starts(d) PROVE k = a
  <2>1. SUFFICES ASSUME k # a PROVE FALSE
    OBVIOUS
  <2>2. k \in Solid(d) /\ d[k] # "semicolon"
    BY DEF Starts
  <2>3. k \in 1..Len(q) /\ q[k] # "\n" /\ q[k] # "semicolon" /\ a < k
    BY <1>2, <1>7, <1>8, <2>1, <2>2
  <2>4. PICK j \in a + 1 .. k - 1 : d[j] = "semicolon"
    BY <1>9, <2>3 DEF Starts
  <2>5. j \in 1..Len(q) /\ a < j /\ j < k
    BY <1>2, <2>3
  <2>6. q[j] = "semicolon"
    BY <1>4, <2>4, <2>5
  <2>7. QED
    BY <1>1, <2>3, <2>5, <2>6
<1>12. Starts(d) = {a}
  BY <1>10, <1>11
<1>13. QED
  BY <1>1, <1>2, <1>3, <1>12

\* A LIMIT PostgreSQL reads is one the expression finds in the trimmed text.
LEMMA LimitIsFound ==
  ASSUME NEW q \in Seq(Pieces), Check(q), Limited(q)
  PROVE  WithLimit(Trimmed(q)) = Trimmed(q)
<1>1. PICK a \in 1..Len(q), c \in 1..Len(q) :
        /\ a <= c
        /\ Trimmed(q) = SubSeq(q, a, c)
        /\ \A i \in 1..Len(q) : i < a => q[i] = "\n"
        /\ \A i \in 1..Len(q) : i > c => q[i] \in {"\n", "semicolon"}
  BY TrimmedPart DEF Check
<1>2. PICK i \in 1..Len(q) : q[i] = "LIMIT"
  <2>1. PICK i \in DOMAIN q : Code(q)[i] = "LIMIT"
    BY DEF Limited
  <2>2. i \in 1..Len(q)
    OBVIOUS
  <2>3. QED
    BY <2>1, <2>2, CodeIsThePiece
<1>3. Len(q) \in Nat /\ a \in Nat /\ c \in Nat /\ i \in Nat
  OBVIOUS
<1>4. i \in a..c
  BY <1>1, <1>2, <1>3
<1>5. PICK t : t = Trimmed(q)
  OBVIOUS
<1>6. t \in Seq(Pieces) /\ Len(t) = c - a + 1 /\ t[i - a + 1] = "LIMIT"
  BY <1>1, <1>2, <1>4, <1>5, TrimmedPieces
<1>7. i - a + 1 \in DOMAIN t
  BY <1>3, <1>4, <1>6
<1>8. QED
  BY <1>5, <1>6, <1>7 DEF WithLimit

\* A LIMIT appended to a trimmed text without one is the statement's own, unless
\* the text ends in a literal, a comment, a parenthesis or a semicolon.
LEMMA AppendedLimitHolds ==
  ASSUME NEW q \in Seq(Pieces), Check(q),
         \A i \in DOMAIN Trimmed(q) : Trimmed(q)[i] # "LIMIT",
         Mode(Trimmed(q))[Len(Trimmed(q))] = "code",
         Outside(Code(Trimmed(q)), Len(Trimmed(q))),
         Last(Trimmed(q)) # "semicolon"
  PROVE  Limited(WithLimit(Trimmed(q)))
<1>1. PICK a \in 1..Len(q), c \in 1..Len(q) :
        a <= c /\ Trimmed(q) = SubSeq(q, a, c) /\ q[c] # "\n"
  BY TrimmedPart DEF Check
<1>2. PICK t : t = Trimmed(q)
  OBVIOUS
<1>3. t \in Seq(Pieces) /\ t # << >> /\ Last(t) # "\n"
  BY <1>1, <1>2, TrimmedPieces
<1>4. PICK n \in Nat : n = Len(t) /\ n > 0 /\ n \in 1..Len(t) /\ DOMAIN t = 1..n
  BY <1>3
<1>5. PICK u : u = Append(t, "LIMIT")
  OBVIOUS
<1>6. /\ u \in Seq(Pieces)
      /\ Len(u) = n + 1
      /\ DOMAIN u = 1..n + 1
      /\ u[n + 1] = "LIMIT"
      /\ \A i \in 1..n : u[i] = t[i]
  BY <1>3, <1>4, <1>5 DEF Pieces, Words
<1>7. WithLimit(t) = u
  BY <1>2, <1>5 DEF WithLimit
<1>8. \A i \in 0..n : Mode(u)[i] = Mode(t)[i]
  <2>1. u \in Seq(Pieces) /\ t \in Seq(Pieces) /\ n \in Nat
    BY <1>3, <1>4, <1>6
  <2>2. n <= Len(u) /\ n <= Len(t)
    BY <1>4, <1>6
  <2>3. \A i \in 1..n : u[i] = t[i]
    BY <1>6
  <2>4. QED
    BY <2>1, <2>2, <2>3, ModesAgree
<1>9. Code(u)[n + 1] = "LIMIT"
  <2>1. Mode(u)[n + 1 - 1] = "code"
    BY <1>2, <1>4, <1>8
  <2>2. n + 1 \in 1..Len(u)
    BY <1>6
  <2>3. QED
    BY <1>6, <2>1, <2>2, CodeIsThePiece
<1>10. \A i \in 1..n : Code(u)[i] = Code(t)[i]
  <2>1. TAKE i \in 1..n
  <2>2. i - 1 \in 0..n /\ i \in 1..Len(t) /\ i \in 1..Len(u)
    BY <1>4, <1>6
  <2>3. Mode(u)[i-1] = Mode(t)[i-1] /\ u[i] = t[i]
    BY <1>6, <1>8, <2>2
  <2>4. QED
    BY <1>3, <1>6, <2>2, <2>3, CodeIsThePiece
<1>11. Outside(Code(u), n + 1)
  <2>1. {j \in 1..n + 1 : Code(u)[j] = "("} = {j \in 1..n : Code(t)[j] = "("}
    BY <1>9, <1>10
  <2>2. {j \in 1..n + 1 : Code(u)[j] = ")"} = {j \in 1..n : Code(t)[j] = ")"}
    BY <1>9, <1>10
  <2>3. Outside(Code(t), n)
    BY <1>2, <1>4
  <2>4. QED
    BY <2>1, <2>2, <2>3 DEF Outside
<1>12. \A j \in 1..n : Code(t)[j] # "semicolon"
  <2>1. SUFFICES ASSUME NEW j \in 1..n, Code(t)[j] = "semicolon" PROVE FALSE
    OBVIOUS
  <2>2. t[j] = "semicolon" /\ j \in 1..Len(t)
    BY <1>3, <1>4, <2>1, CodeIsThePiece
  <2>3. t[n] # "\n" /\ t[n] # "semicolon"
    BY <1>2, <1>3, <1>4 DEF Last
  <2>4. n > j
    BY <1>4, <2>2, <2>3
  <2>5. t[1] \in {"SELECT", "WITH"} /\ Cardinality(Starts(t)) <= 1
    BY <1>2, <1>3 DEF Check
  <2>6. QED
    BY <1>3, <1>4, <2>2, <2>3, <2>4, <2>5, OnePart
<1>13. \A j \in 1..n + 1 : Code(u)[j] # "semicolon"
  BY <1>9, <1>10, <1>12
<1>14. Limited(u)
  <2>1. n + 1 \in DOMAIN u
    BY <1>6
  <2>2. QED
    BY <1>9, <1>11, <1>13, <2>1 DEF Limited
<1>15. QED
  BY <1>2, <1>7, <1>14

-----------------------------------------------------------------------------
(* The specification.                                                      *)

\* A verdict stands for the query it was given on, and what is sent is made of it.
GateInv ==
  /\ query \in Seq(Pieces)
  /\ verdict = "passed" => Check(query) /\ sent = WithLimit(Trimmed(query))

\* A verdict is given once, on a query that does not change any more.
THEOREM GateInvHolds == Spec => []GateInv
<1>1. Init => GateInv
  BY DEF Init, GateInv
<1>2. GateInv /\ [Next]_vars => GateInv'
  <2>1. SUFFICES ASSUME GateInv, [Next]_vars PROVE GateInv'
    OBVIOUS
  <2>2. ASSUME NEW p \in Pieces, Write(p) PROVE GateInv'
    BY <2>1, <2>2 DEF GateInv, Write
  <2>3. ASSUME Validate PROVE GateInv'
    BY <2>1, <2>3 DEF GateInv, Validate
  <2>4. ASSUME UNCHANGED vars PROVE GateInv'
    BY <2>1, <2>4 DEF GateInv, vars
  <2>5. QED
    BY <2>1, <2>2, <2>3, <2>4 DEF Next
<1>3. QED
  BY <1>1, <1>2, PTL DEF Spec

\* A query that passes is, as PostgreSQL reads it, one statement that begins with
\* SELECT or WITH, whatever its comments and literals hide: guard.go's split
\* at semicolons and its first word.
THEOREM PassedIsOneReadHolds == Spec => []PassedIsOneRead
<1>1. GateInv => PassedIsOneRead
  BY CheckedIsOneRead DEF GateInv, PassedIsOneRead
<1>2. QED
  BY <1>1, GateInvHolds, PTL

\* A query with a LIMIT of its own is sent as it was, trimmed.
THEOREM OwnLimitIsKeptHolds == Spec => []OwnLimitIsKept
<1>1. GateInv => OwnLimitIsKept
  BY LimitIsFound DEF GateInv, OwnLimitIsKept
<1>2. QED
  BY <1>1, GateInvHolds, PTL

\* What limitRe and the appending get wrong is the four cases, and no fifth.
THEOREM LimitIsLostOnlyAtTheEdgesHolds == Spec => []LimitIsLostOnlyAtTheEdges
<1>1. GateInv => LimitIsLostOnlyAtTheEdges
  BY AppendedLimitHolds DEF GateInv, LimitIsLostOnlyAtTheEdges
<1>2. QED
  BY <1>1, GateInvHolds, PTL

=============================================================================
