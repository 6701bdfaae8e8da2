------------------------------ MODULE SqlGate ------------------------------
(***************************************************************************)
(* internal/safety/guard.go and Validate of internal/connector/postgres:   *)
(* the text checks a generated query passes before it is executed, and the *)
(* LIMIT they append, against what PostgreSQL reads in the same text.      *)
(*                                                                         *)
(* A query is a sequence of pieces with white space between them; the one  *)
(* piece of white space that matters, the end of a line, is written down.  *)
(***************************************************************************)
EXTENDS Naturals, Sequences, FiniteSets, FiniteSetsExt, SequencesExt

CONSTANTS MaxPieces  \* bound: the length of a query

VARIABLES query,    \* the model's SQL
          verdict,  \* what Validate returned: nil error or an error
          sent      \* the text Validate returned

vars == <<query, verdict, sent>>

\* The words the checks look for, another word, and what hides words: a comment
\* runs to the end of its line, a literal (or a quoted name) to the next quote.
Words  == {"SELECT", "WITH", "DELETE", "LIMIT"}
Pieces == Words \cup {"semicolon", "--", "\n", "'", "(", ")"}

Init ==
  /\ query   = << >>
  /\ verdict = "none"
  /\ sent    = << >>

-----------------------------------------------------------------------------
(* The text functions of the checks.                                       *)

Solid(q) == {i \in DOMAIN q : q[i] # "\n"}

\* strings.TrimSpace, and TrimSuffix of one semicolon.
TrimSpace(q) == IF Solid(q) = {} THEN << >> ELSE SubSeq(q, Min(Solid(q)), Max(Solid(q)))

TrimSemicolon(q) == IF q # << >> /\ Last(q) = "semicolon" THEN Front(q) ELSE q

Trimmed(q) == TrimSpace(TrimSemicolon(TrimSpace(q)))

\* Where the parts between semicolons start that are not empty: splitStatements.
Starts(q) ==
  {i \in Solid(q) : /\ q[i] # "semicolon"
                    /\ \A j \in Solid(q) : j < i /\ q[j] # "semicolon" =>
                         \E k \in j + 1 .. i - 1 : q[k] = "semicolon"}

\* Mutant: the parts are not counted.
CheckKeywordOnly(q) == Trimmed(q) # << >> /\ Head(Trimmed(q)) \in {"SELECT", "WITH"}

\* Guard.Check: one statement, and its first word.
Check(q) ==
  /\ Trimmed(q) # << >>
  /\ Cardinality(Starts(Trimmed(q))) <= 1
  /\ Head(Trimmed(q)) \in {"SELECT", "WITH"}

\* Mutant: a LIMIT counts at the end of the query only.
WithLimitAtEnd(q) == IF q # << >> /\ Last(q) = "LIMIT" THEN q ELSE Append(q, "LIMIT")

\* Mutant: WITH is left to itself.
WithLimitOnSelect(q) ==
  IF (\E i \in DOMAIN q : q[i] = "LIMIT") \/ Head(q) # "SELECT" THEN q
  ELSE Append(q, "LIMIT")

\* limitRe finds the word anywhere; a query without it gets one at its end (and
\* the row cap, part of the piece).
WithLimit(q) ==
  IF \E i \in DOMAIN q : q[i] = "LIMIT" THEN q ELSE Append(q, "LIMIT")

-----------------------------------------------------------------------------
(* Connector.Validate, on queries that grow piece by piece.                *)

Write(p) ==
  /\ verdict = "none"
  /\ Len(query) < MaxPieces
  /\ query' = Append(query, p)
  /\ UNCHANGED <<verdict, sent>>

Validate ==
  /\ verdict = "none"
  /\ \/ /\ Check(query)
        /\ verdict' = "passed"
        /\ sent' = WithLimit(Trimmed(query))
     \/ /\ ~ Check(query)
        /\ verdict' = "refused"
        /\ UNCHANGED sent
  /\ UNCHANGED query

Next == (\E p \in Pieces : Write(p)) \/ Validate

Spec == Init /\ [][Next]_vars

-----------------------------------------------------------------------------
(* What PostgreSQL reads.                                                  *)

\* After each piece: in the code, in a literal, or in a comment.
Mode(q) ==
  LET mode[i \in 0..Len(q)] ==
        IF i = 0 THEN "code"
        ELSE CASE mode[i-1] = "code" /\ q[i] = "'"     -> "literal"
               [] mode[i-1] = "code" /\ q[i] = "--"    -> "comment"
               [] mode[i-1] = "literal" /\ q[i] = "'"  -> "code"
               [] mode[i-1] = "comment" /\ q[i] = "\n" -> "code"
               [] OTHER -> mode[i-1]
  IN mode

\* The text with comments blanked and each literal reduced to its first quote.
Code(q) ==
  [i \in DOMAIN q |->
     IF Mode(q)[i-1] = "code" /\ q[i] # "--" THEN q[i] ELSE "\n"]

Outside(q, i) ==
  Cardinality({j \in 1..i : q[j] = "("}) = Cardinality({j \in 1..i : q[j] = ")"})

\* A LIMIT of the first statement itself, not of a subquery.
Limited(q) ==
  \E i \in DOMAIN q : /\ Code(q)[i] = "LIMIT"
                      /\ Outside(Code(q), i)
                      /\ \A j \in 1..i : Code(q)[j] # "semicolon"

-----------------------------------------------------------------------------
(* Properties.                                                             *)

\* A query that passes is, as PostgreSQL reads it, one statement, and that one
\* begins with SELECT or WITH, wherever comments and literals begin and end.  (That
\* a WITH changes nothing is the affair of ReadOnlyTx; and behind a second
\* semicolon the LIMIT that is added is a statement of its own, which PostgreSQL
\* refuses with the whole.)
PassedIsOneRead ==
  verdict = "passed" =>
    \E i \in DOMAIN query : /\ Starts(Code(query)) = {i}
                            /\ query[i] \in {"SELECT", "WITH"}

\* A query that has a LIMIT of its own is never given a second one.
OwnLimitIsKept ==
  verdict = "passed" /\ Limited(query) => sent = Trimmed(query)

\* Where the appended LIMIT fails to bound the statement: the word was found in
\* a comment, a literal or a subquery, or the end of the query is a comment, an
\* open literal or parenthesis, or a second semicolon.  There is no other case.
LimitIsLostOnlyAtTheEdges ==
  verdict = "passed" /\ ~ Limited(sent) =>
    LET q == Trimmed(query) IN
    \/ \E i \in DOMAIN q : q[i] = "LIMIT"
    \/ Mode(q)[Len(q)] # "code"
    \/ ~ Outside(Code(q), Len(q))
    \/ Last(q) = "semicolon"

\* The comment on Validate: "injects a LIMIT when the query has none".  Of the
\* statement PostgreSQL is sent, unless it is one it cannot read to its end.
PassedIsLimited ==
  verdict = "passed" /\ Mode(sent)[Len(sent)] # "literal" /\ Outside(Code(sent), Len(sent))
    => Limited(sent)

=============================================================================
