----------------------------- MODULE TableCheck -----------------------------
(***************************************************************************)
(* internal/agent/sql/validate.go: the tables a query names, as two        *)
(* regular expressions find them in its text, and as PostgreSQL reads them.*)
(*                                                                         *)
(* A query is the part of its grammar that names tables; Text writes it    *)
(* down as pieces with white space between them, each a word or a mark, or *)
(* a reference to a table in one of the forms the expressions tell apart.  *)
(* Left out of the grammar: ROWS FROM, the WINDOW clause, CTEs that change *)
(* data, and identifiers that hold a dot or the words the expressions seek.*)
(***************************************************************************)
EXTENDS Naturals, Sequences, SequencesExt

\* cars, "cars", public.cars, public."cars", "public"."cars", "public".cars, cars(
Forms == {"plain", "quoted", "qualified", "qualifiedQuoted", "bothQuoted", "schemaQuoted",
          "function"}

Word(w)      == [form |-> "word", schema |-> "public", name |-> w]
Ref(f, s, n) == [form |-> f, schema |-> s, name |-> n]

\* A reference without a qualifier, which means the schema that Introspect reads.
Plain(n) == Ref("plain", "public", n)

\* The empty string, which is the name of nothing.
NoName == "(none)"

\* What [\w.]+ finds of an identifier: it ends at the first character that is no
\* letter, digit or underscore, here a hyphen.
Beginning(n) ==
  CASE n = "cars-old" -> "cars" [] n = "order-items" -> "order" [] n = "-x" -> NoName
    [] OTHER -> n

\* strings.ToLower, and the folding of unquoted names.
Lower(n) == CASE n = "Cars" -> "cars" [] n = "CARS" -> "cars" [] OTHER -> n

-----------------------------------------------------------------------------
(* A query as text.  Its CTEs, then its sources; hidden: the word FROM     *)
(* occurs where it names no table (extract, IS DISTINCT FROM, a literal or *)
(* a comment).                                                             *)

\* How a source is linked: FROM or JOIN and its name; within a subquery, perhaps a
\* lateral one; after a comma, ONLY, a parenthesis (what else it holds is left
\* out) or a comment; or the TABLE command of a set operation.
Links == {"from", "join", "subquery", "lateral", "comma", "only", "parenthesis", "comment",
          "table"}

\* What a CTE's head is besides its name and AS, that its name is quoted, or that
\* its comma touches it.
Heads == {"plain", "recursive", "columns", "materialized", "quoted", "glued"}

Opening(i, head) ==
  IF head = "glued" THEN << Word("glued") >>
  ELSE (IF i = 1 THEN << Word("with") >> ELSE << Word("comma") >>)
       \o (IF head = "recursive" THEN << Word("recursive") >> ELSE << >>)

CteText(i, cte) ==
  Opening(i, cte.head)
  \o << Ref(IF cte.head = "quoted" THEN "quoted" ELSE "plain", "public", cte.name) >>
  \o (IF cte.head = "columns" THEN << Word("(x)") >> ELSE << >>)
  \o << Word("as") >>
  \o (IF cte.head = "materialized" THEN << Word("materialized") >> ELSE << >>)
  \o << Word("("), Word("select"), Word("from"), cte.ref, Word(")") >>

\* What stands in front of a source.
Lead(link) ==
  CASE link = "subquery"    -> << Word("join"), Word("("), Word("select"), Word("from") >>
    [] link = "lateral"     -> << Word("join"), Plain("lateral"),
                                  Word("("), Word("select"), Word("from") >>
    [] link = "only"        -> << Word("join"), Plain("only") >>
    [] link = "parenthesis" -> << Word("join"), Word("(") >>
    [] link = "comment"     -> << Word("join"), Word("comment") >>
    [] OTHER                -> << Word(link) >>

SourceText(s) ==
  Lead(s.link) \o << s.ref >>
  \o (IF s.link \in {"subquery", "lateral", "parenthesis"} THEN << Word(")") >> ELSE << >>)

Text(q) ==
  FlattenSeq([i \in DOMAIN q.ctes |-> CteText(i, q.ctes[i])])
  \o << Word("select") >>
  \o (IF q.hidden THEN << Word("from"), Plain("col") >> ELSE << >>)
  \o FlattenSeq([i \in DOMAIN q.sources |-> SourceText(q.sources[i])])

-----------------------------------------------------------------------------
(* The check.                                                              *)

\* Mutant: only the CTE right after WITH.
CteNamesFirst(t) ==
  {Lower(t[i + 1].name) : i \in {j \in 1 .. Len(t) - 3 :
      t[j] = Word("with") /\ t[j + 2] = Word("as") /\ t[j + 3] = Word("(")}}

\* cteRe: WITH or a comma, white space, a name, AS and a parenthesis.
CteNames(t) ==
  {Lower(t[i + 1].name) : i \in {j \in 1 .. Len(t) - 3 :
      /\ t[j] \in {Word("with"), Word("comma")}
      /\ t[j + 1].form = "plain"
      /\ t[j + 2] = Word("as")
      /\ t[j + 3] = Word("(")}}

\* The group of fromJoinRe, and normalizeTableRef of it.  It ends at a character
\* outside [\w.] or behind a quote: of "public"."cars" it is "public", and of
\* public."cars" it is public. with a quote, which leaves no name.  Otherwise what
\* is in front of the name, whichever schema, is dropped.
NameIn(ref) ==
  IF ref.form \in {"bothQuoted", "schemaQuoted"} \/ Beginning(ref.schema) # ref.schema
  THEN Lower(Beginning(ref.schema))
  ELSE IF ref.form = "qualifiedQuoted" THEN NoName
  ELSE Lower(Beginning(ref.name))

\* Mutant: JOIN is forgotten.
ReferencesFrom(t) ==
  {NameIn(t[i + 1]) : i \in {j \in 1 .. Len(t) - 1 :
      t[j] = Word("from") /\ t[j + 1].form # "word"}} \ {NoName}

\* fromJoinRe: what follows FROM or JOIN, unless it is a parenthesis or a comment;
\* the words LATERAL and ONLY are names to it.
References(t) ==
  {NameIn(t[i + 1]) : i \in {j \in 1 .. Len(t) - 1 :
      t[j] \in {Word("from"), Word("join")} /\ t[j + 1].form # "word"}} \ {NoName}

ValidateTables(t, tables) ==
  References(t) \subseteq {Lower(n) : n \in tables} \cup CteNames(t)

-----------------------------------------------------------------------------
(* What PostgreSQL reads.                                                  *)

\* The name a reference stands for: quotes keep its case.
Folded(ref) ==
  IF ref.form \in {"quoted", "qualifiedQuoted", "bothQuoted"} THEN ref.name
  ELSE Lower(ref.name)

\* The reference is to a table of the schema, which holds those of public.
Exists(ref, tables) == ref.schema = "public" /\ Folded(ref) \in tables

\* The CTEs a reference in the i-th one, or behind them all, can mean: the ones
\* before it, or WITH RECURSIVE all of them.
InScope(q, i) ==
  {q.ctes[j].name : j \in {k \in DOMAIN q.ctes : k < i \/ q.ctes[1].head = "recursive"}}

IsCte(q, i, ref) == ref.form \in {"plain", "quoted"} /\ Folded(ref) \in InScope(q, i)

\* References with the place they are at: in the i-th CTE, or behind them all.
Places(q) ==
  {<<i, q.ctes[i].ref, "from">> : i \in DOMAIN q.ctes}
  \cup {<<Len(q.ctes) + 1, q.sources[i].ref, q.sources[i].link>> : i \in DOMAIN q.sources}

Reads(q) == {p \in Places(q) : p[2].form # "function" /\ ~ IsCte(q, p[1], p[2])}

=============================================================================
