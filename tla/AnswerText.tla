----------------------------- MODULE AnswerText -----------------------------
(***************************************************************************)
(* What the router (internal/rag/llmrouter.go) and the generator           *)
(* (internal/agent/sql/text2sql.go) take out of the text of a model.       *)
(***************************************************************************)
EXTENDS Naturals, Sequences, FiniteSetsExt, SequencesExt, TableCheck

-----------------------------------------------------------------------------
(* The router: a JSON array of table names.                                *)

At(text, p) == {i \in DOMAIN text : text[i] = p}

\* What stands between the first bracket that opens and the last that closes.
ArrayIn(text) == SubSeq(text, Min(At(text, "[")) + 1, Max(At(text, "]")) - 1)

\* parseTableList finds an array of strings.
Parsed(text, strings) ==
  /\ At(text, "[") # {}
  /\ At(text, "]") # {}
  /\ Min(At(text, "[")) < Max(At(text, "]"))
  /\ ToSet(ArrayIn(text)) \subseteq strings

\* Mutant: names are compared as they are.
CanonicalExact(n, schema) ==
  IF n \in ToSet(schema) THEN {n} ELSE {}

\* The map of filterKnown: of the tables a name can mean but for its case, the
\* last one of the schema.
Canonical(n, schema) ==
  LET same == {i \in DOMAIN schema : Lower(schema[i]) = Lower(n)}
  IN IF same = {} THEN {} ELSE {schema[Max(same)]}

FilterKnown(names, schema) == UNION {Canonical(n, schema) : n \in names}

\* Route, and prompt.Subset of what it returns: the tables it selects, or none on
\* an error.
Route(text, schema, strings) ==
  LET names == ToSet(ArrayIn(text)) IN
  IF schema = << >> \/ ~ Parsed(text, strings) THEN {}
  ELSE IF FilterKnown(names, schema) = {} THEN ToSet(schema)
  ELSE FilterKnown(names, schema)

-----------------------------------------------------------------------------
(* The generator: SQL, perhaps in a code fence.                            *)

\* strings.TrimSpace
TrimLines(t) ==
  LET solid == {i \in DOMAIN t : t[i] # "\n"}
  IN IF solid = {} THEN << >> ELSE SubSeq(t, Min(solid), Max(solid))

\* The text in front of the first p, and behind it.
Before(t, p) == SubSeq(t, 1, Min(At(t, p)) - 1)
After(t, p)  == SubSeq(t, Min(At(t, p)) + 1, Len(t))

\* The fence's first line goes when it is empty or one word (isWord).
WithoutTag(rest, words) ==
  IF /\ At(rest, "\n") # {}
     /\ \/ Before(rest, "\n") = << >>
        \/ \E w \in words : Before(rest, "\n") = <<w>>
  THEN After(rest, "\n") ELSE rest

\* What is in front of the closing fence, if there is one.
Block(rest) == IF At(rest, "fence") # {} THEN Before(rest, "fence") ELSE rest

ExtractSQL(text, words) ==
  LET t == TrimLines(text)
  IN IF At(t, "fence") = {} THEN t
     ELSE TrimLines(Block(WithoutTag(After(t, "fence"), words)))

=============================================================================
