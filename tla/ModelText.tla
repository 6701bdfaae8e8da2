----------------------------- MODULE ModelText -----------------------------
(***************************************************************************)
(* The text side of Pipeline.Run: the reply of a provider, the tables the  *)
(* router takes out of it, the SQL the generator takes out of it, and the  *)
(* check of that SQL's tables, each on every input of a bounded kind.  What *)
(* Pipeline leaves to chance (which names, which query, which error) is    *)
(* computed here.                                                          *)
(***************************************************************************)
EXTENDS LlmProvider, AnswerText

CONSTANTS MaxPieces,  \* bound: the length of the router's answer
          Refs,       \* the references a query may hold
          Ctes,       \* the lists of CTEs it may begin with
          Sources     \* the lists of sources behind them

\* Names a router's answer may hold: of tables, alike but for their case, and invented.
Names == {"cars", "Cars", "trips", "ghost"}

Schemas == {<< >>, <<"cars">>, <<"trips">>, <<"cars", "trips">>, <<"Cars", "cars">>,
            <<"cars", "order-items">>}

\* What a router's answer is made of: an array's brackets and strings, and prose.
RouterPieces == {"[", "]", "prose"} \cup Names

\* Words a code fence's first line may be, a tag of another kind, and the SQL.
Tags  == {"sql", "SELECT"}
Lines == {<<"SELECT", "\n", "rest">>, <<"SELECT_rest">>}

\* References have names, and without a qualifier public's; the names of CTEs are folded.
ASSUME QueryAssumption ==
  /\ Refs \subseteq [form : Forms, schema : STRING, name : STRING]
  /\ \A r \in Refs : r.form \in {"plain", "quoted"} => r.schema = "public"
  /\ Ctes \subseteq Seq([name : STRING, head : Heads, ref : Refs])
  /\ \A c \in Ctes : \A i \in DOMAIN c : Lower(c[i].name) = c[i].name
  /\ Sources \subseteq Seq([link : Links, ref : Refs])

VARIABLES stage,     \* the stage judged last
          schema,    \* Pipeline.Schema, in the order of Introspect
          provider,
          reply,     \* the reply to its request
          written,   \* the SQL in the model's answer, if it is an answer with SQL
          selected,  \* what routing selected
          sql,       \* what the generator returned
          query,     \* the query whose tables are checked
          verdict    \* what the stage returned: nil error or an error

vars == <<stage, schema, provider, reply, written, selected, sql, query, verdict>>

NoReply == [fate |-> "lost", parts |-> << >>]
NoQuery == [ctes |-> << >>, hidden |-> FALSE, sources |-> << >>]

Init ==
  /\ stage    = "none"
  /\ schema   \in Schemas
  /\ provider \in Providers
  /\ reply    = NoReply
  /\ written  = << >>
  /\ selected = {}
  /\ sql      = << >>
  /\ query    = NoQuery
  /\ verdict  = "none"

-----------------------------------------------------------------------------
(* Replies.                                                                *)

TextPart(t) == [type |-> "text", text |-> t]
Thinking    == [type |-> "thinking", text |-> << >>]

\* The text in one part, or as two blocks behind one that holds no text; and
\* replies without any.
PartsOf(t) ==
  {<< TextPart(t) >>}
  \cup {<< Thinking, TextPart(SubSeq(t, 1, i)), TextPart(SubSeq(t, i + 1, Len(t))) >> :
          i \in DOMAIN t}

Replies(t) ==
  {[fate |-> "answered", parts |-> p] :
     p \in IF provider = "anthropic" THEN PartsOf(t) ELSE {<< TextPart(t) >>}}

Textless ==
  [fate : Fates \ {"answered"}, parts : {<< >>}]
  \cup [fate : {"answered"}, parts : {<< >>, << TextPart(<< >>) >>, << Thinking >>}]

\* SQL in a fence, with what may stand around it.
Wrapped(pre, tag, nl, lines, post) ==
  pre \o <<"fence">> \o tag \o nl \o lines \o <<"\n">> \o post

\* Answers to the generator's prompt: perhaps prose, a fence, a tag, an end of
\* line, the SQL and the closing fence; max_tokens may end any of them.
Answers(lines) ==
  {lines} \cup
  {Wrapped(pre, tag, nl, lines, post) :
     pre  \in {<< >>, <<"prose", "\n">>},
     tag  \in {<< >>, <<"sql">>, <<"sql:">>},
     nl   \in {<< >>, <<"\n">>},
     post \in {<< >>, <<"fence">>, <<"fence", "\n", "prose">>}}

-----------------------------------------------------------------------------
(* The stages.                                                             *)

\* LLMRouter.Route
RouteReply(r) ==
  LET answer == Generate(provider, r)
      tables == IF answer.ok THEN Route(answer.text, schema, Names) ELSE {}
  IN /\ stage' = "route"
     /\ reply' = r
     /\ selected' = tables
     /\ verdict' = IF tables = {} THEN "error" ELSE "ok"
     /\ UNCHANGED <<schema, provider, written, sql, query>>

\* Mutant: an answer without SQL is passed on.
ResultAny(answer) == IF answer.ok THEN "ok" ELSE "error"

Result(answer) ==
  IF answer.ok /\ ExtractSQL(answer.text, Tags) # << >> THEN "ok" ELSE "error"

\* Generator.Generate
GenerateReply(r, lines) ==
  LET answer == Generate(provider, r)
  IN /\ stage' = "generate"
     /\ reply' = r
     /\ written' = lines
     /\ verdict' = Result(answer)
     /\ sql' = IF Result(answer) = "ok" THEN ExtractSQL(answer.text, Tags) ELSE << >>
     /\ UNCHANGED <<schema, provider, selected, query>>

\* ValidateTables, on the tables of the schema routing may select.
CheckTables(q) ==
  /\ stage' = "check"
  /\ query' = q
  /\ selected' = ToSet(schema)
  /\ verdict' = IF ValidateTables(Text(q), ToSet(schema)) THEN "ok" ELSE "error"
  /\ UNCHANGED <<schema, provider, reply, written, sql>>

Routing ==
  \E t \in SeqOf(RouterPieces, MaxPieces) \cup {<< >>} :
    \E r \in {[fate |-> "answered", parts |-> << TextPart(t) >>]} \cup Textless :
      RouteReply(r)

Generation ==
  \/ \E lines \in Lines : \E a \in Answers(lines) : \E n \in 0 .. Len(a) :
       \E r \in Replies(SubSeq(a, 1, n)) : GenerateReply(r, lines)
  \/ \E r \in Textless : GenerateReply(r, << >>)

Checking ==
  /\ provider = "openai"
  /\ \E c \in Ctes, s \in Sources, h \in BOOLEAN :
       CheckTables([ctes |-> c, hidden |-> h, sources |-> s])

Next == stage = "none" /\ (Routing \/ Generation \/ Checking)

Spec == Init /\ [][Next]_vars

-----------------------------------------------------------------------------
(* Properties.                                                             *)

ReplyText == FlattenSeq([i \in DOMAIN reply.parts |-> reply.parts[i].text])

Judged(s, v) == stage = s /\ verdict = v

\* A reply without text (no reply, an error status, a body that is cut off or
\* no JSON, no text block, no choice) is an error of its stage: it is neither
\* taken for a routing to all tables nor for an empty query.
TextlessIsAnError == stage \in {"route", "generate"} /\ ReplyText = << >> => verdict = "error"

\* The JSON arrays of names in a text.
Arrays(t) ==
  {a \in (DOMAIN t) \X (DOMAIN t) :
     /\ a[1] < a[2]
     /\ t[a[1]] = "["
     /\ t[a[2]] = "]"
     /\ \A k \in a[1] + 1 .. a[2] - 1 : t[k] \in Names}

\* The router finds the array in whatever prose it is wrapped; an answer with
\* one is refused only for a second bracket that opens before it or closes
\* behind it.  Every table the array names is selected, whatever case it is
\* written in, and no other is, unless it names none at all; of two tables that differ
\* only in case, one is selected for both.
NamedTablesAreSelected ==
  stage = "route" /\ schema # << >> =>
    /\ verdict = "error" => \A a \in Arrays(ReplyText) :
         \/ \E i \in 1 .. a[1] - 1 : ReplyText[i] = "["
         \/ \E i \in a[2] + 1 .. Len(ReplyText) : ReplyText[i] = "]"
    /\ verdict = "ok" => \E a \in Arrays(ReplyText) :
         LET named == {Lower(ReplyText[i]) : i \in a[1] + 1 .. a[2] - 1}
             known == {t \in ToSet(schema) : Lower(t) \in named}
         IN IF known = {} THEN selected = ToSet(schema)
            ELSE /\ selected \subseteq known
                 /\ \A t \in known : t \in selected \/
                                      \E u \in selected \ {t} : Lower(u) = Lower(t)

\* The generator's SQL is s or, if the fence never closes, a beginning of s.
Taken(s) == IF Cardinality(At(ReplyText, "fence")) = 2 THEN sql = s ELSE IsPrefix(sql, s)

\* In whatever prose, blocks and fence it comes, the SQL is taken out whole, with
\* three exceptions.  Of an answer that max_tokens cut short there is a beginning,
\* which goes on as if it were all.  If the SQL's first line is one word and
\* stands on the fence's line, it is taken for a tag and lost.  A tag that is no
\* word, or has SQL behind it or nothing, is left in front of the SQL.
FencedSqlIsExtracted ==
  stage = "generate" /\ At(ReplyText, "fence") # {} =>
    LET rest       == After(TrimLines(ReplyText), "fence")
        First(line) == At(rest, "\n") # {} /\ Before(rest, "\n") = line
    IN IF First(<< >>) \/ First(<<"sql">>) THEN Taken(written)
       ELSE IF First(<<"SELECT">>) THEN Taken(After(written, "\n"))
       ELSE IF rest # << >> /\ rest[1] \in {"sql", "sql:"}
            THEN \E nl \in {<< >>, <<"\n">>} : Taken(<< rest[1] >> \o nl \o written)
       ELSE Taken(written)

\* Of the queries of this grammar, one with a table that is not in the schema passes
\* the check only where the two expressions do not look (behind a comma, ONLY, a
\* parenthesis, a comment or TABLE, or behind a qualifier with a quote) or where
\* what they read, the beginning of its name in lower case without its qualifier,
\* or of a quoted qualifier, is empty or the name of a CTE or a table.
InventedTablesPassOnlyUnseen ==
  Judged("check", "ok") =>
    \A p \in Reads(query) : ~ Exists(p[2], ToSet(schema)) =>
      LET known == {query.ctes[i].name : i \in DOMAIN query.ctes}
                     \cup {Lower(t) : t \in ToSet(schema)}
          cut   == Beginning(p[2].schema) # p[2].schema
      IN \/ p[3] \in {"comma", "parenthesis", "comment", "table"}
         \/ p[3] = "only" /\ "only" \in known
         \/ p[2].form = "qualifiedQuoted" /\ ~ cut
         \/ /\ p[2].form \in {"bothQuoted", "schemaQuoted"} \/ cut
            /\ Lower(Beginning(p[2].schema)) \in known \cup {NoName}
         \/ /\ p[2].form \notin {"bothQuoted", "schemaQuoted"} /\ ~ cut
            /\ Lower(Beginning(p[2].name)) \in known \cup {NoName}

PlainHead(q, n) ==
  \E i \in DOMAIN q.ctes : q.ctes[i].name = n /\ q.ctes[i].head = "plain"

\* Of the same queries, one over tables of the schema is refused only for the word
\* FROM where it names no table, ONLY or LATERAL, a function in its FROM clause, a
\* quoted qualifier, a character in a name that is no letter, digit or underscore,
\* or a CTE whose head is more than its name and AS, or follows its comma at once.
RealTablesAreRefusedOnlyMisread ==
  Judged("check", "error") /\ (\A p \in Reads(query) : Exists(p[2], ToSet(schema))) =>
    \/ query.hidden
    \/ \E p \in Places(query) :
         \/ p[3] \in {"only", "lateral"}
         \/ p[2].form \in {"function", "bothQuoted", "schemaQuoted"}
         \/ Beginning(p[2].name) # p[2].name
         \/ IsCte(query, p[1], p[2]) /\ ~ PlainHead(query, Folded(p[2]))

=============================================================================
