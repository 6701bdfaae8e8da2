--------------------------- MODULE Introspection ---------------------------
(***************************************************************************)
(* Connector.Introspect of internal/connector/postgres: one statement for  *)
(* the columns, one for the foreign keys, one for each table's count and   *)
(* one for each column's sample values, without a common snapshot, over a  *)
(* database whose tables others drop and create.  The tables are those of  *)
(* the schema public that the role of the connection may read.             *)
(***************************************************************************)
EXTENDS Naturals, Sequences

CONSTANTS Columns,      \* <<table, column>>, of the tables there may be
          Constraints,  \* keys of any schema: name, type, table, columns, what they refer to
          Owned,        \* the tables that belong to the role, or to one it is a member of
          Granted,      \* the tables on which it may do more than select
          Distinct,     \* the number of distinct values in each column
          Place,        \* the order of the statements about tables and columns
          MaxChanges    \* bound: tables and columns dropped and created

\* <<t, "*">> stands for the count of t.
ASSUME SchemaAssumption ==
  /\ \A c \in Columns : c = <<c[1], c[2]>> /\ c[2] # "*"
  /\ \A k \in Constraints : k.type = "foreign" =>
       k.cols \in Seq(STRING) /\ k.refCols \in Seq(STRING) /\ Len(k.cols) = Len(k.refCols)
  /\ Distinct \in [Columns -> Nat]
  /\ MaxChanges \in Nat

VARIABLES columns,   \* the columns of the database
          changes,   \* how often it changed
          since,     \* history: changes when Introspect began
          step,      \* where Introspect is
          todo,      \* the statements it has yet to send, by table and column
          found,     \* the columns in its result
          keys,      \* the foreign keys in its result
          samples,   \* the number of sample values it has for each column
          vanished,  \* history: columns dropped before their statement was sent
          born       \* history: tables created since the columns were read

dbVars      == <<columns, changes, vanished, born>>
resultVars  == <<found, keys, samples>>
inspectVars == <<since, step, todo, found, keys, samples, vanished, born>>
schemaVars  == <<columns, changes, inspectVars>>

Tables(cs) == {c[1] : c \in cs}

ColumnsOf(t) == {c \in Columns : c[1] = t}

InitSchema ==
  /\ columns  = Columns
  /\ changes  = 0
  /\ since    = 0
  /\ step     = "idle"
  /\ todo     = {}
  /\ found    = {}
  /\ keys     = {}
  /\ samples  = {}
  /\ vanished = {}
  /\ born     = {}

-----------------------------------------------------------------------------
(* The database.                                                           *)

\* Columns whose own statement is still to come.
Pending == IF step = "keys" THEN found ELSE todo

Drop(cs) ==
  /\ changes < MaxChanges
  /\ cs # {} /\ cs \subseteq columns
  /\ columns' = columns \ cs
  /\ changes' = changes + 1
  /\ vanished' = vanished \cup (cs \cap Pending)
  /\ UNCHANGED <<born, since, step, todo, resultVars>>

Create(cs) ==
  /\ changes < MaxChanges
  /\ cs # {} /\ cs \cap columns = {}
  /\ columns' = columns \cup cs
  /\ changes' = changes + 1
  /\ vanished' = vanished \ cs
  /\ born' = born \cup (Tables(cs) \ Tables(columns))
  /\ UNCHANGED <<since, step, todo, resultVars>>

\* A table or a column of it goes or comes.
Change ==
  \/ \E t \in Tables(Columns) : Drop(ColumnsOf(t) \cap columns) \/ Create(ColumnsOf(t))
  \/ \E c \in Columns : Drop({c}) \/ Create({c})

-----------------------------------------------------------------------------
(* The statements.                                                         *)

\* select current_database()
Introspect ==
  /\ step \notin {"columns", "keys", "tables"}
  /\ step' = "columns"
  /\ since' = changes
  /\ UNCHANGED <<dbVars, todo, resultVars>>

\* Mutant: one column of each table is missed.
ReadLaterColumns ==
  /\ step = "columns"
  /\ step' = "keys"
  /\ found' = columns \ {CHOOSE c \in columns : c[1] = t : t \in Tables(columns)}
  /\ born' = {}
  /\ UNCHANGED <<columns, changes, vanished, since, todo, keys, samples>>

\* introspectColumns
ReadColumns ==
  /\ step = "columns"
  /\ step' = "keys"
  /\ found' = columns
  /\ born' = {}
  /\ UNCHANGED <<columns, changes, vanished, since, todo, keys, samples>>

\* A constraint is there as long as all of its columns are; what other schemas hold
\* stays.
There(k) ==
  /\ k.schema = "public" =>
       \A i \in DOMAIN k.cols : <<k.table, k.cols[i]>> \in columns
  /\ k.refSchema = "public" =>
       \A i \in DOMAIN k.refCols : <<k.refTable, k.refCols[i]>> \in columns

ForeignKeys ==
  {k \in Constraints : k.type = "foreign" /\ k.schema = "public" /\ There(k)}

InKey(cols) == {cols[i] : i \in DOMAIN cols}

\* The pairs a key is made of.
Pairs(k) == {<<k.table, k.cols[i], k.refTable, k.refCols[i]>> : i \in DOMAIN k.cols}

\* information_schema.table_constraints has the constraints of tables that belong
\* to the role or that it may do more with than select.
Listed(k) == k.table \in Owned \cup Granted

\* constraint_column_usage, of tables of the schema asked for, has the columns of
\* tables that belong to the role; its table_schema is the one referred to.
RefListed(k) == k.refSchema = "public" /\ k.refTable \in Owned

\* Mutant: of each key the first column only.
KeyRowsOfFirst ==
  {<<k.table, k.cols[1], k.refTable, k.refCols[1]>> :
     k \in {f \in ForeignKeys : Listed(f) /\ RefListed(f)}}

\* The join of introspectForeignKeys: the columns of every key that has the name of
\* a foreign key, with all that every constraint of that name refers to (a unique
\* one, to its own columns), as far as the role is shown them.
KeyRows ==
  LET named == {p \in Constraints \X Constraints :
                  /\ There(p[1]) /\ There(p[2]) /\ p[1].name = p[2].name
                  /\ p[1].schema = "public" /\ RefListed(p[2])
                  /\ \E f \in ForeignKeys : Listed(f) /\ f.name = p[1].name}
  IN UNION {{<<p[1].table, c, p[2].refTable, d>> :
               c \in InKey(p[1].cols), d \in InKey(p[2].refCols)} : p \in named}

\* The statements about the tables found: their counts and their columns.
Statements == {<<t, "*">> : t \in Tables(found)} \cup found

\* introspectForeignKeys: keys of tables that were found.
ReadKeys ==
  /\ step = "keys"
  /\ step' = "tables"
  /\ keys' = {k \in KeyRows : k[1] \in Tables(found)}
  /\ todo' = Statements
  /\ UNCHANGED <<dbVars, since, found, samples>>

sampleCardinalityMax == 50
sampleLimit          == 5

AtMost(n, max) == IF n > max THEN max ELSE n

\* Mutant: the statement asks for no row more than the limit it stands for.
RowsOfMax(c) == AtMost(Distinct[c], sampleCardinalityMax)

\* The rows of select distinct, with its own limit.
Rows(c) == AtMost(Distinct[c], sampleCardinalityMax + 1)

\* sampleValues
SampleValues(c) ==
  IF Rows(c) > sampleCardinalityMax THEN 0 ELSE AtMost(Rows(c), sampleLimit)

\* Mutant: a statement that fails is passed over.
AnswersAll(s) == TRUE

\* What the database has an answer to.
Answers(s) == IF s[2] = "*" THEN s[1] \in Tables(columns) ELSE s \in columns

ReadTable(s) ==
  /\ step = "tables"
  /\ s \in todo
  /\ \A u \in todo : Place[s] <= Place[u]
  /\ Answers(s)
  /\ todo' = todo \ {s}
  /\ samples' = IF s[2] = "*" THEN samples ELSE samples \cup {<<s, SampleValues(s)>>}
  /\ UNCHANGED <<dbVars, since, step, found, keys>>

Introspected ==
  /\ step = "tables"
  /\ todo = {}
  /\ step' = "done"
  /\ UNCHANGED <<dbVars, since, todo, resultVars>>

\* A statement fails: what it names is gone, or the connection or the context is.
\* The caller drops what it has by then.
IntrospectionFails ==
  /\ step \in {"columns", "keys", "tables"}
  /\ step' = "failed"
  /\ todo' = {} /\ found' = {} /\ keys' = {} /\ samples' = {}
  /\ vanished' = {} /\ born' = {}
  /\ UNCHANGED <<columns, changes, since>>

Inspecting ==
  \/ ReadColumns
  \/ ReadKeys
  \/ \E s \in todo : ReadTable(s)
  \/ Introspected
  \/ IntrospectionFails

-----------------------------------------------------------------------------
(* Properties.                                                             *)

SchemaTypeOK ==
  /\ columns \subseteq Columns
  /\ found   \subseteq Columns
  /\ changes \in 0 .. MaxChanges
  /\ since   \in 0 .. changes
  /\ step    \in {"idle", "columns", "keys", "tables", "done", "failed"}
  /\ todo    \subseteq Statements

\* However the database changes in between, Introspect succeeds only with columns
\* that were all there when their own statement was run, and with keys of its
\* tables that point out of them only to a table created since.
SchemaHolds ==
  step = "done" =>
    /\ vanished \cap found = {}
    /\ \A k \in keys : k[1] \in Tables(found) /\ k[3] \in Tables(found) \cup born

\* The foreign keys of the database that the role is shown whole: not those of
\* tables it may only read, nor to tables of other owners or schemas.
ShownKeys == {k \in ForeignKeys : Listed(k) /\ RefListed(k)}

\* Every pair of columns that is such a key is in the schema; a pair that is none
\* comes of a key of several columns, or of a name two constraints share; and no
\* pair leads to a table of another owner.  (The role of the repository's own
\* setup.sql owns no table, and so finds no key at all.)
KeysAreFound ==
  step = "done" /\ changes = since =>
    /\ \A k \in ShownKeys : Pairs(k) \subseteq keys
    /\ \A row \in keys \ UNION {Pairs(k) : k \in ShownKeys} :
         \E k \in Constraints : /\ row[1] = k.table
                              /\ \/ Len(k.cols) > 1
                                 \/ \E l \in Constraints \ {k} : l.name = k.name
    /\ \A row \in keys : row[3] \in Owned

\* A column has sample values when it has 1 to 50 distinct ones, and then up to 5.
SamplesAreOfFewValues ==
  \A s \in samples :
    LET n == Distinct[s[1]]
    IN s[2] = IF n <= 50 THEN AtMost(n, 5) ELSE 0

-----------------------------------------------------------------------------
(* What is known while the statements are run.                             *)

\* Before the columns are read there is nothing; then what was lost since is
\* still to be asked for, and what came since is of a new table.
ColumnsInv ==
  IF step \in {"idle", "columns", "failed"}
  THEN found = {} /\ todo = {} /\ vanished = {} /\ samples = {}
  ELSE /\ Tables(columns) \subseteq Tables(found) \cup born
       /\ vanished \subseteq Pending \cap Columns
       /\ vanished \cap columns = {}
       /\ changes = since => found = columns
       /\ step = "done" => todo = {}

\* The keys are those of the database, as long as it is left alone.
KeysInv ==
  step \in {"tables", "done"} =>
    /\ \A k \in keys : k[1] \in Tables(found) /\ k[3] \in Tables(found) \cup born
    /\ changes = since => keys = {k \in KeyRows : k[1] \in Tables(found)}

SamplesInv == \A s \in samples : s[1] \in Columns /\ s[2] = SampleValues(s[1])

=============================================================================
