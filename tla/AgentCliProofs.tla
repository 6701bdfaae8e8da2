--------------------------- MODULE AgentCliProofs ---------------------------
(***************************************************************************)
(* Theorems about AgentCli and Introspection, for any tables, constraints, *)
(* numbers of values, changes of the database and lines of input.          *)
(***************************************************************************)
EXTENDS AgentCli, TLAPS

-----------------------------------------------------------------------------
(* Introspection.                                                          *)

\* The steps AgentCli takes of Introspection.
SchemaStep ==
  \/ Introspect /\ step # "done"
  \/ Inspecting
  \/ Change
  \/ UNCHANGED schemaVars

SchemaInv == SchemaTypeOK /\ ColumnsInv /\ KeysInv /\ SamplesInv

\* The number of samples does not depend on the database's state.
LEMMA SameSamples ==
  \A c : SampleValues(c)' = SampleValues(c)
BY DEF SampleValues, Rows, AtMost

\* A table has a column.
LEMMA TablesOf ==
  ASSUME NEW S, NEW t
  PROVE  t \in Tables(S) <=> \E c \in S : c[1] = t
BY DEF Tables

\* A dropped column or table leaves the invariant.
LEMMA DropStep ==
  ASSUME SchemaInv, NEW cs, Drop(cs)
  PROVE  SchemaInv'
<1> USE SchemaAssumption DEF SchemaInv, SchemaTypeOK, Drop, dbVars, resultVars
<1>1. SchemaTypeOK'
  BY DEF Statements
<1>2. changes' # since'
  OBVIOUS
<1>3. Pending' = Pending
  BY DEF Pending
<1>4. Tables(columns') \subseteq Tables(columns)
  BY DEF Tables
<1>5. ColumnsInv'
  BY <1>2, <1>3, <1>4 DEF ColumnsInv, Pending
<1>6. KeysInv'
  BY <1>2 DEF KeysInv
<1>7. SamplesInv'
  BY SameSamples DEF SamplesInv
<1>8. QED
  BY <1>1, <1>5, <1>6, <1>7

\* A created column or table leaves the invariant.
LEMMA CreateStep ==
  ASSUME SchemaInv, NEW cs \in SUBSET Columns, Create(cs)
  PROVE  SchemaInv'
<1> USE SchemaAssumption DEF SchemaInv, SchemaTypeOK, Create, resultVars
<1>1. SchemaTypeOK'
  BY DEF Statements
<1>2. changes' # since'
  OBVIOUS
<1>3. Pending' = Pending
  BY DEF Pending
<1>4. Tables(columns') = Tables(columns) \cup Tables(cs)
  BY DEF Tables
<1>5. ColumnsInv'
  BY <1>2, <1>3, <1>4 DEF ColumnsInv
<1>6. KeysInv'
  BY <1>2 DEF KeysInv
<1>7. SamplesInv'
  BY SameSamples DEF SamplesInv
<1>8. QED
  BY <1>1, <1>5, <1>6, <1>7

\* Keys that the statement returns are of columns that are there.
LEMMA RowsAreThere ==
  ASSUME NEW row \in KeyRows
  PROVE  row[1] \in Tables(columns) /\ row[3] \in Tables(columns)
<1>1. PICK u \in Constraints, r \in Constraints :
        /\ There(u) /\ There(r) /\ u.schema = "public" /\ r.refSchema = "public"
        /\ \E c \in InKey(u.cols), d \in InKey(r.refCols) :
             row = <<u.table, c, r.refTable, d>>
  BY DEF KeyRows, RefListed
<1>2. PICK c \in InKey(u.cols), d \in InKey(r.refCols) : row = <<u.table, c, r.refTable, d>>
  BY <1>1
<1>3. <<u.table, c>> \in columns /\ <<r.refTable, d>> \in columns
  BY <1>1, <1>2 DEF There, InKey
<1>4. QED
  BY <1>2, <1>3, TablesOf

\* The statement about the columns.
LEMMA ReadColumnsStep ==
  ASSUME SchemaInv, ReadColumns
  PROVE  SchemaInv'
<1> USE DEF SchemaInv, SchemaTypeOK, ColumnsInv, ReadColumns
<1>1. SchemaTypeOK' /\ KeysInv'
  BY DEF KeysInv
<1>2. ColumnsInv'
  BY DEF Pending
<1>3. SamplesInv'
  BY SameSamples DEF SamplesInv
<1>4. QED
  BY <1>1, <1>2, <1>3

\* The statement about the keys.
LEMMA ReadKeysStep ==
  ASSUME SchemaInv, ReadKeys
  PROVE  SchemaInv'
<1> USE DEF SchemaInv, SchemaTypeOK, ColumnsInv, ReadKeys, dbVars
<1>1. Statements' = Statements /\ KeyRows' = KeyRows
  BY DEF Statements, KeyRows, There, ForeignKeys
<1>2. SchemaTypeOK'
  BY <1>1
<1>3. ColumnsInv'
  BY DEF Pending, Statements
<1>4. KeysInv'
  BY <1>1, RowsAreThere DEF KeysInv
<1>5. SamplesInv'
  BY SameSamples DEF SamplesInv
<1>6. QED
  BY <1>2, <1>3, <1>4, <1>5

\* A statement about a table or a column.
LEMMA ReadTableStep ==
  ASSUME SchemaInv, NEW s \in todo, ReadTable(s)
  PROVE  SchemaInv'
<1> USE SchemaAssumption DEF SchemaInv, SchemaTypeOK, ReadTable, dbVars
<1>1. Statements' = Statements /\ KeyRows' = KeyRows
  BY DEF Statements, KeyRows, There, ForeignKeys
<1>2. SchemaTypeOK'
  BY <1>1
<1>3. s \notin vanished
  BY DEF ColumnsInv, Answers
<1>4. ColumnsInv'
  BY <1>3 DEF ColumnsInv, Pending
<1>5. KeysInv'
  BY <1>1 DEF KeysInv
<1>6. SamplesInv'
  BY SameSamples DEF SamplesInv, Answers
<1>7. QED
  BY <1>2, <1>4, <1>5, <1>6

\* Every step of the database and of Introspect keeps the invariant.
LEMMA SchemaKept ==
  ASSUME SchemaInv, SchemaStep
  PROVE  SchemaInv'
<1> USE SchemaAssumption
<1>1. CASE Introspect /\ step # "done"
  <2> USE <1>1 DEF SchemaInv, SchemaTypeOK, Introspect, dbVars, resultVars
  <2>1. SchemaTypeOK' /\ KeysInv'
    BY DEF Statements, KeysInv
  <2>2. ColumnsInv' /\ SamplesInv'
    BY DEF ColumnsInv, SamplesInv
  <2>3. QED
    BY <2>1, <2>2
<1>2. CASE ReadColumns
  BY <1>2, ReadColumnsStep
<1>3. CASE ReadKeys
  BY <1>3, ReadKeysStep
<1>4. CASE \E s \in todo : ReadTable(s)
  BY <1>4, ReadTableStep
<1>5. CASE Introspected
  <2> USE <1>5 DEF SchemaInv, SchemaTypeOK, Introspected, dbVars, resultVars
  <2>1. Statements' = Statements /\ KeyRows' = KeyRows
    BY DEF Statements, KeyRows, There, ForeignKeys
  <2>2. SchemaTypeOK' /\ KeysInv'
    BY <2>1 DEF KeysInv
  <2>3. ColumnsInv'
    BY DEF ColumnsInv, Pending
  <2>4. SamplesInv'
    BY SameSamples DEF SamplesInv
  <2>5. QED
    BY <2>2, <2>3, <2>4
<1>6. CASE IntrospectionFails
  <2> USE <1>6 DEF SchemaInv, SchemaTypeOK, IntrospectionFails
  <2>1. SchemaTypeOK' /\ KeysInv'
    BY DEF KeysInv
  <2>2. ColumnsInv' /\ SamplesInv'
    BY DEF ColumnsInv, SamplesInv
  <2>3. QED
    BY <2>1, <2>2
<1>7. CASE Change
  <2>1. \A c \in Columns : {c} \subseteq Columns
    OBVIOUS
  <2>2. \A t : ColumnsOf(t) \subseteq Columns
    BY DEF ColumnsOf
  <2>3. QED
    BY <1>7, <2>1, <2>2, DropStep, CreateStep DEF Change
<1>8. CASE UNCHANGED schemaVars
  <2> USE <1>8 DEF schemaVars, inspectVars, SchemaInv, SchemaTypeOK
  <2>1. Statements' = Statements /\ KeyRows' = KeyRows /\ Pending' = Pending
    BY DEF Statements, KeyRows, There, ForeignKeys, Pending
  <2>2. SchemaTypeOK' /\ KeysInv' /\ ColumnsInv'
    BY <2>1 DEF KeysInv, ColumnsInv
  <2>3. SamplesInv'
    BY SameSamples DEF SamplesInv
  <2>4. QED
    BY <2>2, <2>3
<1>9. QED
  BY <1>1, <1>2, <1>3, <1>4, <1>5, <1>6, <1>7, <1>8 DEF SchemaStep, Inspecting

\* No database has been looked at in the beginning.
LEMMA SchemaInit ==
  InitSchema => SchemaInv
BY SchemaAssumption DEF InitSchema, SchemaInv, SchemaTypeOK, ColumnsInv, KeysInv, SamplesInv

-----------------------------------------------------------------------------
(* The agent.                                                              *)

\* Each step of the agent takes one of Introspection, or none.
LEMMA EachStepIsOne ==
  AgentInv /\ [Next]_vars => SchemaStep
<1> SUFFICES ASSUME AgentInv, [Next]_vars PROVE SchemaStep
  OBVIOUS
<1> USE DEF SchemaStep
<1>1. CASE OpenConnection
  BY <1>1 DEF OpenConnection, AgentInv
<1>2. CASE UNCHANGED schemaVars
  BY <1>2
<1>3. CASE Change \/ Inspecting
  BY <1>3
<1>4. CASE Wizard \/ Ask \/ Leave \/ EndInput
  <2>1. ASSUME NEW n, Prompt(n) PROVE UNCHANGED schemaVars
    BY <2>1 DEF Prompt, WizardKeeps
  <2>2. ASSUME NEW k, PromptSecret(k) PROVE UNCHANGED schemaVars
    BY <2>2 DEF PromptSecret, WizardKeeps
  <2>3. CASE SecretAtEnd \/ Exit
    BY <2>3 DEF SecretAtEnd, Exit, WizardKeeps
  <2>4. CASE Ask \/ Leave \/ EndInput
    BY <2>4 DEF Ask, Leave, EndInput
  <2>5. QED
    BY <1>4, <2>1, <2>2, <2>3, <2>4 DEF Wizard
<1>5. CASE RegisterFails \/ Connected \/ NotConnected
  BY <1>5 DEF RegisterFails, Connected, NotConnected
<1>6. CASE UNCHANGED vars
  BY <1>6 DEF vars
<1>7. QED
  BY <1>1, <1>2, <1>3, <1>4, <1>5, <1>6 DEF Next, Agent, Register

\* What the agent itself does not touch it leaves as it is.
CliTypeOK ==
  /\ tty     \in {"terminal", "pipe"}
  /\ secrets \in {"none", "some"}
  /\ read    \in 0 .. MaxLines
  /\ ahead   \in Seq(1 .. MaxLines)
  /\ tty = "terminal" => ahead = << >>
  /\ asked   \in 0 .. read

InputOK == CliTypeOK /\ InputInv

\* The lines of a chunk, behind its first.
LEMMA LinesAre ==
  ASSUME NEW r \in Nat, NEW n \in Nat \ {0}, r + n <= MaxLines
  PROVE  /\ Lines(r + 2, r + n) \in Seq(1 .. MaxLines)
         /\ Len(Lines(r + 2, r + n)) = n - 1
         /\ \A i \in 1 .. n - 1 : Lines(r + 2, r + n)[i] = r + 1 + i
         /\ n = 1 => Lines(r + 2, r + n) = << >>
<1> USE LinesAssumption
<1> DEFINE s == Lines(r + 2, r + n)
<1>1. s = [i \in 1 .. n - 1 |-> r + 1 + i]
  <2>1. (r + n) - (r + 2) + 1 = n - 1 /\ \A i \in 1 .. n - 1 : r + 2 + i - 1 = r + 1 + i
    OBVIOUS
  <2>2. QED
    BY <2>1 DEF Lines
<1>2. \A i \in 1 .. n - 1 : r + 1 + i \in 1 .. MaxLines
  OBVIOUS
<1>3. n - 1 \in Nat
  OBVIOUS
<1>4. s \in Seq(1 .. MaxLines) /\ Len(s) = n - 1
  BY <1>1, <1>2, <1>3
<1>5. QED
  BY <1>1, <1>3, <1>4

\* Scan takes the next line of all there are.
LEMMA ScanStep ==
  InputOK /\ Scan => InputOK'
<1> SUFFICES ASSUME InputOK, Scan PROVE InputOK'
  OBVIOUS
<1> USE LinesAssumption DEF InputOK, CliTypeOK, InputInv, Got
<1>1. CASE ahead # << >> /\ ahead' = Tail(ahead) /\ Got(Head(ahead))
             /\ UNCHANGED <<tty, envKey, read, input, secrets>>
  <2>1. /\ Head(ahead) = ahead[1]
        /\ Tail(ahead) \in Seq(1 .. MaxLines)
        /\ Len(Tail(ahead)) = Len(ahead) - 1
        /\ \A i \in 1 .. Len(ahead) - 1 : Tail(ahead)[i] = ahead[i + 1]
        /\ Len(ahead) \in Nat /\ Len(ahead) >= 1
    BY <1>1
  <2>2. tty # "terminal"
    BY <1>1
  <2>3. CliTypeOK'
    BY <1>1, <2>1, <2>2
  <2>4. asked' + Len(ahead') <= read'
    BY <1>1, <2>1
  <2>5. ASSUME secrets' = "none"
        PROVE  /\ got' = asked'
               /\ read' = asked' + Len(ahead')
               /\ \A i \in 1 .. Len(ahead') : ahead'[i] = asked' + i
    <3>1. got' = asked' /\ read' = asked' + Len(ahead')
      BY <1>1, <2>1, <2>5
    <3>2. \A i \in 1 .. Len(ahead') : ahead'[i] = asked' + i
      <4> SUFFICES ASSUME NEW i \in 1 .. Len(ahead') PROVE ahead'[i] = asked' + i
        OBVIOUS
      <4>1. ahead'[i] = ahead[i + 1] /\ i + 1 \in 1 .. Len(ahead) /\ i \in Nat
        BY <1>1, <2>1
      <4>2. ahead[i + 1] = asked + (i + 1)
        BY <1>1, <2>5, <4>1
      <4>3. QED
        BY <1>1, <4>1, <4>2
    <3>3. QED
      BY <3>1, <3>2
  <2>6. QED
    BY <1>1, <2>2, <2>3, <2>4, <2>5
<1>2. CASE /\ ahead = << >>
           /\ \E n \in Chunk : read' = read + n /\ ahead' = Lines(read + 2, read + n)
           /\ Got(read + 1)
           /\ UNCHANGED <<tty, envKey, input, secrets>>
  <2>1. PICK n \in Chunk : read' = read + n /\ ahead' = Lines(read + 2, read + n)
    BY <1>2
  <2>2. /\ n \in Nat \ {0} /\ read \in Nat /\ read + n <= MaxLines
        /\ tty = "terminal" => n = 1
    BY <2>1 DEF Chunk
  <2>3. /\ ahead' \in Seq(1 .. MaxLines)
        /\ Len(ahead') = n - 1
        /\ \A i \in 1 .. n - 1 : ahead'[i] = read + 1 + i
        /\ n = 1 => ahead' = << >>
    BY <2>1, <2>2, LinesAre
  <2>4. Len(ahead) = 0 /\ asked \in Nat /\ asked <= read
    BY <1>2
  <2>5. CliTypeOK'
    BY <1>2, <2>1, <2>2, <2>3, <2>4
  <2>6. asked' + Len(ahead') <= read'
    BY <1>2, <2>1, <2>2, <2>3, <2>4
  <2>7. ASSUME tty' = "terminal" \/ secrets' = "none"
        PROVE  /\ got' = asked'
               /\ read' = asked' + Len(ahead')
               /\ \A i \in 1 .. Len(ahead') : ahead'[i] = asked' + i
    <3>1. read = asked
      BY <1>2, <2>4, <2>7
    <3>2. got' = asked' /\ asked' = read + 1
      BY <1>2, <3>1
    <3>3. read' = asked' + Len(ahead')
      <4>1. read + n = (read + 1) + (n - 1)
        BY <2>2
      <4>2. Len(ahead') = n - 1 /\ read' = read + n
        BY <2>1, <2>3
      <4>3. QED
        BY <3>2, <4>1, <4>2
    <3>4. ASSUME NEW i \in 1 .. Len(ahead') PROVE ahead'[i] = asked' + i
      <4>1. i \in 1 .. n - 1
        BY <2>3
      <4>2. ahead'[i] = read + 1 + i
        BY <2>3, <4>1
      <4>3. QED
        BY <3>2, <4>2
    <3>5. QED
      BY <3>2, <3>3, <3>4
  <2>8. QED
    BY <2>5, <2>6, <2>7
<1>3. QED
  BY <1>1, <1>2 DEF Scan

\* readSecret takes a line, and from a pipe any line.
LEMMA SecretStep ==
  InputOK /\ ReadSecret => InputOK'
<1> SUFFICES ASSUME InputOK, ReadSecret PROVE InputOK'
  OBVIOUS
<1> USE LinesAssumption DEF InputOK, CliTypeOK, InputInv, Got
<1>1. PICK n \in Chunk : read' = read + n
  BY DEF ReadSecret
<1>2. /\ n \in Nat \ {0} /\ read \in Nat /\ read + n <= MaxLines
      /\ tty = "terminal" => n = 1
  BY <1>1 DEF Chunk
<1>3. tty = "terminal" => Len(ahead) = 0
  OBVIOUS
<1>4. Len(ahead) \in Nat
  OBVIOUS
<1>5. QED
  BY <1>1, <1>2, <1>3, <1>4 DEF ReadSecret

\* Every step keeps the lines in their order.
LEMMA InputKept ==
  InputOK /\ [Next]_vars => InputOK'
<1> SUFFICES ASSUME InputOK, [Next]_vars PROVE InputOK'
  OBVIOUS
<1>1. CASE Scan
  BY <1>1, ScanStep
<1>2. CASE ReadSecret
  BY <1>2, SecretStep
<1>3. CASE UNCHANGED <<tty, read, ahead, asked, got, secrets>>
  BY <1>3 DEF InputOK, CliTypeOK, InputInv
<1>4. CASE Wizard
  BY <1>1, <1>2, <1>3, <1>4 DEF Wizard, Prompt, PromptSecret, SecretAtEnd, Exit, inputVars
<1>5. CASE Register
  BY <1>3, <1>5 DEF Register, RegisterFails, OpenConnection, Connected, NotConnected, inputVars
<1>6. CASE Ask \/ Leave \/ EndInput
  BY <1>1, <1>3, <1>6 DEF Ask, Leave, EndInput, inputVars
<1>7. CASE UNCHANGED inputVars
  BY <1>3, <1>7 DEF inputVars
<1>8. CASE UNCHANGED vars
  BY <1>7, <1>8 DEF vars
<1>9. QED
  BY <1>4, <1>5, <1>6, <1>7, <1>8 DEF Next, Agent

AgentOK == /\ AgentInv
           /\ pc \in Prompts \cup Secrets \cup {"register", "introspecting", "exited"}
           /\ open \in Nat
           /\ pc = "ask" => session = "ready"

\* The wizard's prompts lead to prompts, or to a registration.
LEMMA PromptsLeadOn ==
  ASSUME NEW n, pc \in (Prompts \cup Secrets) \ {"ask"}
  PROVE  NextPrompt(n) \in (Prompts \cup Secrets \cup {"register"}) \ {"ask"}
BY DEF NextPrompt, After, Prompts, Secrets, Fields

\* While the agent leaves Introspect alone, what AgentOK says of it stays.
LEMMA WizardStep ==
  ASSUME AgentOK, pc \in (Prompts \cup Secrets \cup {"register"}) \ {"ask"},
         UNCHANGED <<step, open, session>>,
         pc' \in (Prompts \cup Secrets \cup {"register", "exited"}) \ {"ask"}
  PROVE  AgentOK'
BY DEF AgentOK, AgentInv, OneConnectorForTheSession, Prompts, Secrets, Fields

\* Every step keeps one connector for the session, and none without.
LEMMA AgentKept ==
  AgentOK /\ [Next]_vars => AgentOK'
<1> SUFFICES ASSUME AgentOK, [Next]_vars PROVE AgentOK'
  OBVIOUS
<1>1. CASE Wizard
  <2>1. ASSUME NEW n, Prompt(n) PROVE AgentOK'
    BY <2>1, PromptsLeadOn, WizardStep DEF Prompt, WizardKeeps, schemaVars, inspectVars
  <2>2. ASSUME NEW k, PromptSecret(k) PROVE AgentOK'
    BY <2>2, PromptsLeadOn, WizardStep DEF PromptSecret, WizardKeeps, schemaVars, inspectVars, Secrets
  <2>3. CASE SecretAtEnd
    BY <2>3, PromptsLeadOn, WizardStep DEF SecretAtEnd, WizardKeeps, schemaVars, inspectVars, Secrets
  <2>4. CASE Exit
    BY <2>4, WizardStep DEF Exit, WizardKeeps, schemaVars, inspectVars
  <2>5. QED
    BY <1>1, <2>1, <2>2, <2>3, <2>4 DEF Wizard
<1>2. CASE RegisterFails
  BY <1>2, WizardStep DEF RegisterFails, schemaVars, inspectVars, Prompts
<1>3. CASE OpenConnection \/ Connected \/ NotConnected
  BY <1>3 DEF OpenConnection, Introspect, Connected, NotConnected, AgentOK, AgentInv,
     OneConnectorForTheSession, schemaVars, inspectVars, Prompts, Secrets, Fields
<1>4. CASE Ask \/ Leave \/ EndInput
  BY <1>4 DEF Ask, Leave, EndInput, AgentOK, AgentInv, OneConnectorForTheSession, schemaVars,
     inspectVars, cliVars, Prompts, Secrets, Fields
<1>5. CASE pc = "introspecting" /\ Inspecting /\ UNCHANGED <<inputVars, cliVars>>
  BY <1>5 DEF AgentOK, AgentInv, OneConnectorForTheSession, cliVars, Prompts, Secrets, Fields
<1>6. CASE Change /\ UNCHANGED <<inputVars, cliVars>>
  <2>1. step' = step
    BY <1>6 DEF Change, Drop, Create
  <2>2. QED
    BY <1>6, <2>1 DEF AgentOK, AgentInv, OneConnectorForTheSession, cliVars
<1>7. CASE UNCHANGED vars
  BY <1>7 DEF vars, cliVars, schemaVars, inspectVars, AgentOK, AgentInv, OneConnectorForTheSession
<1>8. QED
  BY <1>1, <1>2, <1>3, <1>4, <1>5, <1>6, <1>7 DEF Next, Agent, Register

-----------------------------------------------------------------------------
(* The theorems.                                                           *)

\* IInv is the sum of the parts.
LEMMA Parts ==
  IInv <=> SchemaInv /\ InputOK /\ AgentOK
BY DEF IInv, SchemaInv, InputOK, AgentOK, TypeOK, CliTypeOK, AgentInv

LEMMA Initial ==
  Init => IInv
<1> SUFFICES ASSUME Init PROVE IInv
  OBVIOUS
<1>1. SchemaInv
  BY SchemaInit DEF Init
<1>2. InputOK
  BY LinesAssumption DEF Init, InputOK, CliTypeOK, InputInv
<1>3. AgentOK
  BY DEF Init, InitSchema, AgentOK, AgentInv, OneConnectorForTheSession, Prompts
<1>4. QED
  BY <1>1, <1>2, <1>3, Parts

LEMMA Inductive ==
  IInv /\ [Next]_vars => IInv'
<1> SUFFICES ASSUME IInv, [Next]_vars PROVE IInv'
  OBVIOUS
<1>1. SchemaInv'
  BY Parts, EachStepIsOne, SchemaKept DEF IInv
<1>2. InputOK'
  BY Parts, InputKept
<1>3. AgentOK'
  BY Parts, AgentKept
<1>4. QED
  BY <1>1, <1>2, <1>3, Parts, PTL

\* The inductive invariant of the agent, its input and the schema it reads.
THEOREM Invariance ==
  Spec => []IInv
BY Initial, Inductive, PTL DEF Spec

\* Type correctness of the agent and of Introspect.
THEOREM Typing ==
  Spec => []TypeOK
BY Invariance, PTL DEF IInv

\* Introspect's schema is one whose columns were all there, with no key that points
\* out of it but to a table created since.
THEOREM SchemasHold ==
  Spec => []SchemaHolds
<1>1. IInv => SchemaHolds
  BY DEF IInv, ColumnsInv, KeysInv, SchemaHolds, Pending
<1>2. QED
  BY <1>1, Invariance, PTL

\* A row of the keys' statement is a pair of a key, or comes of a key of several
\* columns or of a name two constraints share.
LEMMA RowsArePairs ==
  ASSUME NEW row \in KeyRows, row \notin UNION {Pairs(k) : k \in ShownKeys}
  PROVE  \E k \in Constraints : /\ row[1] = k.table
                               /\ \/ Len(k.cols) > 1
                                  \/ \E l \in Constraints \ {k} : l.name = k.name
<1> USE SchemaAssumption
<1>1. PICK u \in Constraints, r \in Constraints :
        /\ u.name = r.name /\ RefListed(r)
        /\ \E f \in ForeignKeys : Listed(f) /\ f.name = u.name
        /\ \E c \in InKey(u.cols), d \in InKey(r.refCols) :
             row = <<u.table, c, r.refTable, d>>
  BY DEF KeyRows
<1>2. row[1] = u.table
  BY <1>1
<1>3. CASE r # u
  BY <1>1, <1>2, <1>3
<1>4. CASE u \notin ForeignKeys \/ ~ Listed(u)
  <2>1. PICK f \in ForeignKeys : Listed(f) /\ f.name = u.name
    BY <1>1
  <2>2. f \in Constraints \ {u}
    BY <1>4, <2>1 DEF ForeignKeys
  <2>3. QED
    BY <1>2, <2>1, <2>2
<1>5. CASE r = u /\ u \in ForeignKeys /\ Listed(u)
  <2>1. /\ u.cols \in Seq(STRING) /\ u.refCols \in Seq(STRING)
        /\ Len(u.cols) = Len(u.refCols)
        /\ u \in ShownKeys
    BY <1>1, <1>5 DEF ForeignKeys, ShownKeys
  <2>2. PICK i \in DOMAIN u.cols, j \in DOMAIN u.refCols :
          row = <<u.table, u.cols[i], u.refTable, u.refCols[j]>>
    BY <1>1, <1>5 DEF InKey
  <2>3. i # j
    BY <2>1, <2>2 DEF Pairs
  <2>4. i \in 1 .. Len(u.cols) /\ j \in 1 .. Len(u.cols) /\ Len(u.cols) \in Nat
    BY <2>1, <2>2
  <2>5. Len(u.cols) > 1
    BY <2>3, <2>4
  <2>6. QED
    BY <1>2, <2>5
<1>6. QED
  BY <1>3, <1>4, <1>5

\* Introspect finds every foreign key that the role is shown, makes up pairs only of
\* keys of several columns and of shared names, and finds none that leads to a
\* table of another owner.
THEOREM KeysFound ==
  Spec => []KeysAreFound
<1>1. ASSUME IInv PROVE KeysAreFound
  <2> SUFFICES ASSUME step = "done", changes = since
               PROVE  /\ \A k \in ShownKeys : Pairs(k) \subseteq keys
                      /\ \A row \in keys \ UNION {Pairs(k) : k \in ShownKeys} :
                           \E k \in Constraints :
                             /\ row[1] = k.table
                             /\ \/ Len(k.cols) > 1
                                \/ \E l \in Constraints \ {k} : l.name = k.name
                      /\ \A row \in keys : row[3] \in Owned
    BY DEF KeysAreFound
  <2>1. keys = {k \in KeyRows : k[1] \in Tables(found)} /\ found = columns
    BY <1>1 DEF IInv, KeysInv, ColumnsInv
  <2>2. keys = KeyRows
    BY <2>1, RowsAreThere
  <2>3. ASSUME NEW k \in ShownKeys, NEW row \in Pairs(k) PROVE row \in KeyRows
    <3> DEFINE both == <<k, k>>
               rows(p) == {<<p[1].table, c, p[2].refTable, d>> :
                             c \in InKey(p[1].cols), d \in InKey(p[2].refCols)}
               named == {p \in Constraints \X Constraints :
                           /\ There(p[1]) /\ There(p[2]) /\ p[1].name = p[2].name
                           /\ p[1].schema = "public" /\ RefListed(p[2])
                           /\ \E f \in ForeignKeys : Listed(f) /\ f.name = p[1].name}
    <3>1. /\ k \in Constraints /\ There(k) /\ k.type = "foreign" /\ k.schema = "public"
          /\ k \in ForeignKeys /\ Listed(k) /\ RefListed(k)
      BY DEF ShownKeys, ForeignKeys
    <3>2. DOMAIN k.cols = DOMAIN k.refCols
      BY <3>1, SchemaAssumption
    <3>3. PICK i \in DOMAIN k.cols : row = <<k.table, k.cols[i], k.refTable, k.refCols[i]>>
      BY DEF Pairs
    <3>4. k.cols[i] \in InKey(k.cols) /\ k.refCols[i] \in InKey(k.refCols)
      BY <3>2, <3>3 DEF InKey
    <3>5. both \in named
      BY <3>1
    <3>6. row \in rows(both)
      BY <3>3, <3>4
    <3> HIDE DEF both, rows
    <3>7. row \in UNION {rows(p) : p \in named}
      BY <3>5, <3>6
    <3>8. QED
      BY <3>7 DEF KeyRows, rows
  <2>4. ASSUME NEW row \in KeyRows PROVE row[3] \in Owned
    BY DEF KeyRows, RefListed
  <2>5. QED
    BY <2>2, <2>3, <2>4, RowsArePairs
<1>2. QED
  BY <1>1, Invariance, PTL

\* Sample values are kept of columns with 1 to 50 distinct ones, and at most 5.
THEOREM FewSamples ==
  Spec => []SamplesAreOfFewValues
<1>1. ASSUME IInv PROVE SamplesAreOfFewValues
  <2> SUFFICES ASSUME NEW s \in samples
               PROVE  s[2] = IF Distinct[s[1]] <= 50 THEN AtMost(Distinct[s[1]], 5) ELSE 0
    BY DEF SamplesAreOfFewValues
  <2>1. Distinct[s[1]] \in Nat /\ s[2] = SampleValues(s[1])
    BY <1>1, SchemaAssumption DEF IInv, SamplesInv
  <2>2. QED
    BY <2>1 DEF SampleValues, Rows, AtMost, sampleCardinalityMax, sampleLimit
<1>2. QED
  BY <1>1, Invariance, PTL

\* Prompts get their lines in order, but for a pipe out of which a secret was read.
THEOREM LinesInOrder ==
  Spec => []PromptsGetTheirLines
<1>1. IInv => PromptsGetTheirLines
  BY DEF IInv, InputInv, PromptsGetTheirLines
<1>2. QED
  BY <1>1, Invariance, PTL

\* The agent has one connector for its session, and none without one.
THEOREM OneConnector ==
  Spec => []OneConnectorForTheSession
BY Invariance, PTL DEF IInv, AgentInv

\* Only changes of the database part a session's schema from it, and only new
\* tables are out of its reach.
THEOREM SessionsAge ==
  Spec => []SessionAgesByChangesOnly
<1>1. ASSUME IInv PROVE SessionAgesByChangesOnly
  <2> SUFFICES ASSUME session = "ready"
               PROVE  /\ changes = since => found = columns
                      /\ \A c \in columns : Answer(c) = "refused" => c[1] \in born
    BY DEF SessionAgesByChangesOnly
  <2>1. step = "done"
    BY <1>1 DEF IInv, AgentInv
  <2>2. /\ Tables(columns) \subseteq Tables(found) \cup born
        /\ changes = since => found = columns
    BY <1>1, <2>1 DEF IInv, ColumnsInv
  <2>3. \A c \in columns : c[1] \in Tables(columns)
    BY DEF Tables
  <2>4. QED
    BY <2>2, <2>3 DEF Answer
<1>2. QED
  BY <1>1, Invariance, PTL

=============================================================================
