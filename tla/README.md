# A TLA+ model of QueryLynx

QueryLynx answers questions in natural language from a PostgreSQL database.
Two processes take part: the *agent* (`src/cmd/agent`) talks to the user and to
a language model, and the *executor* (`src/cmd/executor`), an MCP server, holds
the database connections and is the only one to run SQL. This directory holds
TLA+ modules for the parts of the two in which order, failure or concurrency
matter, TLC runs on small instances, and theorems checked by TLAPS for
instances of any size.

To check a run: `tlc -config <name>.cfg <Module>.tla` (the module of each run
is in the table below). To check the proofs: `tlapm <Module>Proofs.tla`, and `tlapm TextLemmas.tla`.

## The system

```
 user -- wizard, ask loop (cmd/agent)
            |  Register, Close              one question
            v                                    v
      session.Registry -- makes --> agent.Pipeline.Run -- llm.Provider (HTTP)
            |   OpenConnection, Introspect,      |  ValidateAndExecute
            |   CloseConnection                  |
            +------ executorclient.Client -------+
                          |  MCP over HTTP: calls may be lost or answered late
                          v
      executor.Service: map id -> Connector, under a sync.RWMutex
                          |  New, Introspect, Validate, Execute, Close
                          v
      postgres.Connector: pgxpool + safety.Guard --> PostgreSQL
```

| Part | State | Operations | What is hard | What makes it correct |
|---|---|---|---|---|
| Executor service (`internal/executor`) | `conns`, `mu`; each connector's pool | open, introspect, validate-and-execute, close, each call on a goroutine of its own | a connector used after the unlock while another call replaces or closes it; the write lock held while a pool drains; two opens of one id | no pool is lost or closed under a query; a query stays on its id; every call returns |
| Postgres connector (`internal/connector/postgres`) | a pool; per connection a transaction, a timeout, settings | `New`, `Introspect`, `Execute`, `Close` | every way out of a query must undo what it began; a query of any kind may come in | nothing is written; connections go back clean; a query ends by itself |
| Guard and LIMIT (`internal/safety`, `Validate`) | none | text in, text or error out | text functions against a lexer with comments, literals and parentheses | what passes is one statement that begins with SELECT or WITH; a LIMIT bounds it |
| Pipeline (`internal/agent/pipeline.go`) | the answer, its trace, the last error, deadlines | `Run` | three attempts, two sources of feedback, nested deadlines, partial answers | the SLA; answer, SQL and trace belong together; every question settles |
| Router, Text2SQL, table check (`internal/rag`, `internal/agent/sql`) | none | text in, names, SQL or error out | answers of a model in any form; regular expressions against SQL | a miss does not end the question; a named table is selected; which fenced query is not taken out whole, which invented table passes and which real one is refused is known |
| Session registry and client (`internal/session`, `internal/executorclient`) | `sessions`; the MCP session | `Register`, `Get`, `Close`, the four tool calls | lost, late and unanswered calls; a restart of the executor; two maps that must agree | sessions are backed by connectors; nothing leaks |
| Interactive agent (`cmd/agent`) | the Scanner on standard input, the API key, the current session | wizard, ask loop | two readers of one input, menus that repeat, exits without closing | a prompt gets its line; one connector for one session; the end of the input ends the agent |
| Introspection (`Connector.Introspect`) | the schema built so far | one statement for columns, one for keys, one for each table and each column | no common snapshot; a database that changes meanwhile; keys joined by name; views that show a role only some of them | what it returns was there; no key is missed of those the role is shown |
| LLM providers (`internal/llm`) | none | one request, one reply | replies without text, in blocks, cut short | a reply without text is an error |
| Prompts, redaction, protocol types, demo database | none | text | - | - |

## Modules

### ExecutorService, PoolLifecycle, CallEffects

`ExecutorService` models `service.go` with the part of the connector that has to
do with pools. A *handler* is the goroutine that serves one tool call, and its
`pc` names the next thing it does that another goroutine could notice: connect,
ping, take the lock (`lockOpen`, `lockClose`, `lookup`), start to close a pool,
wait until it is drained, store the new connector, borrow a connection, run a
statement. `conns` is the map, `writer` the holder of the write lock; the read
lock is held for a single map access, so a lookup is one step that needs the
write lock free. `phase` and `users` stand for `pgxpool.Pool`: `Close` first
refuses new loans (`closing`), then waits for the borrowed connections.
`cancelled` has the handlers whose client gave up; only code that consults the
context sees it.

`OpenConnection` is `ConnectPool`/`ConnectFails`, `PingOk`/`PingFails`,
`LockOpen`, then `StartClose` and `FinishClose` of the connector it replaces,
then `Assign`, all under the lock. `CloseConnection` is `LockClose`, `StartClose`,
`FinishClose`. `Introspect` and `ValidateAndExecute` are `Lookup`, `Validate`,
then `Acquire`, `QueryDone`/`QueryFails` for each statement; a validate-and-execute
is one borrowed connection with its whole transaction (ReadOnlyTx looks inside).

`PoolLifecycle` is the promise, without locks: a pool is opened for one id, is
private until published, serves its id alone, is retired once, and closed when
its last user is gone. `PoolsLiveOneLife` states that the service implements it.
The refinement mapping computes the stage of a pool: an open one is private as
long as its `OpenConnection` has not returned it to the map, and serving after.

`CallEffects` is the promise to callers, without connectors: each call takes effect
on the registered ids at one moment between its arrival and its reply. `CallsTakeEffectAtOnce`
says that the service implements it; the moment is `Assign` for an open, `LockClose` for
a close (whose pool drains after it) and `Lookup` for a query. This is what allows
`SessionRegistry` to serve a request in one step (`ServeOpen`, `ServeClose`,
`ServeIntrospect`, which have the effects of `Open`, `Close` and `Find` with `Finish`).

### ReadOnlyTx

`Execute`, and one statement of `Introspect`, on the connections of a pool. PostgreSQL
is modelled as far as `Execute` relies on it: a read-only transaction refuses
changes, the ones a rollback would not undo (sequences) included; what a
transaction changes (`pending`) or sets for its session (`session`) is undone when it
is rolled back. Session advisory locks, which are not, are left out. The role is
assumed to be allowed to write, which is the case the code's comment is about.
Statements come in five kinds: harmless ones, writes, sequence draws, settings, and
those that do not end. A context that is done, or a broken connection, abandons a
statement at any point; the pool replaces that connection. The deferred rollback is
`Rollback`. Two calls hold two connections at a time, as the query of one attempt and
that of the next do whose predecessor was given up.

### SqlGate

`Guard.Check` and `Connector.Validate`. A query is a sequence of pieces (the words
the checks look for, another word, semicolon, comment mark, end of line, quote,
parentheses). `Check` and `WithLimit` are the code's text functions; `Mode`, `Code`
and `Limited` are what PostgreSQL reads in the same pieces. Pieces are separate
words: that `SELECT(1)` is refused because its first field is not `SELECT` is
outside the model. `PassedIsOneRead` is about the query itself, and about its first
word: behind a second semicolon the LIMIT that `WithLimit` appends is a statement of
its own, which PostgreSQL refuses with the whole, and a WITH may hold a DELETE, which
only the read-only transaction stops (`NothingWritten`).

### Pipeline

`Pipeline.Run`, with the router and the table check it calls. `pc` is the outside
call `Run` waits for (`route`, `generate`, `execute`) or the table check; `now` and
`deadline` are the time since the question was asked and the end of the current
call's context; `Within` is `context.WithTimeout` under the 30 s context. An
outside call is answered only before its deadline, may fail at any time, and
must fail once the deadline has passed. Errors are reduced to the stage and attempt
they come from, so that stale feedback is visible; the trace keeps stage,
attempt and cause of every entry, in order. The classifier may refuse or fail,
as its interface allows, although the stub never does.

The table check is the set of names it finds in a query (`NamesSeen`), which may be
fewer or more than the tables of the query: that no unknown table gets to the database
is not a property of `Run`, and what the check makes of a text is `TableCheck`'s
subject. The executor runs the query with a LIMIT where it had none.

### SessionRegistry

`Register` and `Close` of the registry over the client's calls, with the executor
reduced to the keys of its map. A call is a request under way and an answer.
The transport may report an error at any time and leave the request under way,
lose it, or serve it after its caller is gone; the executor may restart once with
an empty map, after which the client's MCP session takes no more requests
(nothing dials again). `progress` keeps how far each registration got: ids are
random and 64 bits long, and are taken to be new each time.

`ClosedStaysClosed` holds of every id, those with lost calls included: an id is closed
only by a caller whose open was answered, so that no open of it is still under way. What a
late open does leave is a connector without a session, which `LeaksOnlyByLostCalls` allows
for ids with a lost call and for no others.

### LlmProvider, TableCheck, AnswerText, ModelText

What `Pipeline` leaves to chance (which tables are named, which query comes, why
it is refused) these compute. `LlmProvider` has what the two providers make of a
reply: content blocks put together, or the first choice. `AnswerText` has the
router's array between the first and the last bracket, the map of names in lower
case, the fallback to all tables, and `extractSQL`. `TableCheck` writes a
query down as text (`Text`) and looks in it for what `cteRe` and `fromJoinRe` match,
beside what PostgreSQL reads in the same query (`Reads`, `InScope`, `Folded`, `Exists`).

A query is the part of the grammar that names tables. Its CTEs have six kinds of heads
(plain, RECURSIVE, with a column list, MATERIALIZED, quoted, glued to their comma). Its
sources stand behind FROM or JOIN, in a subquery, perhaps a LATERAL one, or behind
a comma, ONLY, a parenthesis, a comment or TABLE. A reference has one of seven forms, a
schema and a name; of a name `Beginning` is what `[\w.]+` finds of it, which ends at a
hyphen as it does at a space or any other such character. Left out are ROWS FROM, the
WINDOW clause, CTEs that change data, and identifiers that hold a dot or one of the
words the expressions look for. A text is a sequence of pieces; names that differ in case
are kept apart as far as `strings.ToLower` and PostgreSQL's folding do. `NoName` is the
empty string, which is what is left of a name cut off at its quote.

`ModelText` judges one reply or one query in a behaviour, as a state of its own.
Its passing properties say exactly which text of these kinds is misread:

* An invented table, or one of another schema, passes where the expressions do not look:
  behind a comma (`from cars, ghost`), in parentheses (`from (ghost join ...)`), behind a
  comment, after TABLE, or as a quoted name behind a qualifier (`public."ghost"`). It
  passes under another name: without its qualifier (`old.cars`), as its beginning
  (`"cars-old"` is read as `cars`, `"-x"` as nothing), in the other case between quotes
  (`"Cars"`), as a qualifier in quotes (`"public".ghost` where a CTE is called
  `public`), or by the name of a CTE that is out of its reach.
* A query over tables that exist is refused for `extract(... from ...)` and other
  FROMs that name no table; for ONLY and LATERAL, which are taken for tables; for a
  function in FROM; for a quoted qualifier (`"public"."cars"`, `"public".cars`); for a name
  with other characters than letters, digits and underscores (`"order-items"` is read as
  `order`); and for a CTE behind `WITH RECURSIVE`, with a column list, with `MATERIALIZED`,
  in quotes, or with no space after the comma before it.
* SQL in a fence loses its first line if that is one word on the line of the fence
  (`` ```SELECT `` and the rest below it). A tag that is no word (`` ```sql: ``), or
  has SQL on its own line or none behind it, is left in front of the SQL.
* An answer that `max_tokens` cuts short is taken for the whole query.
* Of two tables alike but for their case the router can select only the later one.

An invented table that passes the check fails in the database, as an attempt of
`Pipeline`; a table of another schema, or one that routing left out, is queried.

### Introspection

`Introspect`, one step for each statement, over a database in which others drop and
create tables and columns in between. `step` is the stage, `todo` holds the
statements about tables and columns that have yet to be sent (`Place` gives their
order), `found`, `keys` and `samples` are the result. A statement whose table or
column is gone fails and with it the whole call. `vanished` and `born` are
history: what was dropped before its own statement, and which tables are new.

`KeyRows` is the join of `introspectForeignKeys` by constraint name alone, over what
`information_schema` shows the role: `table_constraints` has those of tables it owns or may
do more with than SELECT (`Owned`, `Granted`), `constraint_column_usage` the columns of
tables it owns, in the schema asked for. A key to another owner's table, or into another
schema, is therefore not found, without an error; and the role that
`deploy/supabase/setup.sql:207-211` creates for the executor, which owns nothing, finds no
foreign key at all. `KeysAreFound` says both, for any roles and keys: what is shown whole
is found, and nothing leads to a table the role does not own.

### AgentCli

`cmd/agent/main.go` with `Register`'s own control, EXTENDing `Introspection`. `pc` is
the prompt shown or the call made. A line of the input is its number; `ahead` is the
Scanner's buffer, `read` what the system has handed out: a terminal hands out
one line, a pipe what it has. `ReadSecret` reads past the buffer, as a terminal's
`ReadPassword` and the fallback reader of `readSecret` both do; the fallback drops what it
buffered. The input may end at any point. What a line holds is chosen by the wizard's
actions (an empty line, a number, anything else). Calls to the executor are answered
here: what lost ones do is `SessionRegistry`'s subject.

The two modules show what follows of a session's schema being read once:
`Answer` is `refused` for a table created since and `error` for a column dropped
since, and for nothing else. `OneConnectorForTheSession` says of the exits that
none closes the session's connector (`Registry.Close` is called by no one), so
that it stays in the executor until that restarts.

## Runs

| Run | Module | What it shows |
|---|---|---|
| `executor_calls` | MCExecutorService | three concurrent calls over two ids: `NoOrphanPool`, `LookupFindsOpenPool`, `QueryStaysHome`, and the refinements `PoolsLiveOneLife` and `CallsTakeEffectAtOnce` |
| `executor_liveness` | MCExecutorService | three concurrent calls on one connector: `LoansEndWithTheStatement`, and that every call returns |
| `pipeline_run` | MCPipeline | `WithinSLA`, `AnswerIsItsQuery`, `FeedbackIsFresh`, `EveryAttemptTraced`, `GivesUpOnlyAtTheLimit`, `EveryQuestionSettles` |
| `session_safety` | MCSessionRegistry | `SessionsAreBacked`, `LeaksOnlyByLostCalls`, `ClosedStaysClosed` under every fault of transport and executor |
| `tx_pool` | ReadOnlyTx | `NothingWritten`, `ReturnedConnectionsAreClean`, `QueriesAreConfined`, `QueriesEnd` |
| `gate_checks` | SqlGate | `PassedIsOneRead`, `OwnLimitIsKept`, and exactly where the appended LIMIT is lost |
| `model_text` | MCModelText | `TextlessIsAnError`, `NamedTablesAreSelected`, `FencedSqlIsExtracted`, `InventedTablesPassOnlyUnseen`, `RealTablesAreRefusedOnlyMisread` |
| `agent_cli` | MCAgentCli | `SchemaHolds`, `KeysAreFound`, `SamplesAreOfFewValues`, `PromptsGetTheirLines`, `OneConnectorForTheSession`, `SessionAgesByChangesOnly`, `InputEndsTheAgent` |
| `pipeline_routing_miss` | MCPipeline | finding 1 |
| `session_leak` | MCSessionRegistry | finding 2 |
| `tx_unbounded_statement` | ReadOnlyTx | finding 3 |
| `gate_limit` | SqlGate | finding 4 |

### Findings

1. **A routing miss can end the question.** `llmrouter.go:27-28` promises that it never
   does, and names the tables or none do fall back to every table; an answer
   without a JSON array of strings is an error that `Run` returns.
2. **A failed registration can leave its connector behind.** `session.go:55-56` says it
   is closed. The result of that `CloseConnection` is ignored, and it uses the
   context and the transport that may just have failed.
3. **Not every statement is bounded.** `README.md:32-33` says that every query runs
   read-only with a `statement_timeout`. The statements of `Introspect` have
   neither, and count and scan whole tables under a context that, in
   `Register`, has no deadline.
4. **A query can pass without a LIMIT that bounds it.** `postgres.go:206-207` says one
   is injected when the query has none. A trailing comment swallows it, a second
   trailing semicolon cuts it off, and the word `limit` in a literal, a comment or a
   subquery prevents it. `gate_checks` shows that there is no other way.

### Bounds

* `executor_calls`: `Pools` is the number of successful dials in a behaviour: three for
  three calls on one id let one pool serve a query, a second replace it and a
  third race with both. `PoolSize` 1 makes every pool a full one. Two ids (and the
  empty one) are enough for a call on one to meet a pool of the other. One statement to
  an introspection is enough here; the order of calls on one pool is not the point.
* `executor_liveness`: one connector, three calls. While one query holds the only
  connection, another call queues on the pool, and a third is a Close that waits with the
  lock in its hands; or the other queues on the lock behind that Close. `MaxQueries` 2 lets the
  Close come between two statements of one introspection.
* `pipeline_run` has the source's figures in ticks of five seconds (30, 15, 15 and
  10 s; three attempts). One query for each case the check distinguishes: it finds a
  routed table in it, one that routing may have left out, or an invented name.
* `session_safety`: two goroutines and three ids, so that an id can be closed, late
  and lost while two more are registered. Requests are a set: the code never
  has two equal ones under way.
* `tx_pool`: two calls and two connections: what one call leaves on a connection the
  next borrower of it finds, while the other connection is in use or is not.
* `gate_checks`: five pieces hold a LIMIT in a subquery, a statement behind a
  literal that holds a semicolon, and a word after a comment and its end of line.
* `model_text`: five pieces hold an array of two names with prose or a stray bracket
  before or behind it. Generated answers have at most one fence with every tag the
  code tells apart, and SQL with a first line of one word or of more, cut anywhere. A
  query has up to two CTEs (one can be in or out of the other's scope) and up to two
  sources, the second behind any link, with one reference for each form and each reason
  to be known or not, other schemas and cut names included; one CTE is called `public`,
  which is what the first expression finds in a reference whose qualifier is quoted.
* `agent_cli`: ten lines are two wizards with a database given by its URI, the first
  of which fails, or one with the database given field by field and a question, or one by
  URI and several questions; two tables of two columns
  carry a key of two columns, a name shared by two foreign keys and a unique
  constraint, with one more key into another schema, and 5, 6, 50 and 51 distinct values;
  the role owns one of the tables and may change the other. Two changes drop and create a table
  or a column again. Changes are taken while the agent introspects or asks: before
  that they only change what is found there.

### Fairness

`executor_liveness` assumes strong fairness of what a goroutine does by itself
(`Step`), taking the lock and borrowing a connection included: `sync.RWMutex` blocks new
readers once a writer waits and hands over to waiting readers when the writer is done, and
the semaphore of a pool serves its waiters in order, so that neither overtakes a waiter
for ever. Nothing is assumed of the database: a statement of `Introspect` has no
timeout (finding 3), so `EveryCallReturns` is an implication. If no call waits for the
database for ever, every call returns, those queued behind a Close too.
`pipeline_run` assumes that time passes, that a call whose context has expired
returns, and that the code between two calls runs; nobody is assumed to answer.
`tx_pool` assumes that PostgreSQL ends a statement by itself or by its timeout and
that a call whose context is done returns. No client is assumed to give up.
`agent_cli` assumes that the agent goes on once the input has ended, and that
every statement of `Introspect` is answered or fails; nobody is assumed to type, nor a
registration to succeed.

Deadlock is checked in the executor, pipeline and transaction runs. It is not in
`session_safety`, where the ids run out and the executor stays down once
restarted, in `agent_cli`, which ends with the agent's exit, nor in the runs of SqlGate
and ModelText, where a text is judged once.

## Proofs

| Module | Theorems |
|---|---|
| `ExecutorServiceProofs` | `Invariance`, `Typing`, `NoPoolIsOrphaned`, `LookupsFindOpenPools`, `QueriesStayHome`, `LoansEnd`, `Refinement`, `Atomicity` |
| `PipelineProofs` | `Invariance`, `Typing`, `SLAHolds`, `AnswersAreTheirQuery`, `FreshFeedback`, `Traced`, `LimitReached` |
| `ReadOnlyTxProofs` | `Invariance`, `Typing`, `DatabaseUnchanged`, `CleanConnections`, `Confinement` |
| `SessionRegistryProofs` | `Invariance`, `Typing`, `SessionsBacked`, `LeaksExplained`, `NoReopening` |
| `SqlGateProofs` | `GateInvHolds`, `PassedIsOneReadHolds`, `OwnLimitIsKeptHolds`, `LimitIsLostOnlyAtTheEdgesHolds` |
| `ModelTextProofs` | `TextInvHolds`, `TextlessIsAnErrorHolds`, `NamedTablesAreSelectedHolds`, `FencedSqlIsExtractedHolds`, `InventedTablesPassOnlyUnseenHolds`, `RealTablesAreRefusedOnlyMisreadHolds` |
| `AgentCliProofs` | `Invariance`, `Typing`, `SchemasHold`, `KeysFound`, `FewSamples`, `LinesInOrder`, `OneConnector`, `SessionsAge` |

`TextLemmas` has what `SqlGateProofs` and `ModelTextProofs` share.

The only assumptions are those on the constants in the modules (`ExecutorAssumption`,
`PipelineAssumption`, `TxAssumption`, `RegistryAssumption`, `SchemaAssumption`,
`LinesAssumption`, `QueryAssumption`): special values are not members of the sets they
stand beside, bounds are numbers, a foreign key has as many columns as it refers to,
references have names, one without a qualifier means public's, and a CTE's name is as
PostgreSQL folds it, in quotes or not. Each argument has the same form: an inductive invariant `IInv`, a conjunction of named
parts that TLC checked as an invariant before the proof (the theorem stands for it
since, so that the configurations name the properties only); one lemma for each part,
or for each group of steps, that says what keeps it; and `Spec => []IInv` from those.

* *Executor.* `NoOrphanPool` and the refinement need to know who may touch a pool.
  `LockInv` ties the lock to the places between Lock and Unlock; `OpenerInv` says
  that a pool in the hands of its opener is unknown to everybody else;
  `EntryInv` that an entry is open but while its own `OpenConnection`
  replaces it; `VictimInv` that what is closed is the entry of that id, which is why no
  pool is closed twice. `Refinement` then takes each step to one of
  PoolLifecycle or to none: `Assign` publishes, `StartClose` retires, lookups and
  lock steps stutter. That `Assign` may publish is where the lock matters: the
  entry it overwrites was closed under the same lock. `Atomicity` takes each step to
  one of CallEffects or to none; it needs only what the locals hold.
* *Pipeline.* `TraceInv` gives the length of the trace at each `pc` (two entries before
  the first attempt, two for each failed one), from which the place of every entry
  follows. `WithinSLA` needs no relation between the stages' deadlines and the
  total: it holds for any.
* *Transactions.* `HoldInv` says who holds a connection and that no two do; with it a
  statement finds the transaction its own call began, and only a free connection
  must be clean.

* *Registry.* `OwnerInv` says that a registration works on an id no other caller has, since
  it is drawn new; `RequestInv` that a request still under way belongs to a caller who waits
  for it, or to an id with a call that was not answered; `AnswerInv` what an answer says
  of the executor's map at the time it is read, and not only when it was sent. A late
  `CloseConnection` finds no session of its id, which is why it can take no connector
  from under one.
* *Agent.* `ColumnsInv` says that what was dropped since the columns were read is
  still to be asked for, so that a schema is complete only if it was all there;
  `KeysInv` and `SamplesInv` what the results are of; neither depends on the order
  of the statements. `InputInv` says that at a terminal, or before any secret, what was
  asked for and what the buffer holds are the lines read so far, in their order.
  `AgentInv` ties session, connector and introspection together. `KeysFound` needs
  `RowsArePairs`: a row of the join that no key has as a pair comes of two
  constraints of one name or of one with several columns.

* *Guard and LIMIT.* `GateInv` only says which query a verdict is about; the theorems
  are about text. Every query is ends of lines and semicolons around a part that begins
  and ends with a piece (`TrimmedPart`). PostgreSQL's modes are defined by recursion over
  the query; `ModesExist` and `ModesAgree` argue from the least index at which they could
  fail. Then a piece of the code is the piece of the text (`CodeIsThePiece`), so
  that a second statement in the code would be a second part of the text, and a LIMIT in the
  code is a word the expression finds. The converse of neither holds, which is why
  the edges of `LimitIsLostOnlyAtTheEdges` exist.
* *Text of a model.* `TextInv` says that a verdict is what the functions make of the
  reply's text. For the router, the least `[` and the largest `]` of an answer are the
  ends of an array or the answer is refused (`ParsedIsAnArray`, `ArrayIsParsed`). For the
  generator, `Fenced` gives the place of every piece in an answer that is not the SQL
  alone, and the proof follows `extractSQL` through an answer cut off at any of them:
  trimming keeps a beginning (`FenceIsReached`), what is behind the fence stands where it
  stood (`BehindFence`), and of its first line a tag goes (`TagIsDropped`), a word of SQL
  goes (`WordIsDropped`), anything else stays (`LineIsKept`). For the
  check, a query's text is tiled by the texts of its CTEs and sources
  (`FlattenTiled`), of which none begins in the middle of a match (`Holds`): so
  what FROM and JOIN read in the whole is what they read in a part (`PartsHold`), and
  the other way round (`WholeReads`).

The texts of the theorems are bounded less than those of the runs: queries of
`SqlGate` and answers to the router are of any length, references and the lists of
CTEs and sources are any that satisfy `QueryAssumption`. Names of tables and the shapes of
a fenced answer are in the model itself, and so the same in both.

Model-checked only: the liveness properties (`EveryCallReturns`,
`EveryQuestionSettles`, `QueriesEnd`, `InputEndsTheAgent`), which are out of the
prover's reach. Induction is used in one form, the least counterexample
(`LeastOfNat`), since the library's induction theorems cannot be instantiated.

## Not modelled

* What leaves no trace in another step: the wording of prompts, the printing of tables
  and traces, the redaction of DSNs (and `RedactKey`, which nothing calls), headers and
  model ids of the providers, the JSON of tool results, the value conversion of
  `normalize`.
* `src/cmd/executor`: flags and a listener. Its end is `Restart` of SessionRegistry.
* The demo database. `ReadOnlyTx` assumes a role that may write, `Introspection` is about
  any role.
* Recovery of a session whose executor restarted: there is none in the code, and the
  registry's properties exempt the ids a restart wiped.
* Two processes of the agent on one executor: ids are random, so that they do not
  meet but in the pools of the database.

## What is left

The composition of `Pipeline` over `ExecutorService`. `execTimeout` is as long as the
executor's `statement_timeout`, so that the next attempt's query may run beside the
last one's, with only the pool to bound them. The parts are joined by what each shows
of its side: `QueriesEnd` and `QueriesAreConfined` are about any number of such queries, and
`CallsTakeEffectAtOnce` lets `SessionRegistry` have an executor that serves a call in one
step. Its lost calls and its restart are not in `ExecutorService`.
