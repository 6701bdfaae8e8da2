------------------------------ MODULE AgentCli ------------------------------
(***************************************************************************)
(* cmd/agent/main.go over session.Register and Connector.Introspect: the   *)
(* wizard, the ask loop, the standard input they read and the ways out.    *)
(*                                                                         *)
(* Standard input is a terminal, which hands out one line at a time, or a  *)
(* pipe, which hands out all it has; lines are known by their number.      *)
(* Calls to the executor get their answer (SessionRegistry loses them).    *)
(***************************************************************************)
EXTENDS Introspection

CONSTANT MaxLines  \* bound: the lines of the input

ASSUME LinesAssumption == MaxLines \in Nat

VARIABLES tty,       \* standard input: "terminal" or "pipe"
          envKey,    \* the API key is in the environment: "set" or "unset"
          read,      \* lines the system has handed out
          ahead,     \* lines in the Scanner's buffer
          input,     \* "open" or "ended"
          asked,     \* history: lines asked for
          got,       \* history: the line that was got last
          secrets,   \* history: "none" or "some" were asked for
          pc,        \* the prompt shown, or what the agent is at
          key,       \* the API key: "none" or "given"
          open,      \* connectors of this agent on the executor
          session    \* "none" or "ready"

inputVars == <<tty, envKey, read, ahead, input, asked, got, secrets>>
cliVars   == <<pc, key, open, session>>
vars      == <<schemaVars, inputVars, cliVars>>

Fields  == {"host", "port", "database", "user"}
Prompts == {"provider", "model", "dialect", "method", "uri", "ask"} \cup Fields
Secrets == {"key", "password"}

Init ==
  /\ InitSchema
  /\ tty     \in {"terminal", "pipe"}
  /\ envKey  \in {"set", "unset"}
  /\ read    = 0
  /\ ahead   = << >>
  /\ input   = "open"
  /\ asked   = 0
  /\ got     = 0
  /\ secrets = "none"
  /\ pc      = "provider"
  /\ key     = "none"
  /\ open    = 0
  /\ session = "none"

-----------------------------------------------------------------------------
(* Standard input.                                                         *)

Lines(a, b) == [i \in 1 .. b - a + 1 |-> a + i - 1]

\* The numbers of the lines one read of the system can hand out.
Chunk == {n \in 1 .. MaxLines - read : tty = "pipe" \/ n = 1}

Got(n) == got' = n /\ asked' = asked + 1

\* Mutant: every prompt has a Scanner of its own.
ScanAlone ==
  \E n \in Chunk : /\ input = "open"
                   /\ read' = read + n
                   /\ ahead' = << >>
                   /\ Got(read + 1)
                   /\ UNCHANGED <<tty, envKey, input, secrets>>

\* bufio.Scanner.Scan: a buffered line, or as many as the system has.
Scan ==
  \/ /\ ahead # << >>
     /\ ahead' = Tail(ahead)
     /\ Got(Head(ahead))
     /\ UNCHANGED <<tty, envKey, read, input, secrets>>
  \/ /\ ahead = << >>
     /\ input = "open"
     /\ \E n \in Chunk : read' = read + n /\ ahead' = Lines(read + 2, read + n)
     /\ Got(read + 1)
     /\ UNCHANGED <<tty, envKey, input, secrets>>

AtEnd == ahead = << >> /\ input = "ended"

\* readSecret: one line of a terminal; of a pipe the first line that the Scanner
\* has not read ahead, with the rest of that chunk lost.
ReadSecret ==
  /\ input = "open"
  /\ \E n \in Chunk : read' = read + n
  /\ Got(read + 1)
  /\ secrets' = "some"
  /\ UNCHANGED <<tty, envKey, ahead, input>>

\* The user leaves, or the writer of the pipe is done.
EndInput ==
  /\ input = "open"
  /\ input' = "ended"
  /\ UNCHANGED <<schemaVars, tty, envKey, read, ahead, asked, got, secrets, cliVars>>

-----------------------------------------------------------------------------
(* The wizard.                                                             *)

\* choose: the default for an empty line, a word, or a number out of range.
Choose(n, max, def) == IF n \in 1 .. max THEN n ELSE def

\* Where the wizard goes from a prompt with one way on.
After == [key |-> "model", model |-> "dialect", host |-> "port", port |-> "database",
          database |-> "user", user |-> "password", password |-> "register",
          uri |-> "register"]

\* Where it goes from each prompt, when n is what the line holds.
NextPrompt(n) ==
  IF pc = "provider" THEN IF Choose(n, 3, 1) = 3 THEN "provider"
                          ELSE IF envKey = "set" THEN "model" ELSE "key"
  ELSE IF pc = "dialect" THEN IF Choose(n, 3, 1) = 1 THEN "method" ELSE "dialect"
  ELSE IF pc = "method" THEN IF Choose(n, 2, 1) = 2 THEN "host" ELSE "uri"
  ELSE After[pc]

WizardKeeps == UNCHANGED <<schemaVars, open, session>>

Prompt(n) ==
  /\ pc \in Prompts \ {"ask"}
  /\ Scan
  /\ pc' = NextPrompt(n)
  /\ key' = IF pc = "provider" /\ envKey = "set" THEN "given" ELSE key
  /\ WizardKeeps

\* The secret may be an empty line.
PromptSecret(k) ==
  /\ pc \in Secrets
  /\ ReadSecret
  /\ pc' = NextPrompt(0)
  /\ key' = IF pc = "key" THEN k ELSE key
  /\ WizardKeeps

\* At the end of the input a secret is empty.
SecretAtEnd ==
  /\ pc \in Secrets
  /\ input = "ended"
  /\ pc' = NextPrompt(0)
  /\ key' = IF pc = "key" THEN "none" ELSE key
  /\ WizardKeeps /\ UNCHANGED inputVars

\* Mutant: a prompt at the end of the input gets an empty line.
ExitLater ==
  /\ pc \in Prompts \ {"ask"}
  /\ AtEnd
  /\ pc' = NextPrompt(0)
  /\ UNCHANGED key
  /\ WizardKeeps /\ UNCHANGED inputVars

\* os.Exit(0): of a prompt at the end of the input.
Exit ==
  /\ pc \in Prompts \ {"ask"}
  /\ AtEnd
  /\ pc' = "exited"
  /\ UNCHANGED key
  /\ WizardKeeps /\ UNCHANGED inputVars

-----------------------------------------------------------------------------
(* Registry.Register.                                                      *)

\* There is no provider without a key.
HasProvider == key = "given"

\* That, or the executor cannot connect.
RegisterFails ==
  /\ pc = "register"
  /\ pc' = "provider"
  /\ UNCHANGED <<schemaVars, inputVars, key, open, session>>

OpenConnection ==
  /\ pc = "register"
  /\ HasProvider
  /\ open' = open + 1
  /\ pc' = "introspecting"
  /\ Introspect
  /\ UNCHANGED <<columns, changes, inputVars, key, session>>

Connected ==
  /\ pc = "introspecting"
  /\ step = "done"
  /\ session' = "ready"
  /\ pc' = "ask"
  /\ UNCHANGED <<schemaVars, inputVars, key, open>>

\* Mutant: the connection stays.
NotConnectedKeeps ==
  /\ pc = "introspecting"
  /\ step = "failed"
  /\ pc' = "provider"
  /\ UNCHANGED <<schemaVars, inputVars, key, open, session>>

\* Mutant: the connection is closed twice.
NotConnectedTwice ==
  /\ pc = "introspecting"
  /\ step = "failed"
  /\ open' = open - 2
  /\ pc' = "provider"
  /\ UNCHANGED <<schemaVars, inputVars, key, session>>

\* The connection is closed, and the wizard begins again.
NotConnected ==
  /\ pc = "introspecting"
  /\ step = "failed"
  /\ open' = open - 1
  /\ pc' = "provider"
  /\ UNCHANGED <<schemaVars, inputVars, key, session>>

-----------------------------------------------------------------------------
(* The ask loop.                                                           *)

\* Pipeline.Run, of a query about one column, routed to all tables: the check knows
\* those of the session, the database its own.
Answer(c) ==
  IF c[1] \notin Tables(found) THEN "refused"
  ELSE IF c \in columns THEN "rows" ELSE "error"

\* A question (whatever its answer, the loop goes on), an empty line, /trace, /tables.
Ask == pc = "ask" /\ Scan /\ UNCHANGED <<schemaVars, cliVars>>

\* /exit, /quit or the end of the input: main returns, and the client is closed.
Leave ==
  /\ pc = "ask"
  /\ Scan \/ (AtEnd /\ UNCHANGED inputVars)
  /\ pc' = "exited"
  /\ UNCHANGED <<schemaVars, key, open, session>>

-----------------------------------------------------------------------------

Wizard ==
  \/ \E n \in 0 .. 3 : Prompt(n)
  \/ \E k \in {"none", "given"} : PromptSecret(k)
  \/ SecretAtEnd \/ Exit

Register == RegisterFails \/ OpenConnection \/ Connected \/ NotConnected

Agent == Wizard \/ Register \/ Ask \/ Leave

Next ==
  \/ Agent
  \/ pc = "introspecting" /\ Inspecting /\ UNCHANGED <<inputVars, cliVars>>
  \/ pc \in {"introspecting", "ask"} /\ Change /\ UNCHANGED <<inputVars, cliVars>>
  \/ EndInput

Spec == Init /\ [][Next]_vars

\* The agent and the database do what they can once nobody is to type any more;
\* the user is not assumed to.
FairSpec ==
  /\ Spec
  /\ WF_vars(input = "ended" /\ Agent)
  /\ WF_vars(pc = "introspecting" /\ Inspecting /\ UNCHANGED <<inputVars, cliVars>>)

-----------------------------------------------------------------------------
(* Properties.                                                             *)

TypeOK ==
  /\ SchemaTypeOK
  /\ tty     \in {"terminal", "pipe"}
  /\ secrets \in {"none", "some"}
  /\ read    \in 0 .. MaxLines
  /\ ahead   \in Seq(1 .. MaxLines)
  /\ tty = "terminal" => ahead = << >>
  /\ asked   \in 0 .. read
  /\ pc \in Prompts \cup Secrets \cup {"register", "introspecting", "exited"}
  /\ open \in Nat
  /\ pc = "ask" => session = "ready"

\* Every prompt gets the line that was written for it, at a terminal always, and from
\* a pipe as long as no secret was asked for: only what the Scanner reads ahead
\* and readSecret does not see puts lines out of order.
PromptsGetTheirLines ==
  tty = "terminal" \/ secrets = "none" => got = asked

\* However often the wizard began again and however the agent ended, it has one
\* connector on the executor for its session, and none without: the ways out close
\* neither, a failed registration closes its own.
OneConnectorForTheSession ==
  open = IF session = "ready" \/ pc = "introspecting" THEN 1 ELSE 0

\* A session knows the tables and columns of a database that was left alone since
\* it was introspected, and no other: nothing of a registration that failed is in it.
\* A column that is there is out of its reach only if its table is new.
SessionAgesByChangesOnly ==
  session = "ready" =>
    /\ changes = since => found = columns
    /\ \A c \in columns : Answer(c) = "refused" => c[1] \in born

\* When the input has ended, the agent ends.
InputEndsTheAgent == input = "ended" ~> pc = "exited"

-----------------------------------------------------------------------------
(* The inductive invariant behind the theorems of AgentCliProofs.          *)

\* Lines are asked for in their order, and none is skipped or left out.
InputInv ==
  /\ asked + Len(ahead) <= read
  /\ tty = "terminal" \/ secrets = "none" =>
       /\ got = asked
       /\ read = asked + Len(ahead)
       /\ \A i \in 1 .. Len(ahead) : ahead[i] = asked + i

\* A session stands for an introspection that is done.
AgentInv ==
  /\ OneConnectorForTheSession
  /\ session \in {"none", "ready"}
  /\ session = "ready" => step = "done" /\ pc \in {"ask", "exited"}
  /\ step = "done" => session = "ready" \/ pc = "introspecting"

IInv == TypeOK /\ ColumnsInv /\ KeysInv /\ SamplesInv /\ InputInv /\ AgentInv

=============================================================================
