------------------------------ MODULE Pipeline ------------------------------
(***************************************************************************)
(* internal/agent/pipeline.go, Pipeline.Run, with the router               *)
(* (internal/rag/llmrouter.go) and the table check                         *)
(* (internal/agent/sql/validate.go) it calls: one question is classified,  *)
(* routed to tables, turned into SQL by the model, checked and executed,   *)
(* with the error of a failed attempt fed into the next one.               *)
(*                                                                         *)
(* The model, the classifier and the executor answer anything at any time. *)
(* Every outside call runs under a context with a deadline, the earlier of *)
(* its own and the one of the whole run; the code between two calls takes  *)
(* no time.  A query is a model value.  All that is told of its text is the *)
(* names the table check finds in it, which need not be the tables that    *)
(* the database reads (ModelText has both).                                *)
(***************************************************************************)
EXTENDS Naturals, Sequences, FiniteSets

CONSTANTS Tables,        \* tables a session's schema may hold
          Ghosts,        \* names the model invents
          Queries,       \* queries the model may write
          NamesSeen,     \* the names the table check finds in each query
          NoQuery,       \* no SQL yet
          TotalSLA,      \* deadlines, in ticks
          RouteTimeout,
          GenTimeout,
          ExecTimeout,
          MaxAttempts

ASSUME PipelineAssumption ==
  /\ Tables \cap Ghosts = {}
  /\ NamesSeen \in [Queries -> SUBSET (Tables \cup Ghosts)]
  /\ NoQuery \notin Queries
  /\ TotalSLA \in Nat
  /\ RouteTimeout \in Nat
  /\ GenTimeout \in Nat
  /\ ExecTimeout \in Nat
  /\ MaxAttempts \in Nat \ {0}

VARIABLES schema,    \* Pipeline.Schema: the tables found when the session began
          pc,        \* what Run waits for, or the step it is at
          now,       \* time since Run was called
          deadline,  \* when the context of the outside call expires
          selected,  \* the tables routing selected
          attempt,   \* Answer.Attempts
          priorErr,  \* the error the next prompt reports
          query,     \* the query of this attempt
          sql,       \* Answer.SQL
          result,    \* the query whose rows are in Answer.Result
          outcome,   \* what Run returned: nil error or an error
          trace      \* Explainability.Stages

vars == <<schema, pc, now, deadline, selected, attempt, priorErr, query, sql,
          result, outcome, trace>>
ansVars == <<attempt, priorErr, query, sql, result, outcome, trace>>

Calls  == {"route", "generate", "execute"}
Stages == {"intent", "routing", "generation", "validation", "execution"}

\* Why a stage failed: the outside call was not answered, the model's answer was
\* of no use, or the answer was checked and refused.
Causes == {"none", "call", "answer", "check"}

\* An error, as far as the loop can tell: the stage and the attempt it is of.
Errors  == [stage : {"validation", "execution"}, attempt : 1..MaxAttempts]
NoError == [stage |-> "none", attempt |-> 0]

\* What the trace may hold.
Entries == [stage : Stages, attempt : 0..MaxAttempts, error : Causes]

Init ==
  /\ schema \in SUBSET Tables
  /\ pc       = "idle"
  /\ now      = 0
  /\ deadline = 0
  /\ selected = {}
  /\ attempt  = 0
  /\ priorErr = NoError
  /\ query    = NoQuery
  /\ sql      = NoQuery
  /\ result   = NoQuery
  /\ outcome  = "none"
  /\ trace    = << >>

-----------------------------------------------------------------------------
(* Helpers.                                                                *)

\* Mutant: the stage's context is not derived from the one of the run.
WithinAlone(t) == now + t

\* context.WithTimeout under the context of the run.
Within(t) == IF now + t < TotalSLA THEN now + t ELSE TotalSLA

\* Pipeline.record: a stage without an error is "ok".
Entry(stage, n, error) == [stage |-> stage, attempt |-> n, error |-> error]

Record(stage, error) == trace' = Append(trace, Entry(stage, attempt, error))

\* A context-aware call can still be answered, or has run out of time.
InTime  == now < deadline
Expired == now >= deadline

StartCall(call, t) == pc' = call /\ deadline' = Within(t)

Return(o) == pc' = "done" /\ outcome' = o /\ UNCHANGED deadline

\* filterKnown and its fallback: invented names are dropped, and nothing left
\* means every table.
Usable(names) == IF names \cap schema = {} THEN schema ELSE names \cap schema

\* Mutant: the loop is left one attempt early.
RetryEarly(e) ==
  /\ priorErr' = e
  /\ \/ /\ attempt + 1 < MaxAttempts
        /\ attempt' = attempt + 1
        /\ StartCall("generate", GenTimeout)
        /\ UNCHANGED outcome
     \/ /\ attempt + 1 >= MaxAttempts
        /\ Return("failed")
        /\ UNCHANGED attempt

\* Mutant: one attempt too many.
RetryLate(e) ==
  /\ priorErr' = e
  /\ \/ /\ attempt <= MaxAttempts
        /\ attempt' = attempt + 1
        /\ StartCall("generate", GenTimeout)
        /\ UNCHANGED outcome
     \/ /\ attempt > MaxAttempts
        /\ Return("failed")
        /\ UNCHANGED attempt

\* Mutant: the next prompt does not report the error.
RetryBlind(e) ==
  /\ UNCHANGED priorErr
  /\ \/ /\ attempt < MaxAttempts
        /\ attempt' = attempt + 1
        /\ StartCall("generate", GenTimeout)
        /\ UNCHANGED outcome
     \/ /\ attempt = MaxAttempts
        /\ Return("failed")
        /\ UNCHANGED attempt

\* The loop goes round, or is over.
Retry(e) ==
  /\ priorErr' = e
  /\ \/ /\ attempt < MaxAttempts
        /\ attempt' = attempt + 1
        /\ StartCall("generate", GenTimeout)
        /\ UNCHANGED outcome
     \/ /\ attempt = MaxAttempts
        /\ Return("failed")
        /\ UNCHANGED attempt

-----------------------------------------------------------------------------
(* Run.                                                                    *)

\* The user asks; the answer of the previous question is not reused.  The
\* question is out of scope, classification fails, there is nothing to route
\* over, or the router's model is called.
Ask ==
  /\ pc \in {"idle", "done"}
  /\ now'      = 0
  /\ selected' = {}
  /\ attempt'  = 0
  /\ priorErr' = NoError
  /\ query'    = NoQuery
  /\ sql'      = NoQuery
  /\ result'   = NoQuery
  /\ \/ /\ trace' = << Entry("intent", 0, "call") >>
        /\ pc' = "done" /\ outcome' = "failed" /\ deadline' = 0
     \/ /\ trace' = << Entry("intent", 0, "none") >>
        /\ pc' = "done" /\ outcome' = "failed" /\ deadline' = 0
     \/ /\ schema = {}
        /\ trace' = << Entry("intent", 0, "none"), Entry("routing", 0, "check") >>
        /\ pc' = "done" /\ outcome' = "failed" /\ deadline' = 0
     \/ /\ schema # {}
        /\ trace' = << Entry("intent", 0, "none") >>
        /\ pc' = "route" /\ outcome' = "none"
        /\ deadline' = IF RouteTimeout < TotalSLA THEN RouteTimeout ELSE TotalSLA
  /\ UNCHANGED schema

\* The model names tables, of this schema or invented.
Routed(names) ==
  /\ pc = "route"
  /\ InTime
  /\ selected' = Usable(names)
  /\ attempt'  = 1
  /\ Record("routing", "none")
  /\ StartCall("generate", GenTimeout)
  /\ UNCHANGED <<schema, now, priorErr, query, sql, result, outcome>>

\* The model's answer holds no JSON array of strings.
RoutingUnparsable ==
  /\ pc = "route"
  /\ InTime
  /\ Record("routing", "answer")
  /\ Return("failed")
  /\ UNCHANGED <<schema, now, selected, attempt, priorErr, query, sql, result>>

\* The call to the model fails, or its context expires.
RoutingCallFails ==
  /\ pc = "route"
  /\ Record("routing", "call")
  /\ Return("failed")
  /\ UNCHANGED <<schema, now, selected, attempt, priorErr, query, sql, result>>

\* Mutant: Answer.SQL keeps the first query.
GeneratedFirstShown(q) ==
  /\ pc = "generate"
  /\ InTime
  /\ query' = q
  /\ sql'   = IF sql = NoQuery THEN q ELSE sql
  /\ Record("generation", "none")
  /\ pc' = "check"
  /\ UNCHANGED <<schema, now, deadline, selected, attempt, priorErr, result, outcome>>

\* The model writes a query.
Generated(q) ==
  /\ pc = "generate"
  /\ InTime
  /\ query' = q
  /\ sql'   = q
  /\ Record("generation", "none")
  /\ pc' = "check"
  /\ UNCHANGED <<schema, now, deadline, selected, attempt, priorErr, result, outcome>>

\* The model's answer holds no SQL.
GenerationEmpty ==
  /\ pc = "generate"
  /\ InTime
  /\ Record("generation", "answer")
  /\ Return("failed")
  /\ UNCHANGED <<schema, now, selected, attempt, priorErr, query, sql, result>>

\* The call fails or its context expires: not self-correctable.
GenerationCallFails ==
  /\ pc = "generate"
  /\ Record("generation", "call")
  /\ Return("failed")
  /\ UNCHANGED <<schema, now, selected, attempt, priorErr, query, sql, result>>

\* Mutant: a rejected query is checked again, not written again.
TablesRejectedSpins ==
  /\ pc = "check"
  /\ ~ (NamesSeen[query] \subseteq selected)
  /\ priorErr' = [stage |-> "validation", attempt |-> attempt]
  /\ UNCHANGED <<schema, pc, now, deadline, selected, attempt, query, sql, result,
                 outcome, trace>>

\* Mutant: a rejected query leaves no entry in the trace.
TablesRejectedSilently ==
  /\ pc = "check"
  /\ ~ (NamesSeen[query] \subseteq selected)
  /\ Retry([stage |-> "validation", attempt |-> attempt])
  /\ UNCHANGED <<schema, now, selected, query, sql, result, trace>>

\* ValidateTables against the selected tables; a failed check is recorded, a
\* passed one is not.
TablesRejected ==
  /\ pc = "check"
  /\ ~ (NamesSeen[query] \subseteq selected)
  /\ Record("validation", "check")
  /\ Retry([stage |-> "validation", attempt |-> attempt])
  /\ UNCHANGED <<schema, now, selected, query, sql, result>>

\* No name the check finds is unknown.
TablesKnown ==
  /\ pc = "check"
  /\ NamesSeen[query] \subseteq selected
  /\ StartCall("execute", ExecTimeout)
  /\ UNCHANGED <<schema, now, selected, ansVars>>

\* The executor returns the rows, of the query with a LIMIT where it had none
\* (SqlGate), which Answer.SQL does not show.
Executed ==
  /\ pc = "execute"
  /\ InTime
  /\ result' = query
  /\ Record("execution", "none")
  /\ Return("answered")
  /\ UNCHANGED <<schema, now, selected, attempt, priorErr, query, sql>>

\* The guard or the database refuses the query, the transport fails or the
\* context expires: all of it is fed back.
ExecutionFails ==
  /\ pc = "execute"
  /\ Record("execution", "call")
  /\ Retry([stage |-> "execution", attempt |-> attempt])
  /\ UNCHANGED <<schema, now, selected, query, sql, result>>

\* Time passes while Run waits; a call does not outlive its context.
Tick ==
  /\ pc \in Calls
  /\ InTime
  /\ now' = now + 1
  /\ UNCHANGED <<schema, pc, deadline, selected, ansVars>>

-----------------------------------------------------------------------------

Answers ==
  \/ \E names \in SUBSET (Tables \cup Ghosts) : Routed(names)
  \/ RoutingUnparsable
  \/ \E q \in Queries : Generated(q)
  \/ GenerationEmpty
  \/ Executed

Failures == RoutingCallFails \/ GenerationCallFails \/ ExecutionFails

Check == TablesRejected \/ TablesKnown

Next == Ask \/ Answers \/ Failures \/ Check \/ Tick

Spec == Init /\ [][Next]_vars

\* Time passes, an expired call returns with its context's error, and the code
\* between two calls runs.  Nobody is assumed to answer.
FairSpec ==
  /\ Spec
  /\ WF_vars(Tick)
  /\ WF_vars(Expired /\ Failures)
  /\ WF_vars(Check)

-----------------------------------------------------------------------------
(* Properties.                                                             *)

TypeOK ==
  /\ schema   \in SUBSET Tables
  /\ pc       \in {"idle", "check", "done"} \cup Calls
  /\ now      \in Nat
  /\ deadline \in Nat
  /\ selected \in SUBSET Tables
  /\ attempt  \in 0..MaxAttempts
  /\ priorErr \in Errors \cup {NoError}
  /\ query    \in Queries \cup {NoQuery}
  /\ sql      \in Queries \cup {NoQuery}
  /\ result   \in Queries \cup {NoQuery}
  /\ outcome  \in {"none", "answered", "failed"}
  /\ trace    \in Seq(Entries)

\* Run is over within the SLA, however the time is spread over one routing and
\* up to MaxAttempts generations and executions.
WithinSLA == now <= TotalSLA /\ deadline <= TotalSLA

\* The SQL shown with an answer is the query that produced its rows (but for the
\* LIMIT the executor may add), in the attempt the answer reports, whatever the
\* attempts before it left behind.
AnswerIsItsQuery ==
  /\ outcome = "answered" => /\ result = sql
                             /\ trace[Len(trace)] = Entry("execution", attempt, "none")
  /\ outcome # "answered" => result = NoQuery

\* The prompt of an attempt reports the failure of the attempt just before it
\* and nothing older; the first prompt reports none.
FeedbackIsFresh ==
  pc = "generate" =>
    IF attempt = 1 THEN priorErr = NoError
    ELSE /\ priorErr.attempt = attempt - 1
         /\ trace[Len(trace)].stage = priorErr.stage
         /\ trace[Len(trace)].attempt = priorErr.attempt
         /\ trace[Len(trace)].error # "none"

\* Run failed, and not because a call to the model did.
Exhausted == outcome = "failed" /\ trace[Len(trace)].stage \in {"validation", "execution"}

\* Every retry is visible in the trace, in its place: behind the entries of
\* intent and routing, each attempt that did not answer the question left one
\* successful generation and, right after it, one failure.
EveryAttemptTraced ==
  \A n \in 1..MaxAttempts : (n < attempt \/ (Exhausted /\ n = attempt)) =>
    /\ Len(trace) >= 2 * n + 2
    /\ trace[2 * n + 1] = Entry("generation", n, "none")
    /\ trace[2 * n + 2] \in [stage : {"validation", "execution"}, attempt : {n},
                              error : {"call", "check"}]

\* A failure that is not of the model's calls is the end only when every one of
\* the MaxAttempts attempts was made.
GivesUpOnlyAtTheLimit ==
  Exhausted => attempt = MaxAttempts /\ priorErr.attempt = MaxAttempts

\* Every question is answered or refused.
EveryQuestionSettles == pc # "done" /\ pc # "idle" ~> pc = "done"

\* The comment on LLMRouter.Route: "a routing miss never kills the query".  When
\* the model did answer the router, the run does not fail because of what the
\* answer holds.
MissNeverKills ==
  outcome = "failed" => trace[Len(trace)] # Entry("routing", 0, "answer")

-----------------------------------------------------------------------------
(* The inductive invariant behind the theorems of PipelineProofs.          *)

\* What Run knows while it waits for each call, and what it has returned.
StageInv ==
  /\ selected \subseteq schema
  /\ pc \in {"idle", "route"} => attempt = 0 /\ priorErr = NoError
  /\ pc \in {"generate", "check", "execute"} => attempt > 0
  /\ pc \in {"check", "execute"} => query \in Queries /\ sql = query
  /\ pc = "done" <=> outcome # "none"

\* How long the trace is while Run waits for each call: two entries before the
\* first attempt, then two for each attempt that failed.
TraceInv ==
  /\ pc = "route" => Len(trace) = 1
  /\ pc = "generate" => Len(trace) = 2 * attempt
  /\ pc \in {"check", "execute"} =>
       /\ Len(trace) = 2 * attempt + 1
       /\ trace[Len(trace)] = Entry("generation", attempt, "none")
  /\ pc = "done" => Len(trace) > 0

IInv ==
  /\ TypeOK
  /\ WithinSLA
  /\ StageInv
  /\ TraceInv
  /\ AnswerIsItsQuery
  /\ FeedbackIsFresh
  /\ EveryAttemptTraced
  /\ GivesUpOnlyAtTheLimit

=============================================================================
