--------------------------- MODULE PipelineProofs ---------------------------
(***************************************************************************)
(* Theorems about Pipeline, for any tables, queries, timeouts and number   *)
(* of attempts.  IInv is inductive; each of its parts has a lemma that     *)
(* says which other parts its preservation rests on.                       *)
(***************************************************************************)
EXTENDS Pipeline, TLAPS

-----------------------------------------------------------------------------
(* The trace.                                                              *)

\* Recording a stage adds its entry at the end and moves none.
LEMMA Recorded ==
  ASSUME TypeOK, NEW stage \in Stages, NEW error \in Causes, Record(stage, error)
  PROVE  /\ Len(trace') = Len(trace) + 1
         /\ trace'[Len(trace')] = Entry(stage, attempt, error)
         /\ \A k \in 1..Len(trace) : trace'[k] = trace[k]
  BY DEF TypeOK, Record, Entry, Entries

\* A question starts a trace of its own, and ends it there when it is out of
\* scope or there is nothing to route over.
LEMMA FirstEntries ==
  ASSUME Ask
  PROVE  /\ trace' \in Seq(Entries)
         /\ Len(trace') = 1 \/ (Len(trace') = 2 /\ pc' = "done")
         /\ trace'[Len(trace')].stage \in {"intent", "routing"}
<1> USE PipelineAssumption DEF Entry, Entries, Stages, Causes
<1>1. CASE trace' = << Entry("intent", 0, "call") >>
  BY <1>1
<1>2. CASE trace' = << Entry("intent", 0, "none") >>
  BY <1>2
<1>3. CASE /\ pc' = "done"
           /\ trace' = << Entry("intent", 0, "none"), Entry("routing", 0, "check") >>
  BY <1>3
<1>4. QED
  BY <1>1, <1>2, <1>3 DEF Ask

-----------------------------------------------------------------------------
(* Each part of the invariant is kept by every step.                       *)

\* Every step keeps every variable in its type; the attempts are counted up to
\* MaxAttempts and no further.
LEMMA TypeStep == TypeOK /\ StageInv /\ [Next]_vars => TypeOK'
<1> USE PipelineAssumption DEF TypeOK, StageInv, Calls, Stages, Causes, Errors,
        Entries, NoError, ansVars, Entry, Record, Return, StartCall, Within, InTime
<1> SUFFICES ASSUME TypeOK, StageInv, [Next]_vars
             PROVE  TypeOK'
  OBVIOUS
<1>1. CASE Ask
  BY <1>1, FirstEntries DEF Ask
<1>2. CASE \E names \in SUBSET (Tables \cup Ghosts) : Routed(names)
  BY <1>2 DEF Routed, Usable
<1>3. CASE RoutingUnparsable
  BY <1>3 DEF RoutingUnparsable
<1>4. CASE RoutingCallFails
  BY <1>4 DEF RoutingCallFails
<1>5. CASE \E q \in Queries : Generated(q)
  BY <1>5 DEF Generated
<1>6. CASE GenerationEmpty
  BY <1>6 DEF GenerationEmpty
<1>7. CASE GenerationCallFails
  BY <1>7 DEF GenerationCallFails
<1>8. CASE TablesRejected
  BY <1>8 DEF TablesRejected, Retry
<1>9. CASE TablesKnown
  BY <1>9 DEF TablesKnown
<1>10. CASE Executed
  BY <1>10 DEF Executed
<1>11. CASE ExecutionFails
  BY <1>11 DEF ExecutionFails, Retry
<1>12. CASE Tick
  BY <1>12 DEF Tick
<1>13. CASE UNCHANGED vars
  BY <1>13 DEF vars
<1>14. QED
  BY <1>1, <1>2, <1>3, <1>4, <1>5, <1>6, <1>7, <1>8, <1>9, <1>10, <1>11, <1>12,
     <1>13 DEF Next, Answers, Failures, Check

\* No deadline lies beyond the one of the run, and time stops at a deadline.
LEMMA SLAStep == TypeOK /\ WithinSLA /\ [Next]_vars => WithinSLA'
<1> USE PipelineAssumption DEF TypeOK, WithinSLA, Calls, Stages, Causes, Errors,
        Entries, NoError, ansVars, Entry, Record, Return, StartCall, Within, InTime
<1> SUFFICES ASSUME TypeOK, WithinSLA, [Next]_vars
             PROVE  WithinSLA'
  OBVIOUS
<1>1. CASE Ask
  BY <1>1 DEF Ask
<1>2. CASE \E names \in SUBSET (Tables \cup Ghosts) : Routed(names)
  BY <1>2 DEF Routed, Usable
<1>3. CASE RoutingUnparsable
  BY <1>3 DEF RoutingUnparsable
<1>4. CASE RoutingCallFails
  BY <1>4 DEF RoutingCallFails
<1>5. CASE \E q \in Queries : Generated(q)
  BY <1>5 DEF Generated
<1>6. CASE GenerationEmpty
  BY <1>6 DEF GenerationEmpty
<1>7. CASE GenerationCallFails
  BY <1>7 DEF GenerationCallFails
<1>8. CASE TablesRejected
  BY <1>8 DEF TablesRejected, Retry
<1>9. CASE TablesKnown
  BY <1>9 DEF TablesKnown
<1>10. CASE Executed
  BY <1>10 DEF Executed
<1>11. CASE ExecutionFails
  BY <1>11 DEF ExecutionFails, Retry
<1>12. CASE Tick
  BY <1>12 DEF Tick
<1>13. CASE UNCHANGED vars
  BY <1>13 DEF vars
<1>14. QED
  BY <1>1, <1>2, <1>3, <1>4, <1>5, <1>6, <1>7, <1>8, <1>9, <1>10, <1>11, <1>12,
     <1>13 DEF Next, Answers, Failures, Check

\* What is known while Run waits for a call.
LEMMA StageStep == TypeOK /\ StageInv /\ [Next]_vars => StageInv'
<1> USE PipelineAssumption DEF TypeOK, StageInv, Calls, Stages, Causes, Errors,
        Entries, NoError, ansVars, Entry, Record, Return, StartCall, Within, InTime
<1> SUFFICES ASSUME TypeOK, StageInv, [Next]_vars
             PROVE  StageInv'
  OBVIOUS
<1>1. CASE Ask
  BY <1>1 DEF Ask
<1>2. CASE \E names \in SUBSET (Tables \cup Ghosts) : Routed(names)
  BY <1>2 DEF Routed, Usable
<1>3. CASE RoutingUnparsable
  BY <1>3 DEF RoutingUnparsable
<1>4. CASE RoutingCallFails
  BY <1>4 DEF RoutingCallFails
<1>5. CASE \E q \in Queries : Generated(q)
  BY <1>5 DEF Generated
<1>6. CASE GenerationEmpty
  BY <1>6 DEF GenerationEmpty
<1>7. CASE GenerationCallFails
  BY <1>7 DEF GenerationCallFails
<1>8. CASE TablesRejected
  BY <1>8 DEF TablesRejected, Retry
<1>9. CASE TablesKnown
  BY <1>9 DEF TablesKnown
<1>10. CASE Executed
  BY <1>10 DEF Executed
<1>11. CASE ExecutionFails
  BY <1>11 DEF ExecutionFails, Retry
<1>12. CASE Tick
  BY <1>12 DEF Tick
<1>13. CASE UNCHANGED vars
  BY <1>13 DEF vars
<1>14. QED
  BY <1>1, <1>2, <1>3, <1>4, <1>5, <1>6, <1>7, <1>8, <1>9, <1>10, <1>11, <1>12,
     <1>13 DEF Next, Answers, Failures, Check

\* Every attempt adds two entries to the trace.
LEMMA TraceStep == TypeOK /\ TraceInv /\ StageInv /\ [Next]_vars => TraceInv'
<1>s. SUFFICES ASSUME TypeOK, TraceInv, StageInv, [Next]_vars
                PROVE  TraceInv'
  OBVIOUS
<1> USE PipelineAssumption DEF Calls, Stages, Causes, Return, StartCall
<1>0. Len(trace) \in Nat /\ attempt \in Nat
  BY <1>s DEF TypeOK
<1>1. CASE Ask
  <2>1. Len(trace') = 1 \/ (Len(trace') = 2 /\ pc' = "done")
    BY <1>1, FirstEntries
  <2>2. pc' \in {"route", "done"} /\ attempt' = 0
    BY <1>1 DEF Ask
  <2>3. QED
    BY <2>1, <2>2 DEF TraceInv
<1>2. CASE \E names \in SUBSET (Tables \cup Ghosts) : Routed(names)
  <2>1. pc = "route" /\ pc' = "generate" /\ attempt' = 1 /\ Record("routing", "none")
    BY <1>2 DEF Routed
  <2>2. Len(trace) = 1
    BY <1>s, <2>1 DEF TraceInv
  <2>3. Len(trace') = 2
    BY <1>s, <2>1, <2>2, Recorded
  <2>4. QED
    BY <2>1, <2>3 DEF TraceInv
<1>3. CASE \E q \in Queries : Generated(q)
  <2>1. /\ pc = "generate" /\ pc' = "check" /\ attempt' = attempt
        /\ Record("generation", "none")
    BY <1>3 DEF Generated
  <2>2. /\ Len(trace') = Len(trace) + 1
        /\ trace'[Len(trace')] = Entry("generation", attempt, "none")
    BY <1>s, <2>1, Recorded
  <2>3. QED
    BY <1>0, <1>s, <2>1, <2>2 DEF TraceInv, Entry
<1>4. CASE TablesRejected \/ ExecutionFails
  <2>1. /\ pc \in {"check", "execute"}
        /\ \/ pc' = "generate" /\ attempt' = attempt + 1
           \/ pc' = "done"
        /\ Record("validation", "check") \/ Record("execution", "call")
    BY <1>4 DEF TablesRejected, ExecutionFails, Retry
  <2>2. Len(trace') = Len(trace) + 1
    BY <1>s, <2>1, Recorded
  <2>3. QED
    BY <1>0, <1>s, <2>1, <2>2 DEF TraceInv, Entry
<1>5. CASE RoutingUnparsable \/ RoutingCallFails \/ GenerationEmpty \/ GenerationCallFails \/ Executed
  <2>1. pc' = "done" /\ \E s \in Stages, e \in Causes : Record(s, e)
    BY <1>5 DEF RoutingUnparsable, RoutingCallFails, GenerationEmpty, GenerationCallFails, Executed
  <2>2. Len(trace') = Len(trace) + 1
    BY <1>s, <2>1, Recorded
  <2>3. QED
    BY <1>0, <1>s, <2>1, <2>2 DEF TraceInv, Entry
<1>6. CASE TablesKnown
  BY <1>s, <1>6 DEF TablesKnown, TraceInv, ansVars, Entry
<1>7. CASE Tick
  BY <1>s, <1>7 DEF Tick, TraceInv, ansVars, Entry
<1>8. CASE UNCHANGED vars
  BY <1>s, <1>8 DEF vars, TraceInv, Entry
<1>9. QED
  BY <1>s, <1>1, <1>2, <1>3, <1>4, <1>5, <1>6, <1>7, <1>8 DEF Next, Answers, Failures, Check

\* The query shown is the one executed.
LEMMA AnswerStep == TypeOK /\ AnswerIsItsQuery /\ StageInv /\ [Next]_vars
  => AnswerIsItsQuery'
<1> USE PipelineAssumption DEF TypeOK, AnswerIsItsQuery, StageInv, Calls,
        Stages, Causes, Errors, Entries, NoError,
        ansVars, Entry, Record, Return, StartCall, Within, InTime
<1> SUFFICES ASSUME TypeOK, AnswerIsItsQuery, StageInv, [Next]_vars
             PROVE  AnswerIsItsQuery'
  OBVIOUS
<1>1. CASE Ask
  BY <1>1 DEF Ask
<1>2. CASE \E names \in SUBSET (Tables \cup Ghosts) : Routed(names)
  BY <1>2 DEF Routed, Usable
<1>3. CASE RoutingUnparsable
  BY <1>3 DEF RoutingUnparsable
<1>4. CASE RoutingCallFails
  BY <1>4 DEF RoutingCallFails
<1>5. CASE \E q \in Queries : Generated(q)
  BY <1>5 DEF Generated
<1>6. CASE GenerationEmpty
  BY <1>6 DEF GenerationEmpty
<1>7. CASE GenerationCallFails
  BY <1>7 DEF GenerationCallFails
<1>8. CASE TablesRejected
  BY <1>8 DEF TablesRejected, Retry
<1>9. CASE TablesKnown
  BY <1>9 DEF TablesKnown
<1>10. CASE Executed
  BY <1>10 DEF Executed
<1>11. CASE ExecutionFails
  BY <1>11 DEF ExecutionFails, Retry
<1>12. CASE Tick
  BY <1>12 DEF Tick
<1>13. CASE UNCHANGED vars
  BY <1>13 DEF vars
<1>14. QED
  BY <1>1, <1>2, <1>3, <1>4, <1>5, <1>6, <1>7, <1>8, <1>9, <1>10, <1>11, <1>12,
     <1>13 DEF Next, Answers, Failures, Check

\* A retry reports the error that made it necessary.
LEMMA FeedbackStep == TypeOK /\ FeedbackIsFresh /\ StageInv /\ [Next]_vars =>
  FeedbackIsFresh'
<1> USE PipelineAssumption DEF TypeOK, FeedbackIsFresh, StageInv, Calls, Stages,
        Causes, Errors, Entries, NoError, ansVars, Entry, Record, Return, StartCall,
        Within, InTime
<1> SUFFICES ASSUME TypeOK, FeedbackIsFresh, StageInv, [Next]_vars
             PROVE  FeedbackIsFresh'
  OBVIOUS
<1>1. CASE Ask
  BY <1>1 DEF Ask
<1>2. CASE \E names \in SUBSET (Tables \cup Ghosts) : Routed(names)
  BY <1>2 DEF Routed, Usable
<1>3. CASE RoutingUnparsable
  BY <1>3 DEF RoutingUnparsable
<1>4. CASE RoutingCallFails
  BY <1>4 DEF RoutingCallFails
<1>5. CASE \E q \in Queries : Generated(q)
  BY <1>5 DEF Generated
<1>6. CASE GenerationEmpty
  BY <1>6 DEF GenerationEmpty
<1>7. CASE GenerationCallFails
  BY <1>7 DEF GenerationCallFails
<1>8. CASE TablesRejected
  BY <1>8 DEF TablesRejected, Retry
<1>9. CASE TablesKnown
  BY <1>9 DEF TablesKnown
<1>10. CASE Executed
  BY <1>10 DEF Executed
<1>11. CASE ExecutionFails
  BY <1>11 DEF ExecutionFails, Retry
<1>12. CASE Tick
  BY <1>12 DEF Tick
<1>13. CASE UNCHANGED vars
  BY <1>13 DEF vars
<1>14. QED
  BY <1>1, <1>2, <1>3, <1>4, <1>5, <1>6, <1>7, <1>8, <1>9, <1>10, <1>11, <1>12,
     <1>13 DEF Next, Answers, Failures, Check

\* What was recorded of earlier attempts stays in its place.
LEMMA TracedStep ==
  TypeOK /\ EveryAttemptTraced /\ StageInv /\ TraceInv /\ [Next]_vars => EveryAttemptTraced'
<1> SUFFICES ASSUME TypeOK, EveryAttemptTraced, StageInv, TraceInv, [Next]_vars
             PROVE  EveryAttemptTraced'
  OBVIOUS
<1> USE PipelineAssumption DEF Calls, Stages, Causes, Return, StartCall, Exhausted
<1>0. Len(trace) \in Nat /\ attempt \in Nat
  BY DEF TypeOK
<1> DEFINE Traced(n) ==
      /\ Len(trace) >= 2 * n + 2
      /\ trace[2 * n + 1] = Entry("generation", n, "none")
      /\ trace[2 * n + 2] \in [stage : {"validation", "execution"}, attempt : {n},
                               error : {"call", "check"}]
<1>1. ASSUME NEW n \in 1..MaxAttempts, Traced(n), Len(trace') >= Len(trace),
             \A k \in 1..Len(trace) : trace'[k] = trace[k]
      PROVE  Traced(n)'
  BY <1>0, <1>1 DEF Entry
<1>2. ASSUME NEW s \in Stages, NEW e \in Causes, Record(s, e), NEW n \in 1..MaxAttempts, Traced(n)
      PROVE  Traced(n)'
  <2>1. Len(trace') >= Len(trace) /\ \A k \in 1..Len(trace) : trace'[k] = trace[k]
    BY <1>0, <1>2, Recorded
  <2>2. QED
    BY <1>1, <1>2, <2>1
<1>3. CASE Ask
  <2>1. attempt' = 0 /\ trace'[Len(trace')].stage \in {"intent", "routing"}
    BY <1>3, FirstEntries DEF Ask
  <2>2. QED
    BY <2>1 DEF EveryAttemptTraced
<1>4. CASE TablesRejected \/ ExecutionFails
  <2>1. /\ pc \in {"check", "execute"}
        /\ attempt' = attempt \/ (attempt' = attempt + 1 /\ ~ Exhausted')
        /\ Record("validation", "check") \/ Record("execution", "call")
    BY <1>4 DEF TablesRejected, ExecutionFails, Retry, StageInv, TypeOK
  <2>2. PICK s \in {"validation", "execution"}, e \in {"check", "call"} : Record(s, e)
    BY <2>1
  <2>3. /\ Len(trace') = Len(trace) + 1
        /\ trace'[Len(trace')] = Entry(s, attempt, e)
        /\ \A k \in 1..Len(trace) : trace'[k] = trace[k]
    BY <2>2, Recorded
  <2>4. Len(trace) = 2 * attempt + 1 /\ trace[Len(trace)] = Entry("generation", attempt, "none")
    BY <2>1 DEF TraceInv
  <2>5. PICK m \in 1..MaxAttempts : m = attempt
    BY <2>1 DEF StageInv, TypeOK
  <2>6. Traced(m)'
    <3>1. Len(trace') = 2 * m + 2
      BY <1>0, <2>3, <2>4, <2>5
    <3>2. trace'[2 * m + 1] = Entry("generation", m, "none")
      BY <1>0, <2>3, <2>4, <2>5
    <3>3. trace'[2 * m + 2] = Entry(s, m, e)
      BY <2>3, <2>5, <3>1
    <3>4. Entry(s, m, e) \in [stage : {"validation", "execution"}, attempt : {m},
                              error : {"call", "check"}]
      BY DEF Entry
    <3>5. QED
      BY <3>1, <3>2, <3>3, <3>4 DEF Entry
  <2>7. ASSUME NEW n \in 1..MaxAttempts, n < attempt' \/ (Exhausted' /\ n = attempt')
        PROVE  Traced(n)'
    <3>1. CASE n = m
      BY <2>6, <3>1
    <3>2. CASE n # m
      <4>1. n < attempt
        BY <1>0, <2>1, <2>5, <2>7, <3>2
      <4>2. Traced(n)
        BY <4>1 DEF EveryAttemptTraced
      <4>3. QED
        BY <1>2, <2>2, <4>2
    <3>3. QED
      BY <3>1, <3>2
  <2>8. QED
    BY <2>7 DEF EveryAttemptTraced
<1>5. CASE \E names \in SUBSET (Tables \cup Ghosts) : Routed(names)
  <2>1. attempt' = 1 /\ outcome' = "none"
    BY <1>5 DEF Routed, StageInv, TypeOK
  <2>2. QED
    BY <2>1 DEF EveryAttemptTraced
<1>6. CASE \E q \in Queries : Generated(q)
  <2>1. attempt' = attempt /\ outcome' = "none" /\ Record("generation", "none")
    BY <1>6 DEF Generated, StageInv, TypeOK
  <2>2. QED
    BY <1>2, <2>1 DEF EveryAttemptTraced
<1>7. CASE \/ RoutingUnparsable \/ RoutingCallFails
           \/ GenerationEmpty \/ GenerationCallFails \/ Executed
  <2>1. PICK s \in Stages, e \in Causes :
          /\ attempt' = attempt
          /\ Record(s, e)
          /\ s \in {"routing", "generation"} \/ outcome' = "answered"
    BY <1>7 DEF RoutingUnparsable, RoutingCallFails, GenerationEmpty,
                GenerationCallFails, Executed
  <2>2. trace'[Len(trace')].stage = s
    BY <2>1, Recorded DEF Entry
  <2>3. ~ Exhausted'
    BY <2>1, <2>2
  <2>4. QED
    BY <1>2, <2>1, <2>3 DEF EveryAttemptTraced
<1>8. CASE TablesKnown \/ Tick \/ UNCHANGED vars
  BY <1>8 DEF TablesKnown, Tick, vars, ansVars, EveryAttemptTraced, Entry
<1>9. QED
  BY <1>3, <1>4, <1>5, <1>6, <1>7, <1>8 DEF Next, Answers, Failures, Check

\* The loop is left with an error of its own after the last attempt only.
LEMMA LimitStep == TypeOK /\ GivesUpOnlyAtTheLimit /\ StageInv /\ [Next]_vars =>
  GivesUpOnlyAtTheLimit'
<1> USE PipelineAssumption DEF TypeOK, GivesUpOnlyAtTheLimit, StageInv, Exhausted,
        Calls, Stages, Causes, Errors, Entries, NoError, ansVars, Entry, Record,
        Return, StartCall, Within, InTime
<1> SUFFICES ASSUME TypeOK, GivesUpOnlyAtTheLimit, StageInv, [Next]_vars
             PROVE  GivesUpOnlyAtTheLimit'
  OBVIOUS
<1>1. CASE Ask
  BY <1>1, FirstEntries DEF Ask
<1>2. CASE \E names \in SUBSET (Tables \cup Ghosts) : Routed(names)
  BY <1>2 DEF Routed, Usable
<1>3. CASE RoutingUnparsable
  BY <1>3 DEF RoutingUnparsable
<1>4. CASE RoutingCallFails
  BY <1>4 DEF RoutingCallFails
<1>5. CASE \E q \in Queries : Generated(q)
  BY <1>5 DEF Generated
<1>6. CASE GenerationEmpty
  BY <1>6 DEF GenerationEmpty
<1>7. CASE GenerationCallFails
  BY <1>7 DEF GenerationCallFails
<1>8. CASE TablesRejected
  BY <1>8 DEF TablesRejected, Retry
<1>9. CASE TablesKnown
  BY <1>9 DEF TablesKnown
<1>10. CASE Executed
  BY <1>10 DEF Executed
<1>11. CASE ExecutionFails
  BY <1>11 DEF ExecutionFails, Retry
<1>12. CASE Tick
  BY <1>12 DEF Tick
<1>13. CASE UNCHANGED vars
  BY <1>13 DEF vars
<1>14. QED
  BY <1>1, <1>2, <1>3, <1>4, <1>5, <1>6, <1>7, <1>8, <1>9, <1>10, <1>11, <1>12,
     <1>13 DEF Next, Answers, Failures, Check

-----------------------------------------------------------------------------
(* The invariant.                                                          *)

\* No question has been asked: nothing is selected, recorded or answered.
LEMMA InitEstablishes == Init => IInv
  BY PipelineAssumption
  DEF Init, IInv, TypeOK, WithinSLA, StageInv, TraceInv,
      AnswerIsItsQuery, FeedbackIsFresh, EveryAttemptTraced, GivesUpOnlyAtTheLimit,
      Exhausted, Calls, NoError

\* Every step of Run keeps the invariant.
LEMMA StepPreserves == IInv /\ [Next]_vars => IInv'
  BY TypeStep, SLAStep, StageStep, TraceStep, AnswerStep, FeedbackStep,
     TracedStep, LimitStep
  DEF IInv

\* The invariant holds in every state of every behaviour.
THEOREM Invariance == Spec => []IInv
  BY InitEstablishes, StepPreserves, PTL DEF Spec

-----------------------------------------------------------------------------
(* What follows from it.                                                   *)

\* Type correctness of a run.
THEOREM Typing == Spec => []TypeOK
<1>1. IInv => TypeOK
  BY DEF IInv
<1>2. QED
  BY <1>1, Invariance, PTL

\* A run is over within its SLA, whatever SLA, stage timeouts and number of
\* attempts are configured.
THEOREM SLAHolds == Spec => []WithinSLA
<1>1. IInv => WithinSLA
  BY DEF IInv
<1>2. QED
  BY <1>1, Invariance, PTL

\* The SQL of an answer is the query that produced the answer's rows.
THEOREM AnswersAreTheirQuery == Spec => []AnswerIsItsQuery
<1>1. IInv => AnswerIsItsQuery
  BY DEF IInv
<1>2. QED
  BY <1>1, Invariance, PTL

\* Each retry reports the failure just before it.
THEOREM FreshFeedback == Spec => []FeedbackIsFresh
<1>1. IInv => FeedbackIsFresh
  BY DEF IInv
<1>2. QED
  BY <1>1, Invariance, PTL

\* Every attempt is in the trace, in its place.
THEOREM Traced == Spec => []EveryAttemptTraced
<1>1. IInv => EveryAttemptTraced
  BY DEF IInv
<1>2. QED
  BY <1>1, Invariance, PTL

\* Run does not give up before its last attempt.
THEOREM LimitReached == Spec => []GivesUpOnlyAtTheLimit
<1>1. IInv => GivesUpOnlyAtTheLimit
  BY DEF IInv
<1>2. QED
  BY <1>1, Invariance, PTL

=============================================================================
