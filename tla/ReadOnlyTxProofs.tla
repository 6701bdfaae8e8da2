-------------------------- MODULE ReadOnlyTxProofs --------------------------
(***************************************************************************)
(* Theorems about ReadOnlyTx, for any number of calls and connections.     *)
(***************************************************************************)
EXTENDS ReadOnlyTx, TLAPS

-----------------------------------------------------------------------------
(* Each part of the invariant is kept by every step.                       *)

\* Every step keeps every variable in its type; no transaction but a read-only one
\* is ever begun.
LEMMA TypeStep == TypeOK /\ HoldInv /\ QueriesAreConfined /\ [Next]_vars => TypeOK'
<1> USE TxAssumption DEF TypeOK, HoldInv, QueriesAreConfined, Kinds, Holding, Goto,
        Free, connVars
<1> SUFFICES ASSUME TypeOK, HoldInv, QueriesAreConfined, [Next]_vars
             PROVE  TypeOK'
  OBVIOUS
<1>1. ASSUME NEW h \in Handlers,
             \/ \E k \in Kinds : Execute(h, k)
             \/ Begin(h) \/ BeginFails(h)
             \/ \E k \in {"read", "slow"} : Inspect(h, k)
             \/ Advance(h) \/ Cancel(h)
      PROVE  TypeOK'
  <2>1. CASE \E k \in Kinds : Execute(h, k)
    BY <2>1 DEF Execute
  <2>2. CASE Begin(h)
    BY <2>2 DEF Begin
  <2>3. CASE BeginFails(h)
    BY <2>3 DEF BeginFails
  <2>4. CASE \E k \in {"read", "slow"} : Inspect(h, k)
    BY <2>4 DEF Inspect
  <2>5. CASE SetTimeout(h)
    BY <2>5 DEF SetTimeout
  <2>6. CASE QueryEnds(h)
    BY <2>6 DEF QueryEnds, Takes
  <2>7. CASE QueryTimesOut(h)
    BY <2>7 DEF QueryTimesOut
  <2>8. CASE Abandon(h)
    BY <2>8 DEF Abandon
  <2>9. CASE Rollback(h)
    BY <2>9 DEF Rollback, Undo
  <2>10. CASE InspectEnds(h)
    BY <2>10 DEF InspectEnds
  <2>11. CASE Reply(h)
    BY <2>11 DEF Reply
  <2>12. CASE Cancel(h)
    BY <2>12 DEF Cancel
  <2>13. QED
    BY <1>1, <2>1, <2>2, <2>3, <2>4, <2>5, <2>6, <2>7, <2>8, <2>9, <2>10, <2>11,
       <2>12 DEF Advance
<1>2. CASE UNCHANGED vars
  BY <1>2 DEF vars
<1>3. QED
  BY <1>1, <1>2 DEF Next

\* A connection is held by one call, from the borrowing to the end of its
\* transaction.
LEMMA HoldStep == TypeOK /\ HoldInv /\ ReturnedConnectionsAreClean /\ [Next]_vars =>
  HoldInv'
<1> USE TxAssumption DEF TypeOK, HoldInv, ReturnedConnectionsAreClean, Kinds,
        Holding, Goto, Free, connVars
<1> SUFFICES ASSUME TypeOK, HoldInv, ReturnedConnectionsAreClean, [Next]_vars
             PROVE  HoldInv'
  OBVIOUS
<1>1. ASSUME NEW h \in Handlers,
             \/ \E k \in Kinds : Execute(h, k)
             \/ Begin(h) \/ BeginFails(h)
             \/ \E k \in {"read", "slow"} : Inspect(h, k)
             \/ Advance(h) \/ Cancel(h)
      PROVE  HoldInv'
  <2>1. CASE \E k \in Kinds : Execute(h, k)
    BY <2>1 DEF Execute
  <2>2. CASE Begin(h)
    BY <2>2 DEF Begin
  <2>3. CASE BeginFails(h)
    BY <2>3 DEF BeginFails
  <2>4. CASE \E k \in {"read", "slow"} : Inspect(h, k)
    BY <2>4 DEF Inspect
  <2>5. CASE SetTimeout(h)
    BY <2>5 DEF SetTimeout
  <2>6. CASE QueryEnds(h)
    BY <2>6 DEF QueryEnds, Takes
  <2>7. CASE QueryTimesOut(h)
    BY <2>7 DEF QueryTimesOut
  <2>8. CASE Abandon(h)
    BY <2>8 DEF Abandon
  <2>9. CASE Rollback(h)
    BY <2>9 DEF Rollback, Undo
  <2>10. CASE InspectEnds(h)
    BY <2>10 DEF InspectEnds
  <2>11. CASE Reply(h)
    BY <2>11 DEF Reply
  <2>12. CASE Cancel(h)
    BY <2>12 DEF Cancel
  <2>13. QED
    BY <1>1, <2>1, <2>2, <2>3, <2>4, <2>5, <2>6, <2>7, <2>8, <2>9, <2>10, <2>11,
       <2>12 DEF Advance
<1>2. CASE UNCHANGED vars
  BY <1>2 DEF vars
<1>3. QED
  BY <1>1, <1>2 DEF Next

\* A statement finds its transaction read-only.
LEMMA WrittenStep == TypeOK /\ NothingWritten /\ HoldInv /\ QueriesAreConfined /\
  [Next]_vars => NothingWritten'
<1> USE TxAssumption DEF TypeOK, NothingWritten, HoldInv, QueriesAreConfined, Kinds,
        Holding, Goto, Free, connVars
<1> SUFFICES ASSUME TypeOK, NothingWritten, HoldInv, QueriesAreConfined, [Next]_vars
             PROVE  NothingWritten'
  OBVIOUS
<1>1. ASSUME NEW h \in Handlers,
             \/ \E k \in Kinds : Execute(h, k)
             \/ Begin(h) \/ BeginFails(h)
             \/ \E k \in {"read", "slow"} : Inspect(h, k)
             \/ Advance(h) \/ Cancel(h)
      PROVE  NothingWritten'
  <2>1. CASE \E k \in Kinds : Execute(h, k)
    BY <2>1 DEF Execute
  <2>2. CASE Begin(h)
    BY <2>2 DEF Begin
  <2>3. CASE BeginFails(h)
    BY <2>3 DEF BeginFails
  <2>4. CASE \E k \in {"read", "slow"} : Inspect(h, k)
    BY <2>4 DEF Inspect
  <2>5. CASE SetTimeout(h)
    BY <2>5 DEF SetTimeout
  <2>6. CASE QueryEnds(h)
    BY <2>6 DEF QueryEnds, Takes
  <2>7. CASE QueryTimesOut(h)
    BY <2>7 DEF QueryTimesOut
  <2>8. CASE Abandon(h)
    BY <2>8 DEF Abandon
  <2>9. CASE Rollback(h)
    BY <2>9 DEF Rollback, Undo
  <2>10. CASE InspectEnds(h)
    BY <2>10 DEF InspectEnds
  <2>11. CASE Reply(h)
    BY <2>11 DEF Reply
  <2>12. CASE Cancel(h)
    BY <2>12 DEF Cancel
  <2>13. QED
    BY <1>1, <2>1, <2>2, <2>3, <2>4, <2>5, <2>6, <2>7, <2>8, <2>9, <2>10, <2>11,
       <2>12 DEF Advance
<1>2. CASE UNCHANGED vars
  BY <1>2 DEF vars
<1>3. QED
  BY <1>1, <1>2 DEF Next

\* Every way out of Execute goes through the rollback.
LEMMA CleanStep == TypeOK /\ ReturnedConnectionsAreClean /\ HoldInv /\ [Next]_vars
  => ReturnedConnectionsAreClean'
<1> USE TxAssumption DEF TypeOK, ReturnedConnectionsAreClean, HoldInv, Kinds,
        Holding, Goto, Free, connVars
<1> SUFFICES ASSUME TypeOK, ReturnedConnectionsAreClean, HoldInv, [Next]_vars
             PROVE  ReturnedConnectionsAreClean'
  OBVIOUS
<1>1. ASSUME NEW h \in Handlers,
             \/ \E k \in Kinds : Execute(h, k)
             \/ Begin(h) \/ BeginFails(h)
             \/ \E k \in {"read", "slow"} : Inspect(h, k)
             \/ Advance(h) \/ Cancel(h)
      PROVE  ReturnedConnectionsAreClean'
  <2>1. CASE \E k \in Kinds : Execute(h, k)
    BY <2>1 DEF Execute
  <2>2. CASE Begin(h)
    BY <2>2 DEF Begin
  <2>3. CASE BeginFails(h)
    BY <2>3 DEF BeginFails
  <2>4. CASE \E k \in {"read", "slow"} : Inspect(h, k)
    BY <2>4 DEF Inspect
  <2>5. CASE SetTimeout(h)
    BY <2>5 DEF SetTimeout
  <2>6. CASE QueryEnds(h)
    BY <2>6 DEF QueryEnds, Takes
  <2>7. CASE QueryTimesOut(h)
    BY <2>7 DEF QueryTimesOut
  <2>8. CASE Abandon(h)
    BY <2>8 DEF Abandon
  <2>9. CASE Rollback(h)
    BY <2>9 DEF Rollback, Undo
  <2>10. CASE InspectEnds(h)
    BY <2>10 DEF InspectEnds
  <2>11. CASE Reply(h)
    BY <2>11 DEF Reply
  <2>12. CASE Cancel(h)
    BY <2>12 DEF Cancel
  <2>13. QED
    BY <1>1, <2>1, <2>2, <2>3, <2>4, <2>5, <2>6, <2>7, <2>8, <2>9, <2>10, <2>11,
       <2>12 DEF Advance
<1>2. CASE UNCHANGED vars
  BY <1>2 DEF vars
<1>3. QED
  BY <1>1, <1>2 DEF Next

\* The query comes after the transaction and its timeout.
LEMMA ConfinedStep == TypeOK /\ QueriesAreConfined /\ HoldInv /\ [Next]_vars =>
  QueriesAreConfined'
<1> USE TxAssumption DEF TypeOK, QueriesAreConfined, HoldInv, Kinds, Holding, Goto,
        Free, connVars
<1> SUFFICES ASSUME TypeOK, QueriesAreConfined, HoldInv, [Next]_vars
             PROVE  QueriesAreConfined'
  OBVIOUS
<1>1. ASSUME NEW h \in Handlers,
             \/ \E k \in Kinds : Execute(h, k)
             \/ Begin(h) \/ BeginFails(h)
             \/ \E k \in {"read", "slow"} : Inspect(h, k)
             \/ Advance(h) \/ Cancel(h)
      PROVE  QueriesAreConfined'
  <2>1. CASE \E k \in Kinds : Execute(h, k)
    BY <2>1 DEF Execute
  <2>2. CASE Begin(h)
    BY <2>2 DEF Begin
  <2>3. CASE BeginFails(h)
    BY <2>3 DEF BeginFails
  <2>4. CASE \E k \in {"read", "slow"} : Inspect(h, k)
    BY <2>4 DEF Inspect
  <2>5. CASE SetTimeout(h)
    BY <2>5 DEF SetTimeout
  <2>6. CASE QueryEnds(h)
    BY <2>6 DEF QueryEnds, Takes
  <2>7. CASE QueryTimesOut(h)
    BY <2>7 DEF QueryTimesOut
  <2>8. CASE Abandon(h)
    BY <2>8 DEF Abandon
  <2>9. CASE Rollback(h)
    BY <2>9 DEF Rollback, Undo
  <2>10. CASE InspectEnds(h)
    BY <2>10 DEF InspectEnds
  <2>11. CASE Reply(h)
    BY <2>11 DEF Reply
  <2>12. CASE Cancel(h)
    BY <2>12 DEF Cancel
  <2>13. QED
    BY <1>1, <2>1, <2>2, <2>3, <2>4, <2>5, <2>6, <2>7, <2>8, <2>9, <2>10, <2>11,
       <2>12 DEF Advance
<1>2. CASE UNCHANGED vars
  BY <1>2 DEF vars
<1>3. QED
  BY <1>1, <1>2 DEF Next

-----------------------------------------------------------------------------
(* The invariant, and what follows from it.                                *)

\* No call runs and every connection is as the pool dialled it.
LEMMA InitEstablishes == Init => IInv
  BY TxAssumption
  DEF Init, IInv, TypeOK, HoldInv, NothingWritten, ReturnedConnectionsAreClean,
      QueriesAreConfined, Free, Kinds, Holding

\* Every step of every call keeps the invariant.
LEMMA StepPreserves == IInv /\ [Next]_vars => IInv'
  BY TypeStep, HoldStep, WrittenStep, CleanStep, ConfinedStep DEF IInv

\* The invariant holds in every state of every behaviour.
THEOREM Invariance == Spec => []IInv
  BY InitEstablishes, StepPreserves, PTL DEF Spec

\* Type correctness.
THEOREM Typing == Spec => []TypeOK
<1>1. IInv => TypeOK
  BY DEF IInv
<1>2. QED
  BY <1>1, Invariance, PTL

\* Whatever the queries are and however they end, the database is not changed.
THEOREM DatabaseUnchanged == Spec => []NothingWritten
<1>1. IInv => NothingWritten
  BY DEF IInv
<1>2. QED
  BY <1>1, Invariance, PTL

\* The pool gets its connections back as it lent them.
THEOREM CleanConnections == Spec => []ReturnedConnectionsAreClean
<1>1. IInv => ReturnedConnectionsAreClean
  BY DEF IInv
<1>2. QED
  BY <1>1, Invariance, PTL

\* Every query runs read-only and under its timeout.
THEOREM Confinement == Spec => []QueriesAreConfined
<1>1. IInv => QueriesAreConfined
  BY DEF IInv
<1>2. QED
  BY <1>1, Invariance, PTL

=============================================================================
