----------------------- MODULE ExecutorServiceProofs -----------------------
(***************************************************************************)
(* Theorems about ExecutorService, for any number of handlers, pools, ids  *)
(* and connections per pool.  IInv is inductive; each of its parts has a   *)
(* lemma that says which other parts its preservation rests on.            *)
(***************************************************************************)
EXTENDS ExecutorService, TLAPS

-----------------------------------------------------------------------------
(* Each part of the invariant is kept by every step.                       *)

\* Every step keeps every variable in its type.  The counter and the handles
\* stay in range because of what the handlers know at each place.
LEMMA TypeStep == TypeOK /\ LocalsInv /\ VictimInv /\ [Next]_vars => TypeOK'
<1> USE ExecutorAssumption DEF TypeOK, Goto, poolVars, callVars, Pcs, OpenPcs,
    LockedPcs, QueryPcs, LookupPcs, DonePcs
<1> SUFFICES ASSUME TypeOK, LocalsInv, VictimInv, [Next]_vars PROVE TypeOK'
  OBVIOUS
<1>1. ASSUME NEW h \in Handlers,
             Arrive(h) \/ Cancel(h) \/ DatabaseAnswers(h) \/ Step(h)
      PROVE  TypeOK'
  <2>1. CASE Arrive(h)
    BY <2>1 DEF Arrive, Call, CallOpen, CallClose, CallIntrospect,
        CallValidateAndExecute
  <2>2. CASE Cancel(h)
    BY <2>2 DEF Cancel
  <2>3. CASE Reply(h)
    BY <2>3 DEF Reply
  <2>4. CASE ConnectPool(h)
    BY <2>4 DEF ConnectPool
  <2>5. CASE ConnectFails(h)
    BY <2>5 DEF ConnectFails
  <2>6. CASE PingOk(h)
    BY <2>6 DEF PingOk
  <2>7. CASE PingFails(h)
    BY <2>7 DEF LocalsInv, PingFails
  <2>8. CASE LockOpen(h)
    BY <2>8 DEF LockOpen
  <2>9. CASE Assign(h)
    BY <2>9 DEF Assign
  <2>10. CASE LockClose(h)
    BY <2>10 DEF LockClose
  <2>11. CASE StartClose(h)
    BY <2>11 DEF VictimInv, StartClose
  <2>12. CASE FinishClose(h)
    BY <2>12 DEF VictimInv, FinishClose
  <2>13. CASE Lookup(h)
    BY <2>13 DEF Lookup
  <2>14. CASE Validate(h)
    BY <2>14 DEF Validate
  <2>15. CASE Acquire(h)
    BY <2>15 DEF LocalsInv, Acquire
  <2>16. CASE AcquireFails(h)
    BY <2>16 DEF AcquireFails
  <2>17. CASE QueryDone(h)
    BY <2>17 DEF LocalsInv, QueryDone, Release
  <2>18. CASE QueryFails(h)
    BY <2>18 DEF LocalsInv, QueryFails, Release
  <2>19. QED
    BY <1>1, <2>1, <2>2, <2>3, <2>4, <2>5, <2>6, <2>7, <2>8, <2>9, <2>10, <2>11,
        <2>12, <2>13, <2>14, <2>15, <2>16, <2>17, <2>18 DEF DatabaseAnswers,
        Step
<1>2. CASE UNCHANGED vars
  BY <1>2 DEF vars
<1>3. QED
  BY <1>1, <1>2 DEF Next

\* The lock is held by the handler between Lock and Unlock, and only there.
LEMMA LockStep == TypeOK /\ LockInv /\ [Next]_vars => LockInv'
<1> USE ExecutorAssumption DEF LockInv, TypeOK, Goto, poolVars, callVars, OpenPcs,
    LockedPcs, QueryPcs, LookupPcs, DonePcs
<1> SUFFICES ASSUME TypeOK, LockInv, [Next]_vars PROVE LockInv'
  OBVIOUS
<1>1. ASSUME NEW h \in Handlers,
             Arrive(h) \/ Cancel(h) \/ DatabaseAnswers(h) \/ Step(h)
      PROVE  LockInv'
  <2>1. CASE Arrive(h)
    BY <2>1 DEF Arrive, Call, CallOpen, CallClose, CallIntrospect,
        CallValidateAndExecute
  <2>2. CASE Cancel(h)
    BY <2>2 DEF Cancel
  <2>3. CASE Reply(h)
    BY <2>3 DEF Reply
  <2>4. CASE ConnectPool(h)
    BY <2>4 DEF ConnectPool
  <2>5. CASE ConnectFails(h)
    BY <2>5 DEF ConnectFails
  <2>6. CASE PingOk(h)
    BY <2>6 DEF PingOk
  <2>7. CASE PingFails(h)
    BY <2>7 DEF PingFails
  <2>8. CASE LockOpen(h)
    BY <2>8 DEF LockOpen
  <2>9. CASE Assign(h)
    BY <2>9 DEF Assign
  <2>10. CASE LockClose(h)
    BY <2>10 DEF LockClose
  <2>11. CASE StartClose(h)
    BY <2>11 DEF StartClose
  <2>12. CASE FinishClose(h)
    BY <2>12 DEF FinishClose
  <2>13. CASE Lookup(h)
    BY <2>13 DEF Lookup
  <2>14. CASE Validate(h)
    BY <2>14 DEF Validate
  <2>15. CASE Acquire(h)
    BY <2>15 DEF Acquire
  <2>16. CASE AcquireFails(h)
    BY <2>16 DEF AcquireFails
  <2>17. CASE QueryDone(h)
    BY <2>17 DEF QueryDone, Release
  <2>18. CASE QueryFails(h)
    BY <2>18 DEF QueryFails, Release
  <2>19. QED
    BY <1>1, <2>1, <2>2, <2>3, <2>4, <2>5, <2>6, <2>7, <2>8, <2>9, <2>10, <2>11,
        <2>12, <2>13, <2>14, <2>15, <2>16, <2>17, <2>18 DEF DatabaseAnswers,
        Step
<1>2. CASE UNCHANGED vars
  BY <1>2 DEF vars
<1>3. QED
  BY <1>1, <1>2 DEF Next

\* The connector, the statements left and the id are what the place of a
\* handler says.
LEMMA LocalsStep == TypeOK /\ LocalsInv /\ [Next]_vars => LocalsInv'
<1> USE ExecutorAssumption DEF LocalsInv, TypeOK, Goto, poolVars, callVars,
    QueryPcs, LookupPcs, DonePcs
<1> SUFFICES ASSUME TypeOK, LocalsInv, [Next]_vars PROVE LocalsInv'
  OBVIOUS
<1>1. ASSUME NEW h \in Handlers,
             Arrive(h) \/ Cancel(h) \/ DatabaseAnswers(h) \/ Step(h)
      PROVE  LocalsInv'
  <2>1. CASE Arrive(h)
    BY <2>1 DEF Arrive, Call, CallOpen, CallClose, CallIntrospect,
        CallValidateAndExecute
  <2>2. CASE Cancel(h)
    BY <2>2 DEF Cancel
  <2>3. CASE Reply(h)
    BY <2>3 DEF Reply
  <2>4. CASE ConnectPool(h)
    BY <2>4 DEF ConnectPool
  <2>5. CASE ConnectFails(h)
    BY <2>5 DEF ConnectFails
  <2>6. CASE PingOk(h)
    BY <2>6 DEF PingOk
  <2>7. CASE PingFails(h)
    BY <2>7 DEF PingFails
  <2>8. CASE LockOpen(h)
    BY <2>8 DEF LockOpen
  <2>9. CASE Assign(h)
    BY <2>9 DEF Assign
  <2>10. CASE LockClose(h)
    BY <2>10 DEF LockClose
  <2>11. CASE StartClose(h)
    BY <2>11 DEF StartClose
  <2>12. CASE FinishClose(h)
    BY <2>12 DEF FinishClose
  <2>13. CASE Lookup(h)
    BY <2>13 DEF Lookup
  <2>14. CASE Validate(h)
    BY <2>14 DEF Validate
  <2>15. CASE Acquire(h)
    BY <2>15 DEF Acquire
  <2>16. CASE AcquireFails(h)
    BY <2>16 DEF AcquireFails
  <2>17. CASE QueryDone(h)
    BY <2>17 DEF QueryDone, Release
  <2>18. CASE QueryFails(h)
    BY <2>18 DEF QueryFails, Release
  <2>19. QED
    BY <1>1, <2>1, <2>2, <2>3, <2>4, <2>5, <2>6, <2>7, <2>8, <2>9, <2>10, <2>11,
        <2>12, <2>13, <2>14, <2>15, <2>16, <2>17, <2>18 DEF DatabaseAnswers,
        Step
<1>2. CASE UNCHANGED vars
  BY <1>2 DEF vars
<1>3. QED
  BY <1>1, <1>2 DEF Next

\* A pool is known to somebody only once it was opened.
LEMMA UnusedStep == TypeOK /\ UnusedInv /\ [Next]_vars => UnusedInv'
<1> USE ExecutorAssumption DEF UnusedInv, TypeOK, Goto, poolVars, callVars
<1> SUFFICES ASSUME TypeOK, UnusedInv, [Next]_vars PROVE UnusedInv'
  OBVIOUS
<1>1. ASSUME NEW h \in Handlers,
             Arrive(h) \/ Cancel(h) \/ DatabaseAnswers(h) \/ Step(h)
      PROVE  UnusedInv'
  <2>1. CASE Arrive(h)
    BY <2>1 DEF Arrive, Call, CallOpen, CallClose, CallIntrospect,
        CallValidateAndExecute
  <2>2. CASE Cancel(h)
    BY <2>2 DEF Cancel
  <2>3. CASE Reply(h)
    BY <2>3 DEF Reply
  <2>4. CASE ConnectPool(h)
    BY <2>4 DEF ConnectPool
  <2>5. CASE ConnectFails(h)
    BY <2>5 DEF ConnectFails
  <2>6. CASE PingOk(h)
    BY <2>6 DEF PingOk
  <2>7. CASE PingFails(h)
    BY <2>7 DEF PingFails
  <2>8. CASE LockOpen(h)
    BY <2>8 DEF LockOpen
  <2>9. CASE Assign(h)
    BY <2>9 DEF Assign
  <2>10. CASE LockClose(h)
    BY <2>10 DEF LockClose
  <2>11. CASE StartClose(h)
    BY <2>11 DEF StartClose
  <2>12. CASE FinishClose(h)
    BY <2>12 DEF FinishClose
  <2>13. CASE Lookup(h)
    BY <2>13 DEF Lookup
  <2>14. CASE Validate(h)
    BY <2>14 DEF Validate
  <2>15. CASE Acquire(h)
    BY <2>15 DEF Acquire
  <2>16. CASE AcquireFails(h)
    BY <2>16 DEF AcquireFails
  <2>17. CASE QueryDone(h)
    BY <2>17 DEF QueryDone, Release
  <2>18. CASE QueryFails(h)
    BY <2>18 DEF QueryFails, Release
  <2>19. QED
    BY <1>1, <2>1, <2>2, <2>3, <2>4, <2>5, <2>6, <2>7, <2>8, <2>9, <2>10, <2>11,
        <2>12, <2>13, <2>14, <2>15, <2>16, <2>17, <2>18 DEF DatabaseAnswers,
        Step
<1>2. CASE UNCHANGED vars
  BY <1>2 DEF vars
<1>3. QED
  BY <1>1, <1>2 DEF Next

\* A pool being opened stays private to its opener until it is registered.
LEMMA OpenerStep ==
  TypeOK /\ OpenerInv /\ LocalsInv /\ UnusedInv /\ [Next]_vars => OpenerInv'
<1> USE ExecutorAssumption DEF OpenerInv, TypeOK, Goto, poolVars, callVars, Opens,
    OpenPcs, LockedPcs, QueryPcs, LookupPcs, DonePcs
<1> SUFFICES ASSUME TypeOK, OpenerInv, LocalsInv, UnusedInv, [Next]_vars
             PROVE  OpenerInv'
  OBVIOUS
<1>1. ASSUME NEW h \in Handlers,
             Arrive(h) \/ Cancel(h) \/ DatabaseAnswers(h) \/ Step(h)
      PROVE  OpenerInv'
  <2>1. CASE Arrive(h)
    BY <2>1 DEF LocalsInv, Arrive, Call, CallOpen, CallClose, CallIntrospect,
        CallValidateAndExecute
  <2>2. CASE Cancel(h)
    BY <2>2 DEF Cancel
  <2>3. CASE Reply(h)
    BY <2>3 DEF Reply
  <2>4. CASE ConnectPool(h)
    BY <2>4 DEF UnusedInv, ConnectPool
  <2>5. CASE ConnectFails(h)
    BY <2>5 DEF ConnectFails
  <2>6. CASE PingOk(h)
    BY <2>6 DEF PingOk
  <2>7. CASE PingFails(h)
    BY <2>7 DEF PingFails
  <2>8. CASE LockOpen(h)
    BY <2>8 DEF LockOpen
  <2>9. CASE Assign(h)
    BY <2>9 DEF Assign
  <2>10. CASE LockClose(h)
    BY <2>10 DEF LocalsInv, LockClose
  <2>11. CASE StartClose(h)
    BY <2>11 DEF StartClose
  <2>12. CASE FinishClose(h)
    BY <2>12 DEF FinishClose
  <2>13. CASE Lookup(h)
    BY <2>13 DEF Lookup
  <2>14. CASE Validate(h)
    BY <2>14 DEF Validate
  <2>15. CASE Acquire(h)
    BY <2>15 DEF Acquire
  <2>16. CASE AcquireFails(h)
    BY <2>16 DEF AcquireFails
  <2>17. CASE QueryDone(h)
    BY <2>17 DEF QueryDone, Release
  <2>18. CASE QueryFails(h)
    BY <2>18 DEF QueryFails, Release
  <2>19. QED
    BY <1>1, <2>1, <2>2, <2>3, <2>4, <2>5, <2>6, <2>7, <2>8, <2>9, <2>10, <2>11,
        <2>12, <2>13, <2>14, <2>15, <2>16, <2>17, <2>18 DEF DatabaseAnswers,
        Step
<1>2. CASE UNCHANGED vars
  BY <1>2 DEF vars
<1>3. QED
  BY <1>1, <1>2 DEF Next

\* An entry of the map is an open pool of its id, outside OpenConnection's swap.
LEMMA EntryStep ==
  TypeOK /\ EntryInv /\ UnusedInv /\ OpenerInv /\ VictimInv /\ [Next]_vars =>
  EntryInv'
<1> USE ExecutorAssumption DEF EntryInv, TypeOK, Goto, poolVars, callVars, Opens,
    OpenPcs, LockedPcs, QueryPcs, LookupPcs, DonePcs
<1> SUFFICES ASSUME TypeOK, EntryInv, UnusedInv, OpenerInv, VictimInv, [Next]_vars
             PROVE  EntryInv'
  OBVIOUS
<1>1. ASSUME NEW h \in Handlers,
             Arrive(h) \/ Cancel(h) \/ DatabaseAnswers(h) \/ Step(h)
      PROVE  EntryInv'
  <2>1. CASE Arrive(h)
    BY <2>1 DEF Arrive, Call, CallOpen, CallClose, CallIntrospect,
        CallValidateAndExecute
  <2>2. CASE Cancel(h)
    BY <2>2 DEF Cancel
  <2>3. CASE Reply(h)
    BY <2>3 DEF Reply
  <2>4. CASE ConnectPool(h)
    BY <2>4 DEF UnusedInv, ConnectPool
  <2>5. CASE ConnectFails(h)
    BY <2>5 DEF ConnectFails
  <2>6. CASE PingOk(h)
    BY <2>6 DEF PingOk
  <2>7. CASE PingFails(h)
    BY <2>7 DEF OpenerInv, PingFails
  <2>8. CASE LockOpen(h)
    BY <2>8 DEF LockOpen
  <2>9. CASE Assign(h)
    BY <2>9 DEF OpenerInv, Assign
  <2>10. CASE LockClose(h)
    BY <2>10 DEF LockClose
  <2>11. CASE StartClose(h)
    BY <2>11 DEF VictimInv, StartClose
  <2>12. CASE FinishClose(h)
    BY <2>12 DEF VictimInv, FinishClose
  <2>13. CASE Lookup(h)
    BY <2>13 DEF Lookup
  <2>14. CASE Validate(h)
    BY <2>14 DEF Validate
  <2>15. CASE Acquire(h)
    BY <2>15 DEF Acquire
  <2>16. CASE AcquireFails(h)
    BY <2>16 DEF AcquireFails
  <2>17. CASE QueryDone(h)
    BY <2>17 DEF QueryDone, Release
  <2>18. CASE QueryFails(h)
    BY <2>18 DEF QueryFails, Release
  <2>19. QED
    BY <1>1, <2>1, <2>2, <2>3, <2>4, <2>5, <2>6, <2>7, <2>8, <2>9, <2>10, <2>11,
        <2>12, <2>13, <2>14, <2>15, <2>16, <2>17, <2>18 DEF DatabaseAnswers,
        Step
<1>2. CASE UNCHANGED vars
  BY <1>2 DEF vars
<1>3. QED
  BY <1>1, <1>2 DEF Next

\* What is being closed is, or was, the entry of its id: the lock keeps every
\* other call away from it.
LEMMA VictimStep ==
  TypeOK /\ VictimInv /\ LockInv /\ LocalsInv /\ OpenerInv /\ EntryInv /\
  [Next]_vars => VictimInv'
<1> USE ExecutorAssumption DEF VictimInv, TypeOK, Goto, poolVars, callVars, Opens,
    OpenPcs, LockedPcs, QueryPcs, LookupPcs, DonePcs
<1> SUFFICES ASSUME TypeOK, VictimInv, LockInv, LocalsInv, OpenerInv, EntryInv, [Next]_vars
             PROVE  VictimInv'
  OBVIOUS
<1>1. ASSUME NEW h \in Handlers,
             Arrive(h) \/ Cancel(h) \/ DatabaseAnswers(h) \/ Step(h)
      PROVE  VictimInv'
  <2>1. CASE Arrive(h)
    BY <2>1 DEF Arrive, Call, CallOpen, CallClose, CallIntrospect,
        CallValidateAndExecute
  <2>2. CASE Cancel(h)
    BY <2>2 DEF Cancel
  <2>3. CASE Reply(h)
    BY <2>3 DEF Reply
  <2>4. CASE ConnectPool(h)
    BY <2>4 DEF ConnectPool
  <2>5. CASE ConnectFails(h)
    BY <2>5 DEF ConnectFails
  <2>6. CASE PingOk(h)
    BY <2>6 DEF PingOk
  <2>7. CASE PingFails(h)
    BY <2>7 DEF OpenerInv, PingFails
  <2>8. CASE LockOpen(h)
    <3>1. \A g \in Handlers : pc[g] \notin LockedPcs
      BY <2>8 DEF LockInv, LockOpen
    <3>2. conns[id[h]] # NoPool => /\ phase[conns[id[h]]] = "open"
                                  /\ home[conns[id[h]]] = id[h]
      BY <3>1 DEF EntryInv
    <3>3. QED
      BY <2>8, <3>1, <3>2 DEF LocalsInv, LockOpen
  <2>9. CASE Assign(h)
    BY <2>9 DEF LockInv, Assign
  <2>10. CASE LockClose(h)
    <3>1. \A g \in Handlers : pc[g] \notin LockedPcs
      BY <2>10 DEF LockInv, LockClose
    <3>2. conns[id[h]] # NoPool => /\ phase[conns[id[h]]] = "open"
                                  /\ home[conns[id[h]]] = id[h]
      BY <3>1 DEF EntryInv
    <3>3. QED
      BY <2>10, <3>1, <3>2 DEF LocalsInv, LockClose
  <2>11. CASE StartClose(h)
    BY <2>11 DEF LockInv, StartClose
  <2>12. CASE FinishClose(h)
    BY <2>12 DEF LockInv, FinishClose
  <2>13. CASE Lookup(h)
    BY <2>13 DEF Lookup
  <2>14. CASE Validate(h)
    BY <2>14 DEF Validate
  <2>15. CASE Acquire(h)
    BY <2>15 DEF Acquire
  <2>16. CASE AcquireFails(h)
    BY <2>16 DEF AcquireFails
  <2>17. CASE QueryDone(h)
    BY <2>17 DEF QueryDone, Release
  <2>18. CASE QueryFails(h)
    BY <2>18 DEF QueryFails, Release
  <2>19. QED
    BY <1>1, <2>1, <2>2, <2>3, <2>4, <2>5, <2>6, <2>7, <2>8, <2>9, <2>10, <2>11,
        <2>12, <2>13, <2>14, <2>15, <2>16, <2>17, <2>18 DEF DatabaseAnswers,
        Step
<1>2. CASE UNCHANGED vars
  BY <1>2 DEF vars
<1>3. QED
  BY <1>1, <1>2 DEF Next

\* A query keeps the connector of its id through every swap and close.
LEMMA HomeStep ==
  TypeOK /\ QueryStaysHome /\ UnusedInv /\ EntryInv /\ [Next]_vars =>
  QueryStaysHome'
<1> USE ExecutorAssumption DEF QueryStaysHome, TypeOK, Goto, poolVars, callVars,
    QueryPcs, LookupPcs, DonePcs
<1> SUFFICES ASSUME TypeOK, QueryStaysHome, UnusedInv, EntryInv, [Next]_vars
             PROVE  QueryStaysHome'
  OBVIOUS
<1>1. ASSUME NEW h \in Handlers,
             Arrive(h) \/ Cancel(h) \/ DatabaseAnswers(h) \/ Step(h)
      PROVE  QueryStaysHome'
  <2>1. CASE Arrive(h)
    BY <2>1 DEF Arrive, Call, CallOpen, CallClose, CallIntrospect,
        CallValidateAndExecute
  <2>2. CASE Cancel(h)
    BY <2>2 DEF Cancel
  <2>3. CASE Reply(h)
    BY <2>3 DEF Reply
  <2>4. CASE ConnectPool(h)
    BY <2>4 DEF UnusedInv, ConnectPool
  <2>5. CASE ConnectFails(h)
    BY <2>5 DEF ConnectFails
  <2>6. CASE PingOk(h)
    BY <2>6 DEF PingOk
  <2>7. CASE PingFails(h)
    BY <2>7 DEF PingFails
  <2>8. CASE LockOpen(h)
    BY <2>8 DEF LockOpen
  <2>9. CASE Assign(h)
    BY <2>9 DEF Assign
  <2>10. CASE LockClose(h)
    BY <2>10 DEF LockClose
  <2>11. CASE StartClose(h)
    BY <2>11 DEF StartClose
  <2>12. CASE FinishClose(h)
    BY <2>12 DEF FinishClose
  <2>13. CASE Lookup(h)
    BY <2>13 DEF EntryInv, Lookup
  <2>14. CASE Validate(h)
    BY <2>14 DEF Validate
  <2>15. CASE Acquire(h)
    BY <2>15 DEF Acquire
  <2>16. CASE AcquireFails(h)
    BY <2>16 DEF AcquireFails
  <2>17. CASE QueryDone(h)
    BY <2>17 DEF QueryDone, Release
  <2>18. CASE QueryFails(h)
    BY <2>18 DEF QueryFails, Release
  <2>19. QED
    BY <1>1, <2>1, <2>2, <2>3, <2>4, <2>5, <2>6, <2>7, <2>8, <2>9, <2>10, <2>11,
        <2>12, <2>13, <2>14, <2>15, <2>16, <2>17, <2>18 DEF DatabaseAnswers,
        Step
<1>2. CASE UNCHANGED vars
  BY <1>2 DEF vars
<1>3. QED
  BY <1>1, <1>2 DEF Next

\* A connection is lent and given back with its statement.
LEMMA LoanStep ==
  TypeOK /\ LoansEndWithTheStatement /\ [Next]_vars => LoansEndWithTheStatement'
<1> USE ExecutorAssumption DEF LoansEndWithTheStatement, TypeOK, Goto, poolVars,
    callVars, LookupPcs, QueryPcs, DonePcs
<1> SUFFICES ASSUME TypeOK, LoansEndWithTheStatement, [Next]_vars
             PROVE  LoansEndWithTheStatement'
  OBVIOUS
<1>1. ASSUME NEW h \in Handlers,
             Arrive(h) \/ Cancel(h) \/ DatabaseAnswers(h) \/ Step(h)
      PROVE  LoansEndWithTheStatement'
  <2>1. CASE Arrive(h)
    BY <2>1 DEF Arrive, Call, CallOpen, CallClose, CallIntrospect,
        CallValidateAndExecute
  <2>2. CASE Cancel(h)
    BY <2>2 DEF Cancel
  <2>3. CASE Reply(h)
    BY <2>3 DEF Reply
  <2>4. CASE ConnectPool(h)
    BY <2>4 DEF ConnectPool
  <2>5. CASE ConnectFails(h)
    BY <2>5 DEF ConnectFails
  <2>6. CASE PingOk(h)
    BY <2>6 DEF PingOk
  <2>7. CASE PingFails(h)
    BY <2>7 DEF PingFails
  <2>8. CASE LockOpen(h)
    BY <2>8 DEF LockOpen
  <2>9. CASE Assign(h)
    BY <2>9 DEF Assign
  <2>10. CASE LockClose(h)
    BY <2>10 DEF LockClose
  <2>11. CASE StartClose(h)
    BY <2>11 DEF StartClose
  <2>12. CASE FinishClose(h)
    BY <2>12 DEF FinishClose
  <2>13. CASE Lookup(h)
    BY <2>13 DEF Lookup
  <2>14. CASE Validate(h)
    BY <2>14 DEF Validate
  <2>15. CASE Acquire(h)
    BY <2>15 DEF Acquire
  <2>16. CASE AcquireFails(h)
    BY <2>16 DEF AcquireFails
  <2>17. CASE QueryDone(h)
    BY <2>17 DEF QueryDone, Release
  <2>18. CASE QueryFails(h)
    BY <2>18 DEF QueryFails, Release
  <2>19. QED
    BY <1>1, <2>1, <2>2, <2>3, <2>4, <2>5, <2>6, <2>7, <2>8, <2>9, <2>10, <2>11,
        <2>12, <2>13, <2>14, <2>15, <2>16, <2>17, <2>18 DEF DatabaseAnswers,
        Step
<1>2. CASE UNCHANGED vars
  BY <1>2 DEF vars
<1>3. QED
  BY <1>1, <1>2 DEF Next

\* No step loses the last hold on a pool that has connections.
LEMMA OrphanStep ==
  TypeOK /\ NoOrphanPool /\ LocalsInv /\ OpenerInv /\ VictimInv /\ [Next]_vars
  => NoOrphanPool'
<1> USE ExecutorAssumption DEF NoOrphanPool, TypeOK, Goto, poolVars, callVars,
    Opens, Closes, OpenPcs, LockedPcs, QueryPcs, LookupPcs, DonePcs
<1> SUFFICES ASSUME TypeOK, NoOrphanPool, LocalsInv, OpenerInv, VictimInv, [Next]_vars
             PROVE  NoOrphanPool'
  OBVIOUS
<1>1. ASSUME NEW h \in Handlers,
             Arrive(h) \/ Cancel(h) \/ DatabaseAnswers(h) \/ Step(h)
      PROVE  NoOrphanPool'
  <2>1. CASE Arrive(h)
    BY <2>1 DEF Arrive, Call, CallOpen, CallClose, CallIntrospect,
        CallValidateAndExecute
  <2>2. CASE Cancel(h)
    BY <2>2 DEF Cancel
  <2>3. CASE Reply(h)
    BY <2>3 DEF Reply
  <2>4. CASE ConnectPool(h)
    BY <2>4 DEF LocalsInv, ConnectPool
  <2>5. CASE ConnectFails(h)
    BY <2>5 DEF LocalsInv, ConnectFails
  <2>6. CASE PingOk(h)
    BY <2>6 DEF PingOk
  <2>7. CASE PingFails(h)
    BY <2>7 DEF PingFails
  <2>8. CASE LockOpen(h)
    BY <2>8 DEF LockOpen
  <2>9. CASE Assign(h)
    BY <2>9 DEF OpenerInv, VictimInv, Assign
  <2>10. CASE LockClose(h)
    BY <2>10 DEF LockClose
  <2>11. CASE StartClose(h)
    BY <2>11 DEF StartClose
  <2>12. CASE FinishClose(h)
    BY <2>12 DEF FinishClose
  <2>13. CASE Lookup(h)
    BY <2>13 DEF Lookup
  <2>14. CASE Validate(h)
    BY <2>14 DEF Validate
  <2>15. CASE Acquire(h)
    BY <2>15 DEF Acquire
  <2>16. CASE AcquireFails(h)
    BY <2>16 DEF AcquireFails
  <2>17. CASE QueryDone(h)
    BY <2>17 DEF QueryDone, Release
  <2>18. CASE QueryFails(h)
    BY <2>18 DEF QueryFails, Release
  <2>19. QED
    BY <1>1, <2>1, <2>2, <2>3, <2>4, <2>5, <2>6, <2>7, <2>8, <2>9, <2>10, <2>11,
        <2>12, <2>13, <2>14, <2>15, <2>16, <2>17, <2>18 DEF DatabaseAnswers,
        Step
<1>2. CASE UNCHANGED vars
  BY <1>2 DEF vars
<1>3. QED
  BY <1>1, <1>2 DEF Next

-----------------------------------------------------------------------------
(* The invariant.                                                          *)

\* The executor starts with no pool, no call and a free lock.
LEMMA InitEstablishes == Init => IInv
  BY ExecutorAssumption
  DEF Init, IInv, TypeOK, LockInv, LocalsInv, UnusedInv, OpenerInv, EntryInv, VictimInv,
      QueryStaysHome, LoansEndWithTheStatement, NoOrphanPool, Opens, Closes,
      Pcs, OpenPcs, LockedPcs, QueryPcs, LookupPcs, DonePcs

\* Every step of every handler keeps the invariant.
LEMMA StepPreserves == IInv /\ [Next]_vars => IInv'
  BY TypeStep, LockStep, LocalsStep, UnusedStep, OpenerStep, EntryStep, VictimStep,
     HomeStep, LoanStep, OrphanStep
  DEF IInv

\* The invariant holds in every state of every behaviour: the discipline of the
\* lock, of the locals and of the map, for any number of concurrent calls.
THEOREM Invariance == Spec => []IInv
<1>1. IInv /\ UNCHANGED vars => IInv'
  BY StepPreserves
<1>2. QED
  BY InitEstablishes, StepPreserves, PTL DEF Spec

-----------------------------------------------------------------------------
(* What follows from it.                                                   *)

\* Type correctness of the service.
THEOREM Typing == Spec => []TypeOK
<1>1. IInv => TypeOK
  BY DEF IInv
<1>2. QED
  BY <1>1, Invariance, PTL

\* However many calls open and close the same id at the same time, no pool is
\* left behind that nobody will close.
THEOREM NoPoolIsOrphaned == Spec => []NoOrphanPool
<1>1. IInv => NoOrphanPool
  BY DEF IInv
<1>2. QED
  BY <1>1, Invariance, PTL

\* A lookup under a free lock finds an open connector of the id asked for: the
\* only time an entry is not open is inside the swap of its OpenConnection.
THEOREM LookupsFindOpenPools == Spec => []LookupFindsOpenPool
<1>1. IInv => LookupFindsOpenPool
  <2> SUFFICES ASSUME IInv, writer = Nobody, NEW i \in Ids, conns[i] # NoPool
               PROVE  phase[conns[i]] = "open" /\ home[conns[i]] = i
    BY DEF LookupFindsOpenPool
  <2>1. \A h \in Handlers : pc[h] \notin LockedPcs
    BY ExecutorAssumption DEF IInv, LockInv
  <2>2. QED
    BY <2>1 DEF IInv, EntryInv, LockedPcs
<1>2. QED
  BY <1>1, Invariance, PTL

\* A query runs on a connector of the connection it names, at every step.
THEOREM QueriesStayHome == Spec => []QueryStaysHome
<1>1. IInv => QueryStaysHome
  BY DEF IInv
<1>2. QED
  BY <1>1, Invariance, PTL

\* Pool.Close waits for running statements and for nothing else.
THEOREM LoansEnd == Spec => []LoansEndWithTheStatement
<1>1. IInv => LoansEndWithTheStatement
  BY DEF IInv
<1>2. QED
  BY <1>1, Invariance, PTL

-----------------------------------------------------------------------------
(* The executor implements PoolLifecycle.                                  *)

\* The stage of a pool changes only with its phase, or with the handler that
\* has it in its hands.
LEMMA StageKept ==
  ASSUME NEW p \in Pools, phase'[p] = phase[p],
         (\E h \in Handlers : Opens(h, p)') <=> (\E h \in Handlers : Opens(h, p))
  PROVE  StageOf(p)' = StageOf(p)
  BY DEF StageOf

\* One pool changes its stage and the others keep theirs.
LEMMA BecomeStage ==
  ASSUME NEW p \in Pools, NEW s, StageOf(p)' = s,
         \A q \in Pools \ {p} : StageOf(q)' = StageOf(q)
  PROVE  LifeStage' = [LifeStage EXCEPT ![p] = s]
  BY DEF LifeStage

\* Steps of a handler that open no pool, close none and lend no connection are
\* invisible to PoolLifecycle.
LEMMA QuietSteps ==
  ASSUME IInv, NEW h \in Handlers,
         \/ Arrive(h) \/ Cancel(h) \/ Reply(h) \/ ConnectFails(h) \/ PingOk(h)
         \/ LockOpen(h) \/ LockClose(h) \/ Lookup(h) \/ Validate(h) \/ AcquireFails(h)
  PROVE  UNCHANGED Lifecycle!vars
<1> USE ExecutorAssumption DEF IInv, TypeOK, Goto, poolVars, callVars, Opens,
        OpenPcs, LockedPcs, QueryPcs, LookupPcs, DonePcs
<1>1. phase' = phase /\ home' = home /\ users' = users
  BY DEF Arrive, Call, CallOpen, CallClose, CallIntrospect, CallValidateAndExecute,
         Cancel, Reply, ConnectFails, PingOk, LockOpen, LockClose, Lookup, Validate,
         AcquireFails
<1>2. \A p \in Pools : \A g \in Handlers : Opens(g, p)' <=> Opens(g, p)
  <2>1. CASE Arrive(h)
    BY <2>1 DEF LocalsInv, Arrive, Call, CallOpen, CallClose, CallIntrospect,
                CallValidateAndExecute
  <2>2. CASE Cancel(h)
    BY <2>2 DEF Cancel
  <2>3. CASE Reply(h)
    BY <2>3 DEF Reply
  <2>4. CASE ConnectFails(h)
    BY <2>4 DEF LocalsInv, ConnectFails
  <2>5. CASE PingOk(h)
    BY <2>5 DEF PingOk
  <2>6. CASE LockOpen(h)
    BY <2>6 DEF LockOpen
  <2>7. CASE LockClose(h)
    BY <2>7 DEF LocalsInv, LockClose
  <2>8. CASE Lookup(h)
    BY <2>8 DEF Lookup
  <2>9. CASE Validate(h)
    BY <2>9 DEF Validate
  <2>10. CASE AcquireFails(h)
    BY <2>10 DEF AcquireFails
  <2>11. QED
    BY <2>1, <2>2, <2>3, <2>4, <2>5, <2>6, <2>7, <2>8, <2>9, <2>10
<1>3. \A p \in Pools : StageOf(p)' = StageOf(p)
  BY <1>1, <1>2, StageKept
<1>4. QED
  BY <1>1, <1>3 DEF Lifecycle!vars, LifeStage

\* Every other step is one step in the life of one pool.
LEMMA PoolSteps ==
  ASSUME IInv, IInv', NEW h \in Handlers,
         \/ ConnectPool(h) \/ PingFails(h) \/ Assign(h) \/ StartClose(h)
         \/ FinishClose(h) \/ Acquire(h) \/ QueryDone(h) \/ QueryFails(h)
  PROVE  Lifecycle!Next \/ UNCHANGED Lifecycle!vars
<1> USE ExecutorAssumption DEF TypeOK, Goto, poolVars, callVars, Opens, Closes,
        OpenPcs, LockedPcs, QueryPcs
<1>1. CASE ConnectPool(h)
  <2>1. PICK p \in Pools : /\ phase[p] = "unused"
                           /\ phase' = [phase EXCEPT ![p] = "open"]
                           /\ home' = [home EXCEPT ![p] = id[h]]
                           /\ conn' = [conn EXCEPT ![h] = p]
    BY <1>1 DEF ConnectPool
  <2>2. StageOf(p) = "unused" /\ StageOf(p)' = "private"
    BY <1>1, <2>1 DEF IInv, StageOf, ConnectPool
  <2>3. \A q \in Pools \ {p} : StageOf(q)' = StageOf(q)
    BY <1>1, <2>1 DEF IInv, LocalsInv, StageOf, ConnectPool
  <2>4. id[h] \in Ids \ {EmptyId}
    BY <1>1 DEF IInv, LocalsInv, ConnectPool
  <2>5. Lifecycle!Open(p, id[h])
    BY <1>1, <2>1, <2>2, <2>3, BecomeStage
    DEF Lifecycle!Open, Lifecycle!Become, LifeStage, ConnectPool
  <2>6. QED
    BY <2>4, <2>5 DEF Lifecycle!Next
<1>2. CASE PingFails(h)
  <2>1. PICK p \in Pools : p = conn[h] /\ phase[p] = "open"
    BY <1>2 DEF IInv, LocalsInv, OpenerInv, PingFails
  <2>2. StageOf(p) = "private" /\ StageOf(p)' = "closed"
    BY <1>2, <2>1 DEF IInv, StageOf, PingFails
  <2>3. \A q \in Pools \ {p} : StageOf(q)' = StageOf(q)
    BY <1>2, <2>1 DEF IInv, StageOf, PingFails
  <2>4. Lifecycle!Discard(p)
    BY <1>2, <2>1, <2>2, <2>3, BecomeStage
    DEF Lifecycle!Discard, Lifecycle!Become, LifeStage, PingFails
  <2>5. QED
    BY <2>1, <2>4 DEF Lifecycle!Next
<1>3. CASE Assign(h)
  <2> DEFINE p == conn[h]
  <2>1. p \in Pools /\ phase[p] = "open" /\ home[p] = id[h]
    BY <1>3 DEF IInv, LocalsInv, OpenerInv, Assign
  <2>2. \A g \in Handlers : g # h => pc[g] \notin LockedPcs /\ conn[g] # p
    BY <1>3, <2>1 DEF IInv, LockInv, OpenerInv, Assign
  <2>3. StageOf(p) = "private" /\ StageOf(p)' = "serving"
    BY <1>3, <2>1, <2>2 DEF IInv, StageOf, DonePcs, Assign
  <2>4. \A q \in Pools \ {p} : StageOf(q)' = StageOf(q)
    BY <1>3, <2>1 DEF IInv, StageOf, Assign
  <2>5. ASSUME NEW q \in Pools, StageOf(q) = "serving" PROVE home[q] # home[p]
    <3>1. phase[q] = "open" /\ \A g \in Handlers : ~ Opens(g, q)
      BY <2>5 DEF IInv, StageOf
    <3>2. conns[home[q]] = q
      BY <1>3, <2>2, <3>1 DEF IInv, NoOrphanPool, Assign
    <3>3. phase[conns[id[h]]] # "open" \/ conns[id[h]] = NoPool
      BY <1>3 DEF IInv, VictimInv, Assign
    <3>4. QED
      BY <2>1, <3>1, <3>2, <3>3
  <2>6. Lifecycle!Publish(p)
    BY <1>3, <2>1, <2>3, <2>4, <2>5, BecomeStage
    DEF Lifecycle!Publish, Lifecycle!Become, LifeStage, Assign
  <2>7. QED
    BY <2>1, <2>6 DEF Lifecycle!Next
<1>4. CASE StartClose(h)
  <2> DEFINE p == victim[h]
  <2>1. p \in Pools /\ phase[p] = "open"
    BY <1>4 DEF IInv, VictimInv, StartClose
  <2>2. \A g \in Handlers : ~ Opens(g, p)
    BY <1>4, <2>1 DEF IInv, OpenerInv
  <2>3. StageOf(p) = "serving" /\ StageOf(p)' = "retired"
    BY <1>4, <2>1, <2>2 DEF IInv, StageOf, StartClose
  <2>4. \A q \in Pools \ {p} : StageOf(q)' = StageOf(q)
    BY <1>4, <2>1 DEF IInv, StageOf, StartClose
  <2>5. Lifecycle!Retire(p)
    BY <1>4, <2>1, <2>3, <2>4, BecomeStage
    DEF Lifecycle!Retire, Lifecycle!Become, LifeStage, StartClose
  <2>6. QED
    BY <2>1, <2>5 DEF Lifecycle!Next
<1>5. CASE FinishClose(h)
  <2> DEFINE p == victim[h]
  <2>1. p \in Pools /\ phase[p] = "closing" /\ users[p] = {}
    BY <1>5 DEF IInv, VictimInv, FinishClose
  <2>2. StageOf(p) = "retired" /\ StageOf(p)' = "closed"
    BY <1>5, <2>1 DEF IInv, StageOf, FinishClose
  <2>3. \A q \in Pools \ {p} : StageOf(q)' = StageOf(q)
    BY <1>5, <2>1 DEF IInv, StageOf, DonePcs, FinishClose
  <2>4. Lifecycle!Finish(p)
    BY <1>5, <2>1, <2>2, <2>3, BecomeStage
    DEF Lifecycle!Finish, Lifecycle!Become, LifeStage, FinishClose
  <2>5. QED
    BY <2>1, <2>4 DEF Lifecycle!Next
<1>6. CASE Acquire(h)
  <2> DEFINE p == conn[h]
  <2>1. p \in Pools /\ phase[p] = "open"
    BY <1>6 DEF IInv, LocalsInv, Acquire
  <2>2. \A g \in Handlers : ~ Opens(g, p)
    BY <1>6, <2>1 DEF IInv, OpenerInv, Acquire
  <2>3. StageOf(p) = "serving"
    BY <2>1, <2>2 DEF StageOf
  <2>4. \A q \in Pools : StageOf(q)' = StageOf(q)
    BY <1>6, <2>1 DEF IInv, StageOf, Acquire
  <2>5. \A q \in Pools : h \notin users[q]
    BY <1>6 DEF IInv, LoansEndWithTheStatement, Acquire
  <2>6. Lifecycle!Borrow(p, h)
    <3>1. LifeStage' = LifeStage /\ LifeStage[p] = "serving"
      BY <2>1, <2>3, <2>4 DEF LifeStage
    <3>2. /\ Cardinality(users[p]) < PoolSize
          /\ users' = [users EXCEPT ![p] = @ \cup {h}]
          /\ home' = home
      BY <1>6 DEF Acquire
    <3>3. QED
      BY <2>5, <3>1, <3>2 DEF Lifecycle!Borrow, Cardinality, Lifecycle!Cardinality
  <2>7. QED
    BY <2>1, <2>6 DEF Lifecycle!Next
<1>7. CASE QueryDone(h) \/ QueryFails(h)
  <2> DEFINE p == conn[h]
  <2>1. p \in Pools /\ h \in users[p]
    BY <1>7 DEF IInv, LocalsInv, LoansEndWithTheStatement, QueryDone, QueryFails
  <2>2. \A q \in Pools : StageOf(q)' = StageOf(q)
    BY <1>7 DEF IInv, StageOf, DonePcs, QueryDone, QueryFails
  <2>3. Lifecycle!GiveBack(p, h)
    BY <1>7, <2>1, <2>2 DEF Lifecycle!GiveBack, LifeStage, Release, QueryDone,
        QueryFails
  <2>4. QED
    BY <2>1, <2>3 DEF Lifecycle!Next
<1>8. QED
  BY <1>1, <1>2, <1>3, <1>4, <1>5, <1>6, <1>7

\* The executor implements PoolLifecycle: whatever calls race, no two pools
\* serve one id, a pool that is being closed lends nothing, and none is closed
\* under a running query.
THEOREM Refinement == Spec => PoolsLiveOneLife
<1>1. Init => Lifecycle!Init
  BY DEF Init, Lifecycle!Init, LifeStage, StageOf
<1>2. IInv /\ IInv' /\ [Next]_vars => [Lifecycle!Next]_(Lifecycle!vars)
  <2> SUFFICES ASSUME IInv, IInv', [Next]_vars
               PROVE  Lifecycle!Next \/ UNCHANGED Lifecycle!vars
    OBVIOUS
  <2>1. CASE UNCHANGED vars
    BY <2>1 DEF vars, Lifecycle!vars, LifeStage, StageOf, Opens
  <2>2. CASE Next
    BY <2>2, QuietSteps, PoolSteps DEF Next, DatabaseAnswers, Step
  <2>3. QED
    BY <2>1, <2>2
<1>3. QED
  BY <1>1, <1>2, Invariance, PTL DEF Spec, PoolsLiveOneLife, Lifecycle!Spec
-----------------------------------------------------------------------------
(* The executor implements CallEffects.                                    *)

\* A step of one handler is a step of what callers see of it.
LEMMA BecomeAt ==
  ASSUME NEW h \in Handlers, NEW a, AtOf(h)' = a,
         \A g \in Handlers \ {h} : AtOf(g)' = AtOf(g)
  PROVE  CallStage' = [CallStage EXCEPT ![h] = a] /\ Effects!Become(h, a)
  BY DEF CallStage, Effects!Become

\* What callers see of a handler depends on its place and its connector.
LEMMA AtKept ==
  ASSUME NEW g \in Handlers, pc'[g] = pc[g], conn'[g] = conn[g]
  PROVE  AtOf(g)' = AtOf(g)
  BY DEF AtOf

\* A step of one handler leaves the places of the others.
LEMMA OthersKept ==
  ASSUME TypeOK, NEW h \in Handlers,
         \/ Arrive(h) \/ Cancel(h) \/ DatabaseAnswers(h) \/ Step(h)
  PROVE  \A g \in Handlers \ {h} : AtOf(g)' = AtOf(g)
<1>1. \A g \in Handlers \ {h} : pc'[g] = pc[g] /\ conn'[g] = conn[g]
  BY DEF TypeOK, Goto, poolVars, callVars, Arrive, Call, CallOpen, CallClose, CallIntrospect,
         CallValidateAndExecute, Cancel, DatabaseAnswers, ConnectPool, ConnectFails, PingOk,
         PingFails, QueryDone, QueryFails, Step, Assign, StartClose, FinishClose, Validate,
         Reply, LockOpen, LockClose, Lookup, Acquire, AcquireFails
<1>2. QED
  BY <1>1, AtKept

\* Steps between the arrival of a call and its reply that callers do not see.
LEMMA HiddenSteps ==
  ASSUME IInv, NEW h \in Handlers,
         \/ Cancel(h) \/ ConnectPool(h) \/ PingOk(h) \/ LockOpen(h) \/ StartClose(h)
         \/ FinishClose(h) \/ (Validate(h) /\ pc'[h] = "acquire") \/ Acquire(h)
         \/ (QueryDone(h) /\ pc'[h] = "acquire")
  PROVE  UNCHANGED Effects!vars
<1> USE ExecutorAssumption DEF IInv, TypeOK, LocalsInv, Goto, AtOf, OpenPcs, LookupPcs, QueryPcs
<1>1. conns' = conns /\ id' = id
  BY DEF Cancel, ConnectPool, PingOk, LockOpen, StartClose, FinishClose, Validate, Acquire,
         QueryDone, poolVars, callVars
<1>2. AtOf(h)' = AtOf(h)
  BY DEF Cancel, ConnectPool, PingOk, LockOpen, StartClose, FinishClose, Validate, Acquire,
         QueryDone, poolVars, callVars
<1>3. \A g \in Handlers \ {h} : AtOf(g)' = AtOf(g)
  BY OthersKept DEF DatabaseAnswers, Step
<1>4. QED
  BY <1>1, <1>2, <1>3 DEF Effects!vars, CallStage, Keys

\* Every other step is one of CallEffects.
LEMMA EffectSteps ==
  ASSUME IInv, NEW h \in Handlers,
         \/ Arrive(h) \/ Reply(h) \/ ConnectFails(h) \/ PingFails(h) \/ Assign(h)
         \/ LockClose(h) \/ Lookup(h) \/ (Validate(h) /\ pc'[h] = "failed")
         \/ (QueryDone(h) /\ pc'[h] = "ok") \/ QueryFails(h) \/ AcquireFails(h)
  PROVE  Effects!Next
<1> USE ExecutorAssumption DEF IInv, TypeOK, Goto, poolVars, callVars, AtOf, OpenPcs,
        LookupPcs, QueryPcs, DonePcs
<1>1. \A g \in Handlers \ {h} : AtOf(g)' = AtOf(g)
  BY OthersKept DEF DatabaseAnswers, Step
<1>2. CallStage[h] = AtOf(h)
  BY DEF CallStage
<1>3. ASSUME NEW a, AtOf(h)' = a PROVE Effects!Become(h, a)
  BY <1>1, <1>3, BecomeAt
<1>4. CASE Arrive(h)
  <2>1. PICK i \in Ids : CallOpen(h, i) \/ CallClose(h, i) \/ CallValidateAndExecute(h, i)
                         \/ \E n \in 1..MaxQueries : CallIntrospect(h, i, n)
    BY <1>4 DEF Arrive
  <2>2. AtOf(h) = "idle" /\ conns' = conns /\ id' = [id EXCEPT ![h] = i]
    BY <2>1 DEF CallOpen, CallClose, CallValidateAndExecute, CallIntrospect, Call
  <2>3. AtOf(h)' \in {"closing", "asking", IF i = EmptyId THEN "failed" ELSE "opening"}
    BY <2>1 DEF CallOpen, CallClose, CallValidateAndExecute, CallIntrospect, Call
  <2>4. Effects!Arrive(h, i)
    BY <1>2, <1>3, <2>2, <2>3 DEF Effects!Arrive, Keys
  <2>5. QED
    BY <2>4 DEF Effects!Next
<1>5. CASE Reply(h)
  <2>1. /\ AtOf(h) \in {"ok", "failed"} /\ AtOf(h)' = "idle"
        /\ conns' = conns /\ id' = [id EXCEPT ![h] = EmptyId]
    BY <1>5 DEF Reply
  <2>2. Effects!Reply(h)
    BY <1>2, <1>3, <2>1 DEF Effects!Reply, Keys
  <2>3. QED
    BY <2>2 DEF Effects!Next
<1>6. CASE Assign(h)
  <2>1. conns' = [conns EXCEPT ![id[h]] = conn[h]] /\ conn[h] # NoPool /\ id[h] \in Ids
    BY <1>6 DEF Assign, LocalsInv
  <2>2. Keys' = Keys \cup {id[h]}
    BY <2>1 DEF Keys
  <2>3. AtOf(h) = "opening" /\ AtOf(h)' = "ok" /\ id' = id
    BY <1>6 DEF Assign
  <2>4. Effects!Open(h)
    BY <1>2, <1>3, <2>2, <2>3 DEF Effects!Open
  <2>5. QED
    BY <2>4 DEF Effects!Next
<1>7. CASE LockClose(h)
  <2>1. Keys' = Keys \ {id[h]}
    BY <1>7 DEF LockClose, Keys
  <2>2. AtOf(h) = "closing" /\ AtOf(h)' = "ok" /\ id' = id
    BY <1>7 DEF LockClose, LocalsInv
  <2>3. Effects!Close(h)
    BY <1>2, <1>3, <2>1, <2>2 DEF Effects!Close
  <2>4. QED
    BY <2>3 DEF Effects!Next
<1>8. CASE Lookup(h)
  <2>1. AtOf(h) = "asking" /\ conns' = conns /\ id' = id
    BY <1>8 DEF Lookup
  <2>2. AtOf(h)' = IF id[h] \in Keys THEN "using" ELSE "failed"
    BY <1>8 DEF Lookup, Keys
  <2>3. Effects!Find(h)
    BY <1>2, <1>3, <2>1, <2>2 DEF Effects!Find, Keys
  <2>4. QED
    BY <2>3 DEF Effects!Next
<1>9. CASE \/ ConnectFails(h) \/ PingFails(h) \/ (Validate(h) /\ pc'[h] = "failed")
          \/ (QueryDone(h) /\ pc'[h] = "ok") \/ QueryFails(h) \/ AcquireFails(h)
  <2>1. conns' = conns /\ id' = id
    BY <1>9 DEF ConnectFails, PingFails, Validate, QueryDone, QueryFails, AcquireFails
  <2>2. \/ AtOf(h) = "opening" /\ AtOf(h)' = "failed"
        \/ AtOf(h) = "using" /\ AtOf(h)' \in {"ok", "failed"}
    BY <1>9 DEF ConnectFails, PingFails, Validate, QueryDone, QueryFails, AcquireFails
  <2>3. Effects!Finish(h)
    BY <1>2, <1>3, <2>1, <2>2 DEF Effects!Finish, Keys
  <2>4. QED
    BY <2>3 DEF Effects!Next
<1>10. QED
  BY <1>4, <1>5, <1>6, <1>7, <1>8, <1>9

\* The executor implements CallEffects: each call takes effect on the map at one
\* moment, whatever calls run beside it.
THEOREM Atomicity == Spec => CallsTakeEffectAtOnce
<1>1. ASSUME Init PROVE Effects!Init
  BY <1>1, ExecutorAssumption DEF Init, Effects!Init, CallStage, AtOf, Keys, OpenPcs,
     LookupPcs, QueryPcs
<1>2. IInv /\ [Next]_vars => [Effects!Next]_(Effects!vars)
  <2> SUFFICES ASSUME IInv, [Next]_vars
               PROVE  Effects!Next \/ UNCHANGED Effects!vars
    OBVIOUS
  <2>1. CASE UNCHANGED vars
    BY <2>1 DEF vars, Effects!vars, CallStage, AtOf, Keys
  <2>2. CASE Next
    <3>1. PICK h \in Handlers :
            Arrive(h) \/ Cancel(h) \/ DatabaseAnswers(h) \/ Step(h)
      BY <2>2 DEF Next
    <3>2. Validate(h) => pc'[h] \in {"acquire", "failed"}
      BY DEF Validate, Goto, IInv, TypeOK
    <3>3. QueryDone(h) => pc'[h] \in {"acquire", "ok"}
      BY DEF QueryDone, Goto, IInv, TypeOK
    <3>4. CASE \/ Cancel(h) \/ ConnectPool(h) \/ PingOk(h) \/ LockOpen(h) \/ StartClose(h)
              \/ FinishClose(h) \/ (Validate(h) /\ pc'[h] = "acquire") \/ Acquire(h)
              \/ (QueryDone(h) /\ pc'[h] = "acquire")
      BY <3>4, HiddenSteps
    <3>5. CASE \/ Arrive(h) \/ Reply(h) \/ ConnectFails(h) \/ PingFails(h) \/ Assign(h)
              \/ LockClose(h) \/ Lookup(h) \/ (Validate(h) /\ pc'[h] = "failed")
              \/ (QueryDone(h) /\ pc'[h] = "ok") \/ QueryFails(h) \/ AcquireFails(h)
      BY <3>5, EffectSteps
    <3>6. QED
      BY <3>1, <3>2, <3>3, <3>4, <3>5 DEF DatabaseAnswers, Step
  <2>3. QED
    BY <2>1, <2>2
<1>3. QED
  BY <1>1, <1>2, Invariance, PTL DEF Spec, CallsTakeEffectAtOnce, Effects!Spec
=============================================================================
