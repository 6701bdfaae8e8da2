----------------------- MODULE SessionRegistryProofs -----------------------
(***************************************************************************)
(* Theorems about SessionRegistry, for any number of callers and ids.      *)
(***************************************************************************)
EXTENDS SessionRegistry, TLAPS

-----------------------------------------------------------------------------
(* Each part of the invariant is kept by every step.                       *)

\* Every step keeps every variable in its type.
LEMMA TypeStep ==
  TypeOK /\ OwnerInv /\ [Next]_vars => TypeOK'
<1> USE RegistryAssumption DEF Ops, Waiting, Ended, OpOf, callerVars, historyVars, OwnerInv, TypeOK
<1> SUFFICES ASSUME TypeOK, OwnerInv,
                    [Next]_vars
             PROVE  TypeOK'
  OBVIOUS
<1>1. ASSUME NEW t \in Callers,
             Registering(t) \/ Closing(t) \/ Finish(t) \/ CallFails(t)
      PROVE  TypeOK'
  <2>1. CASE \E i \in Ids : Register(t, i)
    BY <2>1 DEF Register, Fresh, Reach, Send, Request, OpOf
  <2>2. CASE Opened(t)
    BY <2>2 DEF Opened, Answered, Reach, Send, Request, OpOf
  <2>3. CASE OpenFailed(t)
    BY <2>3 DEF OpenFailed, Answered, Goto
  <2>4. CASE Introspected(t)
    BY <2>4 DEF Introspected, Answered, Reach, Goto
  <2>5. CASE IntrospectFailed(t)
    BY <2>5 DEF IntrospectFailed, Answered, Send, Request, OpOf
  <2>6. CASE Cleaned(t)
    BY <2>6 DEF Cleaned, Answered, Goto
  <2>7. CASE \E i \in Ids : Close(t, i)
    BY <2>7 DEF Close, Send, Request, OpOf
  <2>8. CASE Closed(t)
    BY <2>8 DEF Closed, Answered, Goto
  <2>9. CASE Finish(t)
    BY <2>9 DEF Finish, Goto
  <2>10. CASE CallFails(t)
    BY <2>10 DEF CallFails
  <2>11. QED
    BY <1>1, <2>1, <2>2, <2>3, <2>4, <2>5, <2>6, <2>7, <2>8, <2>9, <2>10 DEF Registering, Closing
<1>2. ASSUME NEW r \in requests, Serve(r)
      PROVE  TypeOK'
  <2>1. CASE ServeOpen(r)
    BY <1>2, <2>1 DEF ServeOpen, Serve, Deliver, Request
  <2>2. CASE ServeIntrospect(r)
    BY <1>2, <2>2 DEF ServeIntrospect, Serve, Deliver, Request
  <2>3. CASE ServeClose(r)
    BY <1>2, <2>3 DEF ServeClose, Serve, Deliver, Request
  <2>4. QED
    BY <1>2, <2>1, <2>2, <2>3 DEF Serve
<1>3. ASSUME NEW r \in requests, Lose(r)
      PROVE  TypeOK'
  BY <1>3 DEF Lose
<1>4. CASE Restart
  BY <1>4 DEF Restart
<1>5. CASE UNCHANGED vars
  BY <1>5 DEF vars
<1>6. QED
  BY <1>1, <1>2, <1>3, <1>4, <1>5 DEF Next

\* A registration draws an id of its own and takes it along.
LEMMA OwnerStep ==
  TypeOK /\ OwnerInv /\ [Next]_vars => OwnerInv'
<1> USE RegistryAssumption DEF Ops, Waiting, Ended, OpOf, callerVars, historyVars, OwnerInv, TypeOK
<1> SUFFICES ASSUME TypeOK, OwnerInv,
                    [Next]_vars
             PROVE  OwnerInv'
  OBVIOUS
<1>1. ASSUME NEW t \in Callers,
             Registering(t) \/ Closing(t) \/ Finish(t) \/ CallFails(t)
      PROVE  OwnerInv'
  <2>1. CASE \E i \in Ids : Register(t, i)
    BY <2>1 DEF Register, Fresh, Reach, Send, Request, OpOf
  <2>2. CASE Opened(t)
    BY <2>2 DEF Opened, Answered, Reach, Send, Request, OpOf
  <2>3. CASE OpenFailed(t)
    BY <2>3 DEF OpenFailed, Answered, Goto
  <2>4. CASE Introspected(t)
    BY <2>4 DEF Introspected, Answered, Reach, Goto
  <2>5. CASE IntrospectFailed(t)
    BY <2>5 DEF IntrospectFailed, Answered, Send, Request, OpOf
  <2>6. CASE Cleaned(t)
    BY <2>6 DEF Cleaned, Answered, Goto
  <2>7. CASE \E i \in Ids : Close(t, i)
    BY <2>7 DEF Close, Send, Request, OpOf
  <2>8. CASE Closed(t)
    BY <2>8 DEF Closed, Answered, Goto
  <2>9. CASE Finish(t)
    BY <2>9 DEF Finish, Goto
  <2>10. CASE CallFails(t)
    BY <2>10 DEF CallFails
  <2>11. QED
    BY <1>1, <2>1, <2>2, <2>3, <2>4, <2>5, <2>6, <2>7, <2>8, <2>9, <2>10 DEF Registering, Closing
<1>2. ASSUME NEW r \in requests, Serve(r)
      PROVE  OwnerInv'
  <2>1. CASE ServeOpen(r)
    BY <1>2, <2>1 DEF ServeOpen, Serve, Deliver, Request
  <2>2. CASE ServeIntrospect(r)
    BY <1>2, <2>2 DEF ServeIntrospect, Serve, Deliver, Request
  <2>3. CASE ServeClose(r)
    BY <1>2, <2>3 DEF ServeClose, Serve, Deliver, Request
  <2>4. QED
    BY <1>2, <2>1, <2>2, <2>3 DEF Serve
<1>3. ASSUME NEW r \in requests, Lose(r)
      PROVE  OwnerInv'
  BY <1>3 DEF Lose
<1>4. CASE Restart
  BY <1>4 DEF Restart
<1>5. CASE UNCHANGED vars
  BY <1>5 DEF vars
<1>6. QED
  BY <1>1, <1>2, <1>3, <1>4, <1>5 DEF Next

\* What the registry and the executor know of an id follows how far it got.
LEMMA ReachStep ==
  TypeOK /\ OwnerInv /\ ReachInv /\ RequestInv /\ [Next]_vars => ReachInv'
<1> USE RegistryAssumption DEF Ops, Waiting, Ended, OpOf, callerVars, historyVars, OwnerInv, ReachInv, RequestInv, TypeOK
<1> SUFFICES ASSUME TypeOK, OwnerInv, ReachInv, RequestInv,
                    [Next]_vars
             PROVE  ReachInv'
  OBVIOUS
<1>1. ASSUME NEW t \in Callers,
             Registering(t) \/ Closing(t) \/ Finish(t) \/ CallFails(t)
      PROVE  ReachInv'
  <2>1. CASE \E i \in Ids : Register(t, i)
    BY <2>1 DEF Register, Fresh, Reach, Send, Request, OpOf
  <2>2. CASE Opened(t)
    BY <2>2 DEF Opened, Answered, Reach, Send, Request, OpOf
  <2>3. CASE OpenFailed(t)
    BY <2>3 DEF OpenFailed, Answered, Goto
  <2>4. CASE Introspected(t)
    BY <2>4 DEF Introspected, Answered, Reach, Goto
  <2>5. CASE IntrospectFailed(t)
    BY <2>5 DEF IntrospectFailed, Answered, Send, Request, OpOf
  <2>6. CASE Cleaned(t)
    BY <2>6 DEF Cleaned, Answered, Goto
  <2>7. CASE \E i \in Ids : Close(t, i)
    BY <2>7 DEF Close, Send, Request, OpOf
  <2>8. CASE Closed(t)
    BY <2>8 DEF Closed, Answered, Goto
  <2>9. CASE Finish(t)
    BY <2>9 DEF Finish, Goto
  <2>10. CASE CallFails(t)
    BY <2>10 DEF CallFails
  <2>11. QED
    BY <1>1, <2>1, <2>2, <2>3, <2>4, <2>5, <2>6, <2>7, <2>8, <2>9, <2>10 DEF Registering, Closing
<1>2. ASSUME NEW r \in requests, Serve(r)
      PROVE  ReachInv'
  <2>1. CASE ServeOpen(r)
    BY <1>2, <2>1 DEF ServeOpen, Serve, Deliver, Request
  <2>2. CASE ServeIntrospect(r)
    BY <1>2, <2>2 DEF ServeIntrospect, Serve, Deliver, Request
  <2>3. CASE ServeClose(r)
    BY <1>2, <2>3 DEF ServeClose, Serve, Deliver, Request
  <2>4. QED
    BY <1>2, <2>1, <2>2, <2>3 DEF Serve
<1>3. ASSUME NEW r \in requests, Lose(r)
      PROVE  ReachInv'
  BY <1>3 DEF Lose
<1>4. CASE Restart
  BY <1>4 DEF Restart
<1>5. CASE UNCHANGED vars
  BY <1>5 DEF vars
<1>6. QED
  BY <1>1, <1>2, <1>3, <1>4, <1>5 DEF Next

\* A request whose caller gave up is of a faulty id, what is to be opened was not
\* opened yet, and what is to be closed is in nobody else's use.
LEMMA RequestStep ==
  TypeOK /\ OwnerInv /\ ReachInv /\ RequestInv /\ [Next]_vars => RequestInv'
<1> USE RegistryAssumption DEF Ops, Waiting, Ended, OpOf, callerVars, historyVars, OwnerInv, ReachInv, RequestInv, TypeOK
<1> SUFFICES ASSUME TypeOK, OwnerInv, ReachInv, RequestInv,
                    [Next]_vars
             PROVE  RequestInv'
  OBVIOUS
<1>1. ASSUME NEW t \in Callers,
             Registering(t) \/ Closing(t) \/ Finish(t) \/ CallFails(t)
      PROVE  RequestInv'
  <2>1. CASE \E i \in Ids : Register(t, i)
    BY <2>1 DEF Register, Fresh, Reach, Send, Request, OpOf
  <2>2. CASE Opened(t)
    BY <2>2 DEF Opened, Answered, Reach, Send, Request, OpOf
  <2>3. CASE OpenFailed(t)
    BY <2>3 DEF OpenFailed, Answered, Goto
  <2>4. CASE Introspected(t)
    BY <2>4 DEF Introspected, Answered, Reach, Goto
  <2>5. CASE IntrospectFailed(t)
    BY <2>5 DEF IntrospectFailed, Answered, Send, Request, OpOf
  <2>6. CASE Cleaned(t)
    BY <2>6 DEF Cleaned, Answered, Goto
  <2>7. CASE \E i \in Ids : Close(t, i)
    BY <2>7 DEF Close, Send, Request, OpOf
  <2>8. CASE Closed(t)
    BY <2>8 DEF Closed, Answered, Goto
  <2>9. CASE Finish(t)
    BY <2>9 DEF Finish, Goto
  <2>10. CASE CallFails(t)
    BY <2>10 DEF CallFails
  <2>11. QED
    BY <1>1, <2>1, <2>2, <2>3, <2>4, <2>5, <2>6, <2>7, <2>8, <2>9, <2>10 DEF Registering, Closing
<1>2. ASSUME NEW r \in requests, Serve(r)
      PROVE  RequestInv'
  <2>1. CASE ServeOpen(r)
    BY <1>2, <2>1 DEF ServeOpen, Serve, Deliver, Request
  <2>2. CASE ServeIntrospect(r)
    BY <1>2, <2>2 DEF ServeIntrospect, Serve, Deliver, Request
  <2>3. CASE ServeClose(r)
    BY <1>2, <2>3 DEF ServeClose, Serve, Deliver, Request
  <2>4. QED
    BY <1>2, <2>1, <2>2, <2>3 DEF Serve
<1>3. ASSUME NEW r \in requests, Lose(r)
      PROVE  RequestInv'
  BY <1>3 DEF Lose
<1>4. CASE Restart
  BY <1>4 DEF Restart
<1>5. CASE UNCHANGED vars
  BY <1>5 DEF vars
<1>6. QED
  BY <1>1, <1>2, <1>3, <1>4, <1>5 DEF Next

\* An answer says what the executor did, and nothing undoes it.
LEMMA AnswerStep ==
  TypeOK /\ OwnerInv /\ ReachInv /\ RequestInv /\ AnswerInv /\ [Next]_vars => AnswerInv'
<1> USE RegistryAssumption DEF Ops, Waiting, Ended, OpOf, callerVars, historyVars, AnswerInv, OwnerInv, ReachInv, RequestInv, TypeOK
<1> SUFFICES ASSUME TypeOK, OwnerInv, ReachInv, RequestInv, AnswerInv,
                    [Next]_vars
             PROVE  AnswerInv'
  OBVIOUS
<1>1. ASSUME NEW t \in Callers,
             Registering(t) \/ Closing(t) \/ Finish(t) \/ CallFails(t)
      PROVE  AnswerInv'
  <2>1. CASE \E i \in Ids : Register(t, i)
    BY <2>1 DEF Register, Fresh, Reach, Send, Request, OpOf
  <2>2. CASE Opened(t)
    BY <2>2 DEF Opened, Answered, Reach, Send, Request, OpOf
  <2>3. CASE OpenFailed(t)
    BY <2>3 DEF OpenFailed, Answered, Goto
  <2>4. CASE Introspected(t)
    BY <2>4 DEF Introspected, Answered, Reach, Goto
  <2>5. CASE IntrospectFailed(t)
    BY <2>5 DEF IntrospectFailed, Answered, Send, Request, OpOf
  <2>6. CASE Cleaned(t)
    BY <2>6 DEF Cleaned, Answered, Goto
  <2>7. CASE \E i \in Ids : Close(t, i)
    BY <2>7 DEF Close, Send, Request, OpOf
  <2>8. CASE Closed(t)
    BY <2>8 DEF Closed, Answered, Goto
  <2>9. CASE Finish(t)
    BY <2>9 DEF Finish, Goto
  <2>10. CASE CallFails(t)
    BY <2>10 DEF CallFails
  <2>11. QED
    BY <1>1, <2>1, <2>2, <2>3, <2>4, <2>5, <2>6, <2>7, <2>8, <2>9, <2>10 DEF Registering, Closing
<1>2. ASSUME NEW r \in requests, Serve(r)
      PROVE  AnswerInv'
  <2>1. CASE ServeOpen(r)
    BY <1>2, <2>1 DEF ServeOpen, Serve, Deliver, Request
  <2>2. CASE ServeIntrospect(r)
    BY <1>2, <2>2 DEF ServeIntrospect, Serve, Deliver, Request
  <2>3. CASE ServeClose(r)
    BY <1>2, <2>3 DEF ServeClose, Serve, Deliver, Request
  <2>4. QED
    BY <1>2, <2>1, <2>2, <2>3 DEF Serve
<1>3. ASSUME NEW r \in requests, Lose(r)
      PROVE  AnswerInv'
  BY <1>3 DEF Lose
<1>4. CASE Restart
  BY <1>4 DEF Restart
<1>5. CASE UNCHANGED vars
  BY <1>5 DEF vars
<1>6. QED
  BY <1>1, <1>2, <1>3, <1>4, <1>5 DEF Next

\* Nothing closes the connector of a session.
LEMMA BackedStep ==
  TypeOK /\ OwnerInv /\ RequestInv /\ AnswerInv /\ SessionsAreBacked /\ [Next]_vars => SessionsAreBacked'
<1> USE RegistryAssumption DEF Ops, Waiting, Ended, OpOf, callerVars, historyVars, AnswerInv, OwnerInv, RequestInv, SessionsAreBacked, TypeOK
<1> SUFFICES ASSUME TypeOK, OwnerInv, RequestInv, AnswerInv, SessionsAreBacked,
                    [Next]_vars
             PROVE  SessionsAreBacked'
  OBVIOUS
<1>1. ASSUME NEW t \in Callers,
             Registering(t) \/ Closing(t) \/ Finish(t) \/ CallFails(t)
      PROVE  SessionsAreBacked'
  <2>1. CASE \E i \in Ids : Register(t, i)
    BY <2>1 DEF Register, Fresh, Reach, Send, Request, OpOf
  <2>2. CASE Opened(t)
    BY <2>2 DEF Opened, Answered, Reach, Send, Request, OpOf
  <2>3. CASE OpenFailed(t)
    BY <2>3 DEF OpenFailed, Answered, Goto
  <2>4. CASE Introspected(t)
    BY <2>4 DEF Introspected, Answered, Reach, Goto
  <2>5. CASE IntrospectFailed(t)
    BY <2>5 DEF IntrospectFailed, Answered, Send, Request, OpOf
  <2>6. CASE Cleaned(t)
    BY <2>6 DEF Cleaned, Answered, Goto
  <2>7. CASE \E i \in Ids : Close(t, i)
    BY <2>7 DEF Close, Send, Request, OpOf
  <2>8. CASE Closed(t)
    BY <2>8 DEF Closed, Answered, Goto
  <2>9. CASE Finish(t)
    BY <2>9 DEF Finish, Goto
  <2>10. CASE CallFails(t)
    BY <2>10 DEF CallFails
  <2>11. QED
    BY <1>1, <2>1, <2>2, <2>3, <2>4, <2>5, <2>6, <2>7, <2>8, <2>9, <2>10 DEF Registering, Closing
<1>2. ASSUME NEW r \in requests, Serve(r)
      PROVE  SessionsAreBacked'
  <2>1. CASE ServeOpen(r)
    BY <1>2, <2>1 DEF ServeOpen, Serve, Deliver, Request
  <2>2. CASE ServeIntrospect(r)
    BY <1>2, <2>2 DEF ServeIntrospect, Serve, Deliver, Request
  <2>3. CASE ServeClose(r)
    BY <1>2, <2>3 DEF ServeClose, Serve, Deliver, Request
  <2>4. QED
    BY <1>2, <2>1, <2>2, <2>3 DEF Serve
<1>3. ASSUME NEW r \in requests, Lose(r)
      PROVE  SessionsAreBacked'
  BY <1>3 DEF Lose
<1>4. CASE Restart
  BY <1>4 DEF Restart
<1>5. CASE UNCHANGED vars
  BY <1>5 DEF vars
<1>6. QED
  BY <1>1, <1>2, <1>3, <1>4, <1>5 DEF Next

\* A caller that leaves an id leaves no connector under it, or a lost call.
LEMMA LeakStep ==
  TypeOK /\ OwnerInv /\ ReachInv /\ RequestInv /\ AnswerInv /\ LeaksOnlyByLostCalls /\ [Next]_vars => LeaksOnlyByLostCalls'
<1> USE RegistryAssumption DEF Ops, Waiting, Ended, OpOf, callerVars, historyVars, AnswerInv, LeaksOnlyByLostCalls, OwnerInv, ReachInv, RequestInv, TypeOK, HeldBy
<1> SUFFICES ASSUME TypeOK, OwnerInv, ReachInv, RequestInv, AnswerInv, LeaksOnlyByLostCalls,
                    [Next]_vars
             PROVE  LeaksOnlyByLostCalls'
  OBVIOUS
<1>1. ASSUME NEW t \in Callers,
             Registering(t) \/ Closing(t) \/ Finish(t) \/ CallFails(t)
      PROVE  LeaksOnlyByLostCalls'
  <2>1. CASE \E i \in Ids : Register(t, i)
    BY <2>1 DEF Register, Fresh, Reach, Send, Request, OpOf
  <2>2. CASE Opened(t)
    BY <2>2 DEF Opened, Answered, Reach, Send, Request, OpOf
  <2>3. CASE OpenFailed(t)
    BY <2>3 DEF OpenFailed, Answered, Goto
  <2>4. CASE Introspected(t)
    BY <2>4 DEF Introspected, Answered, Reach, Goto
  <2>5. CASE IntrospectFailed(t)
    BY <2>5 DEF IntrospectFailed, Answered, Send, Request, OpOf
  <2>6. CASE Cleaned(t)
    BY <2>6 DEF Cleaned, Answered, Goto
  <2>7. CASE \E i \in Ids : Close(t, i)
    BY <2>7 DEF Close, Send, Request, OpOf
  <2>8. CASE Closed(t)
    BY <2>8 DEF Closed, Answered, Goto
  <2>9. CASE Finish(t)
    BY <2>9 DEF Finish, Goto
  <2>10. CASE CallFails(t)
    BY <2>10 DEF CallFails
  <2>11. QED
    BY <1>1, <2>1, <2>2, <2>3, <2>4, <2>5, <2>6, <2>7, <2>8, <2>9, <2>10 DEF Registering, Closing
<1>2. ASSUME NEW r \in requests, Serve(r)
      PROVE  LeaksOnlyByLostCalls'
  <2>1. CASE ServeOpen(r)
    BY <1>2, <2>1 DEF ServeOpen, Serve, Deliver, Request
  <2>2. CASE ServeIntrospect(r)
    BY <1>2, <2>2 DEF ServeIntrospect, Serve, Deliver, Request
  <2>3. CASE ServeClose(r)
    BY <1>2, <2>3 DEF ServeClose, Serve, Deliver, Request
  <2>4. QED
    BY <1>2, <2>1, <2>2, <2>3 DEF Serve
<1>3. ASSUME NEW r \in requests, Lose(r)
      PROVE  LeaksOnlyByLostCalls'
  BY <1>3 DEF Lose
<1>4. CASE Restart
  BY <1>4 DEF Restart
<1>5. CASE UNCHANGED vars
  BY <1>5 DEF vars
<1>6. QED
  BY <1>1, <1>2, <1>3, <1>4, <1>5 DEF Next

\* What is opened was not closed before: what was closed had been opened.
LEMMA ClosedStep ==
  TypeOK /\ OwnerInv /\ ReachInv /\ RequestInv /\ ClosedStaysClosed /\ [Next]_vars => ClosedStaysClosed'
<1> USE RegistryAssumption DEF Ops, Waiting, Ended, OpOf, callerVars, historyVars, ClosedStaysClosed, OwnerInv, ReachInv, RequestInv, TypeOK
<1> SUFFICES ASSUME TypeOK, OwnerInv, ReachInv, RequestInv, ClosedStaysClosed,
                    [Next]_vars
             PROVE  ClosedStaysClosed'
  OBVIOUS
<1>1. ASSUME NEW t \in Callers,
             Registering(t) \/ Closing(t) \/ Finish(t) \/ CallFails(t)
      PROVE  ClosedStaysClosed'
  <2>1. CASE \E i \in Ids : Register(t, i)
    BY <2>1 DEF Register, Fresh, Reach, Send, Request, OpOf
  <2>2. CASE Opened(t)
    BY <2>2 DEF Opened, Answered, Reach, Send, Request, OpOf
  <2>3. CASE OpenFailed(t)
    BY <2>3 DEF OpenFailed, Answered, Goto
  <2>4. CASE Introspected(t)
    BY <2>4 DEF Introspected, Answered, Reach, Goto
  <2>5. CASE IntrospectFailed(t)
    BY <2>5 DEF IntrospectFailed, Answered, Send, Request, OpOf
  <2>6. CASE Cleaned(t)
    BY <2>6 DEF Cleaned, Answered, Goto
  <2>7. CASE \E i \in Ids : Close(t, i)
    BY <2>7 DEF Close, Send, Request, OpOf
  <2>8. CASE Closed(t)
    BY <2>8 DEF Closed, Answered, Goto
  <2>9. CASE Finish(t)
    BY <2>9 DEF Finish, Goto
  <2>10. CASE CallFails(t)
    BY <2>10 DEF CallFails
  <2>11. QED
    BY <1>1, <2>1, <2>2, <2>3, <2>4, <2>5, <2>6, <2>7, <2>8, <2>9, <2>10 DEF Registering, Closing
<1>2. ASSUME NEW r \in requests, Serve(r)
      PROVE  ClosedStaysClosed'
  <2>1. CASE ServeOpen(r)
    BY <1>2, <2>1 DEF ServeOpen, Serve, Deliver, Request
  <2>2. CASE ServeIntrospect(r)
    BY <1>2, <2>2 DEF ServeIntrospect, Serve, Deliver, Request
  <2>3. CASE ServeClose(r)
    BY <1>2, <2>3 DEF ServeClose, Serve, Deliver, Request
  <2>4. QED
    BY <1>2, <2>1, <2>2, <2>3 DEF Serve
<1>3. ASSUME NEW r \in requests, Lose(r)
      PROVE  ClosedStaysClosed'
  BY <1>3 DEF Lose
<1>4. CASE Restart
  BY <1>4 DEF Restart
<1>5. CASE UNCHANGED vars
  BY <1>5 DEF vars
<1>6. QED
  BY <1>1, <1>2, <1>3, <1>4, <1>5 DEF Next

-----------------------------------------------------------------------------
(* The theorems.                                                           *)

\* The parts of the invariant together: every step of a call, of the executor and
\* of the network keeps what the registry, the requests and the connectors know of
\* each other.
THEOREM Invariance == Spec => []IInv
<1>1. Init => IInv
  BY RegistryAssumption
     DEF Init, IInv, TypeOK, Ops, Waiting, Ended, OwnerInv, ReachInv, RequestInv,
         AnswerInv, SessionsAreBacked, LeaksOnlyByLostCalls, ClosedStaysClosed
<1>2. IInv /\ [Next]_vars => IInv'
  BY TypeStep, OwnerStep, ReachStep, RequestStep, AnswerStep, BackedStep, LeakStep, ClosedStep DEF IInv
<1>3. QED
  BY <1>1, <1>2, PTL DEF Spec

\* Type correctness: every request names a tool the executor has, and an id.
THEOREM Typing == Spec => []TypeOK
<1>1. IInv => TypeOK
  BY DEF IInv
<1>2. QED
  BY <1>1, Invariance, PTL

\* A session that is offered has its connector, unless the executor restarted:
\* neither a late answer nor the cleaning up of a failed Register closes it.
THEOREM SessionsBacked == Spec => []SessionsAreBacked
<1>1. IInv => SessionsAreBacked
  BY DEF IInv
<1>2. QED
  BY <1>1, Invariance, PTL

\* Register and Close leave no connector behind without a session but through a
\* call the transport lost.
THEOREM LeaksExplained == Spec => []LeaksOnlyByLostCalls
<1>1. IInv => LeaksOnlyByLostCalls
  BY DEF IInv
<1>2. QED
  BY <1>1, Invariance, PTL

\* A connection once closed stays closed, lost and late calls of its id included.
THEOREM NoReopening == Spec => []ClosedStaysClosed
<1>1. IInv => ClosedStaysClosed
  BY DEF IInv
<1>2. QED
  BY <1>1, Invariance, PTL

=============================================================================
