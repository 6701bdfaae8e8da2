\* Two goroutines registering and closing over a transport that loses and
\* delays calls, with one restart of the executor.
CONSTANTS
  Ids = {i1, i2, i3}
  NoId = NoId
  Callers = {a, b}
\* The agent has used up the ids, or its session with the executor is gone.
CHECK_DEADLOCK FALSE
SPECIFICATION Spec
SYMMETRY NameSymmetry
INVARIANTS
  TypeOK
  SessionsAreBacked
  LeaksOnlyByLostCalls
  ClosedStaysClosed
