\* One registration whose call is lost.
CONSTANTS
  Ids = {i1}
  NoId = NoId
  Callers = {a}
\* The agent has used up the ids, or its session with the executor is gone.
CHECK_DEADLOCK FALSE
SPECIFICATION Spec
INVARIANT FailedRegisterLeavesNothing
