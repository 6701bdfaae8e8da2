\* Five pieces: a LIMIT in a subquery, a statement behind a literal with a
\* semicolon, a word after a comment and its end of line all fit.
CONSTANT MaxPieces = 5
\* A query is judged once.
CHECK_DEADLOCK FALSE
SPECIFICATION Spec
INVARIANTS
  PassedIsOneRead
  OwnLimitIsKept
  LimitIsLostOnlyAtTheEdges
