\* The shortest query whose appended LIMIT bounds nothing.
CONSTANT MaxPieces = 4
\* A query is judged once.
CHECK_DEADLOCK FALSE
SPECIFICATION Spec
INVARIANT PassedIsLimited
