\* Two calls side by side on two connections, each of which either may borrow
\* after the other.
CONSTANTS
  Handlers = {h1, h2}
  Conns = {c1, c2}
  NoConn = NoConn
SPECIFICATION FairSpec
INVARIANTS
  NothingWritten
  ReturnedConnectionsAreClean
  QueriesAreConfined
PROPERTY QueriesEnd
