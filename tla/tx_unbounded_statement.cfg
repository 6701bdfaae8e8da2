\* One call of Introspect.
CONSTANTS
  Handlers = {h1}
  Conns = {c1}
  NoConn = NoConn
SPECIFICATION Spec
INVARIANT EveryStatementBounded
