\* Three concurrent calls on one connector: a query holds its connection, another
\* queues on the full pool or a call on the lock, and a Close waits for them.
CONSTANTS
  Ids = {i1, none}
  EmptyId = none
  Handlers = {h1, h2, h3}
  Pools = {p1}
  NoPool = NoPool
  Nobody = Nobody
  PoolSize = 1
  MaxQueries = 2
SPECIFICATION FairSpec
INVARIANT LoansEndWithTheStatement
PROPERTY EveryCallReturns
