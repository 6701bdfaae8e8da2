\* Three concurrent calls on two ids: a connector in the map, two more being
\* opened for its id, and a query on any of them can coexist.
CONSTANTS
  Ids = {i1, i2, none}
  EmptyId = none
  Handlers = {h1, h2, h3}
  Pools = {p1, p2, p3}
  NoPool = NoPool
  Nobody = Nobody
  PoolSize = 1
  MaxQueries = 1
SPECIFICATION Spec
SYMMETRY CallSymmetry
INVARIANTS
  TypeOK
  NoOrphanPool
  LookupFindsOpenPool
  QueryStaysHome
PROPERTIES
  CallsTakeEffectAtOnce
  PoolsLiveOneLife
