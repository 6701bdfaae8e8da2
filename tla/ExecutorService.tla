-------------------------- MODULE ExecutorService --------------------------
(***************************************************************************)
(* internal/executor/service.go with the pools of                          *)
(* internal/connector/postgres: the map from connection ids to connectors, *)
(* the sync.RWMutex that guards it, and the four tool handlers that run    *)
(* concurrently, one goroutine per MCP call.                               *)
(*                                                                         *)
(* The lock is held across the whole of OpenConnection's swap and of       *)
(* CloseConnection, pgxpool.Pool.Close (which waits for every borrowed     *)
(* connection) included.  Queries look their connector up under the read   *)
(* lock, drop it, and use the connector afterwards.                        *)
(***************************************************************************)
EXTENDS Naturals, FiniteSets

CONSTANTS Ids,        \* connection ids that calls carry
          EmptyId,    \* the empty string, one of Ids
          Handlers,   \* goroutines serving tool calls
          Pools,      \* connectors, each the owner of one pgxpool (bound: one
                      \* per successful dial of a behaviour)
          NoPool,     \* the nil connector
          Nobody,     \* the holder of a free lock
          PoolSize,   \* connections a pool lends at the same time
          MaxQueries  \* bound: statements one Introspect issues

ASSUME ExecutorAssumption ==
  /\ EmptyId \in Ids
  /\ NoPool \notin Pools
  /\ Nobody \notin Handlers
  /\ PoolSize \in Nat \ {0}
  /\ MaxQueries \in Nat \ {0}

VARIABLES conns,      \* Service.conns
          writer,     \* the handler that holds Service.mu for writing
          phase,      \* each pool: unused, open, closing (Close called), closed
          home,       \* history: the id a pool was opened for
          users,      \* the handlers a pool has lent a connection to
          pc,         \* where each handler is
          id,         \* its connection_id argument
          conn,       \* its connector: the one it opened, or looked up
          victim,     \* the connector it has to close
          left,       \* the statements it has yet to run
          cancelled   \* the handlers whose context the client has cancelled

poolVars == <<phase, home, users>>
callVars == <<id, conn, victim, left>>
vars     == <<conns, writer, phase, home, users, pc, id, conn, victim, left, cancelled>>

OpenPcs   == {"connect", "ping", "lockOpen"}
LockedPcs == {"close", "drain", "assign"}
QueryPcs  == {"validate", "acquire", "query"}
LookupPcs == {"lookup", "lookupQuery"}
DonePcs   == {"ok", "failed"}
Pcs == {"idle", "lockClose"} \cup OpenPcs \cup LockedPcs \cup QueryPcs
         \cup LookupPcs \cup DonePcs

Init ==
  /\ conns     = [i \in Ids |-> NoPool]
  /\ writer    = Nobody
  /\ phase     = [p \in Pools |-> "unused"]
  /\ home      = [p \in Pools |-> EmptyId]
  /\ users     = [p \in Pools |-> {}]
  /\ pc        = [h \in Handlers |-> "idle"]
  /\ id        = [h \in Handlers |-> EmptyId]
  /\ conn      = [h \in Handlers |-> NoPool]
  /\ victim    = [h \in Handlers |-> NoPool]
  /\ left      = [h \in Handlers |-> 0]
  /\ cancelled = {}

Goto(h, l) == pc' = [pc EXCEPT ![h] = l]

-----------------------------------------------------------------------------
(* A call arrives (mcpserver.go): one goroutine per call.                  *)

Call(h, i, l, n) ==
  /\ pc[h] = "idle"
  /\ id'   = [id EXCEPT ![h] = i]
  /\ left' = [left EXCEPT ![h] = n]
  /\ Goto(h, l)
  /\ UNCHANGED <<conns, writer, phase, home, users, conn, victim, cancelled>>

CallOpen(h, i)  == Call(h, i, IF i = EmptyId THEN "failed" ELSE "connect", 0)
CallClose(h, i) == Call(h, i, "lockClose", 0)
CallIntrospect(h, i, n) == Call(h, i, "lookup", n)
CallValidateAndExecute(h, i) == Call(h, i, "lookupQuery", 1)

\* The client gives up on a call: its handler's context is cancelled.  Only
\* the handlers that still consult the context are told; a handler waiting for
\* the lock or inside Pool.Close does not look at it.
Cancel(h) ==
  /\ pc[h] \in {"connect", "ping"} \cup LookupPcs \cup QueryPcs
  /\ h \notin cancelled
  /\ cancelled' = cancelled \cup {h}
  /\ UNCHANGED <<conns, writer, phase, home, users, pc, id, conn, victim, left>>

\* The handler returns, the call is answered and the goroutine ends.
Reply(h) ==
  /\ pc[h] \in DonePcs
  /\ Goto(h, "idle")
  /\ id'        = [id EXCEPT ![h] = EmptyId]
  /\ conn'      = [conn EXCEPT ![h] = NoPool]
  /\ victim'    = [victim EXCEPT ![h] = NoPool]
  /\ left'      = [left EXCEPT ![h] = 0]
  /\ cancelled' = cancelled \ {h}
  /\ UNCHANGED <<conns, writer, phase, home, users>>

-----------------------------------------------------------------------------
(* OpenConnection: registry.New, then the swap under the write lock.       *)

\* pgxpool.New: the pool exists, and is reachable from this handler only.
ConnectPool(h) ==
  /\ pc[h] = "connect"
  /\ \E p \in Pools :
       /\ phase[p] = "unused"
       /\ phase' = [phase EXCEPT ![p] = "open"]
       /\ home'  = [home EXCEPT ![p] = id[h]]
       /\ conn'  = [conn EXCEPT ![h] = p]
  /\ Goto(h, "ping")
  /\ UNCHANGED <<conns, writer, users, id, victim, left, cancelled>>

\* An unknown dialect, an empty or malformed DSN: no pool was made.
ConnectFails(h) ==
  /\ pc[h] = "connect"
  /\ Goto(h, "failed")
  /\ UNCHANGED <<conns, writer, poolVars, callVars, cancelled>>

PingOk(h) ==
  /\ pc[h] = "ping"
  /\ h \notin cancelled
  /\ Goto(h, "lockOpen")
  /\ UNCHANGED <<conns, writer, poolVars, callVars, cancelled>>

\* A failed ping closes the pool before the error is returned.
PingFails(h) ==
  /\ pc[h] = "ping"
  /\ phase' = [phase EXCEPT ![conn[h]] = "closed"]
  /\ conn'  = [conn EXCEPT ![h] = NoPool]
  /\ Goto(h, "failed")
  /\ UNCHANGED <<conns, writer, home, users, id, victim, left, cancelled>>

\* Mutant: the connector already registered is overwritten, not closed.
LockOpenNoEvict(h) ==
  /\ pc[h] = "lockOpen"
  /\ writer = Nobody
  /\ writer' = h
  /\ Goto(h, "assign")
  /\ UNCHANGED <<conns, poolVars, callVars, cancelled>>

\* Mutant: the swap runs without the lock.
LockOpenUnlocked(h) ==
  /\ pc[h] = "lockOpen"
  /\ victim' = [victim EXCEPT ![h] = conns[id[h]]]
  /\ Goto(h, IF conns[id[h]] = NoPool THEN "assign" ELSE "close")
  /\ UNCHANGED <<conns, writer, poolVars, id, conn, left, cancelled>>

\* The lock is taken and the entry read: a connector already registered under
\* the id has to be closed first.
LockOpen(h) ==
  /\ pc[h] = "lockOpen"
  /\ writer = Nobody
  /\ writer' = h
  /\ victim' = [victim EXCEPT ![h] = conns[id[h]]]
  /\ Goto(h, IF conns[id[h]] = NoPool THEN "assign" ELSE "close")
  /\ UNCHANGED <<conns, poolVars, id, conn, left, cancelled>>

\* s.conns[connectionID] = c, and the deferred Unlock.
Assign(h) ==
  /\ pc[h] = "assign"
  /\ conns'  = [conns EXCEPT ![id[h]] = conn[h]]
  /\ writer' = Nobody
  /\ Goto(h, "ok")
  /\ UNCHANGED <<poolVars, callVars, cancelled>>

-----------------------------------------------------------------------------
(* CloseConnection, and the Close it shares with OpenConnection.           *)

\* Mutant: the connector is closed but stays in the map.
LockCloseNoDelete(h) ==
  /\ pc[h] = "lockClose"
  /\ writer = Nobody
  /\ \/ /\ conns[id[h]] = NoPool
        /\ Goto(h, "ok")
        /\ UNCHANGED <<writer, victim>>
     \/ /\ conns[id[h]] # NoPool
        /\ writer' = h
        /\ victim' = [victim EXCEPT ![h] = conns[id[h]]]
        /\ Goto(h, "close")
  /\ UNCHANGED <<conns, poolVars, id, conn, left, cancelled>>

\* Mutant: the early return for an unknown id comes without the unlock.
LockCloseKeepsLock(h) ==
  /\ pc[h] = "lockClose"
  /\ writer = Nobody
  /\ writer' = h
  /\ victim' = [victim EXCEPT ![h] = conns[id[h]]]
  /\ conns'  = [conns EXCEPT ![id[h]] = NoPool]
  /\ Goto(h, IF conns[id[h]] = NoPool THEN "ok" ELSE "close")
  /\ UNCHANGED <<poolVars, id, conn, left, cancelled>>

\* delete(s.conns, connectionID); an unknown id is a no-op.
LockClose(h) ==
  /\ pc[h] = "lockClose"
  /\ writer = Nobody
  /\ \/ /\ conns[id[h]] = NoPool
        /\ Goto(h, "ok")
        /\ UNCHANGED <<conns, writer, victim>>
     \/ /\ conns[id[h]] # NoPool
        /\ writer' = h
        /\ victim' = [victim EXCEPT ![h] = conns[id[h]]]
        /\ conns'  = [conns EXCEPT ![id[h]] = NoPool]
        /\ Goto(h, "close")
  /\ UNCHANGED <<poolVars, id, conn, left, cancelled>>

\* Pool.Close marks the pool closed: from here on Acquire is refused ...
StartClose(h) ==
  /\ pc[h] = "close"
  /\ phase' = [phase EXCEPT ![victim[h]] = "closing"]
  /\ Goto(h, "drain")
  /\ UNCHANGED <<conns, writer, home, users, callVars, cancelled>>

\* ... and returns once every borrowed connection is back.  OpenConnection goes
\* on to register the connector it opened, CloseConnection unlocks and returns.
FinishClose(h) ==
  /\ pc[h] = "drain"
  /\ users[victim[h]] = {}
  /\ phase' = [phase EXCEPT ![victim[h]] = "closed"]
  /\ \/ /\ conn[h] # NoPool
        /\ Goto(h, "assign")
        /\ UNCHANGED writer
     \/ /\ conn[h] = NoPool
        /\ writer' = Nobody
        /\ Goto(h, "ok")
  /\ UNCHANGED <<conns, home, users, callVars, cancelled>>

-----------------------------------------------------------------------------
(* Introspect and ValidateAndExecute: look up, unlock, then use.           *)

\* Mutant: an id that is not registered is served by any other connector.
LookupAny(h) ==
  /\ pc[h] \in LookupPcs
  /\ writer = Nobody
  /\ \E i \in Ids :
       /\ conns[id[h]] # NoPool => i = id[h]
       /\ conn' = [conn EXCEPT ![h] = conns[i]]
       /\ Goto(h, IF conns[i] = NoPool THEN "failed"
                  ELSE IF pc[h] = "lookup" THEN "acquire" ELSE "validate")
  /\ UNCHANGED <<conns, writer, poolVars, id, victim, left, cancelled>>

\* Service.get: the read lock is held for the map access only.
Lookup(h) ==
  /\ pc[h] \in LookupPcs
  /\ writer = Nobody
  /\ conn' = [conn EXCEPT ![h] = conns[id[h]]]
  /\ Goto(h, IF conns[id[h]] = NoPool THEN "failed"
             ELSE IF pc[h] = "lookup" THEN "acquire" ELSE "validate")
  /\ UNCHANGED <<conns, writer, poolVars, id, victim, left, cancelled>>

\* Connector.Validate is pure: the query passes, or the call is answered with
\* the guard's error.
Validate(h) ==
  /\ pc[h] = "validate"
  /\ Goto(h, "acquire") \/ Goto(h, "failed")
  /\ UNCHANGED <<conns, writer, poolVars, callVars, cancelled>>

\* The pool lends a connection to a statement of Introspect or to the
\* transaction of Execute.
Acquire(h) ==
  /\ pc[h] = "acquire"
  /\ h \notin cancelled
  /\ phase[conn[h]] = "open"
  /\ Cardinality(users[conn[h]]) < PoolSize
  /\ users' = [users EXCEPT ![conn[h]] = @ \cup {h}]
  /\ Goto(h, "query")
  /\ UNCHANGED <<conns, writer, phase, home, callVars, cancelled>>

\* The pool is closed, the context is done, or a new connection cannot be
\* dialled; a caller waiting on a full pool is told of the first two only.
AcquireFails(h) ==
  /\ pc[h] = "acquire"
  /\ \/ phase[conn[h]] # "open"
     \/ h \in cancelled
     \/ Cardinality(users[conn[h]]) < PoolSize
  /\ Goto(h, "failed")
  /\ UNCHANGED <<conns, writer, poolVars, callVars, cancelled>>

Release(h) == users' = [users EXCEPT ![conn[h]] = @ \ {h}]

\* Mutant: one statement too many.
QueryDoneOneMore(h) ==
  /\ pc[h] = "query"
  /\ Release(h)
  /\ left' = [left EXCEPT ![h] = @ - 1]
  /\ Goto(h, IF left[h] = 0 THEN "ok" ELSE "acquire")
  /\ UNCHANGED <<conns, writer, phase, home, id, conn, victim, cancelled>>

\* The rows are read (Execute: and the transaction rolled back) and the
\* connection is back; Introspect borrows one again for its next statement.
QueryDone(h) ==
  /\ pc[h] = "query"
  /\ Release(h)
  /\ left' = [left EXCEPT ![h] = @ - 1]
  /\ Goto(h, IF left[h] = 1 THEN "ok" ELSE "acquire")
  /\ UNCHANGED <<conns, writer, phase, home, id, conn, victim, cancelled>>

\* Mutant: the error path returns without closing the rows.
QueryFailsKeeps(h) ==
  /\ pc[h] = "query"
  /\ Goto(h, "failed")
  /\ UNCHANGED <<conns, writer, poolVars, callVars, cancelled>>

\* An error of the database or a cancelled context; the deferred rows.Close and
\* tx.Rollback give the connection back on this path too.
QueryFails(h) ==
  /\ pc[h] = "query"
  /\ Release(h)
  /\ Goto(h, "failed")
  /\ UNCHANGED <<conns, writer, phase, home, callVars, cancelled>>

-----------------------------------------------------------------------------

Arrive(h) ==
  \E i \in Ids :
    \/ CallOpen(h, i)
    \/ CallClose(h, i)
    \/ \E n \in 1..MaxQueries : CallIntrospect(h, i, n)
    \/ CallValidateAndExecute(h, i)

\* A handler that waits for the database is answered, or its context ends the
\* wait.
DatabaseAnswers(h) ==
  \/ ConnectPool(h) \/ ConnectFails(h)
  \/ PingOk(h) \/ PingFails(h)
  \/ QueryDone(h) \/ QueryFails(h)

\* The steps of a handler that the database has no part in: with the lock or
\* without it, to get the lock, and to get a connection from the pool.
Step(h) ==
  \/ Assign(h) \/ StartClose(h) \/ FinishClose(h) \/ Validate(h) \/ Reply(h)
  \/ LockOpen(h) \/ LockClose(h) \/ Lookup(h)
  \/ Acquire(h) \/ AcquireFails(h)

Next == \E h \in Handlers :
          Arrive(h) \/ Cancel(h) \/ DatabaseAnswers(h) \/ Step(h)

Spec == Init /\ [][Next]_vars

\* A goroutine that can run does.  sync.RWMutex does not starve a waiter, and
\* neither does the semaphore of a pool: both serve a waiter that is ready
\* again and again.  Nothing is assumed of the database.
Fairness == \A h \in Handlers : SF_vars(Step(h))

FairSpec == Spec /\ Fairness

-----------------------------------------------------------------------------
(* Properties.                                                             *)

\* Every counter and handle has its range: the type invariant.
TypeOK ==
  /\ conns     \in [Ids -> Pools \cup {NoPool}]
  /\ writer    \in Handlers \cup {Nobody}
  /\ phase     \in [Pools -> {"unused", "open", "closing", "closed"}]
  /\ home      \in [Pools -> Ids]
  /\ users     \in [Pools -> SUBSET Handlers]
  /\ pc        \in [Handlers -> Pcs]
  /\ id        \in [Handlers -> Ids]
  /\ conn      \in [Handlers -> Pools \cup {NoPool}]
  /\ victim    \in [Handlers -> Pools \cup {NoPool}]
  /\ left      \in [Handlers -> 0..MaxQueries]
  /\ cancelled \in SUBSET Handlers

Opens(h, p)  == pc[h] \in OpenPcs \cup LockedPcs /\ conn[h] = p
Closes(h, p) == pc[h] \in {"close", "drain"} /\ victim[h] = p

\* No connector is lost: a pool that still holds database connections is in the
\* map, or in the hands of the call that opened it or of the call that closes
\* it.  Two OpenConnection calls racing for one id, and an open racing a close,
\* may not leave a pool that nobody will ever close (OpenConnection closes the
\* connector it replaces).
NoOrphanPool ==
  \A p \in Pools : phase[p] \in {"open", "closing"} =>
    \/ conns[home[p]] = p
    \/ \E h \in Handlers : Opens(h, p) \/ Closes(h, p)

\* Whenever the lock is free, what get() would return is a connector that was
\* opened for this very id and on which Close has not been called.
LookupFindsOpenPool ==
  writer = Nobody =>
    \A i \in Ids : conns[i] # NoPool => /\ phase[conns[i]] = "open"
                                       /\ home[conns[i]] = i

\* A query runs on a connector opened for the connection_id it was sent with,
\* although the lookup is over and the entry may have been replaced since.
QueryStaysHome ==
  \A h \in Handlers : pc[h] \in QueryPcs => home[conn[h]] = id[h]

\* A connection is on loan exactly as long as a statement runs: no way out of
\* Introspect or Execute keeps one, which is what Pool.Close (and with it the
\* write lock) waits for.
LoansEndWithTheStatement ==
  \A p \in Pools : users[p] = {h \in Handlers : pc[h] = "query" /\ conn[h] = p}

\* If no call waits for the database for ever, every tool call is answered: also
\* the calls queued on the lock behind a Close that waits for a query to give its
\* connection back, and the query queued on the full pool that Close drains.
\* (Introspect's statements have no timeout, so the premise is not free.)
EveryCallReturns ==
  (\A h \in Handlers : []<>(pc[h] \notin {"connect", "ping", "query"}))
    => \A h \in Handlers : pc[h] # "idle" ~> pc[h] = "idle"

\* The lives of the pools as PoolLifecycle promises them.  An open pool is
\* private as long as the OpenConnection that made it has not registered it.
StageOf(p) ==
  CASE phase[p] = "closing" -> "retired"
    [] phase[p] = "open"    -> IF \E h \in Handlers : Opens(h, p)
                               THEN "private" ELSE "serving"
    [] OTHER                -> phase[p]

LifeStage == [p \in Pools |-> StageOf(p)]

Lifecycle == INSTANCE PoolLifecycle WITH stage <- LifeStage

\* The executor implements PoolLifecycle: one serving pool per id, no loan from
\* a pool that is being closed, no pool closed under a running query.
PoolsLiveOneLife == Lifecycle!Spec

\* What a call waits for as a caller sees it.  OpenConnection has its effect when
\* the entry is set, CloseConnection when it is deleted, while the pool has yet
\* to drain; for a query it is the lookup that counts.
AtOf(h) ==
  IF pc[h] \in OpenPcs \cup {"assign"} THEN "opening"
  ELSE IF pc[h] \in {"close", "drain"} THEN IF conn[h] # NoPool THEN "opening" ELSE "ok"
  ELSE IF pc[h] = "lockClose" THEN "closing"
  ELSE IF pc[h] \in LookupPcs THEN "asking"
  ELSE IF pc[h] \in QueryPcs THEN "using"
  ELSE pc[h]

CallStage == [h \in Handlers |-> AtOf(h)]

Keys == {i \in Ids : conns[i] # NoPool}

Effects == INSTANCE CallEffects WITH registered <- Keys, at <- CallStage

\* Every call takes effect on the map at one moment between its arrival and its
\* reply, although it runs in several steps in and out of the lock beside
\* others: an answered open or close has happened, a registered id is never
\* taken for unknown (nor while its connector is being replaced), and
\* nothing else moves an id in or out.
CallsTakeEffectAtOnce == Effects!Spec

-----------------------------------------------------------------------------
(* The inductive invariant behind the theorems of ExecutorServiceProofs.   *)

\* The lock is held exactly by the handler between Lock and Unlock.
LockInv == \A h \in Handlers : writer = h <=> pc[h] \in LockedPcs

\* What the local variables hold at each place of a handler.
LocalsInv ==
  \A h \in Handlers :
    /\ pc[h] \in {"idle", "connect", "lockClose"} \cup LookupPcs => conn[h] = NoPool
    /\ pc[h] \in {"ping", "lockOpen", "assign"} \cup QueryPcs => conn[h] # NoPool
    /\ pc[h] \in LookupPcs \cup QueryPcs => left[h] > 0
    /\ pc[h] = "connect" => id[h] # EmptyId

\* Nobody knows a pool that was never opened.
UnusedInv ==
  \A p \in Pools : phase[p] = "unused" =>
    /\ \A i \in Ids : conns[i] # p
    /\ \A h \in Handlers : conn[h] # p /\ victim[h] # p

\* A pool in the hands of its opener is open and known to nobody else.
OpenerInv ==
  \A h \in Handlers : \A p \in Pools : Opens(h, p) =>
    /\ phase[p] = "open"
    /\ home[p] = id[h]
    /\ \A i \in Ids : conns[i] # p
    /\ \A g \in Handlers : victim[g] # p /\ (g # h => conn[g] # p)

\* The entry of an id was opened for it, and is open but for the moment in which
\* OpenConnection replaces it.
EntryInv ==
  \A i \in Ids : conns[i] # NoPool =>
    /\ home[conns[i]] = i
    /\ \/ phase[conns[i]] = "open"
       \/ \E h \in Handlers : /\ pc[h] \in {"drain", "assign"}
                               /\ conn[h] # NoPool
                               /\ id[h] = i

\* The pool a handler closes was the entry of its id.
VictimInv ==
  \A h \in Handlers :
    /\ pc[h] \in {"close", "drain"} =>
         /\ victim[h] # NoPool
         /\ home[victim[h]] = id[h]
         /\ phase[victim[h]] = IF pc[h] = "close" THEN "open" ELSE "closing"
         /\ conns[id[h]] = IF conn[h] # NoPool THEN victim[h] ELSE NoPool
    /\ pc[h] = "assign" /\ conns[id[h]] # NoPool => phase[conns[id[h]]] = "closed"

IInv ==
  /\ TypeOK
  /\ LockInv
  /\ LocalsInv
  /\ UnusedInv
  /\ OpenerInv
  /\ EntryInv
  /\ VictimInv
  /\ QueryStaysHome
  /\ LoansEndWithTheStatement
  /\ NoOrphanPool

=============================================================================
