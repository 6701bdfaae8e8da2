--------------------------- MODULE PoolLifecycle ---------------------------
(***************************************************************************)
(* What the executor promises about the database pools it owns, with none  *)
(* of its locking: every pool has one life.  It is opened for one          *)
(* connection id, is private to the call that opened it until it is        *)
(* published, serves the queries of that id, is retired once, and is       *)
(* closed only when the last query running on it has given its connection  *)
(* back.  ExecutorService implements this specification.                   *)
(***************************************************************************)
EXTENDS Naturals, FiniteSets

CONSTANTS Ids,       \* connection ids
          EmptyId,   \* the empty string, the home of no pool
          Handlers,  \* the tool calls the executor serves
          Pools,     \* the pools (pgxpool.Pool) ever opened
          PoolSize   \* connections a pool can lend at the same time

VARIABLES stage,  \* where each pool is in its life
          home,   \* the id each pool was opened for
          users   \* the handlers each pool has lent a connection to

vars == <<stage, home, users>>

Stages == {"unused", "private", "serving", "retired", "closed"}

Init ==
  /\ stage = [p \in Pools |-> "unused"]
  /\ home  = [p \in Pools |-> EmptyId]
  /\ users = [p \in Pools |-> {}]

Become(p, s) == stage' = [stage EXCEPT ![p] = s]

\* A call opens a pool for the id it was given.
Open(p, i) ==
  /\ stage[p] = "unused"
  /\ Become(p, "private")
  /\ home' = [home EXCEPT ![p] = i]
  /\ UNCHANGED users

\* A pool that cannot reach its database is thrown away before anyone sees it.
Discard(p) ==
  /\ stage[p] = "private"
  /\ Become(p, "closed")
  /\ UNCHANGED <<home, users>>

\* A pool starts serving its id; no other pool serves that id.
Publish(p) ==
  /\ stage[p] = "private"
  /\ \A q \in Pools : stage[q] = "serving" => home[q] # home[p]
  /\ Become(p, "serving")
  /\ UNCHANGED <<home, users>>

\* A query borrows a connection; only a pool that serves lends one.
Borrow(p, h) ==
  /\ stage[p] = "serving"
  /\ \A q \in Pools : h \notin users[q]
  /\ Cardinality(users[p]) < PoolSize
  /\ users' = [users EXCEPT ![p] = @ \cup {h}]
  /\ UNCHANGED <<stage, home>>

\* A query gives its connection back, whatever the stage of the pool.
GiveBack(p, h) ==
  /\ h \in users[p]
  /\ users' = [users EXCEPT ![p] = @ \ {h}]
  /\ UNCHANGED <<stage, home>>

\* The pool stops lending connections.
Retire(p) ==
  /\ stage[p] = "serving"
  /\ Become(p, "retired")
  /\ UNCHANGED <<home, users>>

\* The last connection is back and the pool is gone.
Finish(p) ==
  /\ stage[p] = "retired"
  /\ users[p] = {}
  /\ Become(p, "closed")
  /\ UNCHANGED <<home, users>>

Next ==
  \E p \in Pools :
    \/ \E i \in Ids \ {EmptyId} : Open(p, i)
    \/ Discard(p)
    \/ Publish(p)
    \/ \E h \in Handlers : Borrow(p, h) \/ GiveBack(p, h)
    \/ Retire(p)
    \/ Finish(p)

Spec == Init /\ [][Next]_vars

=============================================================================
