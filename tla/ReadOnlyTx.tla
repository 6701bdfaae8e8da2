----------------------------- MODULE ReadOnlyTx -----------------------------
(***************************************************************************)
(* internal/connector/postgres/postgres.go, Execute and the statements of  *)
(* Introspect, on the connections of one pool: BEGIN READ ONLY, SET LOCAL  *)
(* statement_timeout, the query, and a ROLLBACK on every way out.          *)
(*                                                                         *)
(* The database is PostgreSQL as far as Execute relies on it: a read-only  *)
(* transaction refuses changes, the ones a rollback would not undo         *)
(* (sequences) included; what a transaction sets for its session is undone *)
(* when it is rolled back, but for session advisory locks, which are left  *)
(* out; the role is assumed to be allowed to write.  The pool closes a     *)
(* connection whose statement was abandoned and dials a new one.           *)
(***************************************************************************)
EXTENDS Naturals, FiniteSets

CONSTANTS Handlers,  \* calls of Execute and Introspect on this connector
          Conns,     \* the connections of its pool
          NoConn

ASSUME TxAssumption == NoConn \notin Conns

VARIABLES pc,         \* where each call is
          kind,       \* what its statement does
          on,         \* the connection it borrowed
          tx,         \* each connection: no transaction, an open one, a failed one
          limit,      \* connections with a statement_timeout in force
          pending,    \* connections whose transaction has changed the database
          session,    \* connections whose session settings are changed
          broken,     \* connections abandoned in the middle of a statement
          written,    \* history: connections through which the database was changed
          cancelled   \* the calls whose context is done

connVars == <<tx, limit, pending, session, broken>>
vars == <<pc, kind, on, tx, limit, pending, session, broken, written, cancelled>>

\* What a statement the guard lets through can do: a data-modifying WITH, a
\* SELECT of nextval or of set_config, and one that runs for long.
Kinds   == {"read", "write", "sequence", "setting", "slow"}
Holding == {"limit", "query", "rollback", "inspect"}

Init ==
  /\ pc        = [h \in Handlers |-> "idle"]
  /\ kind      = [h \in Handlers |-> "read"]
  /\ on        = [h \in Handlers |-> NoConn]
  /\ tx        = [c \in Conns |-> "none"]
  /\ limit     = {}
  /\ pending   = {}
  /\ session   = {}
  /\ broken    = {}
  /\ written   = {}
  /\ cancelled = {}

Goto(h, l) == pc' = [pc EXCEPT ![h] = l]

Free(c) == \A h \in Handlers : on[h] # c

\* The transaction of c, if it has one, and what it set for the session are
\* undone.
Undo(c) ==
  /\ tx'      = [tx EXCEPT ![c] = "none"]
  /\ limit'   = limit \ {c}
  /\ pending' = pending \ {c}
  /\ session' = session \ {c}

-----------------------------------------------------------------------------
(* Execute.                                                                *)

Execute(h, k) ==
  /\ pc[h] = "idle"
  /\ kind' = [kind EXCEPT ![h] = k]
  /\ Goto(h, "begin")
  /\ UNCHANGED <<on, connVars, written, cancelled>>

\* Mutant: a transaction with the default access mode.
BeginReadWrite(h) ==
  /\ pc[h] = "begin"
  /\ h \notin cancelled
  /\ \E c \in Conns : /\ Free(c)
                      /\ on' = [on EXCEPT ![h] = c]
                      /\ tx' = [tx EXCEPT ![c] = "readwrite"]
  /\ Goto(h, "limit")
  /\ UNCHANGED <<kind, limit, pending, session, broken, written, cancelled>>

\* A connection is borrowed and the read-only transaction begun.
Begin(h) ==
  /\ pc[h] = "begin"
  /\ h \notin cancelled
  /\ \E c \in Conns : /\ Free(c)
                      /\ on' = [on EXCEPT ![h] = c]
                      /\ tx' = [tx EXCEPT ![c] = "readonly"]
  /\ Goto(h, "limit")
  /\ UNCHANGED <<kind, limit, pending, session, broken, written, cancelled>>

\* No connection in time, or no transaction: the pool keeps its connection.
BeginFails(h) ==
  /\ pc[h] = "begin"
  /\ Goto(h, "done")
  /\ UNCHANGED <<kind, on, connVars, written, cancelled>>

\* Mutant: the timeout is not set.
SetTimeoutSkipped(h) ==
  /\ pc[h] = "limit"
  /\ Goto(h, "query")
  /\ UNCHANGED <<kind, on, connVars, written, cancelled>>

SetTimeout(h) ==
  /\ pc[h] = "limit"
  /\ h \notin cancelled
  /\ limit' = limit \cup {on[h]}
  /\ Goto(h, "query")
  /\ UNCHANGED <<kind, on, tx, pending, session, broken, written, cancelled>>

\* The statement's effect: a setting is changed for the session; a change of the
\* database is refused in a read-only transaction, else pending until the
\* transaction ends; a sequence moves at once.
Takes(h) ==
  LET c == on[h] IN
  CASE kind[h] = "setting" ->
         /\ session' = session \cup {c}
         /\ UNCHANGED <<tx, pending, written>>
    [] kind[h] \in {"write", "sequence"} /\ tx[c] = "readonly" ->
         /\ tx' = [tx EXCEPT ![c] = "failed"]
         /\ UNCHANGED <<pending, session, written>>
    [] kind[h] = "write" /\ tx[c] # "readonly" ->
         /\ pending' = pending \cup {c}
         /\ UNCHANGED <<tx, session, written>>
    [] kind[h] = "sequence" /\ tx[c] # "readonly" ->
         /\ written' = written \cup {c}
         /\ UNCHANGED <<tx, pending, session>>
    [] OTHER ->
         UNCHANGED <<tx, pending, session, written>>

\* The rows are read, or the database answers with an error; the deferred
\* Rollback is next either way.
QueryEnds(h) ==
  /\ pc[h] = "query"
  /\ kind[h] # "slow"
  /\ Takes(h)
  /\ Goto(h, "rollback")
  /\ UNCHANGED <<kind, on, limit, broken, cancelled>>

\* statement_timeout ends the query and fails its transaction.
QueryTimesOut(h) ==
  /\ pc[h] = "query"
  /\ kind[h] = "slow"
  /\ on[h] \in limit
  /\ tx' = [tx EXCEPT ![on[h]] = "failed"]
  /\ Goto(h, "rollback")
  /\ UNCHANGED <<kind, on, limit, pending, session, broken, written, cancelled>>

\* The context is done, or the connection to the database breaks: the statement
\* is abandoned, whichever it is, and the connection with it.
Abandon(h) ==
  /\ pc[h] \in {"limit", "query"}
  /\ broken' = broken \cup {on[h]}
  /\ Goto(h, "rollback")
  /\ UNCHANGED <<kind, on, tx, limit, pending, session, written, cancelled>>

\* Mutant: a query that succeeded is committed.
RollbackFailedOnly(h) ==
  /\ pc[h] = "rollback"
  /\ IF tx[on[h]] = "failed" \/ on[h] \in broken
     THEN Undo(on[h])
     ELSE /\ tx' = [tx EXCEPT ![on[h]] = "none"]
          /\ limit' = limit \ {on[h]}
          /\ pending' = pending \ {on[h]}
          /\ UNCHANGED session
  /\ broken' = broken \ {on[h]}
  /\ on' = [on EXCEPT ![h] = NoConn]
  /\ Goto(h, "done")
  /\ UNCHANGED <<kind, written, cancelled>>

\* tx.Rollback(context.Background()), and the connection goes back to the pool.
\* A broken one, which is what a rollback that fails leaves too, is replaced, and
\* the database undoes what it had begun.
Rollback(h) ==
  /\ pc[h] = "rollback"
  /\ Undo(on[h])
  /\ broken' = broken \ {on[h]}
  /\ on' = [on EXCEPT ![h] = NoConn]
  /\ Goto(h, "done")
  /\ UNCHANGED <<kind, written, cancelled>>

-----------------------------------------------------------------------------
(* A statement of Introspect: no transaction and no timeout.               *)

Inspect(h, k) ==
  /\ pc[h] = "idle"
  /\ kind' = [kind EXCEPT ![h] = k]
  /\ \E c \in Conns : Free(c) /\ on' = [on EXCEPT ![h] = c]
  /\ Goto(h, "inspect")
  /\ UNCHANGED <<connVars, written, cancelled>>

\* The statement ends, or its context does and the connection is replaced.
InspectEnds(h) ==
  /\ pc[h] = "inspect"
  /\ kind[h] = "read" \/ h \in cancelled
  /\ on' = [on EXCEPT ![h] = NoConn]
  /\ Goto(h, "done")
  /\ UNCHANGED <<kind, connVars, written, cancelled>>

-----------------------------------------------------------------------------

\* The client gives up.
Cancel(h) ==
  /\ pc[h] \in {"begin", "limit", "query", "inspect"}
  /\ h \notin cancelled
  /\ cancelled' = cancelled \cup {h}
  /\ UNCHANGED <<pc, kind, on, connVars, written>>

Reply(h) ==
  /\ pc[h] = "done"
  /\ Goto(h, "idle")
  /\ cancelled' = cancelled \ {h}
  /\ UNCHANGED <<kind, on, connVars, written>>

\* The steps a call and the database take by themselves.
Advance(h) ==
  \/ SetTimeout(h) \/ QueryEnds(h) \/ QueryTimesOut(h) \/ Abandon(h)
  \/ Rollback(h) \/ InspectEnds(h) \/ Reply(h)

Next ==
  \E h \in Handlers :
    \/ \E k \in Kinds : Execute(h, k)
    \/ Begin(h) \/ BeginFails(h)
    \/ \E k \in {"read", "slow"} : Inspect(h, k)
    \/ Advance(h)
    \/ Cancel(h)

Spec == Init /\ [][Next]_vars

\* The database answers and enforces its timeouts; that a connection breaks or a
\* client gives up is not assumed.
FairSpec ==
  /\ Spec
  /\ \A h \in Handlers :
       /\ WF_vars(SetTimeout(h) \/ QueryEnds(h) \/ QueryTimesOut(h))
       /\ WF_vars(h \in cancelled /\ Abandon(h))
       /\ WF_vars(Rollback(h) \/ InspectEnds(h) \/ Reply(h))

-----------------------------------------------------------------------------
(* Properties.                                                             *)

TypeOK ==
  /\ pc        \in [Handlers -> {"idle", "begin", "done"} \cup Holding]
  /\ kind      \in [Handlers -> Kinds]
  /\ on        \in [Handlers -> Conns \cup {NoConn}]
  /\ tx        \in [Conns -> {"none", "readonly", "failed"}]
  /\ limit     \in SUBSET Conns
  /\ pending   \in SUBSET Conns
  /\ session   \in SUBSET Conns
  /\ broken    \in SUBSET Conns
  /\ written   \in SUBSET Conns
  /\ cancelled \in SUBSET Handlers

\* No query changes the database, not even what a rollback leaves changed, with
\* a role that may write, and however the query ends.
NothingWritten == written = {} /\ pending = {}

\* The next borrower of a connection, which may be a statement of Introspect that
\* sets up nothing, finds no transaction, no timeout, no setting of the query
\* before and no broken protocol on it.  (It may find a session advisory lock,
\* which a rollback does not release.)
ReturnedConnectionsAreClean ==
  \A c \in Conns : Free(c) => tx[c] = "none" /\ c \notin limit \cup session \cup broken

\* The query itself starts in a read-only transaction of its own with the
\* timeout in force.
QueriesAreConfined ==
  \A h \in Handlers : pc[h] = "query" =>
    /\ tx[on[h]] = "readonly"
    /\ on[h] \in limit
    /\ \A g \in Handlers \ {h} : on[g] # on[h]

\* A running query ends without the help of the client, however long it would
\* take.
QueriesEnd == \A h \in Handlers : pc[h] = "query" ~> pc[h] = "idle"

\* README.md, "every query runs inside a BEGIN ... READ ONLY transaction with a
\* statement_timeout, so [...] no query can run unbounded": of every statement
\* the executor has running.
EveryStatementBounded ==
  \A h \in Handlers : pc[h] \in {"query", "inspect"} => on[h] \in limit

-----------------------------------------------------------------------------
(* The inductive invariant behind the theorems of ReadOnlyTxProofs.        *)

\* Who holds which connection, and what is on it.
HoldInv ==
  \A h \in Handlers :
    /\ on[h] # NoConn <=> pc[h] \in Holding
    /\ \A g \in Handlers \ {h} : on[h] # NoConn => on[g] # on[h]
    /\ pc[h] = "limit" => tx[on[h]] = "readonly"
    /\ pc[h] = "inspect" => /\ tx[on[h]] = "none"
                            /\ on[h] \notin limit \cup session \cup broken

IInv ==
  /\ TypeOK
  /\ HoldInv
  /\ NothingWritten
  /\ ReturnedConnectionsAreClean
  /\ QueriesAreConfined

=============================================================================
