-------------------------- MODULE SessionRegistry --------------------------
(***************************************************************************)
(* internal/session/session.go over internal/executorclient/client.go: the *)
(* agent registers and closes sessions by calling the executor, and each   *)
(* of the two processes keeps a map of its own, the sessions here and the  *)
(* connectors there (ExecutorService, as CallEffects shows it).             *)
(*                                                                         *)
(* A call is an HTTP request and its answer.  Either may be lost, a        *)
(* request may be served after its caller gave up, and the executor may    *)
(* restart with an empty map; the client never dials again.                *)
(***************************************************************************)
EXTENDS Naturals, FiniteSets

CONSTANTS Ids,      \* the connection ids newConnectionID can draw
          NoId,
          Callers   \* goroutines of the agent that use the registry

ASSUME RegistryAssumption == NoId \notin Ids

VARIABLES pc,          \* where each caller is in Register or Close
          cid,         \* the id it works on
          answer,      \* the answer to its outstanding call
          sessions,    \* Registry.sessions
          progress,    \* how far the registration of each id got
          requests,    \* requests on their way to the executor
          registered,  \* the executor: keys of Service.conns
          mcp,         \* the client's MCP session: "alive" or "dead"
          faulty,      \* history: ids with a call that was not answered
          wiped,       \* history: ids whose connector went with a restart
          closed       \* history: ids whose CloseConnection was answered

callerVars  == <<pc, cid, answer>>
historyVars == <<faulty, wiped, closed>>
vars == <<pc, cid, answer, sessions, progress, requests, registered, mcp, faulty,
          wiped, closed>>

Ops     == {"open_connection", "introspect", "close_connection"}
Waiting == {"opening", "introspecting", "cleaning", "closing"}
Ended   == {"done", "failed"}

\* Mutant: the cleaning call asks for something the executor does not know.
OpOfLabel(l) == IF l = "opening" THEN "open_connection" ELSE l

OpOf(l) ==
  IF l = "opening" THEN "open_connection"
  ELSE IF l = "introspecting" THEN "introspect" ELSE "close_connection"

Init ==
  /\ pc         = [t \in Callers |-> "idle"]
  /\ cid        = [t \in Callers |-> NoId]
  /\ answer     = [t \in Callers |-> "none"]
  /\ sessions   = {}
  /\ progress   = [i \in Ids |-> "free"]
  /\ requests   = {}
  /\ registered = {}
  /\ mcp        = "alive"
  /\ faulty     = {}
  /\ wiped      = {}
  /\ closed     = {}

-----------------------------------------------------------------------------
(* Calls of the client.                                                    *)

Request(t, l, i) == [op |-> OpOf(l), id |-> i, caller |-> t]

\* client.call: caller t goes to l and waits for the answer to its request.  A
\* dead MCP session takes no request.
Send(t, l, i) ==
  /\ pc' = [pc EXCEPT ![t] = l]
  /\ answer' = [answer EXCEPT ![t] = "none"]
  /\ requests' = IF mcp = "alive" THEN requests \cup {Request(t, l, i)} ELSE requests

Goto(t, l) ==
  /\ pc' = [pc EXCEPT ![t] = l]
  /\ answer' = [answer EXCEPT ![t] = "none"]
  /\ UNCHANGED requests

Reach(i, l) == progress' = [progress EXCEPT ![i] = l]

Answered(t, l, a) == pc[t] = l /\ answer[t] \in a

\* The transport reports an error; where the request got to is not known.
CallFails(t) ==
  /\ pc[t] \in Waiting
  /\ answer[t] = "none"
  /\ answer' = [answer EXCEPT ![t] = "error"]
  /\ faulty' = faulty \cup {cid[t]}
  /\ UNCHANGED <<pc, cid, sessions, progress, requests, registered, mcp, wiped, closed>>

-----------------------------------------------------------------------------
(* Registry.Register.                                                      *)

\* newConnectionID: 64 random bits, taken to be new.
Fresh(i) == progress[i] = "free"

\* The provider is built (or Register ends with nothing done) and the
\* connection is opened under a new id.
Register(t, i) ==
  /\ pc[t] = "idle"
  /\ Fresh(i)
  /\ Reach(i, "drawn")
  /\ cid' = [cid EXCEPT ![t] = i]
  /\ Send(t, "opening", i)
  /\ UNCHANGED <<sessions, registered, mcp, historyVars>>

Opened(t) ==
  /\ Answered(t, "opening", {"ok"})
  /\ Reach(cid[t], "opened")
  /\ Send(t, "introspecting", cid[t])
  /\ UNCHANGED <<cid, sessions, registered, mcp, historyVars>>

\* Mutant: a connection that could not be opened is closed all the same.
OpenFailedCleans(t) ==
  /\ Answered(t, "opening", {"error"})
  /\ Send(t, "cleaning", cid[t])
  /\ UNCHANGED <<cid, sessions, progress, registered, mcp, historyVars>>

\* Nothing is closed: the connection was not opened, or not yet.
OpenFailed(t) ==
  /\ Answered(t, "opening", {"error"})
  /\ Goto(t, "failed")
  /\ UNCHANGED <<cid, sessions, progress, registered, mcp, historyVars>>

\* The pipeline is built and the session stored.
Introspected(t) ==
  /\ Answered(t, "introspecting", {"ok"})
  /\ sessions' = sessions \cup {cid[t]}
  /\ Reach(cid[t], "offered")
  /\ Goto(t, "done")
  /\ UNCHANGED <<cid, registered, mcp, historyVars>>

\* Mutant: the connection is not closed.
IntrospectFailedKeeps(t) ==
  /\ Answered(t, "introspecting", {"error"})
  /\ Goto(t, "failed")
  /\ UNCHANGED <<cid, sessions, progress, registered, mcp, historyVars>>

IntrospectFailed(t) ==
  /\ Answered(t, "introspecting", {"error"})
  /\ Send(t, "cleaning", cid[t])
  /\ UNCHANGED <<cid, sessions, progress, registered, mcp, historyVars>>

\* The result of the cleaning call is ignored.
Cleaned(t) ==
  /\ Answered(t, "cleaning", {"ok", "error"})
  /\ Goto(t, "failed")
  /\ UNCHANGED <<cid, sessions, progress, registered, mcp, historyVars>>

-----------------------------------------------------------------------------
(* Registry.Close, and the end of a caller's operation.                    *)

\* Mutant: the executor's side goes first, the session with its answer.
CloseLater(t, i) ==
  /\ pc[t] = "idle"
  /\ progress[i] = "offered"
  /\ cid' = [cid EXCEPT ![t] = i]
  /\ Send(t, "closing", i)
  /\ UNCHANGED <<sessions, progress, registered, mcp, historyVars>>

\* The session is forgotten before the executor is asked; it may be unknown
\* already, and is closed on the executor all the same.
Close(t, i) ==
  /\ pc[t] = "idle"
  /\ progress[i] = "offered"
  /\ cid' = [cid EXCEPT ![t] = i]
  /\ sessions' = sessions \ {i}
  /\ Send(t, "closing", i)
  /\ UNCHANGED <<progress, registered, mcp, historyVars>>

Closed(t) ==
  /\ Answered(t, "closing", {"ok", "error"})
  /\ Goto(t, IF answer[t] = "ok" THEN "done" ELSE "failed")
  /\ UNCHANGED <<cid, sessions, progress, registered, mcp, historyVars>>

\* The caller has its result.
Finish(t) ==
  /\ pc[t] \in Ended
  /\ cid' = [cid EXCEPT ![t] = NoId]
  /\ Goto(t, "idle")
  /\ UNCHANGED <<sessions, progress, registered, mcp, historyVars>>

-----------------------------------------------------------------------------
(* The executor and the network.                                           *)

\* An answer reaches its caller if that caller still waits for it.
Deliver(r, a) ==
  answer' = IF /\ pc[r.caller] \in Waiting
               /\ Request(r.caller, pc[r.caller], cid[r.caller]) = r
               /\ answer[r.caller] = "none"
            THEN [answer EXCEPT ![r.caller] = a]
            ELSE answer

\* OpenConnection: the dial may fail.
ServeOpen(r) ==
  /\ r.op = "open_connection"
  /\ \/ registered' = registered \cup {r.id} /\ Deliver(r, "ok")
     \/ UNCHANGED registered /\ Deliver(r, "error")
  /\ UNCHANGED closed

\* Introspect: an unknown id is an error, and so is any failing statement.
ServeIntrospect(r) ==
  /\ r.op = "introspect"
  /\ \/ r.id \in registered /\ Deliver(r, "ok")
     \/ Deliver(r, "error")
  /\ UNCHANGED <<registered, closed>>

\* CloseConnection: an unknown id is a no-op.
ServeClose(r) ==
  /\ r.op = "close_connection"
  /\ registered' = registered \ {r.id}
  /\ closed' = closed \cup {r.id}
  /\ Deliver(r, "ok")

Serve(r) ==
  /\ r \in requests
  /\ requests' = requests \ {r}
  /\ ServeOpen(r) \/ ServeIntrospect(r) \/ ServeClose(r)
  /\ UNCHANGED <<pc, cid, sessions, progress, mcp, faulty, wiped>>

\* A request is lost on its way; its caller will be told by the transport.
Lose(r) ==
  /\ r \in requests
  /\ requests' = requests \ {r}
  /\ UNCHANGED <<callerVars, sessions, progress, registered, mcp, historyVars>>

\* The executor restarts: the map, the calls being served and the MCP session
\* are gone.
Restart ==
  /\ mcp = "alive"
  /\ mcp' = "dead"
  /\ wiped' = wiped \cup registered
  /\ registered' = {}
  /\ requests' = {}
  /\ UNCHANGED <<callerVars, sessions, progress, faulty, closed>>

-----------------------------------------------------------------------------

Registering(t) ==
  \/ \E i \in Ids : Register(t, i)
  \/ Opened(t) \/ OpenFailed(t) \/ Introspected(t) \/ IntrospectFailed(t) \/ Cleaned(t)

Closing(t) == (\E i \in Ids : Close(t, i)) \/ Closed(t)

Next ==
  \/ \E t \in Callers : Registering(t) \/ Closing(t) \/ Finish(t) \/ CallFails(t)
  \/ \E r \in requests : Serve(r) \/ Lose(r)
  \/ Restart

Spec == Init /\ [][Next]_vars

-----------------------------------------------------------------------------
(* Properties.                                                             *)

TypeOK ==
  /\ pc         \in [Callers -> {"idle"} \cup Waiting \cup Ended]
  /\ cid        \in [Callers -> Ids \cup {NoId}]
  /\ answer     \in [Callers -> {"none", "ok", "error"}]
  /\ sessions   \in SUBSET Ids
  /\ progress   \in [Ids -> {"free", "drawn", "opened", "offered"}]
  /\ requests   \in SUBSET [op : Ops, id : Ids, caller : Callers]
  /\ registered \in SUBSET Ids
  /\ mcp        \in {"alive", "dead"}
  /\ faulty     \in SUBSET Ids
  /\ wiped      \in SUBSET Ids
  /\ closed     \in SUBSET Ids

\* A session the agent offers has its connector on the executor, unless the
\* executor restarted: nothing the agent does on one id, late answers and
\* cleaning up included, takes away the connector of another session.
SessionsAreBacked == sessions \subseteq registered \cup wiped

HeldBy(t, i) == pc[t] \in Waiting /\ cid[t] = i

\* A connector without a session belongs to a call in progress, or is left over
\* from a call the transport lost: no answer the executor gives makes the agent
\* leave one behind.
LeaksOnlyByLostCalls ==
  \A i \in registered : \/ i \in sessions \cup faulty
                        \/ \E t \in Callers : HeldBy(t, i)

\* A connection once closed on the executor is never opened again: an
\* OpenConnection its caller gave up on may be served at any later time, but no
\* way through Register or Close lets it come after the CloseConnection of its id.
ClosedStaysClosed == closed \cap registered = {}

\* The comment on Register: "On any failure after the connection is opened, it
\* is closed so we don't leak executor-side state".  Of every registration that
\* got as far, once its caller is told and none of its requests is under way.
FailedRegisterLeavesNothing ==
  \A i \in registered : progress[i] = "opened" =>
    \/ \E t \in Callers : HeldBy(t, i)
    \/ \E r \in requests : r.id = i

-----------------------------------------------------------------------------
(* The inductive invariant behind the theorems of SessionRegistryProofs.   *)

\* How far the id of each call got; Register works on an id nobody else has.
OwnerInv ==
  /\ \A t \in Callers :
       /\ pc[t] \in Waiting => cid[t] \in Ids
       /\ pc[t] = "opening" => progress[cid[t]] = "drawn"
       /\ pc[t] \in {"introspecting", "cleaning"} => progress[cid[t]] = "opened"
       /\ pc[t] = "closing" => progress[cid[t]] = "offered"
  /\ \A t, u \in Callers :
       pc[t] \in Waiting \ {"closing"} /\ pc[u] \in Waiting /\ cid[t] = cid[u] => t = u

\* What is known to the registry and the executor of an id that got so far.
ReachInv ==
  /\ \A i \in Ids : progress[i] = "free" => i \notin registered
  /\ \A i \in sessions : progress[i] = "offered"
  /\ \A i \in closed : progress[i] \in {"opened", "offered"}

\* A request whose caller gave up is of a faulty id.  One that opens is of a
\* registration that has no answer to it; one that closes finds no session, and no
\* registration that goes on.
RequestInv ==
  \A r \in requests :
    /\ progress[r.id] # "free"
    /\ \/ r.id \in faulty
       \/ /\ pc[r.caller] \in Waiting
          /\ cid[r.caller] = r.id
          /\ OpOf(pc[r.caller]) = r.op
          /\ answer[r.caller] = "none"
    /\ r.op = "open_connection" =>
         /\ progress[r.id] = "drawn"
         /\ \A t \in Callers :
              pc[t] = "opening" /\ cid[t] = r.id => r.caller = t /\ answer[t] # "ok"
    /\ r.op = "close_connection" =>
         /\ r.id \notin sessions
         /\ progress[r.id] \in {"opened", "offered"}
         /\ \A t \in Callers : pc[t] = "introspecting" => cid[t] # r.id

\* What an answer says about the executor.
AnswerInv ==
  \A t \in Callers :
    /\ \/ pc[t] = "introspecting"
       \/ pc[t] = "opening" /\ answer[t] = "ok"
       => cid[t] \in registered \cup wiped
    /\ pc[t] = "opening" /\ answer[t] # "ok" => cid[t] \notin registered \ faulty
    /\ pc[t] \in {"cleaning", "closing"} /\ answer[t] # "none" =>
         cid[t] \notin registered \ faulty

IInv ==
  /\ TypeOK
  /\ OwnerInv
  /\ ReachInv
  /\ RequestInv
  /\ AnswerInv
  /\ SessionsAreBacked
  /\ LeaksOnlyByLostCalls
  /\ ClosedStaysClosed

=============================================================================
