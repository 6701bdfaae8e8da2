---------------------------- MODULE CallEffects ----------------------------
(***************************************************************************)
(* What the executor promises about its tool calls, seen from outside and  *)
(* with no connectors, locks or statements: each call takes effect on the  *)
(* registered ids at one moment between its arrival and its reply.         *)
(* ExecutorService implements this specification; SessionRegistry is       *)
(* written over it.                                                        *)
(***************************************************************************)

CONSTANTS Ids,      \* connection ids that calls carry
          EmptyId,  \* the empty string, which is never registered
          Handlers  \* the tool calls the executor serves

VARIABLES registered,  \* the ids that have a connector
          id,          \* the id each call carries
          at           \* what each call waits for, or its result

vars == <<registered, id, at>>

Init ==
  /\ registered = {}
  /\ id = [h \in Handlers |-> EmptyId]
  /\ at = [h \in Handlers |-> "idle"]

Become(h, a) == at' = [at EXCEPT ![h] = a]

\* A call arrives; one that would open the empty id is refused.
Arrive(h, i) ==
  /\ at[h] = "idle"
  /\ id' = [id EXCEPT ![h] = i]
  /\ \/ Become(h, "closing")
     \/ Become(h, "asking")
     \/ Become(h, IF i = EmptyId THEN "failed" ELSE "opening")
  /\ UNCHANGED registered

\* OpenConnection, of a new id or of one that is there.
Open(h) ==
  /\ at[h] = "opening"
  /\ registered' = registered \cup {id[h]}
  /\ Become(h, "ok")
  /\ UNCHANGED id

\* CloseConnection; an unknown id is a no-op.
Close(h) ==
  /\ at[h] = "closing"
  /\ registered' = registered \ {id[h]}
  /\ Become(h, "ok")
  /\ UNCHANGED id

\* Introspect or ValidateAndExecute finds its id, or an id that is not there.
Find(h) ==
  /\ at[h] = "asking"
  /\ Become(h, IF id[h] \in registered THEN "using" ELSE "failed")
  /\ UNCHANGED <<registered, id>>

\* The rest of a call has no effect on the ids.
Finish(h) ==
  /\ \/ at[h] = "opening" /\ Become(h, "failed")
     \/ at[h] = "using" /\ (Become(h, "ok") \/ Become(h, "failed"))
  /\ UNCHANGED <<registered, id>>

Reply(h) ==
  /\ at[h] \in {"ok", "failed"}
  /\ Become(h, "idle")
  /\ id' = [id EXCEPT ![h] = EmptyId]
  /\ UNCHANGED registered

Next == \E h \in Handlers :
          \/ \E i \in Ids : Arrive(h, i)
          \/ Open(h) \/ Close(h) \/ Find(h) \/ Finish(h) \/ Reply(h)

Spec == Init /\ [][Next]_vars

=============================================================================
