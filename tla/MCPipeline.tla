----------------------------- MODULE MCPipeline -----------------------------
(* Pipeline with two tables, an invented name and one query for each case  *)
(* the table check tells apart; a query with further tables that the check *)
(* does not find is one of these to it.  A tick is five seconds.           *)
EXTENDS Pipeline, TLC

CONSTANTS t1, t2, ghost, q1, qBoth, qGhost

MCNamesSeen == q1 :> {t1} @@ qBoth :> {t1, t2} @@ qGhost :> {ghost}
=============================================================================
