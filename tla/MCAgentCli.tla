----------------------------- MODULE MCAgentCli -----------------------------
(* AgentCli over a database of two tables, with a key of two columns, one  *)
(* to another schema, and a name that two keys and a unique constraint     *)
(* share; the columns have as many distinct values as the limits of        *)
(* sampleValues, and one more.                                             *)
EXTENDS AgentCli, TLC

MCColumns == {"cars", "trips"} \X {"a", "b"}

MCDistinct ==
  <<"cars", "a">> :> 5 @@ <<"cars", "b">> :> 6 @@ <<"trips", "a">> :> 50
  @@ <<"trips", "b">> :> 51

\* Tables by their names, of each its count, then its columns as they come.
MCPlace ==
  [s \in {"cars", "trips"} \X {"*", "a", "b"} |->
     (IF s[1] = "cars" THEN 0 ELSE 3)
     + (CASE s[2] = "*" -> 1 [] s[2] = "a" -> 2 [] s[2] = "b" -> 3)]

Constraint(n, ty, t, cs, s, r, ds) ==
  [name |-> n, type |-> ty, schema |-> "public", table |-> t, cols |-> cs,
   refSchema |-> s, refTable |-> r, refCols |-> ds]

MCConstraints ==
  {Constraint("trips_ab", "foreign", "trips", <<"a", "b">>, "public", "cars", <<"a", "b">>),
   Constraint("trips_user", "foreign", "trips", <<"b">>, "auth", "users", <<"id">>),
   Constraint("owner", "foreign", "trips", <<"a">>, "public", "cars", <<"b">>),
   Constraint("owner", "foreign", "cars", <<"a">>, "public", "trips", <<"a">>),
   Constraint("owner", "unique", "cars", <<"b">>, "public", "cars", <<"b">>)}
=============================================================================
