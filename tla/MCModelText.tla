---------------------------- MODULE MCModelText ----------------------------
(* ModelText with one reference for each case the table check tells apart, *)
(* up to two CTEs, and up to two sources.                                  *)
EXTENDS ModelText

Unqualified == {Plain("cars"), Plain("ghost"), Plain("c"), Plain("d")}

MCRefs ==
  Unqualified
  \cup {Ref("quoted", "public", n) : n \in {"Cars", "cars-old", "order-items", "-x"}}
  \cup {Ref("qualified", "public", "CARS"), Ref("qualified", "public", "c"),
        Ref("qualified", "cars-old", "ghost"), Ref("qualified", "old", "cars")}
  \cup {Ref("qualifiedQuoted", "public", "cars"), Ref("qualifiedQuoted", "public", "ghost"),
        Ref("bothQuoted", "public", "cars"), Ref("bothQuoted", "public", "ghost"),
        Ref("schemaQuoted", "-x", "cars"), Ref("schemaQuoted", "public", "cars"),
        Ref("function", "public", "series")}

FirstCte  == [name : {"c"}, head : {"plain", "recursive", "columns", "materialized", "quoted"},
              ref : Unqualified]
SecondCte == [name : {"d", "public"}, head : {"plain", "glued"}, ref : Unqualified]

MCCtes == {<< >>} \cup {<<a>> : a \in FirstCte} \cup {<<a, b>> : a \in FirstCte, b \in SecondCte}

\* The second source is any, behind the first one by any link.
MCSources ==
  LET From(r) == [link |-> "from", ref |-> r]
  IN {<< From(r) >> : r \in MCRefs}
     \cup {<< From(r), s >> : r \in {Plain("cars"), Plain("c")}, s \in [link : Links, ref : MCRefs]}
=============================================================================
