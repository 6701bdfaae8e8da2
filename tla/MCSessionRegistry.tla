------------------------- MODULE MCSessionRegistry -------------------------
(* SessionRegistry on small instances; ids and callers are interchangeable *)
(* names.                                                                  *)
EXTENDS SessionRegistry, TLC

NameSymmetry == Permutations(Ids) \cup Permutations(Callers)
=============================================================================
