------------------------- MODULE MCExecutorService -------------------------
(* ExecutorService on small instances.  Handlers, pools and the ids but   *)
(* the empty one are interchangeable: nothing orders or names them.        *)
EXTENDS ExecutorService, TLC

CallSymmetry == Permutations(Handlers) \cup Permutations(Pools)
                  \cup Permutations(Ids \ {EmptyId})
=============================================================================
