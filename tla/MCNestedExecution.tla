------------------------- MODULE MCNestedExecution --------------------------
(* One thread that nests, one that executes the same memoized operations,  *)
(* on the stream of the future.                                            *)
EXTENDS NestedExecution, TLC

CONSTANTS t1, t2, s1, s2

MCStreamOf == [f \in Future |-> s2]
MCBudget == (t1 :> 3) @@ (t2 :> 1)

MCNext ==
    /\ Next
    /\ \A t \in Thread \ Nests, s \in Stream \ {s2} :
          [kind |-> "sync", on |-> s] \notin Range(scopes'[t])

MCSpec == Init /\ [][MCNext]_vars /\ Fairness
=============================================================================
