--------------------------- MODULE MCExecuteOnce ----------------------------
(* Three executors on two streams: two share a stream, one has its own.    *)
EXTENDS ExecuteOnce, TLC

CONSTANTS t1, t2, t3, s1, s2

MCStreamOf == (t1 :> s1) @@ (t2 :> s2) @@ (t3 :> s2)
=============================================================================
