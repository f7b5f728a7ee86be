--------------------------- MODULE MCCompletion -----------------------------
(* Two futures of one session, and a pool with a slot for each, or only    *)
(* for one of them, where one may change task.  With a slot for each the   *)
(* futures are interchangeable, so the first poll of f1 comes first, and a *)
(* fault comes when both wait: what a fault at any other point and a move  *)
(* do is seen in the smaller pool.                                         *)
EXTENDS Completion

CONSTANTS f1, f2

Bound ==
    numSlots > 1 =>
        /\ \A f \in Future : fut'[f].owner = "first"
        /\ fut[f1].pc = "new" => fut'[f2].pc = "new"
        /\ device' # device => \A f \in Future : Waiting(f)

MCNext == Next /\ Bound

MCSpec == Init /\ [][MCNext]_vars /\ Fairness
=============================================================================
