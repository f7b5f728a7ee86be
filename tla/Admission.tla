----------------------------- MODULE Admission ------------------------------
(***************************************************************************)
(* The admission budget of one session (src/src/limits.rs).  Any thread    *)
(* that holds an Arc<Budget> may ask for a reservation or drop one; every  *)
(* change of Usage happens in one critical section of the mutex, so each   *)
(* call is one step.  A guard is what the caller holds; forgetting it      *)
(* (mem::forget of its owner) retains the charge for ever.                 *)
(***************************************************************************)
EXTENDS Limits, FiniteSets

CONSTANTS
    Guard,      \* identities of Reservation values
    Request     \* the byte counts callers ask for

ASSUME RequestAssumption == Request \subseteq Usize

VARIABLES
    usage,      \* Budget.usage
    guard       \* the Reservation values that exist

vars == <<usage, guard>>

Reservation ==
    [state : {"absent", "held", "forgotten"}, buffer : BOOLEAN, bytes : Usize]

Absent == [state |-> "absent", buffer |-> FALSE, bytes |-> 0]

Outstanding == {g \in Guard : guard[g].state # "absent"}
BufferGuards == {g \in Outstanding : guard[g].buffer}
OperationGuards == {g \in Outstanding : ~guard[g].buffer}

Init ==
    /\ usage = NoUsage
    /\ guard = [g \in Guard |-> Absent]

Buffer(g, bytes) ==
    /\ guard[g].state = "absent"
    /\ AdmitsBuffer(usage, bytes)
    /\ usage' = ChargeBuffer(usage, bytes)
    /\ guard' = [guard EXCEPT ![g] = [state |-> "held", buffer |-> TRUE,
                                      bytes |-> bytes]]

Operation(g) ==
    /\ guard[g].state = "absent"
    /\ AdmitsOperation(usage)
    /\ usage' = ChargeOperation(usage)
    /\ guard' = [guard EXCEPT ![g] = [state |-> "held", buffer |-> FALSE,
                                      bytes |-> 0]]

Drop(g) ==
    /\ guard[g].state = "held"
    /\ usage' = IF guard[g].buffer
                THEN ReleaseBuffer(usage, guard[g].bytes)
                ELSE ReleaseOperation(usage)
    /\ guard' = [guard EXCEPT ![g] = Absent]

(* Forgetting an owner forgets every guard it holds.                       *)
Forget(gs) ==
    /\ UNCHANGED usage
    /\ \A g \in gs : guard[g].state = "held"
    /\ guard' = [g \in Guard |-> IF g \in gs
                     THEN [guard[g] EXCEPT !.state = "forgotten"] ELSE guard[g]]

Next ==
    \/ \E gs \in SUBSET Guard : Forget(gs)
    \/ \E g \in Guard :
        \/ \E bytes \in Request : Buffer(g, bytes)
        \/ Operation(g)
        \/ Drop(g)

Spec == Init /\ [][Next]_vars

-----------------------------------------------------------------------------
TypeOK ==
    /\ usage \in Usage
    /\ guard \in [Guard -> Reservation]

(* The bytes charged, <<g, i>> being the i-th byte of guard g, so that the *)
(* sum over all guards is a cardinality.                                   *)
Charged == {c \in BufferGuards \X (1..MaxUsize) : c[2] <= guard[c[1]].bytes}

(* However reservations are taken, dropped and forgotten by any number of  *)
(* owners, the counters equal what the outstanding guards account for: a   *)
(* charge is released exactly once and never below zero.                   *)
Accounting ==
    /\ usage.bytes = Cardinality(Charged)
    /\ usage.buffers = Cardinality(BufferGuards)
    /\ usage.operations = Cardinality(OperationGuards)

(* The guards that exist together never exceed a limit of the session,     *)
(* whatever the history of requests, in spite of wrap-around arithmetic.   *)
WithinLimits ==
    /\ Cardinality(Charged) <= TotalBytes
    /\ Cardinality(BufferGuards) <= Buffers
    /\ Cardinality(OperationGuards) <= Operations
    /\ \A g \in BufferGuards : guard[g].bytes <= BufferBytes
=============================================================================
