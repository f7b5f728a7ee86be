----------------------------- MODULE MCSession ------------------------------
(***************************************************************************)
(* Instances of Session: sizes of one or two shapes in bytes of a small    *)
(* usize, and a program in which each buffer has one use.  Source is the   *)
(* only HaloGrid2D, Field the results and right sides; every Worker makes  *)
(* all calls on them.  The other callers keep the stream busy: each        *)
(* uploads and drops its Private fields over and over.                     *)
(***************************************************************************)
EXTENDS Session, TLC

CONSTANTS s1, s2, Source, Field, Private, Worker, Leaks

ASSUME ProgramAssumption ==
    /\ Buf = {Source} \cup Field \cup Private
    /\ Worker \subseteq Caller /\ Leaks \subseteq Buf

Symmetry == Permutations(Worker) \cup Permutations(Field)
MCHaloSize == [s \in Shape |-> IF s = s1 THEN 3 ELSE 4]
MCFieldSize == [s \in Shape |-> IF s = s1 THEN 1 ELSE 2]

MCStart(c) ==
    /\ call[c].pc = "idle"
    /\ \/ c \in Worker /\ StartOn(c, {Source}, Field)
       \/ /\ c \notin Worker
          /\ \E b \in Private : Upload(c, b, "field", s1) \/ DropBuffer(c, b)

MCNext ==
    /\ ~aborted
    /\ \/ \E c \in Caller : MCStart(c) \/ Proceed(c) \/ FuturePolled(c)
                                \/ DropFuture(c) \/ ForgetFuture(c)
       \/ \E b \in Leaks : ForgetBuffer(b)
       \/ \E shape \in Shape : ForeignBuffer(Source, "halo", shape)
       \/ \E b \in Field, shape \in Shape : ForeignBuffer(b, "field", shape)
       \/ Device
       \/ DeviceFault

(* The same without steps after a fault: but for FailStop they are those   *)
(* that are possible before it, with the same effect.                      *)
MCHealthy ==
    /\ ~aborted
    /\ \/ device = "ok" /\ MCNext
       \/ \E c \in Caller : FailStop(c)

MCSpec == Init /\ [][MCHealthy]_vars
MCFairSpec == Init /\ [][MCNext]_vars /\ Fairness
=============================================================================
