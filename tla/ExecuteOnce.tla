---------------------------- MODULE ExecuteOnce -----------------------------
(***************************************************************************)
(* ExecuteOnce (src/vendor/cuda-async/src/device_operation.rs): executors  *)
(* hold handles of one operation, clones of a SharedDeviceOp or the two    *)
(* halves of an unzip, and execute or drop them, each on a stream; the     *)
(* operation runs for the first, the others wait and get its outcome.  The *)
(* storage behind the outcome is released as fault_policy.rs and           *)
(* device_buffer.rs have it: by the last reference, at once or, on a       *)
(* thread with an execution in progress, when that execution's terminal    *)
(* has proved completion.  A terminal is sync_on's synchronize, or the     *)
(* completion of a future (module Completion).                             *)
(***************************************************************************)
EXTENDS Naturals, Sequences, FiniteSets

CONSTANTS
    Executor,       \* a thread in sync_on, or a future
    First, Second,  \* the two of them that hold the halves of an unzip
    Stream, StreamOf,
    NoStream

ASSUME ExecuteOnceAssumption ==
    /\ First \in Executor /\ Second \in Executor /\ First # Second
    /\ StreamOf \in [Executor -> Stream]
    /\ NoStream \notin Stream

VARIABLES
    kind,       \* "shared" or "unzip"
    once,       \* OnceState, but for the value of Done
    memo,       \* the parts of the value that Done holds
    pc,         \* where each executor is with its handle
    result,     \* what execute returned to it
    holder,     \* for each part, the executors that own (an Arc of) it
    storage,    \* "none", "live", "leaked" or "freed"
    quarantine, \* for each executor, parts to release at its terminal
    queue,      \* the work of each stream, in order
    runs,       \* how often the operation was run
    unguarded,  \* parts with a reference that no quarantine could see go
    aborted

vars == <<kind, once, memo, pc, result, holder, storage, quarantine, queue, runs,
          unguarded, aborted>>

value == <<memo, holder, storage, quarantine, unguarded>>

Part == IF kind = "shared" THEN {"value"} ELSE {"left", "right"}
PartOf(t) == IF kind = "shared" THEN "value" ELSE IF t = First THEN "left" ELSE "right"

(* An executor owns its handle until execute returns.                      *)
WithHandle == {"idle", "entering", "running", "reentering", "resumed", "settling",
               "notifying", "waiting", "unwinding"}

LastHandle(t) == \A u \in Executor \ {t} : pc[u] \notin WithHandle

Pending == [state |-> "pending"]
Running(t) == [state |-> "running", thread |-> t]
Done(s) == [state |-> "done", producer |-> s]
Failed(e) == [state |-> "failed", error |-> e]

Errors == {"op", "event", "panic"}

Enqueue(t, what) == [queue EXCEPT ![StreamOf[t]] = Append(@, <<what, t>>)]
Queued(what) == \E s \in Stream : \E i \in DOMAIN queue[s] : queue[s][i][1] = what
InQueue(what, t) == \E i \in DOMAIN queue[StreamOf[t]] : queue[StreamOf[t]][i] = <<what, t>>

(* shared(), unzip(), and shared(value) with no work behind the value.     *)
Init ==
    /\ kind \in {"shared", "unzip"}
    /\ once \in {Pending} \cup IF kind = "shared" THEN {Done(NoStream)} ELSE {}
    /\ memo = IF once = Pending THEN {} ELSE Part
    /\ pc = [t \in Executor |->
           IF kind = "shared" \/ t \in {First, Second} THEN "idle" ELSE "gone"]
    /\ result = [t \in Executor |-> "none"]
    /\ holder = [p \in Part |-> {}]
    /\ storage = [p \in Part |-> IF once = Pending THEN "none" ELSE "live"]
    /\ quarantine = [t \in Executor |-> {}]
    /\ queue = [s \in Stream |-> <<>>]
    /\ runs = 0
    /\ unguarded = {} /\ aborted = FALSE

-----------------------------------------------------------------------------
(* References.  Orphans: what the last handle leaves without an owner.     *)
Orphans(t, held, owners) == IF LastHandle(t) THEN {p \in held : owners[p] = {}} ELSE {}
Kept(t, held) == IF LastHandle(t) THEN {} ELSE held
Free(parts) == [p \in Part |-> IF p \in parts THEN "freed" ELSE storage[p]]

Start(t) ==
    /\ pc[t] = "idle"
    /\ pc' = [pc EXCEPT ![t] = "entering"]
    /\ UNCHANGED <<kind, once, result, value, queue, runs, aborted>>

(* A handle dropped unexecuted, on a thread with nothing in progress.      *)
Abandon(t) ==
    /\ pc[t] = "idle"
    /\ pc' = [pc EXCEPT ![t] = "gone"]
    /\ memo' = Kept(t, memo)
    /\ storage' = Free(Orphans(t, memo, holder))
    /\ unguarded' = unguarded \cup Orphans(t, memo, holder)
    /\ UNCHANGED <<kind, once, result, holder, quarantine, queue, runs, aborted>>

-----------------------------------------------------------------------------
(* The sections of execute under the lock.                                 *)

(* Mutant: the operation is taken, its state is left as it was.            *)
ClaimUnmarked(t) ==
    /\ pc[t] = "entering" /\ once = Pending
    /\ pc' = [pc EXCEPT ![t] = "running"]
    /\ runs' = runs + 1
    /\ UNCHANGED <<kind, once, result, value, queue, aborted>>

Claim(t) ==
    /\ pc[t] = "entering" /\ once = Pending
    /\ once' = Running(t)
    /\ pc' = [pc EXCEPT ![t] = "running"]
    /\ runs' = runs + 1
    /\ UNCHANGED <<kind, result, value, queue, aborted>>

Wait(t) ==
    /\ pc[t] = "entering" /\ once.state = "running" /\ once.thread # t
    /\ pc' = [pc EXCEPT ![t] = "waiting"]
    /\ UNCHANGED <<kind, once, result, value, queue, runs, aborted>>

SpuriousWake(t) ==
    /\ pc[t] = "waiting"
    /\ pc' = [pc EXCEPT ![t] = "entering"]
    /\ UNCHANGED <<kind, once, result, value, queue, runs, aborted>>

Elsewhere(t) == once.producer \notin {NoStream, StreamOf[t]}

Refused(t) ==
    /\ pc[t] = "entering" /\ once.state = "failed"
    /\ result' = [result EXCEPT ![t] = once.error]
    /\ pc' = [pc EXCEPT ![t] = "terminal"]
    /\ UNCHANGED <<kind, once, value, queue, runs, aborted>>

(* The value: a clone of the Arc, or the executor's half.                  *)
TakeValue(t) ==
    LET p == PartOf(t)
        held == IF kind = "shared" THEN memo ELSE memo \ {p}
        owners == [holder EXCEPT ![p] = @ \cup {t}]
    IN /\ pc[t] = "entering" /\ once.state = "done"
       /\ holder' = owners
       /\ memo' = Kept(t, held)
       /\ quarantine' = [quarantine EXCEPT ![t] = @ \cup Orphans(t, held, owners)]
       /\ result' = [result EXCEPT ![t] = "value"]
       /\ pc' = [pc EXCEPT ![t] = "chaining"]
       /\ UNCHANGED <<kind, once, storage, runs, unguarded, aborted>>

TakeUnjoined(t) == TakeValue(t) /\ UNCHANGED queue  \* mutant: no join

Take(t) ==
    /\ TakeValue(t)
    /\ queue' = IF Elsewhere(t) THEN Enqueue(t, "wait") ELSE queue

(* The wait for the event cannot be enqueued.                              *)
JoinFails(t) ==
    /\ pc[t] = "entering" /\ once.state = "done" /\ Elsewhere(t)
    /\ memo' = Kept(t, memo)
    /\ quarantine' = [quarantine EXCEPT ![t] = @ \cup Orphans(t, memo, holder)]
    /\ unguarded' = unguarded \cup Orphans(t, memo, holder)
    /\ result' = [result EXCEPT ![t] = "join"]
    /\ pc' = [pc EXCEPT ![t] = "terminal"]
    /\ UNCHANGED <<kind, once, holder, storage, queue, runs, aborted>>

-----------------------------------------------------------------------------
(* The operation, run outside the lock.                                    *)

(* It executes a handle of itself from a then_unchecked closure ...        *)
Reenter(t) ==
    /\ pc[t] = "running"
    /\ pc' = [pc EXCEPT ![t] = "reentering"]
    /\ UNCHANGED <<kind, once, result, value, queue, runs, aborted>>

(* ... which is an error to the closure.                                   *)
Reentered(t) ==
    /\ pc[t] = "reentering" /\ once = Running(t)
    /\ pc' = [pc EXCEPT ![t] = "resumed"]
    /\ UNCHANGED <<kind, once, result, value, queue, runs, aborted>>

Runs(t) == pc[t] \in {"running", "resumed"}

RunSucceeds(t) ==
    /\ Runs(t)
    /\ queue' = Enqueue(t, "write")
    /\ storage' = [p \in Part |-> "live"]
    /\ pc' = [pc EXCEPT ![t] = "settling"]
    /\ UNCHANGED <<kind, once, memo, result, holder, quarantine, runs, unguarded,
                   aborted>>

(* Mutant: waiters are notified of a failure that is not recorded.         *)
RunFailsUnsettled(t) ==
    /\ Runs(t)
    /\ \/ UNCHANGED queue
       \/ queue' = Enqueue(t, "write")
    /\ pc' = [pc EXCEPT ![t] = "notifying"]
    /\ UNCHANGED <<kind, once, result, value, runs, aborted>>

(* Before or after work was submitted.                                     *)
RunFails(t) ==
    /\ Runs(t)
    /\ \/ UNCHANGED queue
       \/ queue' = Enqueue(t, "write")
    /\ once' = Failed("op")
    /\ pc' = [pc EXCEPT ![t] = "notifying"]
    /\ UNCHANGED <<kind, result, value, runs, aborted>>

Awakened(t, at) == [u \in Executor |->
    IF u = t THEN at ELSE IF pc[u] = "waiting" THEN "entering" ELSE pc[u]]

(* SettleOnUnwind, then the fail-stop of the armed UncertainExecution.     *)
Panic(t) ==
    /\ Runs(t)
    /\ once' = Failed("panic")
    /\ pc' = Awakened(t, "unwinding")
    /\ UNCHANGED <<kind, result, value, queue, runs, aborted>>

FailStop(t) ==
    /\ pc[t] = "unwinding"
    /\ aborted' = TRUE
    /\ UNCHANGED <<kind, once, pc, result, value, queue, runs>>

SettleDone(t) ==
    /\ pc[t] = "settling"
    /\ queue' = Enqueue(t, "record")
    /\ once' = Done(StreamOf[t])
    /\ memo' = Part
    /\ pc' = [pc EXCEPT ![t] = "notifying"]
    /\ UNCHANGED <<kind, result, holder, storage, quarantine, runs, unguarded, aborted>>

(* The completion event cannot be recorded: the value is leaked.           *)
RecordFails(t) ==
    /\ pc[t] = "settling"
    /\ once' = Failed("event")
    /\ storage' = [p \in Part |-> "leaked"]
    /\ pc' = [pc EXCEPT ![t] = "notifying"]
    /\ UNCHANGED <<kind, memo, result, holder, quarantine, queue, runs, unguarded,
                   aborted>>

NotifyOne(t) ==     \* mutant: one waiter is woken
    /\ pc[t] = "notifying"
    /\ IF \E u \in Executor : pc[u] = "waiting"
       THEN \E u \in Executor :
              pc[u] = "waiting" /\ pc' = [pc EXCEPT ![t] = "entering", ![u] = "entering"]
       ELSE pc' = [pc EXCEPT ![t] = "entering"]
    /\ UNCHANGED <<kind, once, result, value, queue, runs, aborted>>

(* notify_all, after which the executor goes round its loop.               *)
Notify(t) ==
    /\ pc[t] = "notifying"
    /\ pc' = Awakened(t, "entering")
    /\ UNCHANGED <<kind, once, result, value, queue, runs, aborted>>

-----------------------------------------------------------------------------
(* The rest of the executor's chain, and its terminal.                     *)

DropsUnquarantined(t, p) ==     \* mutant: DeviceBuffer::drop never defers
    /\ holder' = [holder EXCEPT ![p] = @ \ {t}]
    /\ LET last == p \notin memo /\ holder[p] = {t} IN
       /\ storage' = IF last THEN Free({p}) ELSE storage
       /\ unguarded' = IF last THEN unguarded ELSE unguarded \cup {p}
    /\ UNCHANGED quarantine

(* A reference dropped during execute: the last one goes to quarantine.    *)
Drops(t, p) ==
    /\ holder' = [holder EXCEPT ![p] = @ \ {t}]
    /\ LET last == p \notin memo /\ holder[p] = {t} IN
       /\ quarantine' = [quarantine EXCEPT ![t] = IF last THEN @ \cup {p} ELSE @]
       /\ unguarded' = IF last THEN unguarded ELSE unguarded \cup {p}
    /\ UNCHANGED storage

(* A later operation of the chain may launch a kernel on the value, and    *)
(* may drop it.                                                            *)
Chain(t) ==
    /\ pc[t] = "chaining"
    /\ \/ UNCHANGED queue
       \/ queue' = Enqueue(t, "use")
    /\ \/ UNCHANGED <<holder, storage, quarantine, unguarded>>
       \/ Drops(t, PartOf(t))
    /\ pc' = [pc EXCEPT ![t] = "terminal"]
    /\ UNCHANGED <<kind, once, memo, result, runs, aborted>>

Synchronize(t) ==
    /\ pc[t] = "terminal"
    /\ queue' = Enqueue(t, "sync")
    /\ pc' = [pc EXCEPT ![t] = "syncing"]
    /\ UNCHANGED <<kind, once, result, value, runs, aborted>>

CompletionProven(t) ==
    /\ pc[t] = "syncing" /\ ~InQueue("sync", t)
    /\ storage' = Free(quarantine[t])
    /\ quarantine' = [quarantine EXCEPT ![t] = {}]
    /\ pc' = [pc EXCEPT ![t] = IF t \in holder[PartOf(t)] THEN "ready" ELSE "gone"]
    /\ UNCHANGED <<kind, once, memo, result, holder, queue, runs, unguarded, aborted>>

(* The caller drops the value it was given.                                *)
DropValue(t) ==
    LET p == PartOf(t) IN
    /\ pc[t] = "ready"
    /\ holder' = [holder EXCEPT ![p] = @ \ {t}]
    /\ storage' = IF p \notin memo /\ holder[p] = {t} THEN Free({p}) ELSE storage
    /\ pc' = [pc EXCEPT ![t] = "gone"]
    /\ UNCHANGED <<kind, once, memo, result, quarantine, queue, runs, unguarded, aborted>>

(* A stream runs its work in order; a wait holds it until the event.       *)
Device(s) ==
    /\ queue[s] # <<>>
    /\ Head(queue[s])[1] = "wait" => ~Queued("record")
    /\ queue' = [queue EXCEPT ![s] = Tail(@)]
    /\ UNCHANGED <<kind, once, pc, result, value, runs, aborted>>

-----------------------------------------------------------------------------
Execute(t) ==
    \/ Claim(t) \/ Wait(t) \/ Refused(t) \/ Take(t) \/ JoinFails(t)
    \/ Reentered(t)
    \/ RunSucceeds(t) \/ RunFails(t) \/ Panic(t) \/ FailStop(t)
    \/ SettleDone(t) \/ RecordFails(t) \/ Notify(t)
    \/ Chain(t) \/ Synchronize(t) \/ CompletionProven(t)

Next ==
    /\ ~aborted
    /\ \/ \E t \in Executor :
             \/ Start(t) \/ Abandon(t) \/ Reenter(t) \/ SpuriousWake(t)
             \/ Execute(t) \/ DropValue(t)
       \/ \E s \in Stream : Device(s)

Spec == Init /\ [][Next]_vars

(* Threads in execute and streams are scheduled; what callers do with      *)
(* handles and values is up to them.                                       *)
Fairness ==
    /\ \A t \in Executor : WF_vars(~aborted /\ Execute(t))
    /\ \A s \in Stream : WF_vars(~aborted /\ Device(s))

FairSpec == Spec /\ Fairness

-----------------------------------------------------------------------------
(* Types, and what the parts of the state say of each other: the operation *)
(* is marked as running exactly while its executor is inside it, and only  *)
(* a settled outcome has a memo.                                           *)
TypeOK ==
    /\ kind \in {"shared", "unzip"}
    /\ once \in {Pending} \cup {Running(t) : t \in Executor}
            \cup {Done(s) : s \in Stream \cup {NoStream}} \cup {Failed(e) : e \in Errors}
    /\ pc \in [Executor -> WithHandle \cup {"chaining", "terminal", "syncing", "ready",
                                            "gone"}]
    /\ result \in [Executor -> {"none", "value", "join"} \cup Errors]
    /\ storage \in [Part -> {"none", "live", "leaked", "freed"}]
    /\ \A t \in Executor :
          once = Running(t) <=> pc[t] \in {"running", "reentering", "resumed", "settling"}
    /\ memo # {} => once.state = "done"

(* The operation runs at most once, whoever executes handles of it and     *)
(* when, and what comes of it is the same for all: none has the value      *)
(* when another has its error, and the error is one ("If the operation     *)
(* fails, every clone receives the same error").                           *)
OutcomeIsShared ==
    /\ runs <= 1
    /\ \A t, u \in Executor :
          result[t] \in Errors => result[u] \in {"none", result[t]}

(* Work on the value never starts before the work that produces it has     *)
(* ended, on whatever stream its executor put it (Producer::join).         *)
UsesFinishedWork ==
    \A s \in Stream :
        queue[s] # <<>> /\ Head(queue[s])[1] = "use" => ~Queued("write")

(* Storage that is released is no longer used by work in flight, in any    *)
(* stream: "destructors quarantined while an operation may have submitted  *)
(* work but has not reached a successful stream terminal"                  *)
(* (fault_policy.rs).                                                      *)
WorkOn(p) ==
    \/ Queued("write")
    \/ \E t \in Executor : PartOf(t) = p /\ InQueue("use", t)

ReleasedAfterWork == \A p \in Part : storage[p] = "freed" => ~WorkOn(p)

(* The same but for parts one of whose references the quarantine did not   *)
(* see: an untaken part given up with the last handle by an executor whose *)
(* stream was not ordered after the work, and a part of which one          *)
(* executor dropped its reference during execute while others had theirs.  *)
GuardedReleasedAfterWork ==
    \A p \in Part : storage[p] = "freed" /\ p \notin unguarded => ~WorkOn(p)

(* Everyone who executes a handle gets an answer, also when the operation  *)
(* fails, or executes itself; a panic ends the process.                    *)
ExecutionsEnd ==
    \A t \in Executor : pc[t] = "entering" ~> (pc[t] \in {"ready", "gone"} \/ aborted)
=============================================================================
