-------------------------- MODULE NestedExecution ---------------------------
(***************************************************************************)
(* Executions inside executions (src/vendor/cuda-async/src:                *)
(* device_operation.rs, fault_policy.rs, device_buffer.rs,                 *)
(* device_future.rs, cuda_graph.rs).  Three thread-local variables, the    *)
(* execution lock, the depth of uncertain executions and the quarantine of *)
(* dropped buffers, are kept by guards that live in nested scopes: a       *)
(* terminal (sync_on, the first poll of a future, a graph capture), the    *)
(* closure of a then_unchecked inside its chain, another terminal inside   *)
(* the closure, and memoized operations that other threads wait for.  A    *)
(* guard may be left by a return, an error or an unwinding panic.          *)
(***************************************************************************)
EXTENDS Integers, Sequences, FiniteSets, SequencesExt

CONSTANTS
    Thread, Future, Stream, Buffer, Memo,
    StreamOf,   \* the stream that the policy chose for each future
    Nests,      \* the threads that do more than block on memoized operations
    Budget,     \* how many terminals, closures and panics a thread begins
    Backlog,    \* how much work a launch may find on its stream (a bound)
    NoOwner

ASSUME NestedAssumption ==
    /\ StreamOf \in [Future -> Stream]
    /\ Nests \subseteq Thread
    /\ Budget \in [Thread -> Nat] /\ Backlog \in Nat
    /\ Memo \cap {"running", "proving", "unwinding"} = {}
    /\ Thread \cap {"pending", "settled"} = {}
    /\ Thread \cap Future = {} /\ Buffer \cap (Thread \cup Future) = {}
    /\ NoOwner \notin Thread \cup Future

VARIABLES
    scopes,     \* the guards in scope of each thread, innermost last
    at,         \* what it does there, or the memoized operation it waits for
    lock,       \* DEVICE_OP_EXECUTING
    depth,      \* UNCERTAIN_EXECUTIONS
    quarantine, \* QUARANTINED_ALLOCATIONS, QUARANTINED_FOREIGN_OWNERS
    budget,
    once,       \* "pending", the thread that runs it, or "settled"
    fut,        \* "new", "executing", "pending" or "over"
    handed,     \* the quarantine that was handed to each future
    owner,      \* the thread or future whose value holds a buffer
    storage,    \* "none", "live" or "freed"
    queue,      \* the work of each stream; threads and futures are marks
    capturing,  \* the streams in capture mode
    aborted     \* what fail_stop was called for, or "no"

locals == <<lock, depth, quarantine, budget>>
buffers == <<owner, storage>>
device == <<queue, capturing>>
vars == <<scopes, at, locals, once, fut, handed, buffers, device, aborted>>

Scope == [kind : {"sync", "capture"}, on : Stream] \cup [kind : {"poll"}, on : Future]
         \cup [kind : {"closure"}, held : BOOLEAN] \cup [kind : {"memo"}, on : Memo]

Terminal == {"sync", "poll", "capture"}
Guarded == {"sync", "poll"}     \* those that hold an UncertainExecution

Init ==
    /\ scopes = [t \in Thread |-> <<>>] /\ at = [t \in Thread |-> "running"]
    /\ lock = [t \in Thread |-> FALSE] /\ depth = [t \in Thread |-> 0]
    /\ quarantine = [t \in Thread |-> {}] /\ budget = Budget
    /\ once = [o \in Memo |-> "pending"]
    /\ fut = [f \in Future |-> "new"] /\ handed = [f \in Future |-> {}]
    /\ owner = [b \in Buffer |-> NoOwner] /\ storage = [b \in Buffer |-> "none"]
    /\ queue = [s \in Stream |-> <<>>] /\ capturing = {}
    /\ aborted = "no"

Inner(t) == Last(scopes[t])
InsideA(t, kinds) == scopes[t] # <<>> /\ Inner(t).kind \in kinds
InChain(t) == InsideA(t, Terminal \cup {"memo"})

Push(t, scope) == scopes' = [scopes EXCEPT ![t] = Append(@, scope)]
Pop(t) == scopes' = [scopes EXCEPT ![t] = Front(@)]
Locks(t, held) == lock' = [lock EXCEPT ![t] = held]
Spend(t) == budget[t] > 0 /\ budget' = [budget EXCEPT ![t] = @ - 1]

(* The terminal whose chain a thread executes, with its stream, and whose  *)
(* the values of the chain are: a future keeps its result.                 *)
Chain(t) ==
    LET i == CHOOSE i \in DOMAIN scopes[t] :
                /\ scopes[t][i].kind \in Terminal
                /\ \A j \in i + 1 .. Len(scopes[t]) : scopes[t][j].kind \notin Terminal
    IN scopes[t][i]

ChainStream(t) == IF Chain(t).kind = "poll" THEN StreamOf[Chain(t).on] ELSE Chain(t).on
ChainOwner(t) == IF Chain(t).kind = "poll" THEN Chain(t).on ELSE t

Polled(t) == {f \in Future : [kind |-> "poll", on |-> f] \in Range(scopes[t])}

Enqueue(s, item) == queue' = [queue EXCEPT ![s] = Append(@, item)]
InFlight(item) == \E s \in Stream : item \in Range(queue[s])

-----------------------------------------------------------------------------
(* Terminals.  acquire_execution_lock fails while a chain executes; then   *)
(* nothing but the future that is polled changes.                          *)

SyncOn(t, s) ==
    /\ at[t] = "running" /\ ~lock[t]
    /\ Locks(t, TRUE) /\ Spend(t)
    /\ depth' = [depth EXCEPT ![t] = @ + 1]
    /\ Push(t, [kind |-> "sync", on |-> s])
    /\ UNCHANGED <<at, quarantine, once, fut, handed, buffers, device, aborted>>

FirstPoll(t, f) ==
    /\ at[t] = "running" /\ fut[f] = "new"
    /\ IF lock[t]
       THEN /\ fut' = [fut EXCEPT ![f] = "over"]
            /\ UNCHANGED <<scopes, lock, depth, budget>>
       ELSE /\ fut' = [fut EXCEPT ![f] = "executing"]
            /\ Locks(t, TRUE) /\ Spend(t)
            /\ depth' = [depth EXCEPT ![t] = @ + 1]
            /\ Push(t, [kind |-> "poll", on |-> f])
    /\ UNCHANGED <<at, quarantine, once, handed, buffers, device, aborted>>

(* CudaGraph::capture and scope: the lock, but no UncertainExecution.      *)
Capture(t, s) ==
    /\ at[t] = "running" /\ ~lock[t]
    /\ s \notin capturing
    /\ Locks(t, TRUE) /\ Spend(t)
    /\ capturing' = capturing \cup {s}
    /\ Push(t, [kind |-> "capture", on |-> s])
    /\ UNCHANGED <<at, depth, quarantine, once, fut, handed, buffers, queue, aborted>>

-----------------------------------------------------------------------------
(* Inside a chain.                                                         *)

(* ExecutionContext::alloc_async.                                          *)
Allocate(t, b) ==
    /\ at[t] = "running" /\ InChain(t)
    /\ storage[b] = "none"
    /\ storage' = [storage EXCEPT ![b] = "live"]
    /\ owner' = [owner EXCEPT ![b] = ChainOwner(t)]
    /\ UNCHANGED <<scopes, at, locals, once, fut, handed, device, aborted>>

(* A kernel, or a copy, of a value that the thread holds: a synchronous    *)
(* execution borrows it, a future takes it.  A stream in capture mode      *)
(* records the launch.                                                     *)
Launch(t, b) ==
    /\ at[t] = "running" /\ InChain(t)
    /\ owner[b] \in {t} \cup Polled(t)
    /\ owner' = [owner EXCEPT ![b] = IF Chain(t).kind = "poll" THEN Chain(t).on ELSE @]
    /\ IF ChainStream(t) \in capturing THEN UNCHANGED queue
       ELSE /\ Len(queue[ChainStream(t)]) < Backlog
            /\ Enqueue(ChainStream(t), b)
    /\ UNCHANGED <<scopes, at, locals, once, fut, handed, storage, capturing, aborted>>

(* An error in a copy to the host: its ExternalTransferGuard ends the      *)
(* process, inside a capture as well.                                      *)
TransferFails(t, b) ==
    /\ at[t] = "running" /\ InChain(t)
    /\ owner[b] \in {t} \cup Polled(t)
    /\ aborted' = "transfer"
    /\ UNCHANGED <<scopes, at, locals, once, fut, handed, buffers, device>>

(* then_unchecked: the closure runs with the lock released.                *)
OpenClosure(t) ==
    /\ at[t] = "running" /\ InChain(t)
    /\ Push(t, [kind |-> "closure", held |-> lock[t]])
    /\ Locks(t, FALSE) /\ Spend(t)
    /\ UNCHANGED <<at, depth, quarantine, once, fut, handed, buffers, device, aborted>>

CloseUnlocked(t) ==     \* mutant: the lock is not taken back
    /\ at[t] = "running" /\ InsideA(t, {"closure"})
    /\ Pop(t)
    /\ UNCHANGED <<at, locals, once, fut, handed, buffers, device, aborted>>

CloseClosure(t) ==
    /\ at[t] = "running" /\ InsideA(t, {"closure"})
    /\ Locks(t, Inner(t).held)
    /\ Pop(t)
    /\ UNCHANGED <<at, depth, quarantine, budget, once, fut, handed, buffers, device,
                   aborted>>

WaitForItself(t, o) ==  \* mutant: re-entry is not told from another thread
    /\ at[t] = "running" /\ InChain(t)
    /\ \/ /\ once[o] = "pending"
          /\ once' = [once EXCEPT ![o] = t]
          /\ Push(t, [kind |-> "memo", on |-> o])
          /\ UNCHANGED at
       \/ /\ once[o] \in Thread
          /\ at' = [at EXCEPT ![t] = o]
          /\ UNCHANGED <<scopes, once>>
    /\ UNCHANGED <<locals, fut, handed, buffers, device, aborted>>

(* A handle of a memoized operation in the chain: its first executor runs  *)
(* it, others wait; re-entry is an error, a settled outcome an answer.     *)
ExecuteHandle(t, o) ==
    /\ at[t] = "running" /\ InChain(t)
    /\ \/ /\ once[o] = "pending"
          /\ once' = [once EXCEPT ![o] = t]
          /\ Push(t, [kind |-> "memo", on |-> o])
          /\ UNCHANGED at
       \/ /\ once[o] \in Thread \ {t}
          /\ at' = [at EXCEPT ![t] = o]
          /\ UNCHANGED <<scopes, once>>
    /\ UNCHANGED <<locals, fut, handed, buffers, device, aborted>>

Settle(t) ==
    /\ at[t] = "running" /\ InsideA(t, {"memo"})
    /\ once' = [once EXCEPT ![Inner(t).on] = "settled"]
    /\ Pop(t)
    /\ UNCHANGED <<at, locals, fut, handed, buffers, device, aborted>>

Resume(t) ==
    /\ at[t] \in Memo /\ once[at[t]] = "settled"
    /\ at' = [at EXCEPT ![t] = "running"]
    /\ UNCHANGED <<scopes, locals, once, fut, handed, buffers, device, aborted>>

-----------------------------------------------------------------------------
(* The ends of terminals.                                                  *)

(* CudaGraph::update, as sync_on, synchronizes whatever execute returned;  *)
(* a future's first poll does when it failed, and left no value.  A stream *)
(* in capture mode cannot be synchronized.                                 *)
Synchronize(t) ==
    /\ at[t] = "running" /\ InsideA(t, Guarded)
    /\ Inner(t).kind = "poll" => \A b \in Buffer : owner[b] # Inner(t).on
    /\ IF ChainStream(t) \in capturing
       THEN aborted' = "synchronize" /\ UNCHANGED <<at, queue>>
       ELSE /\ Enqueue(ChainStream(t), t)
            /\ at' = [at EXCEPT ![t] = "proving"]
            /\ UNCHANGED aborted
    /\ UNCHANGED <<scopes, locals, once, fut, handed, buffers, capturing>>

Released(bs) == storage' = [b \in Buffer |-> IF b \in bs THEN "freed" ELSE storage[b]]

(* Mutant: every completion releases the quarantine.                       *)
ProvenReleases(t) ==
    /\ at[t] = "proving" /\ ~InFlight(t)
    /\ depth' = [depth EXCEPT ![t] = @ - 1]
    /\ Released(quarantine[t])
    /\ quarantine' = [quarantine EXCEPT ![t] = {}]
    /\ fut' = [f \in Future |-> IF Inner(t) = [kind |-> "poll", on |-> f] THEN "over"
                                ELSE fut[f]]
    /\ at' = [at EXCEPT ![t] = "running"]
    /\ Locks(t, FALSE) /\ Pop(t)
    /\ UNCHANGED <<budget, once, handed, owner, device, aborted>>

(* completion_proven; the guard of the lock is dropped after it.           *)
Proven(t) ==
    /\ at[t] = "proving" /\ ~InFlight(t)
    /\ depth' = [depth EXCEPT ![t] = @ - 1]
    /\ IF depth[t] = 1
       THEN /\ Released(quarantine[t])
            /\ quarantine' = [quarantine EXCEPT ![t] = {}]
       ELSE UNCHANGED <<storage, quarantine>>
    /\ fut' = [f \in Future |-> IF Inner(t) = [kind |-> "poll", on |-> f] THEN "over"
                                ELSE fut[f]]
    /\ at' = [at EXCEPT ![t] = "running"]
    /\ Locks(t, FALSE) /\ Pop(t)
    /\ UNCHANGED <<budget, once, handed, owner, device, aborted>>

DriverError(t) ==
    /\ at[t] = "proving"
    /\ aborted' = "synchronize"
    /\ UNCHANGED <<scopes, at, locals, once, fut, handed, buffers, device>>

(* handoff_to_terminal: only the outermost execution may leave its proof   *)
(* of completion to the future.                                            *)
HandOver(t) ==
    LET f == Inner(t).on IN
    /\ at[t] = "running" /\ InsideA(t, {"poll"})
    /\ IF depth[t] # 1
       THEN /\ aborted' = "handoff"
            /\ UNCHANGED <<scopes, lock, depth, quarantine, fut, handed, queue>>
       ELSE /\ depth' = [depth EXCEPT ![t] = 0]
            /\ handed' = [handed EXCEPT ![f] = quarantine[t]]
            /\ quarantine' = [quarantine EXCEPT ![t] = {}]
            /\ fut' = [fut EXCEPT ![f] = "pending"]
            /\ Enqueue(StreamOf[f], f)
            /\ Locks(t, FALSE) /\ Pop(t)
            /\ UNCHANGED aborted
    /\ UNCHANGED <<at, budget, once, buffers, capturing>>

(* Completion is proven, in whatever thread polls or drops the future:     *)
(* its quarantine is released and its value handed to the thread.  A fault *)
(* of its stream, or a drop while that is in capture mode, is the end.     *)
Resolve(u, f) ==
    /\ at[u] \in {"running", "unwinding"} /\ fut[f] = "pending"
    /\ \/ /\ ~InFlight(f)
          /\ fut' = [fut EXCEPT ![f] = "over"]
          /\ Released(handed[f])
          /\ handed' = [handed EXCEPT ![f] = {}]
          /\ owner' = [b \in Buffer |-> IF owner[b] = f THEN u ELSE owner[b]]
          /\ UNCHANGED aborted
       \/ /\ aborted' = "synchronize"
          /\ UNCHANGED <<fut, handed, buffers>>
    /\ UNCHANGED <<scopes, at, locals, once, device>>

EndCaptureProven(t) ==  \* mutant: like a terminal with an UncertainExecution
    /\ at[t] = "running" /\ InsideA(t, {"capture"})
    /\ capturing' = capturing \ {Inner(t).on}
    /\ depth' = [depth EXCEPT ![t] = @ - 1]
    /\ Locks(t, FALSE) /\ Pop(t)
    /\ UNCHANGED <<at, quarantine, budget, once, fut, handed, buffers, queue, aborted>>

(* capture_on ends the capture whatever its record returned.               *)
EndCapture(t) ==
    /\ at[t] = "running" /\ InsideA(t, {"capture"})
    /\ capturing' = capturing \ {Inner(t).on}
    /\ Locks(t, FALSE) /\ Pop(t)
    /\ UNCHANGED <<at, depth, quarantine, budget, once, fut, handed, buffers, queue,
                   aborted>>

-----------------------------------------------------------------------------
(* DeviceBuffer::drop, of a value the thread owns or executes on.          *)
Drop(t, b) ==
    /\ at[t] \in {"running", "unwinding"}
    /\ owner[b] \in {t} \cup Polled(t)
    /\ owner' = [owner EXCEPT ![b] = NoOwner]
    /\ IF depth[t] = 0
       THEN Released({b}) /\ UNCHANGED quarantine
       ELSE quarantine' = [quarantine EXCEPT ![t] = @ \cup {b}] /\ UNCHANGED storage
    /\ UNCHANGED <<scopes, at, lock, depth, budget, once, fut, handed, device, aborted>>

(* Host code inside a terminal panics.                                     *)
Panic(t) ==
    /\ at[t] = "running" /\ scopes[t] # <<>>
    /\ at' = [at EXCEPT ![t] = "unwinding"] /\ Spend(t)
    /\ UNCHANGED <<scopes, lock, depth, quarantine, once, fut, handed, buffers, device, aborted>>

(* The guards of the scopes that a panic leaves, innermost first; the      *)
(* caller of the outermost terminal, or a closure, may catch it.           *)
Unwind(t) ==
    /\ at[t] = "unwinding"
    /\ \/ /\ scopes[t] = <<>> \/ InsideA(t, {"closure"})
          /\ at' = [at EXCEPT ![t] = "running"]
          /\ UNCHANGED <<scopes, lock, once, capturing, aborted>>
       \/ /\ InsideA(t, {"closure"})
          /\ Locks(t, Inner(t).held) /\ Pop(t)
          /\ UNCHANGED <<at, once, capturing, aborted>>
       \/ /\ InsideA(t, {"memo"})
          /\ once' = [once EXCEPT ![Inner(t).on] = "settled"]
          /\ Pop(t)
          /\ UNCHANGED <<at, lock, capturing, aborted>>
       \/ /\ InsideA(t, {"capture"})
          /\ capturing' = capturing \ {Inner(t).on}
          /\ Locks(t, FALSE) /\ Pop(t)
          /\ UNCHANGED <<at, once, aborted>>
       \/ /\ InsideA(t, Guarded)
          /\ aborted' = "unwound"
          /\ UNCHANGED <<scopes, at, lock, once, capturing>>
    /\ UNCHANGED <<depth, quarantine, budget, fut, handed, buffers, queue>>

(* A stream runs its work in order.                                        *)
Device(s) ==
    /\ queue[s] # <<>>
    /\ queue' = [queue EXCEPT ![s] = Tail(@)]
    /\ UNCHANGED <<scopes, at, locals, once, fut, handed, buffers, capturing, aborted>>

-----------------------------------------------------------------------------
(* What brings a thread out of the scope it is in.                         *)
Leave(t) ==
    \/ CloseClosure(t) \/ Settle(t) \/ Resume(t) \/ Synchronize(t) \/ Proven(t)
    \/ HandOver(t) \/ EndCapture(t) \/ Unwind(t)

Enter(t) ==
    \/ \E s \in Stream : SyncOn(t, s)
    \/ \E o \in Memo : ExecuteHandle(t, o)
    \/ \E f \in Future : Resolve(t, f)
    \/ \E b \in Buffer : Drop(t, b)
    \/ DriverError(t)
    \/ /\ t \in Nests
       /\ \/ \E s \in Stream : Capture(t, s)
          \/ \E f \in Future : FirstPoll(t, f)
          \/ \E b \in Buffer : Allocate(t, b) \/ Launch(t, b) \/ TransferFails(t, b)
          \/ OpenClosure(t) \/ Panic(t)

Next ==
    /\ aborted = "no"
    /\ \/ \E t \in Thread : Leave(t) \/ Enter(t)
       \/ \E s \in Stream : Device(s)

Spec == Init /\ [][Next]_vars

(* Closures and operations return, and streams are worked off.             *)
Fairness ==
    /\ \A t \in Thread : WF_vars(aborted = "no" /\ Leave(t))
    /\ \A s \in Stream : WF_vars(aborted = "no" /\ Device(s))

FairSpec == Spec /\ Fairness

-----------------------------------------------------------------------------
TypeOK ==
    /\ scopes \in [Thread -> Seq(Scope)]
    /\ at \in [Thread -> {"running", "proving", "unwinding"} \cup Memo]
    /\ lock \in [Thread -> BOOLEAN] /\ depth \in [Thread -> Nat]
    /\ quarantine \in [Thread -> SUBSET Buffer]
    /\ budget \in [Thread -> Nat]
    /\ once \in [Memo -> Thread \cup {"pending", "settled"}]
    /\ fut \in [Future -> {"new", "executing", "pending", "over"}]
    /\ handed \in [Future -> SUBSET Buffer]
    /\ owner \in [Buffer -> Thread \cup Future \cup {NoOwner}]
    /\ storage \in [Buffer -> {"none", "live", "freed"}]
    /\ queue \in [Stream -> Seq(Buffer \cup Thread \cup Future)]
    /\ capturing \subseteq Stream
    /\ aborted \in {"no", "synchronize", "handoff", "unwound", "transfer"}

(* The thread-locals match the scopes, however these were left: the lock   *)
(* is held in a chain and free in a then_unchecked closure and outside, so *)
(* that an execution starts inside another only there; the depth counts    *)
(* the uncertain executions; and what is quarantined has a terminal to     *)
(* release it.                                                             *)
GuardedScopes(t) == {i \in DOMAIN scopes[t] : scopes[t][i].kind \in Guarded}

LocalsMatchScopes ==
    \A t \in Thread :
        /\ lock[t] <=> InChain(t)
        /\ \A i \in DOMAIN scopes[t] :
              scopes[t][i].kind \in Terminal
                  <=> i = 1 \/ scopes[t][i - 1].kind = "closure"
        /\ depth[t] = Cardinality(GuardedScopes(t))
        /\ quarantine[t] # {} => depth[t] > 0

(* Storage is released only when no stream has work on it any more: not by *)
(* the end of a nested execution on another stream, a hand-over, an error  *)
(* or a panic (fault_policy.rs, device_buffer.rs).                         *)
ReleasedAfterWork == \A b \in Buffer : storage[b] = "freed" => ~InFlight(b)

(* Every terminal returns, unwinds or stops the process, unless two        *)
(* threads execute each other's memoized operations.                       *)
Crossed ==
    \E t, u \in Thread :
        /\ t # u /\ at[t] \in Memo /\ at[u] \in Memo
        /\ once[at[t]] = u /\ once[at[u]] = t

TerminalsEnd ==
    \A t \in Thread :
        scopes[t] # <<>> ~> scopes[t] = <<>> \/ aborted # "no" \/ Crossed

(* A future may be awaited in a then_unchecked closure: "it may execute    *)
(* other operations: `.sync()`, `.sync_on(&stream)`, or a nested `.await`" *)
(* (device_operation.rs:275).                                              *)
NestedAwaitReturns == aborted # "handoff"
=============================================================================
