----------------------------- MODULE DoubleGrid -----------------------------
(***************************************************************************)
(* A DoubleGrid from its construction to its end (src/src/gpu/             *)
(* timesteps.rs): two haloed device grids that are read and written in     *)
(* turn by the timestep kernel, whose blocks, one per haloed cell, run in  *)
(* any order.  The owner is one value, moved from call to call; every call *)
(* may be rejected, fail, or, as a future, be dropped or forgotten.        *)
(* Admission by the shared budget is a choice of the environment here      *)
(* (Session and Admission model it).                                       *)
(***************************************************************************)
EXTENDS Stencil, FiniteSets, Sequences

CONSTANTS
    Initial, Rhs,   \* the host vectors given to double_grid
    MaxUsize,       \* usize::MAX
    Batch,          \* the step counts callers ask for
    Resident        \* the most blocks the device runs at one time

ASSUME DoubleGridAssumption ==
    /\ Initial \in Grid /\ Rhs \in Forcing
    /\ MaxUsize \in Nat
    /\ Batch \subseteq 0..MaxUsize
    /\ Resident \in Nat \ {0}

VARIABLES
    pc,         \* where the owner is
    call,       \* the call or future that holds it
    mem,        \* the contents of the two grids
    current,    \* the grid DoubleGrid.current owns
    completed,  \* DoubleGrid.completed
    todo,       \* iterations left in the batch
    kernel,     \* the timestep kernel on the device
    block,      \* for each cell, how far its block is
    reg,        \* the value a loaded block is about to store
    ok,         \* the terminal's result
    stored,     \* buffers whose device storage exists
    charged,    \* buffers whose reservation exists
    admitted,   \* the operation's reservation exists
    drops,      \* destructors still to run
    sample      \* the last host snapshot

vars == <<pc, call, mem, current, completed, todo, kernel, block, reg, ok,
          stored, charged, admitted, drops, sample>>

device == <<mem, block, reg>>
owners == <<stored, charged, admitted>>

Other == [first |-> "second", second |-> "first"]
next == Other[current]

Buffers == {"first", "second", "forcing"}

Init ==
    /\ pc = "reserving" /\ call = "double_grid"
    /\ mem = [g \in {"first", "second"} |-> Initial]
    /\ current = "first" /\ completed = 0 /\ todo = 0
    /\ kernel = "idle"
    /\ block = [c \in Cell |-> "stored"]
    /\ reg = [c \in Cell |-> Initial[c]]
    /\ ok = TRUE
    /\ stored = {} /\ charged = {} /\ admitted = FALSE
    /\ drops = <<>>
    /\ sample = [at |-> -1, grid |-> Initial]

-----------------------------------------------------------------------------
(* Destructors: of a Buffer, of the fields of a DoubleGrid in order, of    *)
(* the operation's reservation.                                            *)
DropOf(b) == <<<<"free", b>>, <<"uncharge", b>>>>
DropGridTwo == DropOf(current) \o DropOf(next)  \* mutant: the RHS is forgotten
DropGrid == DropOf(current) \o DropOf(next) \o DropOf("forcing")
Unadmit == <<<<"unadmit", "operation">>>>

Unwind(what) == pc' = "dropping" /\ drops' = what /\ ok' = FALSE

(* double_grid reserves the three buffers; a rejection drops the ones      *)
(* before it, the last first.                                              *)
Reserve(b) ==
    /\ pc = "reserving" /\ b \notin charged
    /\ b = "second" => "first" \in charged
    /\ b = "forcing" => "second" \in charged
    /\ \/ /\ charged' = charged \cup {b}
          /\ pc' = IF b = "forcing" THEN "uploading" ELSE "reserving"
          /\ UNCHANGED <<ok, drops>>
       \/ /\ Unwind(CASE b = "first" -> <<>>
                      [] b = "second" -> <<<<"uncharge", "first">>>>
                      [] OTHER -> <<<<"uncharge", "second">>, <<"uncharge", "first">>>>)
          /\ UNCHANGED charged
    /\ UNCHANGED <<call, mem, current, completed, todo, kernel, block, reg,
                   stored, admitted, sample>>

(* The three uploads, each with an operation of its own that has ended     *)
(* before the next.  A failure drops the reservation the upload was given, *)
(* the buffers already uploaded and the reservations not yet used.         *)
Upload(b) ==
    /\ pc = "uploading" /\ b \notin stored
    /\ b = "second" => "first" \in stored
    /\ b = "forcing" => "second" \in stored
    /\ \/ /\ stored' = stored \cup {b}
          /\ mem' = IF b = "forcing" THEN mem ELSE [mem EXCEPT ![b] = Initial]
          /\ pc' = IF b = "forcing" THEN "ready" ELSE "uploading"
          /\ UNCHANGED <<ok, drops>>
       \/ /\ Unwind(<<<<"uncharge", b>>>> \o
                    (IF "second" \in stored THEN DropOf("second") ELSE <<>>) \o
                    (IF "first" \in stored THEN DropOf("first") ELSE <<>>) \o
                    (IF b # "forcing" THEN <<<<"uncharge", "forcing">>>> ELSE <<>>) \o
                    (IF b = "first" THEN <<<<"uncharge", "second">>>> ELSE <<>>))
          /\ UNCHANGED <<stored, mem>>
    /\ UNCHANGED <<call, current, completed, todo, kernel, block, reg, charged,
                   admitted, sample>>

-----------------------------------------------------------------------------
(* advance and advance_async: check_count, then Budget::operation; either  *)
(* error consumes the state.                                               *)
CountFitsAlways(n) == TRUE  \* mutant: no check_count

CountFits(n) == completed + n <= MaxUsize

Advance(n) ==
    /\ pc = "ready"
    /\ \/ /\ CountFits(n)
          /\ admitted' = TRUE /\ todo' = n /\ pc' = "admitted"
          /\ call' \in {"advance", "advance_async"}
          /\ UNCHANGED <<ok, drops>>
       \/ /\ Unwind(DropGrid) /\ call' = "advance"
          /\ UNCHANGED <<admitted, todo>>
    /\ UNCHANGED <<mem, current, completed, kernel, block, reg, stored, charged,
                   sample>>

(* Mutant: the loop runs once more.                                        *)
SubmitOneMore(good, launched) ==
    /\ pc \in {"admitted", "stepping"} /\ todo >= 0
    /\ good => launched
    /\ pc' = IF good /\ call = "advance_async" THEN "pending" ELSE "waiting"
    /\ ok' = good
    /\ IF launched
       THEN /\ kernel' = "running"
            /\ block' = [c \in Cell |-> "todo"]
       ELSE UNCHANGED <<kernel, block>>
    /\ UNCHANGED <<call, mem, current, completed, todo, reg, owners, drops, sample>>

(* One iteration: bind the device and submit the timestep kernel on        *)
(* current, next and rhs.  advance binds once before its loop, so there    *)
(* a later iteration cannot fail this way; an execute that fails is        *)
(* synchronized before it returns, whether or not the kernel was launched. *)
BindFails ==
    /\ \/ pc = "admitted" /\ call = "advance"
       \/ pc \in {"admitted", "stepping"} /\ call = "advance_async" /\ todo > 0
    /\ Unwind(Unadmit \o DropGrid)
    /\ UNCHANGED <<call, mem, current, completed, todo, kernel, block, reg, owners,
                   sample>>

Submit(good, launched) ==
    /\ pc \in {"admitted", "stepping"} /\ todo > 0
    /\ good => launched
    /\ pc' = IF good /\ call = "advance_async" THEN "pending" ELSE "waiting"
    /\ ok' = good
    /\ IF launched
       THEN /\ kernel' = "running"
            /\ block' = [c \in Cell |-> "todo"]
       ELSE UNCHANGED <<kernel, block>>
    /\ UNCHANGED <<call, mem, current, completed, todo, reg, owners, drops, sample>>

(* A block loads what its cell needs, then stores it.  Mutant: it stores   *)
(* into the grid the others are still reading.                             *)
BlockStoreInPlace(c) ==
    /\ kernel = "running" /\ block[c] = "loaded"
    /\ block' = [block EXCEPT ![c] = "stored"]
    /\ mem' = [mem EXCEPT ![current][c] = reg[c], ![next][c] = reg[c]]
    /\ UNCHANGED <<pc, call, current, completed, todo, kernel, reg, ok, owners,
                   drops, sample>>

BlockLoad(c) ==
    /\ kernel = "running" /\ block[c] = "todo"
    /\ Cardinality({d \in Cell : block[d] = "loaded"}) < Resident
    /\ block' = [block EXCEPT ![c] = "loaded"]
    /\ reg' = [reg EXCEPT ![c] = NewValue(mem[current], Rhs, c)]
    /\ UNCHANGED <<pc, call, mem, current, completed, todo, kernel, ok, owners,
                   drops, sample>>

BlockStore(c) ==
    /\ kernel = "running" /\ block[c] = "loaded"
    /\ block' = [block EXCEPT ![c] = "stored"]
    /\ mem' = [mem EXCEPT ![next][c] = reg[c]]
    /\ UNCHANGED <<pc, call, current, completed, todo, kernel, reg, ok, owners,
                   drops, sample>>

KernelEnds ==
    /\ kernel = "running"
    /\ \A c \in Cell : block[c] = "stored"
    /\ kernel' = "idle"
    /\ UNCHANGED <<pc, call, device, current, completed, todo, ok, owners, drops,
                   sample>>

(* Mutant: the swap does not wait for the kernel.                          *)
SwapUncompleted ==
    /\ pc \in {"waiting", "pending"} /\ ok
    /\ current' = next
    /\ completed' = (completed + 1) % (MaxUsize + 1)
    /\ todo' = todo - 1
    /\ pc' = "stepping"
    /\ UNCHANGED <<call, device, kernel, ok, owners, drops, sample>>

(* The terminal has proved completion: swap_completed, or give up.         *)
SwapCompleted ==
    /\ pc \in {"waiting", "pending"} /\ kernel = "idle" /\ ok
    /\ current' = next
    /\ completed' = (completed + 1) % (MaxUsize + 1)
    /\ todo' = todo - 1
    /\ pc' = "stepping"
    /\ UNCHANGED <<call, device, kernel, ok, owners, drops, sample>>

(* Mutant: a failed iteration is tried again.                              *)
StepRetried ==
    /\ pc = "waiting" /\ kernel = "idle" /\ ~ok
    /\ pc' = "stepping" /\ ok' = TRUE
    /\ UNCHANGED <<call, device, current, completed, todo, kernel, owners, drops,
                   sample>>

StepFails ==
    /\ pc = "waiting" /\ kernel = "idle" /\ ~ok
    /\ Unwind(Unadmit \o DropGrid)
    /\ UNCHANGED <<call, device, current, completed, todo, kernel, owners, sample>>

BatchEnds ==
    /\ pc \in {"admitted", "stepping"} /\ todo = 0
    /\ pc' = "returning" /\ drops' = Unadmit
    /\ UNCHANGED <<call, device, current, completed, todo, kernel, ok, owners, sample>>

(* Mutant: a pending future is released at once.                           *)
DropFutureUndrained ==
    /\ call = "advance_async" /\ pc \in {"admitted", "pending"}
    /\ Unwind(Unadmit \o DropGrid)
    /\ UNCHANGED <<call, device, current, completed, todo, kernel, owners, sample>>

(* The future is dropped: before its first poll nothing was submitted; a   *)
(* pending one is drained.  Forgotten, it keeps all it owns.               *)
DropFuture ==
    /\ call = "advance_async"
    /\ \/ /\ pc = "admitted" /\ Unwind(Unadmit \o DropGrid)
       \/ /\ pc = "pending" /\ pc' = "draining" /\ UNCHANGED <<ok, drops>>
    /\ UNCHANGED <<call, device, current, completed, todo, kernel, owners, sample>>

Drained ==
    /\ pc = "draining" /\ kernel = "idle"
    /\ Unwind(Unadmit \o DropGrid)
    /\ UNCHANGED <<call, device, current, completed, todo, kernel, owners, sample>>

ForgetFuture ==
    /\ call = "advance_async" /\ pc \in {"admitted", "pending"}
    /\ pc' = "forgotten"
    /\ UNCHANGED <<call, device, current, completed, todo, kernel, ok, owners,
                   drops, sample>>

(* A wait that fails proves nothing: the process ends.                     *)
FailStop ==
    /\ pc \in {"waiting", "pending", "draining", "observing"}
    /\ pc' = "aborted" /\ ok' = FALSE
    /\ UNCHANGED <<call, device, current, completed, todo, kernel, owners, drops,
                   sample>>

-----------------------------------------------------------------------------
(* observe destructures `current` before it asks for admission: an early   *)
(* error drops those bindings in reverse, then the other fields.           *)
Rest == DropOf(next) \o DropOf("forcing")
DropBindings == <<<<"uncharge", current>>, <<"free", current>>>>

Observe ==
    /\ pc = "ready"
    /\ call' = "observe"
    /\ \/ admitted' = TRUE /\ pc' = "binding" /\ UNCHANGED <<ok, drops>>
       \/ Unwind(DropBindings \o Rest) /\ UNCHANGED admitted
    /\ UNCHANGED <<device, current, completed, todo, kernel, stored, charged, sample>>

ObserveBind ==
    /\ pc = "binding"
    /\ \/ pc' = "observing" /\ ok' \in BOOLEAN /\ UNCHANGED drops
       \/ Unwind(Unadmit \o DropBindings \o Rest)
    /\ UNCHANGED <<call, device, current, completed, todo, kernel, owners, sample>>

(* The copy has ended; on an error the retained tensor goes first.         *)
Observed ==
    /\ pc = "observing"
    /\ IF ok
       THEN /\ sample' = [at |-> completed, grid |-> mem[current]]
            /\ pc' = "returning" /\ drops' = Unadmit
            /\ UNCHANGED ok
       ELSE /\ Unwind(<<<<"free", current>>>> \o Unadmit
                      \o <<<<"uncharge", current>>>> \o Rest)
            /\ UNCHANGED sample
    /\ UNCHANGED <<call, device, current, completed, todo, kernel, owners>>

DropReady ==
    /\ pc = "ready"
    /\ call' = "drop" /\ Unwind(DropGrid)
    /\ UNCHANGED <<device, current, completed, todo, kernel, owners, sample>>

(* The next destructor; a call that kept the state then returns it ready.  *)
DropNext ==
    /\ pc \in {"dropping", "returning"} /\ drops # <<>>
    /\ LET what == Head(drops)[1] b == Head(drops)[2] IN
       /\ stored' = IF what = "free" THEN stored \ {b} ELSE stored
       /\ charged' = IF what = "uncharge" THEN charged \ {b} ELSE charged
       /\ admitted' = (admitted /\ what # "unadmit")
    /\ drops' = Tail(drops)
    /\ UNCHANGED <<pc, call, device, current, completed, todo, kernel, ok, sample>>

Return ==
    /\ pc \in {"dropping", "returning"} /\ drops = <<>>
    /\ pc' = IF pc = "returning" THEN "ready" ELSE "gone"
    /\ UNCHANGED <<call, device, current, completed, todo, kernel, ok, owners,
                   drops, sample>>

-----------------------------------------------------------------------------
Host ==
    \/ \E b \in Buffers : Reserve(b) \/ Upload(b)
    \/ BindFails
    \/ \E good, launched \in BOOLEAN : Submit(good, launched)
    \/ SwapCompleted \/ StepFails \/ BatchEnds
    \/ Drained
    \/ ObserveBind \/ Observed
    \/ DropNext \/ Return

Device ==
    /\ pc # "aborted"
    /\ KernelEnds \/ \E c \in Cell : BlockLoad(c) \/ BlockStore(c)

Caller ==
    \/ \E n \in Batch : Advance(n)
    \/ Observe \/ DropReady
    \/ DropFuture \/ ForgetFuture
    \/ FailStop

Next == Host \/ Device \/ Caller

Spec == Init /\ [][Next]_vars

(* The thread that holds the owner runs, and the device runs its blocks.   *)
(* What callers decide, whether a future is polled and whether a wait      *)
(* fails is left open.                                                     *)
Thread == call # "advance_async" \/ pc \in {"draining", "dropping", "returning"}

Fairness == WF_vars(Thread /\ Host) /\ WF_vars(Device)

FairSpec == Spec /\ Fairness

-----------------------------------------------------------------------------
Label ==
    {"reserving", "uploading", "ready", "admitted", "stepping", "waiting",
     "pending", "draining", "binding", "observing", "dropping", "returning",
     "gone", "forgotten", "aborted"}

TypeOK ==
    /\ pc \in Label
    /\ call \in {"double_grid", "advance", "advance_async", "observe", "drop"}
    /\ mem \in [{"first", "second"} -> Grid]
    /\ current \in {"first", "second"}
    /\ completed \in 0..MaxUsize
    /\ todo \in 0..MaxUsize
    /\ kernel \in {"idle", "running"}
    /\ block \in [Cell -> {"todo", "loaded", "stored"}]
    /\ reg \in Grid
    /\ ok \in BOOLEAN
    /\ stored \in SUBSET Buffers
    /\ charged \in SUBSET Buffers
    /\ admitted \in BOOLEAN
    /\ drops \in Seq({"free", "uncharge", "unadmit"} \X (Buffers \cup {"operation"}))
    /\ sample \in [at : {-1} \cup 0..MaxUsize, grid : Grid]

(* The double grid behaves as one grid that only moves by whole synchronous*)
(* steps, although blocks load and store in any order, batches fail half   *)
(* way and futures are dropped: what observe returns is the state after    *)
(* exactly `completed` steps.                                              *)
Abstract == INSTANCE Timesteps WITH grid <- mem[current]

TimestepsSpec == Abstract!Spec

(* No buffer is freed while the kernel may still touch it.                 *)
NoUseAfterFree == kernel = "running" => stored = Buffers

(* An owner that is handed back has no kernel in flight, its three         *)
(* allocations and charges, and no admission.                              *)
ReadyIsWhole ==
    pc = "ready" => /\ kernel = "idle"
                    /\ stored = Buffers /\ charged = Buffers /\ ~admitted

(* Whatever failed, and wherever, a state that is consumed releases every  *)
(* allocation, every charge and its admission.                             *)
GoneReleasesAll ==
    pc = "gone" => stored = {} /\ charged = {} /\ ~admitted

(* The initial halo is preserved at every timestep, corners included.      *)
HaloPreserved ==
    pc \notin {"reserving", "uploading"} =>
        \A c \in Halo : mem[current][c] = Initial[c]

(* A blocking call, and the drop of a future, come to an end.              *)
Blocking ==
    \/ call # "advance_async" /\ pc \notin {"ready", "gone", "aborted"}
    \/ pc \in {"draining", "dropping"}

CallsEnd == Blocking ~> pc \in {"ready", "gone", "aborted"}
=============================================================================
