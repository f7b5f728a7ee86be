# gudra in TLA+

Models of gudra, a Rust library for 2-D stencil steps on one CUDA device: what
its safe API promises about resources, buffers, results and futures while
several threads call it, kernels run out of order on the device, futures are
dropped or forgotten, calls fail half way and the device faults. Every
definition is translated from the source; `PROJECT.json` names the lines.

## The system

Paths are relative to `src/`; `vendor/` is the vendored cuda-async and cutile.

| part | source | state | operations |
|---|---|---|---|
| admission budget | `src/limits.rs` | `Usage` behind a mutex: bytes, buffers, operations | `Budget::buffer`, `Budget::operation`, drop or forget of a `Reservation`; `check_shape` |
| shapes, coefficients | `src/shape.rs`, `src/params.rs` | none | `Shape2D::new`, `JacobiParams::new`, `LaplacianParams::new` |
| GPU session | `src/gpu/cutile_impl.rs`, `src/completion.rs` | one stream, the budget, each `Buffer`'s storage, charge and `uncertain` mark | uploads, `zeros`, `step`, `step_into`, `laplacian_into`, `step_into_async`, `into_host`, drops |
| double-grid runtime | `src/gpu/timesteps.rs` | two grids, which is current, the step count | `double_grid`, `advance`, `advance_async`, `observe`, drop |
| kernels and oracle | `src/gpu/kernels.rs`, `src/reference.rs` | tiles and views | `timestep`, `jacobi`, `laplacian`, their CPU counterparts |
| asynchronous completion | `vendor/cuda-async/src/device_future.rs`, `slot_table.rs`, `reactor.rs` | futures, slots, flags, bitmap, counter, the scanner | poll, drop, register, scan, signal, wake |
| fail-stop policy | `vendor/cuda-async/src/fault_policy.rs`, `device_buffer.rs` | a thread's depth and quarantine | quarantine, hand-over, abort |
| execution lock, execute-once | `vendor/cuda-async/src/device_operation.rs` | a thread flag; `OnceState` behind a mutex and a condition variable | `sync_on`, `then_unchecked`, `shared`, `unzip` |
| graph capture, launches | `vendor/cuda-async/src/cuda_graph.rs`, `launch.rs` | a stream's capture mode | `capture`, `scope`, `update`; `launch`, `alloc_async` |

A facade call validates its arguments, takes a reservation from the budget,
submits a kernel to the session's stream and waits: blocking calls with
`sync_on`, futures through the completion part. The double grid owns three
buffers and repeats one kernel, swapping two of them after each. Dropping an
owner frees its storage and then gives its charge back; forgetting it keeps both.
A shared or unzipped operation is run by the first of its executors; the others
wait for its outcome and order their streams after its event. gudra itself shares
no operations, and its steps keep the kernel's arguments until the terminal
("Keep the recovered argument tuple", `cutile_impl.rs:213`).

What is hard here: callers interleave at the limits; destructors run in an order
that the declaration order of fields and bindings decides; a future may be dropped
between any two of its steps while its kernel still runs; the blocks of a kernel
have no order; the registrant, the scanner, the device and the polls of a
future share flags and a waker without a lock; and executions nest, each level
changing thread-locals that an outer level relies on, and being left by a return,
an error or a panic. The hazards in `PROJECT.json` are
those points, at their lines.

## Modules

| module | models | state and actions |
|---|---|---|
| `Limits` | arithmetic of `limits.rs` in the width of `usize` | operators; `AdmitsBuffer`, `ChargeBuffer`, `ReleaseBuffer`, ... |
| `Admission` | the budget as its callers see it | `usage`, and `guard` for every `Reservation`; `Buffer`, `Operation`, `Drop`, `Forget` are one critical section each |
| `Session` | the facade, all callers | `buf` (owner, mark, storage, charge, content), `call` (one frame per caller, its destructors still to run), `stream`; a call is cut at admission, bind, execute, completion and at every destructor |
| `Stencil` | the haloed grid and the synchronous update | `NewValue`, `Timestep`; arithmetic is the open operator `Relax` |
| `Timesteps` | what a double grid promises | `Step`, `Observe` |
| `DoubleGrid` | construction, batches, futures, observation, block by block | `pc`, the two grids, the kernel's blocks, storage, charges, destructors |
| `Shape2D` | `Shape2D::new` in machine arithmetic | operators, `Validate` |
| `Params` | the coefficients, in a small binary floating-point format | operators, `Construct` |
| `JacobiKernel` | a launch of the tile kernels on an accepted shape and spacing, over the five views of a source | the state of `Shape2D` and `Params`, then blocks of tiles, in any order |
| `Completion` | how a waiting future is told | `fut`, the slot table, `stream`, `scan`; cut at each access to shared memory |
| `ExecuteOnce` | one memoized operation and the storage behind its value | `once` (`OnceState`), `pc` of each executor, who owns which part, the quarantines, the streams; one action per section under the lock, and per step outside it |
| `NestedExecution` | executions inside executions, on several threads | `scopes` (each thread's stack of guards), the three thread-locals `lock`, `depth`, `quarantine`, futures, memoized operations, streams; one action per entry and per exit of a scope |
| `AdmissionProofs`, `SessionProofs`, `DoubleGridProofs`, `DoubleGridResourceProofs`, `JacobiKernelProofs`, `CompletionProofs`, `ExecuteOnceProofs`, `NestedExecutionProofs` | proofs | |

`MC...` modules give constants their values, and bound a run where the text below says so. `Session` and `Admission` share
`Limits`; `Session` implements `Admission` (`BudgetSpec`); `DoubleGrid` implements
`Timesteps` (`TimestepsSpec`); both stand on `Stencil`. In `Session` a future is
either pending or drained; `Completion` refines that one wait. In `DoubleGrid`
admission is a choice of the environment, because any other owner may hold the
rest of the budget.

Abstractions. Field contents in `Session` are whole or torn. Floating point is
`Relax`, any function. A blocking wait counts the items in front of it and ends
when the last is gone. A device fault is for good and comes at any time; what
cannot prove completion then ends the process (`aborted`, `FailStop`). In
`Completion` every scan also probes, where the code probes after a number of idle
passes; a poll reads the flag and probes the stream in one
step (a flag that lands between the two is the case where it lands just after);
all futures share a stream, as in one session; after a fault every wait ends at
once, with an error. Slots keep their order: the free list is a stack, a pass of the
scanner goes up the slots and signals the finished ones before the dead ones. In `ExecuteOnce` an executor is a
thread in `sync_on` or a future: both quarantine what `execute` drops and release
it when their stream has been proven idle (how a future learns of it is
`Completion`'s matter), so one terminal stands for both. Setting the outcome and
recording the event before it are one step, the notification, outside the lock,
another. A shared or unzipped operation's later chain is one optional kernel on
the value and one optional drop of it. Buffers of an operation that fails are not
followed (their quarantine is in `Session`); several memoized operations, without
values and events, are in `NestedExecution`.

In `NestedExecution` an operation is what it does to its thread's guards: it
allocates, launches on buffers, opens a closure, executes handles, drops what it owns.
`Unwind` is every guard's destructor in a panic: that of a closure
(`device_operation.rs:86`), of a memoized operation (686), of a capture
(`cuda_graph.rs:138`), and of an uncertain execution, which ends the process
(`fault_policy.rs:71`). A future whose execution fails is dropped at once.
`CudaGraph::update` is `sync_on` on the graph's stream: `SyncOn`, `Synchronize`,
`Proven`. An owned and a foreign allocation are one kind of buffer.
A thread may launch on whatever it holds, also on another stream while work of the
first is in flight; that is weaker than what a `then_unchecked` closure promises, so
what is shown does not rest on that promise. The model has no more than `Backlog`
items in front of a launch. A copy to the host is a `Launch`; if it fails, its
`ExternalTransferGuard` ends the process (`TransferFails`), inside a capture as well,
where `cuda_graph.rs:197` speaks of an error that propagates. The depth that the guard
raises during a copy that succeeds is not followed: nothing is dropped while it
stands, and where its end would empty the quarantine, in a capture outside any
terminal, that is empty (`LocalsMatchScopes`). In
`Params` magnitudes are exact integers, and the reciprocal is rounded to nearest
over all numbers of the format, whose exponents are skewed as those of `f32` are,
so that the reciprocals of some subnormals overflow.

## Runs

| run | bounds | shows |
|---|---|---|
| `admission` | four guards, `usize` of 0..7, limits 4/6 bytes, two buffers, two operations | charges are released once and never exceed a limit |
| `session` | three callers, one source and three fields, one shape, two operation slots (the third call is refused one), six bytes | no storage freed under work, no unfinished field read or published, no conflict on the stream, in-flight work bounded, an invalid field stays unusable, steps of `Admission` |
| `session_arguments` | one caller with a source and two fields, of two shapes and of this or another session, and a second that uploads and drops a field over and over; two operation slots; fairness | no foreign source or field reaches the stream; every call returns, though the stream need never be idle |
| `session_charge` | one operation slot | finding: the charge goes before the storage in a failed `into_host` |
| `double_grid` | two interior cells that read each other (twelve blocks, one resident), batches of 0 and 2, `usize` of 0..2, fairness | refinement of `Timesteps`, halo kept; an owner handed back is whole, one consumed releases all, nothing freed under the kernel, calls end |
| `jacobi_kernel` | every pair of 79 extents around the limits of a ten-bit `usize`; every spacing of a format of three digits, on the smallest shape; launches on sixteen interiors below, at and beyond tiles of 2 by 2 | accepted shapes are representable, rejections in the documented order; coefficients positive and finite; the CPU oracle's result, views in bounds |
| `completion` | two futures; one slot (the other takes the host function; one of them may change task), or two (first polled in turn, no move, a fault only while both wait); fairness | results are released after the work, slots and counter conserved, no late flag write, no lost unpark, waiting futures resolve |
| `completion_fault` | one future, one slot | finding: a moved future can miss a fault |
| `execute_once` | three executors, two of them on one of two streams; shared, shared with a value, and unzipped; fairness | one run and one outcome for all, no work on the value before its producer's, no release under work that the quarantine could see, executions end |
| `execute_once_quarantine` | the same | finding: references the quarantine does not see |
| `nested_execution` | two threads, of which one nests three levels and panics and the other executes memoized operations; two of these, two streams, one future, one buffer, a backlog of two; fairness | thread-locals match the scopes, no release under work, terminals return or stop the process |
| `nested_await` | the same | finding: a documented nested await ends the process |

Why the bounds are enough: two callers and two futures are the fewest that
interfere, and no code looks at more than its own call and the shared counters; a
third caller is the one that finds the two operation slots taken, at a step, an
upload between its reservation and its submission, or a copy to the host;
limits are small enough that every one of them is reached, and numbers wrap within
reach; two steps show a swap and its return; three or more tiles on an axis give
first, inner and partial blocks; three executors let one run, one wait
and one come late, or two wait; in `NestedExecution` each level saves and restores
at most what the level below it set, so an outer terminal, a closure and an inner
terminal are the deepest nesting that matters. `Budget` bounds how often a thread
begins something, `Nests` which threads do more than block, `Backlog` how much work a
launch finds on its stream, `Mobile` which futures
change task, `PoolSizes` the number of slots. In `MCSession` each buffer has one use (a
source, a field, or a field of a caller that only uploads and drops) and `Leaks` says
which may be forgotten; `MCNext` is `Next` without the other calls. `MCHealthy` also
leaves out what may follow a fault before the process ends, as each such step is possible
without the fault and does the same; the run with fairness keeps it. In
`MCNestedExecution` the thread that only blocks does so on the future's stream.
`CHECK_DEADLOCK FALSE` stands in the runs because a process may end (`aborted`), a
budget may be held by forgotten owners, and callers may stop calling. Symmetry is used
only in runs without liveness.

Fairness. A thread inside a blocking call, a destructor or a poll runs on, the
driver works its stream off while the device is healthy, the scanner thread is
scheduled, and an executor polls a task that was woken (`Future`'s contract).
Whether a future is polled, moved, dropped or forgotten is never forced; nor is a
fault.

Each property has a mutant: an operator beside the definition it stands for that
changes it the way a slip in the code would (named in the comment over it). The
mutants are listed in `PROJECT.json`.

## Where code and text disagree

* `into_host` destructures its `Buffer` before it binds the device; when the bind
  fails, `reservation` is dropped before `tensor`, against the comment on the
  field (`cutile_impl.rs:38`). Another caller can be admitted for bytes that are
  still allocated. `DoubleGrid::observe` (`timesteps.rs:171`) does the same. `ChargeOutlivesStorageElsewhere`
  says it happens nowhere else in the session.
* After a fault the reactor wakes a future once, without a flag. A future that was
  moved and is being polled by its new task between the probe of the stream
  (`device_future.rs:521`) and the second look at the flag (552) is not told
  again. `PendingResolves` holds with that case, and a host function behind a
  fault, excepted.
* The quarantine is a thread's. `DeviceBuffer::drop` (`device_buffer.rs:198`) asks
  whether *its* thread has an execution in progress; a half of an unzip that
  another thread drops unexecuted, or the last `Arc` of a value whose kernel is in
  flight on another stream and whose executor has dropped its own `Arc` already,
  is freed on the deallocator stream at once, which nothing orders after the
  kernel. `fault_policy.rs:16` and `device_buffer.rs:17` promise a release after
  the terminal. A future hands its quarantine over and leaves its thread's depth at
  zero, so one thread is enough. `GuardedReleasedAfterWork` says that this (and a
  join that fails) is the only way: what the quarantine sees, and what its owners
  hold until their terminal, is released after the work.
* `device_operation.rs:275` and `vendor/cuda-async/tests/execution_lock.rs:61` let a
  `then_unchecked` closure await an operation. The first poll of that future runs
  at depth two, where `fault_policy.rs:57` takes its hand-over for an error and
  stops the process (`NestedAwaitReturns`). A nested `sync` or `sync_on` is
  right, as `LocalsMatchScopes` and `ReleasedAfterWork` show.
* Read, not a run: the panic tests of that file (104 to 150) expect a panic to
  leave `sync_on` with the lock released; `fault_policy.rs:71` aborts first.
* Two memoized operations that execute each other on two threads wait for ever:
  re-entry is recognised only on the thread that runs the operation
  (`device_operation.rs:660`). No text promises otherwise; `TerminalsEnd` excepts it.

## Proofs

`AdmissionProofs`, from the assumptions on the limits alone. `Inv` joins the
type, the finiteness of the guard sets, `Accounting`, and the limits *on the
counters*. `WithinLimits` is not inductive: a new request is compared with the
counters, not with the guards, so the counters must be known to equal what the
guards account for; that in turn needs the subtraction of a drop not to wrap,
which follows from the dropped guard's being one of those counted. Charged bytes
are a set of pairs, so that each change is a union or difference with one guard's
bytes and the library's cardinality facts apply. Theorems: `AdmissionType`,
`AdmissionAccounting`, `AdmissionWithinLimits`, and `CheckShapeIsAdmission`: the
static check of a shape is exactly admission of a step to an idle session.

`DoubleGridProofs`, for every shape, `Relax`, width of `usize`, set of batches and
number of resident blocks. `IInv` has a part for each reason the double buffer
works: `CountInv` (the rest of a batch still fits, so the count does not wrap),
`UploadInv` (both halves start as the initial grid), `KernelInv` (a kernel runs
only under an owner that waits or has been given up, and has run all its blocks
when it ends well), `BlockInv` (what a block loaded or stored is the new value over
the current half, which no block writes), `HaloInv`. Most steps leave all of this
alone (`Aside`); a swap is then a synchronous `Timestep` (`SwapIsStep`), an
observation is an observation, and every other step stutters (`StepRefines`).
Theorems: `DoubleGridImplements` and `DoubleGridHalo`.

`DoubleGridResourceProofs` adds who owns what, with the same generality. `GoneReleasesAll`
speaks of the end only; the invariant that carries it, `DropsInv`, is that while
destructors are left to run, whatever still exists has one among them (`Runs`). Each
error path builds another list, in another order, so one fact per list says that it
releases what the owner has at that point; `BuildInv` and `OwnerInv` say what that is, during
construction and after. Nothing is freed under the kernel because a list is started
only where `KernelInv` shows the kernel idle. Theorems: `DoubleGridType`,
`DoubleGridNoUseAfterFree`, `DoubleGridReadyIsWhole`, `DoubleGridReleasesAll`.

`ExecuteOnceProofs`, for any executors and streams. The invariant says who may
change `OnceState`: while it is `Running` exactly its thread is inside the
operation (`OneInside`), so nobody else settles it, and whoever has a result saw a
settled state (`ResultIsOutcome`); a settled state has no thread inside. The steps
fall into four kinds (`Moves`, `Answers`, `Settles`, `StaysInside`), one lemma each.
Theorems: `OutcomeShared` and `OutcomeSettled`. For the storage behind the value two
parts are added. `Wares` says who has a part: the memo, owners that were given the
value, or the quarantine of one who returned it; `FreedInv` that a freed part has
none. `Work` says what the streams still have to do, by position in the queue: every
kernel on the value is behind the producer's writes, or behind a wait for the event
that is recorded behind them (`Ordered`); its executor holds the part, or has it in
its quarantine, or the part is one of those the quarantine could not see
(`Covered`), and a terminal on its way is behind the kernel (`UseOK`). A release
therefore comes after its own kernels because its terminal was behind them, and after
the writes because that terminal was. Theorems: `ExecuteOnceTypes`, `WorkIsFinished`
(`UsesFinishedWork`), `StorageOutlivesWork` (`GuardedReleasedAfterWork`).

`JacobiKernelProofs`, for every shape, tile, width of the machine integers, source
and cell function. `NewCases` reduces the checks of `Shape2D::new` to the haloed
extent, which bounds all other metadata (`HaloBounds`), and one axis of the grid to
the extent (`GridBounds`); `ShapesAreValidated` follows by cases. A flat index
determines its row and column (`FlatIndexUnique`), a coordinate its tile
(`TileOfUnique`), every cell has a block (`CellHasBlock`), and the five views read the
five cells of the oracle (`TileValueIsReference`). The invariant keeps what loaded
blocks hold and stored blocks wrote; a store disturbs no other block's cells because
tiles are disjoint, which is an assumption here: `TileCells` is what the crate's kernels
rely on the vendored partition for. Theorems: `ShapesAreValidated`,
`KernelIsReference`, `ViewsStayInBounds`.

The coefficients take arithmetic of powers of two, which the provers do not have: 2^n
is the number of subsets of 1..n, so `PowerSum` is a bijection and the library's
cardinality facts give the rest; the nearest number of the format exists because
distances are natural numbers and their order is well-founded (`LeastNumber`). No
number is so large that its reciprocal vanishes, and the reciprocal of a normal number
does not overflow (`FormatRange`). That holds for formats whose largest and smallest
exponent are opposite as IEEE 754 has them, which is what `ParamsAssumption` says
(`f32` is 24, 149, 253). Theorem: `CoefficientsAreUsable`.

`NestedExecutionProofs`, for any threads, futures, streams, memoized operations,
budgets and depths of nesting. `LocalsMatchScopes` is nearly inductive: scopes change
at their inner end only, so one lemma each says what a push and a pop do to the
number of guarded scopes (`PushMatches`, `PopMatches`), and three classes of steps
(`PushStep`, `PopStep`, `StayStep`) cover all actions. What has to be added is that
a thread proves completion only in a guarded terminal, and that a closure
remembers a held lock, because it is opened from a chain (`ChainIsLocked`).
Theorem: `NestingMatchesLocals`.

`ReleasedAfterWork` needs who will see work end. `NInv` adds: every scope has a terminal
around it (`ChainInv`); a future is polled and a stream captured in one scope
(`ScopeInv`); a buffer has one holder, its owner, one thread's quarantine or one
future's (`HolderInv`); a failed poll leaves no value in its future (`ProvingInv`); and
each item of a queue is *carried* (`FlightInv`): a guarded scope on that stream, of a
thread that has the buffer (`Keeps`: in its quarantine, as its own in a blocking
terminal, or in a future that it polls), is still to wait, or has its own item behind
the work, or a pending future on that stream has. A buffer may have work on several
streams; each item has its own carrier.
What is not obvious is that inner scopes may end without releasing anything: the
outermost guarded scope empties the quarantine, and by then each inner scope has
waited for its own stream. Theorems: `NestedInvariant`, `NestedTypes`,
`NestedReleasesAfterWork`.

`SessionProofs`, for any callers, buffers, shapes, limits and width of `usize`. No safety
property of the session is inductive, since what makes work safe is that
the frames of the calls own or borrow what it touches. `Ownership` says that: a
frame keeps what it owns and what its destructors have still to destroy, borrows the
rest from its caller (`CallsInv`), two frames keep nothing in common and what one
borrows mutably no other touches (`Apart`), an item of the stream is the work of a
frame that still waits for it (`StreamInv`), and a buffer that work touches is stored
(`BufInv`, which also says that storage without a charge is that of the failed
`into_host`); `OutputInv` follows the content of an output. Every call ends in one of a
few lists of destructors; `Releases` is what they have in common, and one lemma
(`Unwinds`) carries the invariant through all of them. `UsageInv` ties the counter of
operations to the frames, so that each item of the stream has a charged operation.
The refinement goes through `Ledger`, the charges read off
buffers and frames: each step changes one guard or none (`LedgerStep`), which is then a
step of `Admission`. Theorems: `SessionTypes`, `SessionNoUseAfterFree`,
`SessionNoConflict`, `SessionReadyIsWhole`, `SessionArguments`, `SessionCharges`,
`SessionStream`, `SessionInvalidated` (an action property), `SessionImplementsBudget`.

`CompletionProofs`, for any futures and any size of the pool. `Conservation` is where
slots are: free, with one registrant, in the bitmap with their payload, or retired, and
what `n_armed` counts of them; the sleeping scanner belongs to it. It says nothing
about time. `Order` and `Truth` do: whatever tells a future that its work is done (its
own flag, the flag of the slot it holds, a message of the scanner) is true (`Truth`),
because each flag write and host function in the stream is behind the work of the
future it will tell, each slot has at most one write to come and is held until then
(`Items`), and who drains waits for its own work at least (`Drainage`). A slot's
last use cannot tell its next holder because a slot with a write to come is in use,
never free. After a fault no flag lands, so the slot part of `Items` and
`NoLateFlagWrite` speak of a healthy device. Theorems: `CompletionTypes`,
`CompletionReleases`, `CompletionSlots`, `CompletionFlags`, `CompletionSleeps`.

Every invariant that a passing run checks is thereby a theorem, and so are the
action properties and both refinements. Only model-checked: liveness (`CallsReturn`,
`CallsEnd`, `PendingResolves`, `ExecutionsEnd`, `TerminalsEnd`), as fairness and ENABLED are
out of the prover's reach; and the findings, which are counterexamples.

## Not modelled

Instantiation, replay and output of a captured graph (the crate never records one);
device tables and stream pools; the arguments of a launch; the partition of tensors into
tiles, the tile compiler and DSL; floating-point
values of fields; error types (no state); the verification feature, a hardware
test of two properties of the models; scripts and documentation. `async_on` leaves
synchronization to its unsafe caller.

## Plan

1. `Completion` with several streams (one probe per stream and pass).
2. Proofs about that model, whose slots then belong to streams; facts by induction on
   well-founded orders, as `LeastNumber` is, for what recursive functions compute.
