-------------------------- MODULE DoubleGridProofs --------------------------
(***************************************************************************)
(* The double grid implements the synchronous timestep (Timesteps) and     *)
(* keeps its halo, for every shape, arithmetic, width of usize, set of     *)
(* batches and number of resident blocks.                                  *)
(***************************************************************************)
EXTENDS DoubleGrid, TLAPS

Both == {"first", "second"}
Waiting == pc \in {"waiting", "pending"}

(* The types the argument needs.                                           *)
Types ==
    /\ mem \in [Both -> Grid]
    /\ current \in Both
    /\ completed \in 0..MaxUsize /\ todo \in 0..MaxUsize
    /\ kernel \in {"idle", "running"}
    /\ block \in [Cell -> {"todo", "loaded", "stored"}]
    /\ reg \in Grid

(* The count never wraps: what is left of a batch still fits, and a call   *)
(* that waits for a step has one left.                                     *)
CountInv ==
    /\ completed + todo <= MaxUsize
    /\ Waiting => todo > 0

(* Before the grid is handed out both halves hold the initial grid.        *)
UploadInv ==
    pc \in {"reserving", "uploading"} => \A g \in Both : mem[g] = Initial

(* A kernel runs only under an owner that waits for it or has been given   *)
(* up; one that has ended well has run all its blocks.                     *)
KernelInv ==
    /\ kernel = "running" =>
           pc \in {"waiting", "pending", "draining", "forgotten", "aborted"}
    /\ Waiting /\ ok /\ kernel = "idle" => \A c \in Cell : block[c] = "stored"

(* While blocks run, and until the swap, what a block has loaded or stored *)
(* is the new value of its cell over the current grid, which no block      *)
(* writes.                                                                 *)
BlockInv ==
    kernel = "running" \/ (Waiting /\ ok) =>
        \A c \in Cell :
            /\ block[c] = "loaded" => reg[c] = NewValue(mem[current], Rhs, c)
            /\ block[c] = "stored" => mem[next][c] = NewValue(mem[current], Rhs, c)

HaloInv == \A c \in Halo : mem[current][c] = Initial[c]

IInv == Types /\ CountInv /\ UploadInv /\ KernelInv /\ BlockInv /\ HaloInv

-----------------------------------------------------------------------------
LEMMA OtherHalf ==
    ASSUME current \in Both
    PROVE  next \in Both /\ next # current
BY DEF next, Other, Both

(* The stencil stays inside the grid and the forcing term.                 *)
LEMMA NewValueType ==
    ASSUME NEW grid \in Grid, NEW rhs \in Forcing, NEW c \in Cell
    PROVE  NewValue(grid, rhs, c) \in Value
<1>1. CASE ~Inside(c)
    BY <1>1 DEF NewValue, Grid
<1>2. CASE Inside(c)
    <2>1. /\ c[1] \in 1..Height /\ c[2] \in 1..Width
        BY <1>2, StencilAssumption DEF Inside, Cell
    <2>2. /\ <<c[1] - 1, c[2]>> \in Cell /\ <<c[1] + 1, c[2]>> \in Cell
          /\ <<c[1], c[2] + 1>> \in Cell /\ <<c[1], c[2] - 1>> \in Cell
          /\ <<c[1] - 1, c[2] - 1>> \in (0 .. Height - 1) \X (0 .. Width - 1)
        BY <2>1, StencilAssumption DEF Cell
    <2>3. /\ grid[c] \in Value
          /\ grid[<<c[1] - 1, c[2]>>] \in Value /\ grid[<<c[1] + 1, c[2]>>] \in Value
          /\ grid[<<c[1], c[2] + 1>>] \in Value /\ grid[<<c[1], c[2] - 1>>] \in Value
          /\ rhs[<<c[1] - 1, c[2] - 1>>] \in Value
        BY <2>2 DEF Grid, Forcing
    <2> QED
        BY <1>2, <2>3, StencilAssumption DEF NewValue
<1> QED
    BY <1>1, <1>2

LEMMA HaloCopied ==
    ASSUME NEW grid, NEW c \in Halo
    PROVE  NewValue(grid, Rhs, c) = grid[c] /\ c \in Cell
BY DEF Halo, Interior, NewValue

LEMMA InitIInv == Init => IInv
<1> SUFFICES ASSUME Init PROVE IInv
    OBVIOUS
<1>1. Initial \in Grid /\ MaxUsize \in Nat
    BY DoubleGridAssumption
<1>2. [c \in Cell |-> Initial[c]] \in Grid
    BY <1>1 DEF Grid
<1>3. Types
    BY <1>1, <1>2 DEF Init, Types, Both
<1>4. CountInv /\ UploadInv /\ KernelInv /\ BlockInv /\ HaloInv
    BY <1>1 DEF Init, CountInv, UploadInv, KernelInv, BlockInv, HaloInv, Both,
        Waiting, Halo, Interior
<1> QED
    BY <1>3, <1>4 DEF IInv

(* The steps that leave grids, counts and the kernel alone.                *)
Aside ==
    /\ UNCHANGED <<mem, current, completed, kernel, block, reg>>
    /\ todo' = todo
    /\ pc' \notin {"reserving", "uploading", "waiting", "pending"}
    /\ kernel = "running" => pc' \in {"draining", "forgotten", "aborted"}

LEMMA AsideInv == IInv /\ Aside => IInv'
<1> SUFFICES ASSUME IInv, Aside PROVE IInv'
    OBVIOUS
<1>1. Types' /\ CountInv' /\ UploadInv' /\ KernelInv' /\ HaloInv'
    BY DEF IInv, Aside, Types, CountInv, UploadInv, KernelInv, HaloInv, Waiting
<1>2. BlockInv'
    BY DEF IInv, Aside, Types, BlockInv, KernelInv, Waiting, next
<1> QED
    BY <1>1, <1>2 DEF IInv

LEMMA HostAside ==
    ASSUME IInv,
           \/ BindFails \/ StepFails \/ BatchEnds \/ Drained
           \/ ObserveBind \/ Observed \/ DropNext \/ Return
           \/ Observe \/ DropReady \/ DropFuture \/ ForgetFuture \/ FailStop
    PROVE  Aside
BY DEF IInv, KernelInv, Aside, device, Unwind, BindFails, StepFails, BatchEnds,
    Drained, ObserveBind, Observed, DropNext, Return, Observe, DropReady,
    DropFuture, ForgetFuture, FailStop

(* Construction.                                                           *)
LEMMA ConstructionInv ==
    ASSUME IInv, NEW b \in Buffers, Reserve(b) \/ Upload(b)
    PROVE  IInv' /\ mem' = mem
<1>1. CASE Reserve(b)
    <2>1. IInv'
        BY <1>1 DEF IInv, Reserve, Unwind, Types, CountInv, UploadInv, KernelInv,
            BlockInv, HaloInv, Waiting, next
    <2> QED
        BY <1>1, <2>1 DEF Reserve
<1>2. CASE Upload(b)
    <2>1. mem' = mem
        <3>1. pc = "uploading" /\ mem \in [Both -> Grid]
              /\ \A g \in Both : mem[g] = Initial
            BY <1>2 DEF Upload, IInv, Types, UploadInv
        <3>2. b = "forcing" \/ b \in Both
            BY DEF Buffers, Both
        <3>3. mem' = mem \/ (b # "forcing" /\ mem' = [mem EXCEPT ![b] = Initial])
            BY <1>2 DEF Upload
        <3> QED
            BY <3>1, <3>2, <3>3
    <2>2. IInv'
        BY <1>2, <2>1 DEF IInv, Upload, Unwind, Types, CountInv, UploadInv,
            KernelInv, BlockInv, HaloInv, Waiting, next
    <2> QED
        BY <2>1, <2>2
<1> QED
    BY <1>1, <1>2

LEMMA AdvanceInv ==
    ASSUME IInv, NEW n \in Batch, Advance(n)
    PROVE  IInv'
<1>1. n \in 0..MaxUsize /\ MaxUsize \in Nat
    BY DoubleGridAssumption
<1>2. /\ pc = "ready" /\ pc' \in {"admitted", "dropping"}
      /\ UNCHANGED <<mem, current, completed, kernel, block, reg>>
      /\ todo' = todo \/ (todo' = n /\ completed + n <= MaxUsize)
    BY DEF Advance, Unwind, CountFits
<1>3. Types' /\ CountInv'
    BY <1>1, <1>2 DEF IInv, Types, CountInv, Waiting
<1>4. UploadInv' /\ KernelInv' /\ BlockInv' /\ HaloInv'
    BY <1>2 DEF IInv, UploadInv, KernelInv, BlockInv, HaloInv, Waiting, next
<1> QED
    BY <1>3, <1>4 DEF IInv

LEMMA SubmitInv ==
    ASSUME IInv, NEW good \in BOOLEAN, NEW launched \in BOOLEAN,
           Submit(good, launched)
    PROVE  IInv'
<1>1. /\ pc \in {"admitted", "stepping"} /\ todo > 0
      /\ kernel = "idle"
      /\ pc' \in {"waiting", "pending"} /\ (pc' = "pending" => good)
      /\ ok' = good /\ (good => launched)
      /\ UNCHANGED <<mem, current, completed, todo, reg>>
      /\ \/ launched /\ kernel' = "running" /\ block' = [c \in Cell |-> "todo"]
         \/ ~launched /\ UNCHANGED <<kernel, block>>
    BY DEF Submit, IInv, KernelInv, Types
<1>2. Types' /\ CountInv' /\ UploadInv' /\ HaloInv'
    BY <1>1 DEF IInv, Types, CountInv, UploadInv, HaloInv, Waiting
<1>3. KernelInv' /\ BlockInv'
    BY <1>1 DEF KernelInv, BlockInv, Waiting
<1> QED
    BY <1>2, <1>3 DEF IInv

(* A block only changes the half that is not read.                         *)
LEMMA BlockInvariant ==
    ASSUME IInv, NEW c \in Cell, BlockLoad(c) \/ BlockStore(c)
    PROVE  IInv' /\ mem'[current] = mem[current]
<1>1. /\ mem \in [Both -> Grid] /\ mem[current] \in Grid /\ Rhs \in Forcing
      /\ kernel = "running"
      /\ UNCHANGED <<pc, current, completed, todo, kernel, ok>> /\ next' = next
      /\ next \in Both /\ next # current /\ current \in Both
      /\ reg \in Grid /\ block \in [Cell -> {"todo", "loaded", "stored"}]
    BY OtherHalf, DoubleGridAssumption
    DEF IInv, Types, BlockLoad, BlockStore, owners, next
<1>2. NewValue(mem[current], Rhs, c) \in Value
    BY <1>1, NewValueType
<1>3. CASE BlockLoad(c)
    <2>1. /\ mem' = mem /\ block' = [block EXCEPT ![c] = "loaded"]
          /\ reg' = [reg EXCEPT ![c] = NewValue(mem[current], Rhs, c)]
        BY <1>3 DEF BlockLoad
    <2>2. reg' \in Grid
        BY <1>1, <1>2, <2>1 DEF Grid
    <2>3. Types'
        BY <1>1, <2>1, <2>2 DEF IInv, Types
    <2>4. BlockInv'
        BY <1>1, <2>1 DEF IInv, BlockInv, Grid
    <2>5. CountInv' /\ UploadInv' /\ KernelInv' /\ HaloInv'
        BY <1>1, <2>1 DEF IInv, CountInv, UploadInv, KernelInv, HaloInv, Waiting
    <2> QED
        BY <2>1, <2>3, <2>4, <2>5 DEF IInv
<1>4. CASE BlockStore(c)
    <2>1. /\ block[c] = "loaded" /\ block' = [block EXCEPT ![c] = "stored"]
          /\ mem' = [mem EXCEPT ![next][c] = reg[c]] /\ reg' = reg
        BY <1>4 DEF BlockStore
    <2>2. mem'[current] = mem[current]
        BY <1>1, <2>1
    <2>3. /\ mem' \in [Both -> Grid] /\ mem'[next] = [mem[next] EXCEPT ![c] = reg[c]]
        BY <1>1, <2>1 DEF Grid
    <2>4. Types'
        BY <1>1, <2>1, <2>3 DEF IInv, Types
    <2>5. BlockInv'
        <3> SUFFICES ASSUME NEW d \in Cell
                     PROVE  /\ block'[d] = "loaded" =>
                                    reg'[d] = NewValue(mem'[current], Rhs, d)
                            /\ block'[d] = "stored" =>
                                    mem'[next][d] = NewValue(mem'[current], Rhs, d)
            BY <1>1 DEF BlockInv
        <3>1. /\ block[d] = "loaded" => reg[d] = NewValue(mem[current], Rhs, d)
              /\ block[d] = "stored" => mem[next][d] = NewValue(mem[current], Rhs, d)
            BY <1>1 DEF IInv, BlockInv
        <3>2. mem[next] \in Grid
            BY <1>1
        <3> QED
            BY <1>1, <2>1, <2>2, <2>3, <3>1, <3>2 DEF Grid
    <2>6. UploadInv'
        BY <1>1 DEF IInv, UploadInv, KernelInv
    <2>7. CountInv' /\ KernelInv' /\ HaloInv'
        BY <1>1, <2>1, <2>2 DEF IInv, CountInv, KernelInv, HaloInv, Waiting
    <2> QED
        BY <2>2, <2>4, <2>5, <2>6, <2>7 DEF IInv
<1> QED
    BY <1>1, <1>3, <1>4 DEF BlockLoad

LEMMA KernelEndsInv == IInv /\ KernelEnds => IInv'
<1> SUFFICES ASSUME IInv, KernelEnds PROVE IInv'
    OBVIOUS
<1>1. Types' /\ CountInv' /\ UploadInv' /\ HaloInv'
    BY DEF IInv, KernelEnds, device, Types, CountInv, UploadInv, HaloInv, Waiting
<1>2. KernelInv' /\ BlockInv'
    BY DEF IInv, KernelEnds, device, Types, KernelInv, BlockInv, Waiting, next
<1> QED
    BY <1>1, <1>2 DEF IInv

(* The swap is the step: the other half is then the whole next timestep.   *)
LEMMA SwapIsStep ==
    ASSUME IInv, SwapCompleted
    PROVE  /\ IInv'
           /\ mem'[current'] = Timestep(mem[current], Rhs)
           /\ completed' = completed + 1
<1>1. /\ Waiting /\ ok /\ kernel = "idle" /\ pc' = "stepping"
      /\ current' = next /\ todo' = todo - 1
      /\ completed' = (completed + 1) % (MaxUsize + 1)
      /\ UNCHANGED <<mem, kernel, block, reg>>
    BY DEF SwapCompleted, Waiting, device
<1>2. /\ completed \in 0..MaxUsize /\ todo \in 0..MaxUsize /\ todo > 0
      /\ completed + todo <= MaxUsize /\ MaxUsize \in Nat
    BY <1>1, DoubleGridAssumption DEF IInv, Types, CountInv
<1>3. completed' = completed + 1
    BY <1>1, <1>2
<1>4. /\ next \in Both /\ mem[next] \in Grid
    BY OtherHalf DEF IInv, Types
<1>5. \A c \in Cell : mem[next][c] = NewValue(mem[current], Rhs, c)
    BY <1>1 DEF IInv, KernelInv, BlockInv
<1>6. mem[next] = Timestep(mem[current], Rhs)
    BY <1>4, <1>5 DEF Grid, Timestep
<1>7. Types' /\ CountInv'
    BY <1>1, <1>2, <1>3, <1>4 DEF IInv, Types, CountInv, Waiting
<1>8. HaloInv'
    BY <1>1, <1>5, HaloCopied DEF IInv, HaloInv
<1>9. UploadInv' /\ KernelInv' /\ BlockInv'
    BY <1>1 DEF UploadInv, KernelInv, BlockInv, Waiting
<1> QED
    BY <1>1, <1>3, <1>6, <1>7, <1>8, <1>9 DEF IInv

(* Every step keeps the invariant, and shows the abstract grid one         *)
(* timestep, one observation, or nothing.                                  *)
LEMMA StepRefines ==
    ASSUME IInv, [Next]_vars
    PROVE  IInv' /\ [Abstract!Next]_(Abstract!vars)
<1> DEFINE Same == mem'[current'] = mem[current]
                   /\ completed' = completed /\ sample' = sample
<1>0. Same => UNCHANGED Abstract!vars
    BY DEF Abstract!vars
<1>1. CASE \E b \in Buffers : Reserve(b) \/ Upload(b)
    <2>1. PICK b \in Buffers : Reserve(b) \/ Upload(b)
        BY <1>1
    <2>2. IInv' /\ mem' = mem
        BY <2>1, ConstructionInv
    <2>3. Same
        BY <2>1, <2>2 DEF Reserve, Upload
    <2> QED
        BY <1>0, <2>2, <2>3
<1>2. CASE \/ BindFails \/ StepFails \/ BatchEnds \/ Drained
           \/ ObserveBind \/ DropNext \/ Return
           \/ Observe \/ DropReady \/ DropFuture \/ ForgetFuture \/ FailStop
    <2>1. Aside
        BY <1>2, HostAside
    <2>2. sample' = sample
        BY <1>2 DEF BindFails, StepFails, BatchEnds, Drained, ObserveBind,
            DropNext, Return, Observe, DropReady, DropFuture, ForgetFuture,
            FailStop
    <2>3. Same
        BY <2>1, <2>2 DEF Aside
    <2> QED
        BY <1>0, <2>1, <2>3, AsideInv
<1>3. CASE Observed
    <2>1. Aside
        BY <1>3, HostAside
    <2>2. CASE ok
        <3>1. Abstract!Observe
            BY <1>3, <2>1, <2>2 DEF Observed, Aside, Abstract!Observe
        <3> QED
            BY <2>1, <3>1, AsideInv DEF Abstract!Next
    <2>3. CASE ~ok
        <3>1. Same
            BY <1>3, <2>1, <2>3 DEF Observed, Aside
        <3> QED
            BY <1>0, <2>1, <3>1, AsideInv
    <2> QED
        BY <2>2, <2>3
<1>4. CASE \E n \in Batch : Advance(n)
    <2>1. PICK n \in Batch : Advance(n)
        BY <1>4
    <2>2. Same
        BY <2>1 DEF Advance
    <2> QED
        BY <1>0, <2>1, <2>2, AdvanceInv
<1>5. CASE \E good, launched \in BOOLEAN : Submit(good, launched)
    <2>1. PICK good \in BOOLEAN, launched \in BOOLEAN : Submit(good, launched)
        BY <1>5
    <2>2. Same
        BY <2>1 DEF Submit
    <2> QED
        BY <1>0, <2>1, <2>2, SubmitInv
<1>6. CASE SwapCompleted
    <2>1. Abstract!Timestep(mem[current], Rhs) = Timestep(mem[current], Rhs)
        BY DEF Abstract!Timestep, Abstract!NewValue, Abstract!Cell,
            Abstract!Inside, Timestep, NewValue, Cell, Inside
    <2>2. Abstract!Step
        BY <1>6, <2>1, SwapIsStep DEF SwapCompleted, Abstract!Step
    <2> QED
        BY <1>6, <2>2, SwapIsStep DEF Abstract!Next
<1>7. CASE Device
    <2>1. CASE KernelEnds
        <3>1. Same
            BY <2>1 DEF KernelEnds, device
        <3> QED
            BY <1>0, <2>1, <3>1, KernelEndsInv
    <2>2. CASE \E c \in Cell : BlockLoad(c) \/ BlockStore(c)
        <3>1. PICK c \in Cell : BlockLoad(c) \/ BlockStore(c)
            BY <2>2
        <3>2. IInv' /\ mem'[current] = mem[current]
            BY <3>1, BlockInvariant
        <3>3. Same
            BY <3>1, <3>2 DEF BlockLoad, BlockStore
        <3> QED
            BY <1>0, <3>2, <3>3
    <2> QED
        BY <1>7, <2>1, <2>2 DEF Device
<1>8. CASE UNCHANGED vars
    <2>1. IInv'
        BY <1>8 DEF vars, IInv, Types, CountInv, UploadInv, KernelInv, BlockInv,
            HaloInv, Waiting, next
    <2>2. Same
        BY <1>8 DEF vars
    <2> QED
        BY <1>0, <2>1, <2>2
<1> QED
    BY <1>1, <1>2, <1>3, <1>4, <1>5, <1>6, <1>7, <1>8 DEF Next, Host, Caller

LEMMA Invariance == Spec => []IInv
<1>1. Init => IInv
    BY InitIInv
<1>2. IInv /\ [Next]_vars => IInv'
    BY StepRefines
<1> QED
    BY <1>1, <1>2, PTL DEF Spec

(* The halo of the current grid is the initial one at every timestep,      *)
(* corners included (kernels.rs, timestep).                                *)
THEOREM DoubleGridHalo == Spec => []HaloPreserved
<1>1. IInv => HaloPreserved
    BY DEF IInv, HaloInv, HaloPreserved
<1> QED
    BY <1>1, Invariance, PTL

(* Double buffering, blocks in any order, batches that fail, futures that  *)
(* are dropped: what the owner shows is the synchronous timestep, counted  *)
(* without wrapping (timesteps.rs).                                        *)
THEOREM DoubleGridImplements == Spec => TimestepsSpec
<1>1. Init => Abstract!Init
    BY DEF Init, Abstract!Init, Abstract!NoSample
<1>2. IInv /\ [Next]_vars => [Abstract!Next]_(Abstract!vars)
    BY StepRefines
<1> QED
    BY <1>1, <1>2, Invariance, PTL DEF Spec, TimestepsSpec, Abstract!Spec
=============================================================================
