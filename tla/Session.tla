------------------------------ MODULE Session -------------------------------
(***************************************************************************)
(* The blocking and asynchronous facade of one Gpu session                 *)
(* (src/src/gpu/cutile_impl.rs): calls made by several threads on one      *)
(* stream, the device buffers they own or borrow, and the release of       *)
(* storage and admission in the order Rust drops the values.               *)
(*                                                                         *)
(* A caller is a thread inside one call, or, for step_into_async, the      *)
(* future the call returned.  The device executes the stream in order.     *)
(* Values of the fields are reduced to whether a kernel has completely     *)
(* written them; DoubleGrid and JacobiKernel model the numbers.            *)
(***************************************************************************)
EXTENDS Limits, FiniteSets, Sequences

CONSTANTS
    Caller,         \* threads, and the futures they create
    Buf,            \* identities of Buffer values
    NoBuf,          \* an argument a call does not have
    Shape,          \* the Shape2D values in use
    HaloSize,       \* Shape2D::haloed_bytes of a shape
    FieldSize,      \* Shape2D::interior_bytes of a shape
    OtherSession    \* whether callers may also hold buffers of another Gpu

ASSUME SessionAssumption ==
    /\ NoBuf \notin Buf
    /\ Buf \cap Caller = {}
    /\ Shape # {}
    /\ \A s \in Shape : HaloSize[s] \in Usize /\ FieldSize[s] \in Usize
    /\ OtherSession \in BOOLEAN

VARIABLES
    usage,      \* Session.budget
    buf,        \* the Buffer values and their device storage
    call,       \* what each caller is doing
    stream,     \* work submitted to Session.stream and not finished
    running,    \* the device has begun the first item of the stream
    device,     \* "ok", or "faulted" for good
    aborted     \* fail_stop has ended the process

vars == <<usage, buf, call, stream, running, device, aborted>>

-----------------------------------------------------------------------------
(* A Buffer: who owns it, its metadata, Completion.uncertain, whether its  *)
(* Reservation and its storage exist, and whether the storage holds the    *)
(* whole result of the last operation on it.                               *)
Buffer ==
    [owner : {"none", "user", "call", "leaked"},
     kind : {"halo", "field"}, shape : Shape, home : {"own", "other"},
     uncertain : BOOLEAN, charged : BOOLEAN, stored : BOOLEAN,
     content : {"whole", "torn"}]

NoBuffer ==
    [owner |-> "none", kind |-> "field", shape |-> CHOOSE s \in Shape : TRUE,
     home |-> "own", uncertain |-> FALSE, charged |-> FALSE,
     stored |-> FALSE, content |-> "whole"]

Bytes(kind, shape) ==
    IF kind = "halo" THEN HaloSize[shape] ELSE FieldSize[shape]

SizeOf(b) == Bytes(buf[b].kind, buf[b].shape)

(* A caller's frame: the operation, its control point, its arguments, the  *)
(* result of the terminal, how many items of the stream it still waits     *)
(* for, the destructors it still has to run, and what it then returns.     *)
Idle ==
    [op |-> "none", pc |-> "idle", src |-> NoBuf, rhs |-> NoBuf,
     out |-> NoBuf, owned |-> FALSE, ok |-> TRUE, wait |-> 0,
     drops |-> <<>>, gives |-> {}]

Init ==
    /\ usage = NoUsage
    /\ buf = [b \in Buf |-> NoBuffer]
    /\ call = [c \in Caller |-> Idle]
    /\ stream = <<>>
    /\ running = FALSE
    /\ device = "ok"
    /\ aborted = FALSE

Args(c) == {call[c].src, call[c].rhs, call[c].out} \ {NoBuf}

(* What the borrow checker admits: & beside &, &mut and moves alone.       *)
MayShare(b) ==
    /\ buf[b].owner = "user"
    /\ \A c \in Caller : call[c].out # b

MayTake(b) ==
    /\ buf[b].owner = "user"
    /\ \A c \in Caller : b \notin Args(c)

(* Mutant of DropOf: reservation declared before the tensor.               *)
DropOfReversed(b) == <<<<"uncharge", b>>, <<"free", b>>>>

(* The destructors of one Buffer, tensor first and reservation last, and   *)
(* of an operation's reservation.                                          *)
DropOf(b) == <<<<"free", b>>, <<"uncharge", b>>>>
Unadmit == <<<<"unadmit", NoBuf>>>>

Unwind(c, drops) == [call[c] EXCEPT !.pc = "dropping", !.drops = drops]
Fail(c, drops) == [Unwind(c, drops) EXCEPT !.ok = FALSE]

(* Mutants of Valid: without ensure_ready, without Arc::ptr_eq.            *)
ValidUnready(src, rhs, out) ==
    LET args == {src, rhs, out} \ {NoBuf} IN
    /\ \A b \in args : buf[b].shape = buf[src].shape
    /\ \A b \in args : buf[b].home = "own"

ValidAnySession(src, rhs, out) ==
    LET args == {src, rhs, out} \ {NoBuf} IN
    /\ \A b \in args : buf[b].shape = buf[src].shape
    /\ \A b \in args : ~buf[b].uncertain

(* validate_fields: equal shapes, every field ready, one session.  The     *)
(* tensors' own metadata always agrees: no safe API changes it.            *)
Valid(src, rhs, out) ==
    LET args == {src, rhs, out} \ {NoBuf} IN
    /\ \A b \in args : buf[b].shape = buf[src].shape
    /\ \A b \in args : ~buf[b].uncertain
    /\ \A b \in args : buf[b].home = "own"

-----------------------------------------------------------------------------
(* upload_halo, upload_field, zeros: Budget::buffer for a fresh buffer.    *)
(* When it is rejected the call returns with nothing changed.              *)
Reserve(c, b, kind, shape, frame) ==
    /\ buf[b].owner = "none"
    /\ AdmitsBuffer(usage, Bytes(kind, shape))
    /\ usage' = ChargeBuffer(usage, Bytes(kind, shape))
    /\ buf' = [buf EXCEPT ![b] = [NoBuffer EXCEPT !.owner = "call",
                   !.kind = kind, !.shape = shape, !.charged = TRUE]]
    /\ call' = [call EXCEPT ![c] = [frame EXCEPT !.pc = "reserved", !.out = b]]
    /\ UNCHANGED <<stream, running, device, aborted>>

Upload(c, b, kind, shape) ==
    /\ call[c].pc = "idle"
    /\ Reserve(c, b, kind, shape, [Idle EXCEPT !.op = "upload"])

(* step: validate_step, then zeros for the output.                         *)
Step(c, src, rhs, out) ==
    /\ call[c].pc = "idle"
    /\ buf[src].kind = "halo" /\ buf[rhs].kind = "field"
    /\ MayShare(src) /\ MayShare(rhs)
    /\ Valid(src, rhs, NoBuf)
    /\ Reserve(c, out, "field", buf[src].shape,
               [Idle EXCEPT !.op = "step", !.src = src, !.rhs = rhs])

(* upload_reserved: Budget::operation, or drop the buffer reservation.     *)
AdmitUpload(c) ==
    /\ call[c].pc = "reserved"
    /\ IF AdmitsOperation(usage)
       THEN /\ usage' = ChargeOperation(usage)
            /\ call' = [call EXCEPT ![c].pc = "admitted"]
       ELSE /\ call' = [call EXCEPT ![c] =
                            Fail(c, <<<<"uncharge", call[c].out>>>>)]
            /\ UNCHANGED usage
    /\ UNCHANGED <<buf, stream, running, device, aborted>>

(* step_into and laplacian_into borrow their fields and validate them.     *)
StepInto(c, op, src, rhs, out) ==
    /\ call[c].pc = "idle"
    /\ buf[src].kind = "halo" /\ buf[out].kind = "field"
    /\ (op = "laplacian_into") <=> (rhs = NoBuf)
    /\ rhs # NoBuf => buf[rhs].kind = "field" /\ MayShare(rhs) /\ rhs # out
    /\ MayShare(src) /\ MayTake(out)
    /\ Valid(src, rhs, out)
    /\ call' = [call EXCEPT ![c] = [Idle EXCEPT !.op = op, !.pc = "checked",
                    !.src = src, !.rhs = rhs, !.out = out]]
    /\ UNCHANGED <<usage, buf, stream, running, device, aborted>>

AdmitStep(c) ==
    /\ call[c].pc = "checked"
    /\ IF AdmitsOperation(usage)
       THEN /\ usage' = ChargeOperation(usage)
            /\ call' = [call EXCEPT ![c].pc = "admitted"]
       ELSE /\ call' = [call EXCEPT ![c] = Fail(c,
                  IF call[c].owned THEN DropOf(call[c].out) ELSE <<>>)]
            /\ UNCHANGED usage
    /\ UNCHANGED <<buf, stream, running, device, aborted>>

(* into_host consumes the field: a field that is not ready, or a rejected  *)
(* operation, drops it whole.                                              *)
IntoHost(c, b) ==
    /\ call[c].pc = "idle"
    /\ MayTake(b)
    /\ buf[b].kind = "field" /\ buf[b].home = "own"
    /\ LET frame == [Idle EXCEPT !.op = "into_host", !.src = b] IN
       IF ~buf[b].uncertain /\ AdmitsOperation(usage)
       THEN /\ usage' = ChargeOperation(usage)
            /\ call' = [call EXCEPT ![c] = [frame EXCEPT !.pc = "admitted"]]
       ELSE /\ call' = [call EXCEPT ![c] = [frame EXCEPT !.pc = "dropping",
                            !.ok = FALSE, !.drops = DropOf(b)]]
            /\ UNCHANGED usage
    /\ buf' = [buf EXCEPT ![b].owner = "call"]
    /\ UNCHANGED <<stream, running, device, aborted>>

(* step_into_async validates and admits at once and owns its arguments;    *)
(* on an error they are dropped, the last parameter first.                 *)
StepIntoAsync(c, src, rhs, out) ==
    /\ call[c].pc = "idle"
    /\ buf[src].kind = "halo" /\ buf[rhs].kind = "field" /\ buf[out].kind = "field"
    /\ rhs # out
    /\ \A b \in {src, rhs, out} : MayTake(b)
    /\ LET frame == [Idle EXCEPT !.op = "async", !.src = src, !.rhs = rhs,
                                 !.out = out] IN
       IF Valid(src, rhs, out) /\ AdmitsOperation(usage)
       THEN /\ usage' = ChargeOperation(usage)
            /\ call' = [call EXCEPT ![c] = [frame EXCEPT !.pc = "unpolled"]]
       ELSE /\ call' = [call EXCEPT ![c] = [frame EXCEPT !.pc = "dropping",
                  !.ok = FALSE,
                  !.drops = DropOf(out) \o DropOf(rhs) \o DropOf(src)]]
            /\ UNCHANGED usage
    /\ buf' = [b \in Buf |-> IF b \in {src, rhs, out}
                             THEN [buf[b] EXCEPT !.owner = "call"] ELSE buf[b]]
    /\ UNCHANGED <<stream, running, device, aborted>>

-----------------------------------------------------------------------------
(* The frame of the future: its local reservation, then what it captured.  *)
DropFrame(c) ==
    Unadmit \o DropOf(call[c].src) \o DropOf(call[c].out) \o DropOf(call[c].rhs)

Uploads == {"upload", "step"}
Steps == {"step_into", "laplacian_into"}

(* What `?` drops after a failed bind (or a failed view of the source).    *)
(* into_host has by then destructured the Buffer, so its bindings go in    *)
(* reverse: the reservation before the tensor.                             *)
DropsAtBind(c) ==
    CASE call[c].op \in Uploads -> Unadmit \o <<<<"uncharge", call[c].out>>>>
      [] call[c].op \in Steps ->
             Unadmit \o (IF call[c].owned THEN DropOf(call[c].out) ELSE <<>>)
      [] call[c].op = "into_host" ->
             <<<<"uncharge", call[c].src>>, <<"free", call[c].src>>>> \o Unadmit
      [] OTHER -> DropFrame(c)

(* Session::bind fails; for the future, inside its first poll.             *)
BindFails(c) ==
    /\ call[c].pc \in {"admitted", "unpolled"}
    /\ call' = [call EXCEPT ![c] = Fail(c, DropsAtBind(c))]
    /\ UNCHANGED <<usage, buf, stream, running, device, aborted>>

(* The work a terminal submits.                                            *)
Work(c) ==
    IF call[c].op \in Uploads
    THEN [by |-> c, reads |-> {}, writes |-> {call[c].out}]
    ELSE [by |-> c, reads |-> {call[c].src, call[c].rhs} \ {NoBuf},
          writes |-> {call[c].out} \ {NoBuf}]

(* execute: the terminal submits its work, or fails, before or after some  *)
(* of it was submitted.  An upload allocates its storage on the stream; a  *)
(* blocking step has marked its output uncertain before.                   *)
Execute(c, ok, submitted) ==
    /\ call[c].pc \in {"admitted", "unpolled"}
    /\ ok => submitted
    /\ stream' = IF submitted THEN Append(stream, Work(c)) ELSE stream
    /\ buf' = CASE call[c].op \in Uploads ->
                       [buf EXCEPT ![call[c].out].stored = submitted]
                [] call[c].op \in Steps ->
                       [buf EXCEPT ![call[c].out].uncertain = TRUE]
                [] OTHER -> buf
    /\ call' = [call EXCEPT ![c] = [@ EXCEPT
           !.pc = IF call[c].op = "async" /\ ok THEN "pending" ELSE "submitted",
           !.ok = ok,
           !.wait = Len(stream')]]
    /\ UNCHANGED <<usage, running, device, aborted>>

-----------------------------------------------------------------------------
(* The device begins and finishes the first item; a kernel leaves what it  *)
(* writes partly written in between.                                       *)
SetContent(bs, content) ==
    [b \in Buf |-> IF b \in bs THEN [buf[b] EXCEPT !.content = content] ELSE buf[b]]

DeviceBegin ==
    /\ device = "ok" /\ ~running /\ stream # <<>>
    /\ running' = TRUE
    /\ buf' = SetContent(Head(stream).writes, "torn")
    /\ UNCHANGED <<usage, call, stream, device, aborted>>

DeviceFinish ==
    /\ device = "ok" /\ running
    /\ running' = FALSE
    /\ buf' = SetContent(Head(stream).writes, "whole")
    /\ stream' = Tail(stream)
    /\ call' = [c \in Caller |->
           IF call[c].wait > 0 THEN [call[c] EXCEPT !.wait = @ - 1] ELSE call[c]]
    /\ UNCHANGED <<usage, device, aborted>>

DeviceFault ==
    /\ device = "ok"
    /\ device' = "faulted"
    /\ UNCHANGED <<usage, buf, call, stream, running, aborted>>

-----------------------------------------------------------------------------
(* Mutant of DropsAtReturn: a failed call keeps its admission.             *)
DropsAtReturnOnSuccess(c) ==
    CASE call[c].ok /\ call[c].op = "into_host" -> DropOf(call[c].src) \o Unadmit
      [] call[c].ok /\ call[c].op # "into_host" -> Unadmit
      [] OTHER -> <<>>

(* What the call drops when its terminal has returned, in order.  After an *)
(* upload that failed the quarantined storage is released by the terminal  *)
(* itself, before the reservations.                                        *)
DropsAtReturn(c) ==
    CASE call[c].op \in Uploads /\ call[c].ok -> Unadmit
      [] call[c].op \in Uploads /\ ~call[c].ok ->
             (IF buf[call[c].out].stored THEN <<<<"free", call[c].out>>>> ELSE <<>>)
                \o Unadmit \o <<<<"uncharge", call[c].out>>>>
      [] call[c].op \in Steps ->
             Unadmit \o (IF call[c].owned /\ ~call[c].ok
                         THEN DropOf(call[c].out) ELSE <<>>)
      [] call[c].op = "into_host" -> DropOf(call[c].src) \o Unadmit
      [] OTHER -> IF call[c].ok THEN Unadmit ELSE DropFrame(c)

(* What the call returns to its caller as values.                          *)
Gives(c) ==
    CASE call[c].ok /\ (call[c].op = "upload" \/ call[c].owned) -> {call[c].out}
      [] call[c].ok /\ call[c].op = "async" -> Args(c)
      [] OTHER -> {}

(* Completion::run ends: only success makes the output ready again.  What  *)
(* a failed step left in it is not its result.  Mutant: run always clears. *)
SettledAlways(c) ==
    IF call[c].op \notin Steps THEN buf
    ELSE IF call[c].ok THEN [buf EXCEPT ![call[c].out].uncertain = FALSE]
    ELSE [buf EXCEPT ![call[c].out].uncertain = FALSE,
                     ![call[c].out].content = "torn"]

Settled(c) ==
    IF call[c].op \notin Steps THEN buf
    ELSE IF call[c].ok THEN [buf EXCEPT ![call[c].out].uncertain = FALSE]
    ELSE [buf EXCEPT ![call[c].out].content = "torn"]

(* Mutant: the terminal does not wait for the work in front of its own.    *)
CompleteEarly(c) ==
    /\ call[c].pc \in {"submitted", "pending"}
    /\ call[c].wait <= 1 /\ device = "ok"
    /\ buf' = Settled(c)
    /\ call' = [call EXCEPT ![c] =
           [Unwind(c, DropsAtReturn(c)) EXCEPT !.gives = Gives(c), !.wait = 0]]
    /\ UNCHANGED <<usage, stream, running, device, aborted>>

(* sync_on returns, or the poll that finds its work done: every item the   *)
(* call waited for is finished.                                            *)
Complete(c) ==
    /\ call[c].pc \in {"submitted", "pending"}
    /\ call[c].wait = 0 /\ device = "ok"
    /\ buf' = Settled(c)
    /\ call' = [call EXCEPT ![c] =
                    [Unwind(c, DropsAtReturn(c)) EXCEPT !.gives = Gives(c)]]
    /\ UNCHANGED <<usage, stream, running, device, aborted>>

(* Mutant: the drop of a pending future releases without a drain.          *)
DropFutureUndrained(c) ==
    /\ call[c].pc \in {"unpolled", "pending"}
    /\ call' = [call EXCEPT ![c] = [Fail(c, DropFrame(c)) EXCEPT !.wait = 0]]
    /\ UNCHANGED <<usage, buf, stream, running, device, aborted>>


(* Dropping the future: nothing was submitted, or the drop waits for all   *)
(* that the stream holds.                                                  *)
DropFuture(c) ==
    /\ call[c].pc \in {"unpolled", "pending"}
    /\ call' = [call EXCEPT ![c] =
           IF call[c].pc = "unpolled" THEN Fail(c, DropFrame(c))
           ELSE [@ EXCEPT !.pc = "draining", !.wait = Len(stream)]]
    /\ UNCHANGED <<usage, buf, stream, running, device, aborted>>

(* Mutant: the drop polls until it finds the stream idle.                  *)
DrainedWhenIdle(c) ==
    /\ call[c].pc = "draining"
    /\ stream = <<>> /\ device = "ok"
    /\ call' = [call EXCEPT ![c] = Fail(c, DropFrame(c))]
    /\ UNCHANGED <<usage, buf, stream, running, device, aborted>>

Drained(c) ==
    /\ call[c].pc = "draining"
    /\ call[c].wait = 0 /\ device = "ok"
    /\ call' = [call EXCEPT ![c] = Fail(c, DropFrame(c))]
    /\ UNCHANGED <<usage, buf, stream, running, device, aborted>>

(* Mutant: forgetting the future gives its admission back.                 *)
ForgetFutureUnadmitted(c) ==
    /\ call[c].pc \in {"unpolled", "pending"}
    /\ usage' = ReleaseOperation(usage)
    /\ call' = [call EXCEPT ![c].pc = "forgotten"]
    /\ buf' = [b \in Buf |-> IF b \in Args(c)
                             THEN [buf[b] EXCEPT !.owner = "leaked"] ELSE buf[b]]
    /\ UNCHANGED <<stream, running, device, aborted>>

(* mem::forget of the future retains its buffers and its admission.        *)
ForgetFuture(c) ==
    /\ call[c].pc \in {"unpolled", "pending"}
    /\ call' = [call EXCEPT ![c].pc = "forgotten"]
    /\ buf' = [b \in Buf |-> IF b \in Args(c)
                             THEN [buf[b] EXCEPT !.owner = "leaked"] ELSE buf[b]]
    /\ UNCHANGED <<usage, stream, running, device, aborted>>

(* A synchronization that fails cannot prove completion: the process ends. *)
(* A future polled after the fault returns an error, and dropping its      *)
(* frame then fails to drain.                                              *)
FailStop(c) ==
    /\ call[c].pc \in {"submitted", "pending", "draining"}
    /\ device = "faulted"
    /\ aborted' = TRUE
    /\ UNCHANGED <<usage, buf, call, stream, running, device>>

-----------------------------------------------------------------------------
(* The next destructor of a call that is returning.                        *)
AfterFree(b) ==
    IF buf[b].charged THEN [buf[b] EXCEPT !.stored = FALSE] ELSE NoBuffer

AfterUncharge(b) ==
    IF buf[b].stored THEN [buf[b] EXCEPT !.charged = FALSE] ELSE NoBuffer

DropNext(c) ==
    /\ call[c].pc = "dropping" /\ call[c].drops # <<>>
    /\ LET what == Head(call[c].drops)[1]
           b == Head(call[c].drops)[2]
       IN /\ usage' = CASE what = "unadmit" -> ReleaseOperation(usage)
                        [] what = "uncharge" /\ buf[b].home = "own" ->
                               ReleaseBuffer(usage, SizeOf(b))
                        [] OTHER -> usage
          /\ buf' = CASE what = "free" -> [buf EXCEPT ![b] = AfterFree(b)]
                      [] what = "uncharge" -> [buf EXCEPT ![b] = AfterUncharge(b)]
                      [] OTHER -> buf
    /\ call' = [call EXCEPT ![c].drops = Tail(@)]
    /\ UNCHANGED <<stream, running, device, aborted>>

(* The call returns; step goes on with step_into on the zeroed output.     *)
Return(c) ==
    /\ call[c].pc = "dropping" /\ call[c].drops = <<>>
    /\ call' = [call EXCEPT ![c] =
           IF call[c].op = "step" /\ call[c].ok
           THEN [@ EXCEPT !.op = "step_into", !.pc = "checked", !.owned = TRUE]
           ELSE Idle]
    /\ buf' = [b \in Buf |-> IF b \in call[c].gives
                             THEN [buf[b] EXCEPT !.owner = "user"] ELSE buf[b]]
    /\ UNCHANGED <<usage, stream, running, device, aborted>>

(* The program drops, or forgets, a buffer it owns, or obtains a source or *)
(* a field of another session.                                             *)
DropBuffer(c, b) ==
    /\ call[c].pc = "idle"
    /\ MayTake(b)
    /\ buf' = [buf EXCEPT ![b].owner = "call"]
    /\ call' = [call EXCEPT ![c] = [Idle EXCEPT !.op = "drop", !.src = b,
                    !.pc = "dropping", !.drops = DropOf(b)]]
    /\ UNCHANGED <<usage, stream, running, device, aborted>>

ForgetBuffer(b) ==
    /\ MayTake(b)
    /\ buf' = [buf EXCEPT ![b].owner = "leaked"]
    /\ UNCHANGED <<usage, call, stream, running, device, aborted>>

ForeignBuffer(b, kind, shape) ==
    /\ OtherSession
    /\ buf[b].owner = "none"
    /\ buf' = [buf EXCEPT ![b] = [NoBuffer EXCEPT !.owner = "user", !.kind = kind,
                   !.shape = shape, !.home = "other", !.charged = TRUE, !.stored = TRUE]]
    /\ UNCHANGED <<usage, call, stream, running, device, aborted>>

-----------------------------------------------------------------------------
(* A call on sources taken from halos and on fields taken from fields.     *)
StartOn(c, halos, fields) ==
    \/ \E b \in halos, shape \in Shape : Upload(c, b, "halo", shape)
    \/ \E b \in fields, shape \in Shape : Upload(c, b, "field", shape)
    \/ \E src \in halos, rhs, out \in fields : Step(c, src, rhs, out)
    \/ \E src \in halos, rhs, out \in fields : StepInto(c, "step_into", src, rhs, out)
    \/ \E src \in halos, out \in fields : StepInto(c, "laplacian_into", src, NoBuf, out)
    \/ \E src \in halos, rhs, out \in fields : StepIntoAsync(c, src, rhs, out)
    \/ \E b \in fields : IntoHost(c, b)
    \/ \E b \in halos \cup fields : DropBuffer(c, b)

Start(c) == StartOn(c, Buf, Buf)

(* A call that has started proceeds by itself; a future only once an       *)
(* executor polls it.                                                      *)
Poll(c) == \E ok, submitted \in BOOLEAN : Execute(c, ok, submitted)

Proceed(c) ==
    \/ AdmitUpload(c) \/ AdmitStep(c)
    \/ call[c].pc # "unpolled" /\ (BindFails(c) \/ Poll(c))
    \/ Complete(c) \/ Drained(c) \/ FailStop(c)
    \/ DropNext(c) \/ Return(c)

FuturePolled(c) == call[c].pc = "unpolled" /\ (BindFails(c) \/ Poll(c))

Environment ==
    \/ \E c \in Caller : DropFuture(c) \/ ForgetFuture(c)
    \/ \E b \in Buf : ForgetBuffer(b)
    \/ \E b \in Buf, kind \in {"halo", "field"}, shape \in Shape :
           ForeignBuffer(b, kind, shape)

Device == DeviceBegin \/ DeviceFinish

Next ==
    /\ ~aborted
    /\ \/ \E c \in Caller : Start(c) \/ Proceed(c) \/ FuturePolled(c)
       \/ Environment
       \/ Device
       \/ DeviceFault

Spec == Init /\ [][Next]_vars

(* Threads run; the driver works the stream off; a pending future is woken *)
(* (modelled by Completion) and polled again.                              *)
Fairness ==
    /\ \A c \in Caller : WF_vars(~aborted /\ Proceed(c))
    /\ WF_vars(~aborted /\ Device)

FairSpec == Spec /\ Fairness

-----------------------------------------------------------------------------
Frame ==
    [op : {"none", "upload", "step", "step_into", "laplacian_into", "async",
           "into_host", "drop"},
     pc : {"idle", "reserved", "checked", "admitted", "unpolled", "submitted",
           "pending", "draining", "dropping", "forgotten"},
     src : Buf \cup {NoBuf}, rhs : Buf \cup {NoBuf}, out : Buf \cup {NoBuf},
     owned : BOOLEAN, ok : BOOLEAN, wait : Nat,
     drops : Seq({"free", "uncharge", "unadmit"} \X (Buf \cup {NoBuf})),
     gives : SUBSET Buf]

TypeOK ==
    /\ usage \in Usage
    /\ buf \in [Buf -> Buffer]
    /\ call \in [Caller -> Frame]
    /\ stream \in Seq([by : Caller, reads : SUBSET Buf, writes : SUBSET Buf])
    /\ running \in BOOLEAN
    /\ device \in {"ok", "faulted"}
    /\ aborted \in BOOLEAN

Touches(w) == w.reads \cup w.writes
Working(b) == \E i \in 1..Len(stream) : b \in Touches(stream[i])

(* No storage is freed while the stream holds work that touches it, over   *)
(* every interleaving of completion, failed execution, dropped futures and *)
(* device faults: what sync_on, the drain in the future's drop and the     *)
(* retained Arc in into_host are for.                                      *)
NoUseAfterFree ==
    \A b \in Buf : Working(b) => buf[b].stored

(* A buffer the program holds and that the session would accept as ready   *)
(* contains the whole result of the last operation on it: an error never   *)
(* publishes a partly written field as a completed result.  Nor does the   *)
(* device copy to the host, long after into_host has looked at it, a field *)
(* whose last operation failed or has not ended.                           *)
ReadyIsWhole ==
    /\ \A b \in Buf : MayTake(b) /\ ~buf[b].uncertain => buf[b].content = "whole"
    /\ running /\ call[Head(stream).by].op = "into_host" =>
          \A b \in Head(stream).reads : buf[b].content = "whole"

(* Work on this stream only touches buffers of this session, all of one    *)
(* shape, up to the moment the device is done with it: an argument of      *)
(* another session could be freed by a drop that drains the other stream.  *)
ArgumentsOfOneSession ==
    \A i \in 1..Len(stream) : \A b, d \in Touches(stream[i]) :
        buf[b].home = "own" /\ buf[b].shape = buf[d].shape

(* Two items of the stream never conflict: no item writes what another     *)
(* call's item touches.                                                    *)
NoConflict ==
    \A i, j \in 1..Len(stream) :
        i # j => stream[i].writes \cap Touches(stream[j]) = {}

(* All work in flight is admitted work: each item of the stream has an     *)
(* operation of the budget that is still charged, within the limit,        *)
(* because an operation's reservation is dropped only after its terminal   *)
(* has completed, on every path, and a forgotten future retains it with    *)
(* the work it leaves behind.                                              *)
StreamWithinAdmission ==
    /\ Len(stream) <= usage.operations
    /\ usage.operations <= Operations

(* Storage always has its charge ("Last field: release the logical charge  *)
(* only after storage is dropped", Buffer).                                *)
ChargeOutlivesStorage ==
    \A b \in Buf : buf[b].stored => buf[b].charged

(* What does hold of it: the charge goes first only in an into_host whose  *)
(* bind failed.                                                            *)
ChargeOutlivesStorageElsewhere ==
    \A b \in Buf : buf[b].stored /\ ~buf[b].charged =>
        \E c \in Caller : /\ call[c].op = "into_host" /\ ~call[c].ok
                          /\ call[c].src = b /\ call[c].pc = "dropping"

(* A step that failed after its output was marked leaves the output        *)
(* invalid for the rest of its life: whichever call it is next given to,   *)
(* as a source or an output, it is only ever dropped (Completion::run,     *)
(* validate_fields, into_host).                                            *)
InvalidatedForGood ==
    [][\A b \in Buf : buf[b].uncertain /\ MayTake(b) =>
           /\ buf'[b].owner # "none" => buf'[b].uncertain
           /\ \A c \in Caller : b \in Args(c)' => call'[c].pc = "dropping"]_vars

(* Every call that has started returns, and every dropped future is        *)
(* released, unless the process fails stop.                                *)
InCall(c) == call[c].pc \notin {"idle", "unpolled", "pending", "forgotten"}

CallsReturn ==
    \A c \in Caller : InCall(c) ~> (~InCall(c) \/ aborted)

(* The session's charges are exactly those of the abstract budget: one     *)
(* guard for each buffer's charge and one for each admitted operation.     *)
Admitted(c) ==
    \/ call[c].pc \in {"admitted", "unpolled", "submitted", "pending",
                       "draining", "forgotten"}
    \/ \E i \in 1..Len(call[c].drops) : call[c].drops[i][1] = "unadmit"

GuardOfBuffer(b) ==
    IF buf[b].charged /\ buf[b].home = "own"
    THEN [state |-> IF buf[b].owner = "leaked" THEN "forgotten" ELSE "held",
          buffer |-> TRUE, bytes |-> SizeOf(b)]
    ELSE [state |-> "absent", buffer |-> FALSE, bytes |-> 0]

GuardOfCall(c) ==
    [state |-> CASE call[c].pc = "forgotten" -> "forgotten"
                 [] call[c].pc # "forgotten" /\ Admitted(c) -> "held"
                 [] OTHER -> "absent",
     buffer |-> FALSE, bytes |-> 0]

Budget == INSTANCE Admission WITH
    Guard <- Buf \cup Caller,
    Request <- {HaloSize[s] : s \in Shape} \cup {FieldSize[s] : s \in Shape},
    guard <- [g \in Buf \cup Caller |->
                 IF g \in Buf THEN GuardOfBuffer(g) ELSE GuardOfCall(g)]

BudgetSpec == Budget!Spec
=============================================================================
