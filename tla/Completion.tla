----------------------------- MODULE Completion -----------------------------
(***************************************************************************)
(* How an awaiting DeviceFuture learns that its work has ended (src/vendor/*)
(* cuda-async/src: device_future.rs, slot_table.rs, reactor.rs).  A future *)
(* submits its work on its first poll, registers a completion slot that    *)
(* the device writes after the work, and is woken by the scanner thread    *)
(* that watches the slots, or by a host function when no slot is to be     *)
(* had.  The steps are cut at the accesses to what others touch too.       *)
(*                                                                         *)
(* All futures run on one stream, as those of one Gpu do.  A future may be *)
(* moved once, from the task that polled it first to another.              *)
(***************************************************************************)
EXTENDS Integers, FiniteSets, Sequences, SequencesExt

CONSTANTS
    Future,
    Mobile,     \* the futures that may be moved to another task
    PoolSizes,  \* values of NUM_SLOTS
    NoFuture

ASSUME CompletionAssumption == PoolSizes \subseteq Nat \ {0} /\ NoFuture \notin Future

VARIABLES
    numSlots,   \* NUM_SLOTS
    fut,        \* the futures, each with its StreamCallbackState
    stream,     \* submitted and not executed: work, flag writes, host functions
    flag,       \* SlotTable.flags, pinned memory
    active,     \* SlotTable.active, the bitmap
    payload,    \* SlotTable.payload
    free,       \* SlotTable.free, claimed from its end
    armed,      \* SlotTable.n_armed
    scan,       \* the reactor thread
    token,      \* its park token
    device,     \* "ok", or "faulted" for good
    aborted     \* fail_stop

table == <<numSlots, flag, active, payload, free, armed>>
world == <<device, aborted>>
vars == <<fut, stream, table, scan, token, world>>

Slot == 0 .. numSlots - 1
NoSlot == -1

Task == {"first", "second"}

NewFuture ==
    [pc |-> "new", owner |-> "first", waker |-> "none", woken |-> FALSE,
     complete |-> FALSE, slot |-> NoSlot, doorbell |-> FALSE, wait |-> 0]

Init ==
    /\ numSlots \in PoolSizes
    /\ fut = [f \in Future |-> NewFuture]
    /\ stream = <<>>
    /\ flag = [s \in Slot |-> 0]
    /\ active = {}
    /\ payload = [s \in Slot |-> NoFuture]
    /\ free = [i \in 1..numSlots |-> numSlots - i]
    /\ armed = 0
    /\ scan = [pc |-> "scan", todo |-> {}, retired |-> <<>>, woken |-> <<>>, dead |-> <<>>]
    /\ token = FALSE
    /\ device = "ok" /\ aborted = FALSE

Becomes(f, fields) ==
    fut' = [fut EXCEPT ![f] = [k \in DOMAIN NewFuture |->
                IF k \in DOMAIN fields THEN fields[k] ELSE fut[f][k]]]

(* A future that has resolved, failed or been dropped is over: its result  *)
(* and what it owns are with its caller, or gone, and whatever its callback*)
(* state is told from now on has no effect.                                *)
Over(f) == fut[f].pc = "over"
Ends(f) == fut' = [fut EXCEPT ![f] = [NewFuture EXCEPT !.pc = "over"]]

(* Its thread waits for what is in the stream; an `.await` drops a future  *)
(* as soon as it has resolved to an error.                                 *)
Drains(f, items) ==
    fut' = [fut EXCEPT ![f] = [NewFuture EXCEPT !.pc = "draining",
                !.wait = IF device = "ok" THEN Len(items) ELSE 0]]

(* StreamCallbackState::wake: the registered waker is taken, and has an    *)
(* effect only if the task it belongs to still owns the future.            *)
Woken(f) ==
    IF Over(f) THEN fut
    ELSE [fut EXCEPT ![f].woken = @ \/ fut[f].waker = fut[f].owner,
                     ![f].waker = "none"]

Completed(f) ==
    IF Over(f) THEN fut ELSE [fut EXCEPT ![f].complete = TRUE]

-----------------------------------------------------------------------------
(* The first poll registers the waker and executes.  An execute that       *)
(* fails, before or after it submitted something, synchronizes in the poll.*)
FirstPoll(f, good, submits) ==
    /\ fut[f].pc = "new"
    /\ (good => submits) /\ (submits => device = "ok")
    /\ stream' = IF submits THEN Append(stream, [kind |-> "work", of |-> f])
                 ELSE stream
    /\ IF good THEN Becomes(f, [pc |-> "submitted", waker |-> fut[f].owner])
       ELSE Drains(f, stream')
    /\ UNCHANGED <<table, scan, token, world>>

(* The inline spin sees the stream idle, or faulted.                       *)
SpinSees(f) ==
    /\ fut[f].pc = "submitted"
    /\ \/ device = "ok" /\ stream = <<>> /\ Ends(f)
       \/ device = "faulted" /\ Drains(f, stream)
    /\ UNCHANGED <<stream, table, scan, token, world>>

(* Mutant of Claim: the flag of the slot's last use is not cleared.        *)
ClaimUnreset(f) ==
    /\ fut[f].pc = "submitted"
    /\ free # <<>>
    /\ Becomes(f, [pc |-> "claimed", slot |-> Last(free)]) /\ free' = Front(free)
    /\ UNCHANGED <<numSlots, stream, flag, active, payload, armed, scan, token, world>>

(* The spin's budget has run out: register claims a slot and clears it.    *)
Claim(f) ==
    /\ fut[f].pc = "submitted"
    /\ free # <<>>
    /\ Becomes(f, [pc |-> "claimed", slot |-> Last(free)])
    /\ free' = Front(free)
    /\ flag' = [flag EXCEPT ![Last(free)] = 0]
    /\ UNCHANGED <<numSlots, stream, active, payload, armed, scan, token, world>>

(* Mutant of Arm: the slot is given back although its write is enqueued.   *)
ArmReleases(f) ==
    /\ fut[f].pc = "claimed" /\ device = "ok"
    /\ stream' = Append(stream, [kind |-> "flag", of |-> fut[f].slot])
    /\ free' = Append(free, fut[f].slot)
    /\ Becomes(f, [pc |-> "slotless", slot |-> NoSlot])
    /\ UNCHANGED <<numSlots, flag, active, payload, armed, scan, token, world>>

(* cuStreamWriteValue32 is enqueued behind the work, or the slot released. *)
Arm(f) ==
    /\ fut[f].pc = "claimed"
    /\ \/ /\ device = "ok"
          /\ stream' = Append(stream, [kind |-> "flag", of |-> fut[f].slot])
          /\ Becomes(f, [pc |-> "armed"])
          /\ UNCHANGED free
       \/ /\ free' = Append(free, fut[f].slot)
          /\ Becomes(f, [pc |-> "slotless", slot |-> NoSlot])
          /\ UNCHANGED stream
    /\ UNCHANGED <<numSlots, flag, active, payload, armed, scan, token, world>>

CountForgotten(f) ==    \* mutant: the slot is not counted
    /\ fut[f].pc = "armed"
    /\ payload' = [payload EXCEPT ![fut[f].slot] = f]
    /\ Becomes(f, [pc |-> "counted", doorbell |-> (armed = 0)])
    /\ UNCHANGED <<numSlots, stream, flag, active, free, armed, scan, token, world>>

(* publish: payload and count, then the bit; register then unparks the     *)
(* scanner if the table was idle.                                          *)
Count(f) ==
    /\ fut[f].pc = "armed"
    /\ payload' = [payload EXCEPT ![fut[f].slot] = f]
    /\ armed' = armed + 1
    /\ Becomes(f, [pc |-> "counted", doorbell |-> (armed = 0)])
    /\ UNCHANGED <<numSlots, stream, flag, active, free, scan, token, world>>

SetBit(f) ==
    /\ fut[f].pc = "counted"
    /\ active' = active \cup {fut[f].slot}
    /\ Becomes(f, [pc |-> IF fut[f].doorbell THEN "announced" ELSE "pending",
                   slot |-> NoSlot])
    /\ UNCHANGED <<numSlots, stream, flag, payload, free, armed, scan, token, world>>

UnparkNever(f) ==       \* mutant: the scanner is not woken
    /\ fut[f].pc = "announced"
    /\ Becomes(f, [pc |-> "pending", doorbell |-> FALSE])
    /\ UNCHANGED <<stream, table, scan, token, world>>

Unpark(f) ==
    /\ fut[f].pc = "announced"
    /\ token' = (token \/ fut[f].doorbell)
    /\ Becomes(f, [pc |-> "pending", doorbell |-> FALSE])
    /\ UNCHANGED <<stream, table, scan, world>>

(* The fallback, when the pool is exhausted or a slot cannot be armed.     *)
HostFunction(f) ==
    /\ \/ fut[f].pc = "submitted" /\ free = <<>>
       \/ fut[f].pc = "slotless"
    /\ \/ /\ device = "ok"
          /\ stream' = Append(stream, [kind |-> "host", of |-> f])
          /\ Becomes(f, [pc |-> "pending"])
       \/ Drains(f, stream) /\ UNCHANGED stream
    /\ UNCHANGED <<table, scan, token, world>>

-----------------------------------------------------------------------------
(* A later poll reads the flag and probes the stream, registers the waker  *)
(* of the task that polls, and reads the flag again.                       *)
Poll(f) ==
    /\ fut[f].pc = "pending"
    /\ CASE fut[f].complete -> Ends(f)
         [] ~fut[f].complete /\ device = "faulted" -> Drains(f, stream)
         [] ~fut[f].complete /\ device = "ok" /\ stream = <<>> -> Ends(f)
         [] OTHER -> Becomes(f, [pc |-> "probed", woken |-> FALSE])
    /\ UNCHANGED <<stream, table, scan, token, world>>

RegisterWaker(f) ==
    /\ fut[f].pc = "probed"
    /\ Becomes(f, [pc |-> "rewaked", waker |-> fut[f].owner])
    /\ UNCHANGED <<stream, table, scan, token, world>>

RecheckNever(f) ==      \* mutant: the flag is not read again
    /\ fut[f].pc = "rewaked"
    /\ Becomes(f, [pc |-> "pending"])
    /\ UNCHANGED <<stream, table, scan, token, world>>

Recheck(f) ==
    /\ fut[f].pc = "rewaked"
    /\ IF fut[f].complete THEN Ends(f) ELSE Becomes(f, [pc |-> "pending"])
    /\ UNCHANGED <<stream, table, scan, token, world>>

(* The future is sent to another task, which polls it.                     *)
Move(f) ==
    /\ f \in Mobile /\ fut[f].pc = "pending" /\ fut[f].owner = "first"
    /\ Becomes(f, [owner |-> "second", woken |-> TRUE])
    /\ UNCHANGED <<stream, table, scan, token, world>>

Droppable == {"new", "pending"}

(* Drop for DeviceFuture: with work unproven it waits for the stream.      *)
Drop(f) ==
    /\ fut[f].pc \in Droppable
    /\ IF fut[f].pc = "new" THEN Ends(f)
       ELSE Drains(f, stream)
    /\ UNCHANGED <<stream, table, scan, token, world>>

Drained(f) ==
    /\ fut[f].pc = "draining"
    /\ fut[f].wait = 0 /\ device = "ok"
    /\ Ends(f)
    /\ UNCHANGED <<stream, table, scan, token, world>>

FailStop(f) ==
    /\ fut[f].pc = "draining"
    /\ device = "faulted"
    /\ aborted' = TRUE
    /\ UNCHANGED <<fut, stream, table, scan, token, device>>

-----------------------------------------------------------------------------
(* The device executes the stream in order; a host function sets the flag  *)
(* and then wakes (StreamCallbackState::signal).                           *)
Pop(F) ==
    /\ stream' = Tail(stream)
    /\ fut' = [f \in Future |-> IF F[f].wait > 0 THEN [F[f] EXCEPT !.wait = @ - 1]
                                ELSE F[f]]

StreamStep ==
    /\ device = "ok" /\ stream # <<>>
    /\ LET item == Head(stream) IN
       \/ item.kind = "work" /\ Pop(fut) /\ UNCHANGED flag
       \/ /\ item.kind = "flag" /\ Pop(fut)
          /\ flag' = [flag EXCEPT ![item.of] = 1]
       \/ /\ item.kind = "host"
          /\ IF Over(item.of) \/ fut[item.of].complete
             THEN Pop(Woken(item.of))
             ELSE fut' = Completed(item.of) /\ UNCHANGED stream
          /\ UNCHANGED flag
    /\ UNCHANGED <<numSlots, active, payload, free, armed, scan, token, world>>

(* A device fault is for good: nothing that is queued is executed any      *)
(* more, no flag write lands, and who waits for the stream is told at once.*)
Fault ==
    /\ device = "ok"
    /\ device' = "faulted"
    /\ fut' = [f \in Future |-> [fut[f] EXCEPT !.wait = 0]]
    /\ UNCHANGED <<stream, table, scan, token, aborted>>

-----------------------------------------------------------------------------
(* The reactor thread.  A pass reads the bitmap once, then each armed      *)
(* slot: one whose flag has landed is retired, and one whose stream is     *)
(* faulted.  SPIN_PASSES and STALE_PROBE_INTERVAL are abstracted: every    *)
(* pass probes.                                                            *)
ScanBegin ==
    /\ scan.pc = "scan"
    /\ scan' = [scan EXCEPT !.pc = "slots", !.todo = active]
    /\ UNCHANGED <<fut, stream, table, token, world>>

Retires(s) == flag[s] = 1 \/ device = "faulted"

(* What the scanner tells the future of a retired slot: signal completes   *)
(* and then wakes it; one on a dead stream is only woken.                  *)
Tells(s) ==
    CASE Over(payload[s]) -> <<>>
      [] ~Over(payload[s]) /\ flag[s] = 1 ->
             <<<<"complete", payload[s]>>, <<"wake", payload[s]>>>>
      [] OTHER -> <<<<"wake", payload[s]>>>>

ScanSlot ==
    /\ scan.pc = "slots" /\ scan.todo # {}
    /\ LET s == Min(scan.todo) IN
       IF Retires(s)
       THEN /\ active' = active \ {s}
            /\ payload' = [payload EXCEPT ![s] = NoFuture]
            /\ scan' = [scan EXCEPT !.todo = @ \ {s},
                   !.retired = Append(@, s),
                   !.woken = IF flag[s] = 1 THEN @ \o Tells(s) ELSE @,
                   !.dead = IF flag[s] = 0 THEN @ \o Tells(s) ELSE @]
       ELSE /\ scan' = [scan EXCEPT !.todo = @ \ {s}]
            /\ UNCHANGED <<active, payload>>
    /\ UNCHANGED <<numSlots, fut, stream, flag, free, armed, token, world>>

ScanRecycle ==
    /\ scan.pc = "slots" /\ scan.todo = {} /\ scan.retired # <<>>
    /\ free' = free \o scan.retired
    /\ scan' = [scan EXCEPT !.pc = "subtract"]
    /\ UNCHANGED <<numSlots, fut, stream, flag, active, payload, armed, token, world>>

(* What is left to tell: the woken futures, then the dead.                 *)
Subtracted == [scan EXCEPT !.pc = "telling", !.retired = <<>>,
                           !.woken = @ \o scan.dead, !.dead = <<>>]

ScanSubtractOne ==      \* mutant: one slot is subtracted, however many retired
    /\ scan.pc = "subtract"
    /\ armed' = armed - 1
    /\ scan' = Subtracted
    /\ UNCHANGED <<numSlots, fut, stream, flag, active, payload, free, token, world>>

ScanSubtract ==
    /\ scan.pc = "subtract"
    /\ armed' = armed - Len(scan.retired)
    /\ scan' = Subtracted
    /\ UNCHANGED <<numSlots, fut, stream, flag, active, payload, free, token, world>>

Tell ==
    /\ scan.pc = "telling" /\ scan.woken # <<>>
    /\ LET what == Head(scan.woken)[1]
           f == Head(scan.woken)[2]
       IN fut' = IF what = "complete" THEN Completed(f) ELSE Woken(f)
    /\ scan' = [scan EXCEPT !.woken = Tail(@)]
    /\ UNCHANGED <<stream, table, token, world>>

(* After a pass with progress the scanner scans again; otherwise it looks  *)
(* at n_armed, and parks if nothing is in flight.                          *)
ScanEnd ==
    /\ \/ scan.pc = "telling" /\ scan.woken = <<>>
       \/ scan.pc = "slots" /\ scan.todo = {} /\ scan.retired = <<>>
    /\ scan' = [scan EXCEPT !.pc =
           IF scan.pc = "slots" /\ armed = 0 THEN "parked" ELSE "scan"]
    /\ UNCHANGED <<fut, stream, table, token, world>>

Unparked ==
    /\ scan.pc = "parked" /\ token
    /\ token' = FALSE
    /\ scan' = [scan EXCEPT !.pc = "scan"]
    /\ UNCHANGED <<fut, stream, table, world>>

Scanner ==
    ScanBegin \/ ScanSlot \/ ScanRecycle \/ ScanSubtract \/ Tell \/ ScanEnd \/ Unparked

-----------------------------------------------------------------------------
(* What the thread that polls or drops a future does once it has begun.    *)
Continue(f) ==
    \/ SpinSees(f) \/ Claim(f) \/ Arm(f) \/ Count(f) \/ SetBit(f) \/ Unpark(f)
    \/ HostFunction(f)
    \/ RegisterWaker(f) \/ Recheck(f)
    \/ Drained(f) \/ FailStop(f)

(* An executor polls a future again when it has been woken.                *)
PollWoken(f) == fut[f].woken /\ Poll(f)

Choice(f) ==
    \/ \E good, submits \in BOOLEAN : FirstPoll(f, good, submits)
    \/ Poll(f) \/ Move(f) \/ Drop(f)

Next ==
    /\ ~aborted
    /\ \/ \E f \in Future : Continue(f) \/ Choice(f)
       \/ StreamStep
       \/ Fault
       \/ Scanner

Spec == Init /\ [][Next]_vars

(* The host threads and the device run; executors poll what was woken.     *)
Fairness ==
    /\ \A f \in Future : /\ WF_vars(~aborted /\ Continue(f))
                         /\ WF_vars(~aborted /\ PollWoken(f))
    /\ WF_vars(~aborted /\ StreamStep)
    /\ WF_vars(~aborted /\ Scanner)

FairSpec == Spec /\ Fairness

-----------------------------------------------------------------------------
PC == {"new", "submitted", "claimed", "armed", "counted", "announced", "slotless",
       "pending", "probed", "rewaked", "draining", "over"}

TypeOK ==
    /\ fut \in [Future ->
           [pc : PC, owner : Task, waker : Task \cup {"none"}, woken : BOOLEAN,
            complete : BOOLEAN, slot : Slot \cup {NoSlot}, doorbell : BOOLEAN,
            wait : Nat]]
    /\ stream \in Seq([kind : {"work", "host"}, of : Future]
                      \cup [kind : {"flag"}, of : Slot])
    /\ flag \in [Slot -> {0, 1}]
    /\ active \subseteq Slot
    /\ payload \in [Slot -> Future \cup {NoFuture}]
    /\ free \in Seq(Slot)
    /\ armed \in Nat
    /\ scan \in [pc : {"scan", "slots", "subtract", "telling", "parked"},
                 todo : SUBSET Slot, retired : Seq(Slot),
                 woken : Seq({"complete", "wake"} \X Future),
                 dead : Seq({"wake"} \X Future)]
    /\ token \in BOOLEAN
    /\ device \in {"ok", "faulted"} /\ aborted \in BOOLEAN

InFlight(f) == \E i \in 1..Len(stream) : stream[i] = [kind |-> "work", of |-> f]

(* The result of a future, with all it owns or borrows, is handed out or   *)
(* dropped only when its work is off the device: no stale flag, reused     *)
(* slot or dropped future releases it early (device_future.rs).            *)
ReleasedAfterWork == \A f \in Future : Over(f) => ~InFlight(f)

(* Slots and their count are conserved.  n_armed is exactly the published  *)
(* slots, those about to be and those the scanner has still to subtract:   *)
(* it never underflows, and is zero only when nothing is armed.  Every     *)
(* slot has one place: the free list; a registrant; the bitmap, with its   *)
(* payload; or the scanner's retired slots (slot_table.rs).                *)
Registrants == {f \in Future : fut[f].slot # NoSlot}
Claimed == {fut[f].slot : f \in Registrants}
Retired == IF scan.pc = "slots" THEN Range(scan.retired) ELSE {}
Free == Range(free)

SlotsConserved ==
    /\ armed = Cardinality(active) + Cardinality({f \in Future : fut[f].pc = "counted"})
                + Len(scan.retired)
    /\ Cardinality(Claimed) = Cardinality(Registrants)
    /\ IsInjective(free)
    /\ Free \cup Claimed \cup active \cup Retired = Slot
    /\ Free \cap (Claimed \cup active \cup Retired) = {}
    /\ active \cap (Claimed \cup Retired) = {} /\ Claimed \cap Retired = {}
    /\ \A s \in active : payload[s] # NoFuture

(* A slot that can be claimed has no flag write to come: a late write of   *)
(* its last use would complete the next one too early ("a retired slot's   *)
(* flag write can no longer land", reactor.rs).                            *)
NoLateFlagWrite ==
    device = "ok" =>
        \A s \in Free : \A i \in 1..Len(stream) :
            stream[i] # [kind |-> "flag", of |-> s]

(* The scanner sleeps without a token only while nothing is armed, or the  *)
(* registrant that made the table busy is about to unpark it (reactor.rs). *)
SleepsOnlyWhenIdle ==
    scan.pc = "parked" /\ ~token =>
        armed = 0 \/ \E f \in Future : fut[f].doorbell

Waiting(f) == fut[f].pc \in {"pending", "probed", "rewaked"}
OnHostPath(f) == \E i \in 1..Len(stream) : stream[i] = [kind |-> "host", of |-> f]

(* A waiting future resolves, is dropped, or the process stops, whichever  *)
(* way the signal, the polls and a move to another task interleave         *)
(* (device_future.rs).  After a device fault this is not so of a future    *)
(* that was moved, nor of one that waits for a host function.              *)
PendingResolves ==
    \A f \in Future : Waiting(f) ~>
        \/ ~Waiting(f) \/ aborted
        \/ device = "faulted" /\ (fut[f].owner = "second" \/ OnHostPath(f))

(* What reactor.rs and README.md say of a fault: a future on the reactor's *)
(* path is woken, "so its next poll observes the driver error itself".     *)
FaultReachesFuture ==
    \A f \in Future : Waiting(f) ~> ~Waiting(f) \/ aborted \/ OnHostPath(f)
=============================================================================
