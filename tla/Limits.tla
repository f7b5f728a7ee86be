------------------------------- MODULE Limits -------------------------------
(***************************************************************************)
(* The arithmetic of src/src/limits.rs: the limits of one GPU session and  *)
(* what Budget does to its Usage record while it holds the mutex.  Every   *)
(* number is a usize, so it lies in 0..MaxUsize; an addition that leaves   *)
(* the range is what checked_add reports.                                  *)
(***************************************************************************)
EXTENDS Integers

CONSTANTS
    MaxUsize,       \* usize::MAX
    BufferBytes,    \* ResourceLimits.buffer_bytes
    TotalBytes,     \* ResourceLimits.total_bytes
    Buffers,        \* ResourceLimits.buffers
    Operations      \* ResourceLimits.operations

Usize == 0..MaxUsize

(* ResourceLimits::new rejects a zero limit and a buffer limit above the   *)
(* total; no other constructor but Default exists, which satisfies this.   *)
ASSUME LimitsAssumption ==
    /\ MaxUsize \in Nat
    /\ TotalBytes \in 1..MaxUsize
    /\ BufferBytes \in 1..TotalBytes
    /\ Buffers \in 1..MaxUsize
    /\ Operations \in 1..MaxUsize

Usage == [bytes : Usize, buffers : Usize, operations : Usize]

NoUsage == [bytes |-> 0, buffers |-> 0, operations |-> 0]

(* Mutants of AdmitsBuffer: an unchecked sum, and a limit compared by <=.  *)
AdmitsBufferUnchecked(usage, bytes) ==
    bytes <= BufferBytes /\ usage.buffers < Buffers

AdmitsBufferOneMore(usage, bytes) ==
    /\ bytes <= BufferBytes
    /\ usage.bytes + bytes <= TotalBytes
    /\ usage.buffers <= Buffers

(* Budget::buffer succeeds: the size check is made before the lock, the    *)
(* others under it; checked_add fails above MaxUsize.                      *)
AdmitsBuffer(usage, bytes) ==
    /\ bytes <= BufferBytes
    /\ usage.bytes + bytes <= MaxUsize
    /\ usage.bytes + bytes <= TotalBytes
    /\ usage.buffers < Buffers

ChargeBuffer(usage, bytes) ==
    [usage EXCEPT !.bytes = @ + bytes, !.buffers = @ + 1]

(* Budget::operation succeeds.                                             *)
AdmitsOperation(usage) == usage.operations < Operations

ChargeOperation(usage) == [usage EXCEPT !.operations = @ + 1]

(* Mutant of ReleaseBuffer: the bytes stay charged.                        *)
ReleaseBufferCountOnly(usage, bytes) ==
    [usage EXCEPT !.buffers = (@ - 1) % (MaxUsize + 1)]

(* Drop for Reservation, a subtraction in the width of usize.              *)
ReleaseBuffer(usage, bytes) ==
    [usage EXCEPT !.bytes = (@ - bytes) % (MaxUsize + 1),
                  !.buffers = (@ - 1) % (MaxUsize + 1)]

ReleaseOperation(usage) ==
    [usage EXCEPT !.operations = (@ - 1) % (MaxUsize + 1)]

(* ResourceLimits::check_shape: one haloed source and two interior fields  *)
(* of h rows and w columns, of four-byte elements.                         *)
HaloedBytes(h, w) == (h + 2) * (w + 2) * 4
InteriorBytes(h, w) == h * w * 4

CheckShape(h, w) ==
    /\ HaloedBytes(h, w) <= BufferBytes
    /\ 2 * InteriorBytes(h, w) <= MaxUsize
    /\ 2 * InteriorBytes(h, w) + HaloedBytes(h, w) <= MaxUsize
    /\ 2 * InteriorBytes(h, w) + HaloedBytes(h, w) <= TotalBytes
    /\ 3 <= Buffers
=============================================================================
