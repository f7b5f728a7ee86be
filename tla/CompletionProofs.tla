-------------------------- MODULE CompletionProofs --------------------------
(***************************************************************************)
(* The safety of awaiting a DeviceFuture, for any number of futures and    *)
(* slots: no result is released before its work is off the device, slots   *)
(* are conserved and never carry the flag of an earlier use, and the       *)
(* scanner sleeps only when nobody needs it.                               *)
(*                                                                         *)
(* The argument has two parts.  Slots: each one is in one place, and       *)
(* n_armed counts those the scanner has to watch.  Truth: whatever tells a *)
(* future that its work has ended (its flag, the flag of the slot it       *)
(* holds, a message of the scanner) comes after that work in the stream.   *)
(***************************************************************************)
EXTENDS Completion, FiniteSetTheorems, WellFoundedInduction, TLAPS

FutureRecord ==
    [pc : PC, owner : Task, waker : Task \cup {"none"}, woken : BOOLEAN,
     complete : BOOLEAN, slot : Slot \cup {NoSlot}, doorbell : BOOLEAN, wait : Nat]

Item == [kind : {"work", "host"}, of : Future] \cup [kind : {"flag"}, of : Slot]

ScanRecord ==
    [pc : {"scan", "slots", "subtract", "telling", "parked"},
     todo : SUBSET Slot, retired : Seq(Slot),
     woken : Seq({"complete", "wake"} \X Future), dead : Seq({"wake"} \X Future)]

Types ==
    /\ numSlots \in PoolSizes
    /\ fut \in [Future -> FutureRecord]
    /\ stream \in Seq(Item)
    /\ flag \in [Slot -> {0, 1}]
    /\ active \in SUBSET Slot
    /\ payload \in [Slot -> Future \cup {NoFuture}]
    /\ free \in Seq(Slot)
    /\ armed \in Nat
    /\ scan \in ScanRecord
    /\ token \in BOOLEAN
    /\ device \in {"ok", "faulted"} /\ aborted \in BOOLEAN

-----------------------------------------------------------------------------
(* Slots: where each is, and who answers for it.                           *)
Holding == {"claimed", "armed", "counted"}

Registered(e) ==
    /\ e.slot # NoSlot <=> e.pc \in Holding
    /\ e.doorbell => e.pc \in {"counted", "announced"}

Partition(A, B, C, D) ==
    /\ A \cup B \cup C \cup D = Slot
    /\ A \cap (B \cup C \cup D) = {} /\ C \cap (B \cup D) = {} /\ B \cap D = {}

Counted == {f \in Future : fut[f].pc = "counted"}

Payloads ==
    /\ \A f \in Counted : payload[fut[f].slot] = f
    /\ \A s \in active : payload[s] \in Future /\ fut[payload[s]].pc # "new"

Passes ==
    /\ scan.pc = "slots" => scan.todo \subseteq active /\ IsInjective(scan.retired)
    /\ scan.pc \notin {"slots", "subtract"} => scan.retired = <<>>

Counts ==
    /\ IsFiniteSet(active) /\ IsFiniteSet(Counted)
    /\ armed = Cardinality(active) + Cardinality(Counted) + Len(scan.retired)

Places ==
    /\ \A f \in Future : Registered(fut[f])
    /\ \A f, g \in Registrants : fut[f].slot = fut[g].slot => f = g
    /\ IsInjective(free)
    /\ Partition(Free, Claimed, active, Retired)

Conservation == Places /\ Payloads /\ Passes /\ Counts /\ SleepsOnlyWhenIdle

-----------------------------------------------------------------------------
(* Truth: the order of the stream.                                         *)
WorkOf(f) == [kind |-> "work", of |-> f]

Done(f) == fut[f].pc # "new" /\ \A i \in DOMAIN stream : stream[i] # WorkOf(f)

(* When the i-th item is executed, the work of f has been.                 *)
After(f, i) ==
    fut[f].pc # "new" /\ \A j \in DOMAIN stream : j > i => stream[j] # WorkOf(f)

Holds(f, s) ==
    \/ fut[f].pc \in {"armed", "counted"} /\ fut[f].slot = s
    \/ s \in active /\ payload[s] = f

Told(f) ==
    \/ fut[f].complete
    \/ fut[f].pc = "over"
    \/ \E s \in Slot : Holds(f, s) /\ flag[s] = 1
    \/ \E i \in DOMAIN scan.woken : scan.woken[i] = <<"complete", f>>

Truth == \A f \in Future : Told(f) => Done(f)

Fresh == \A f \in Future : fut[f].pc = "new" =>
             \A i \in DOMAIN stream : stream[i] # WorkOf(f)

(* Who drains waits for its own work at least.                             *)
Drainage ==
    device = "ok" => \A f \in Future : fut[f].pc = "draining" =>
        \A i \in DOMAIN stream : stream[i] = WorkOf(f) => i <= fut[f].wait

Cleared == \A f \in Future : fut[f].pc = "claimed" => flag[fut[f].slot] = 0

HostItem(i) == stream[i].kind = "host" => After(stream[i].of, i)

FlagItem(i) ==
    stream[i].kind = "flag" =>
        /\ flag[stream[i].of] = 0
        /\ \E f \in Future : Holds(f, stream[i].of)
        /\ \A f \in Future : Holds(f, stream[i].of) => After(f, i)
        /\ \A j \in DOMAIN stream : stream[j] = stream[i] => i = j

Items ==
    /\ \A i \in DOMAIN stream : HostItem(i)
    /\ device = "ok" => \A i \in DOMAIN stream : FlagItem(i)

Order == Fresh /\ Drainage /\ Cleared /\ Items

IInv == Types /\ Conservation /\ Order /\ Truth

-----------------------------------------------------------------------------
(* The first slot of a pass.                                               *)
LEMMA MinIsIn ==
    ASSUME NEW S, S \subseteq Nat, S # {}
    PROVE  Min(S) \in S
<1> DEFINE R == {ss \in Nat \X Nat : ss[1] < ss[2]}
<1>1. IsWellFoundedOn(R, Nat)
    BY NatLessThanWellFounded DEF OpToRel
<1>2. \A x, y \in Nat : <<x, y>> \in R <=> x < y
    OBVIOUS
<1> HIDE DEF R
<1>3. PICK x \in S : \A y \in S : ~(<<y, x>> \in R)
    BY <1>1, WFMin
<1>4. ASSUME NEW y \in S PROVE x <= y
    <2>1. x \in Nat /\ y \in Nat
        OBVIOUS
    <2>2. ~(y < x)
        BY <1>2, <1>3, <2>1
    <2> QED BY <2>1, <2>2
<1> QED BY <1>4 DEF Min

(* Lists of slots.                                                         *)
LEMMA LastClaimed ==
    ASSUME NEW S, NEW q \in Seq(S), q # <<>>, IsInjective(q)
    PROVE  /\ Last(q) \in S /\ Last(q) \in Range(q)
           /\ Front(q) \in Seq(S) /\ IsInjective(Front(q))
           /\ Range(Front(q)) = Range(q) \ {Last(q)}
<1> DEFINE n == Len(q)
           p == Front(q)
<1>1. n \in Nat /\ n > 0 /\ DOMAIN q = 1..n
    OBVIOUS
<1>2. /\ p \in Seq(S) /\ DOMAIN p = 1..(n - 1)
      /\ \A i \in 1..(n - 1) : p[i] = q[i]
    BY <1>1 DEF Front
<1>3. Last(q) = q[n]
    BY DEF Last
<1> HIDE DEF n, p
<1>4. \A i \in 1..n : i \in 1..(n - 1) \/ i = n
    BY <1>1
<1>5. \A i \in 1..(n - 1) : i \in 1..n /\ i # n
    BY <1>1
<1>6. IsInjective(p)
    BY <1>1, <1>2, <1>5 DEF IsInjective
<1>7. Range(p) = Range(q) \ {q[n]}
    BY <1>1, <1>2, <1>4, <1>5 DEF IsInjective, Range
<1>8. q[n] \in S /\ q[n] \in Range(q)
    BY <1>1 DEF Range
<1> QED BY <1>2, <1>3, <1>6, <1>7, <1>8 DEF p

LEMMA OneMore ==
    ASSUME NEW S, NEW q \in Seq(S), NEW s \in S
    PROVE  /\ Append(q, s) \in Seq(S) /\ Len(Append(q, s)) = Len(q) + 1
           /\ Range(Append(q, s)) = Range(q) \cup {s}
           /\ IsInjective(q) /\ s \notin Range(q) => IsInjective(Append(q, s))
<1> DEFINE n == Len(q)
           p == Append(q, s)
<1>1. /\ n \in Nat /\ DOMAIN q = 1..n /\ p \in Seq(S) /\ Len(p) = n + 1
      /\ DOMAIN p = 1..(n + 1) /\ p[n + 1] = s /\ \A i \in 1..n : p[i] = q[i]
    OBVIOUS
<1> HIDE DEF n, p
<1>2. \A i \in 1..(n + 1) : i \in 1..n \/ i = n + 1
    BY <1>1
<1>3. \A i \in 1..n : i \in 1..(n + 1) /\ i # n + 1
    BY <1>1
<1>4. n + 1 \in 1..(n + 1)
    BY <1>1
<1>5. Range(p) = Range(q) \cup {s}
    BY <1>1, <1>2, <1>3, <1>4 DEF Range
<1>6. IsInjective(q) /\ s \notin Range(q) => IsInjective(p)
    BY <1>1, <1>2 DEF IsInjective, Range
<1> QED BY <1>1, <1>5, <1>6 DEF p, n

LEMMA Joined ==
    ASSUME NEW S, NEW q \in Seq(S), NEW r \in Seq(S)
    PROVE  /\ q \o r \in Seq(S)
           /\ Range(q \o r) = Range(q) \cup Range(r)
           /\ IsInjective(q) /\ IsInjective(r) /\ Range(q) \cap Range(r) = {}
                 => IsInjective(q \o r)
<1> DEFINE m == Len(q)
           n == Len(r)
           p == q \o r
<1>1. /\ m \in Nat /\ n \in Nat /\ DOMAIN q = 1..m /\ DOMAIN r = 1..n
      /\ p \in Seq(S) /\ DOMAIN p = 1..(m + n)
      /\ \A i \in 1..m : p[i] = q[i]
      /\ \A i \in 1..n : p[m + i] = r[i]
    OBVIOUS
<1> HIDE DEF m, n, p
<1>2. \A i \in 1..(m + n) : i \in 1..m \/ (i - m \in 1..n /\ p[i] = r[i - m])
    <2> SUFFICES ASSUME NEW i \in 1..(m + n), i \notin 1..m
                 PROVE  i - m \in 1..n /\ p[i] = r[i - m]
        OBVIOUS
    <2>1. i - m \in 1..n /\ m + (i - m) = i
        BY <1>1
    <2> QED BY <1>1, <2>1
<1>3. \A i \in 1..m : i \in 1..(m + n)
    BY <1>1
<1>4. \A i \in 1..n : m + i \in 1..(m + n)
    BY <1>1
<1>5. Range(p) = Range(q) \cup Range(r)
    <2>1. \A x \in Range(p) : x \in Range(q) \cup Range(r)
        BY <1>1, <1>2 DEF Range
    <2>2. \A x \in Range(q) : x \in Range(p)
        BY <1>1, <1>3 DEF Range
    <2>3. \A x \in Range(r) : x \in Range(p)
        BY <1>1, <1>4 DEF Range
    <2> QED BY <2>1, <2>2, <2>3
<1>6. ASSUME IsInjective(q), IsInjective(r), Range(q) \cap Range(r) = {}
      PROVE  IsInjective(p)
    <2> SUFFICES ASSUME NEW i \in 1..(m + n), NEW j \in 1..(m + n), p[i] = p[j]
                 PROVE  i = j
        BY <1>1 DEF IsInjective
    <2>1. CASE i \in 1..m /\ j \in 1..m
        BY <1>1, <1>6, <2>1 DEF IsInjective
    <2>2. CASE i \notin 1..m /\ j \notin 1..m
        <3>1. i - m \in 1..n /\ j - m \in 1..n /\ r[i - m] = r[j - m]
            BY <1>2, <2>2
        <3>2. i - m = j - m
            BY <1>1, <1>6, <3>1 DEF IsInjective
        <3> QED BY <1>1, <3>2
    <2>3. ASSUME NEW k \in 1..m, NEW l \in 1..(m + n), l \notin 1..m PROVE p[k] # p[l]
        <3>1. p[k] = q[k] /\ q[k] \in Range(q)
            BY <1>1 DEF Range
        <3>2. l - m \in 1..n /\ p[l] = r[l - m] /\ r[l - m] \in Range(r)
            BY <1>1, <1>2, <2>3 DEF Range
        <3> QED BY <1>6, <3>1, <3>2
    <2> QED BY <2>1, <2>2, <2>3
<1> QED BY <1>1, <1>5, <1>6 DEF p

LEMMA NoList == Range(<<>>) = {} /\ IsInjective(<<>>) /\ Len(<<>>) = 0
BY DEF Range, IsInjective

-----------------------------------------------------------------------------
(* What a step does to one future.                                         *)
LEMMA FutureTurns ==
    ASSUME Types, NEW f \in Future, NEW r \in FutureRecord, numSlots' = numSlots,
           fut' = [fut EXCEPT ![f] = r]
    PROVE  /\ fut' \in [Future -> FutureRecord] /\ FutureRecord' = FutureRecord
           /\ fut'[f] = r /\ \A g \in Future \ {f} : fut'[g] = fut[g]
BY DEF Types, FutureRecord, Slot

(* A future that keeps its part in the slots.                              *)
Quiet(e, r) ==
    /\ r.slot = e.slot /\ r.doorbell = e.doorbell
    /\ \A pc \in Holding \cup {"announced"} : r.pc = pc <=> e.pc = pc
    /\ e.pc # "new" => r.pc # "new"

(* No future takes a slot or gives one up, and the scanner stays where it  *)
(* is: the slots are conserved.                                            *)
QuietFutures == \A g \in Future : Quiet(fut[g], fut'[g])

LEMMA SamePlaces ==
    ASSUME QuietFutures
    PROVE  /\ Registrants' = Registrants /\ Claimed' = Claimed /\ Counted' = Counted
           /\ \A f \in Future : Registered(fut[f]) => Registered(fut'[f])
<1>1. Registrants' = Registrants
    BY DEF Registrants, QuietFutures, Quiet
<1>2. Claimed' = Claimed
    BY <1>1 DEF Claimed, Registrants, QuietFutures, Quiet
<1>3. Counted' = Counted
    BY DEF Counted, QuietFutures, Quiet, Holding
<1>4. \A f \in Future : Registered(fut[f]) => Registered(fut'[f])
    BY DEF Registered, QuietFutures, Quiet, Holding
<1> QED BY <1>1, <1>2, <1>3, <1>4

LEMMA QuietConserves ==
    ASSUME Conservation, QuietFutures,
           UNCHANGED <<numSlots, active, payload, free, armed, token>>,
           scan'.pc = scan.pc, scan'.todo = scan.todo, scan'.retired = scan.retired
    PROVE  Conservation'
<1>1. /\ Registrants' = Registrants /\ Claimed' = Claimed /\ Counted' = Counted
      /\ \A f \in Future : Registered(fut[f]) => Registered(fut'[f])
    BY SamePlaces
<1>2. \A f \in Future : /\ fut'[f].slot = fut[f].slot /\ fut'[f].doorbell = fut[f].doorbell
                        /\ fut[f].pc # "new" => fut'[f].pc # "new"
    BY DEF QuietFutures, Quiet
<1>3. Places'
    <2>1. Free' = Free /\ Retired' = Retired /\ Slot' = Slot
        BY DEF Free, Retired, Slot
    <2>2. Places
        BY DEF Conservation
    <2>3. \A f, g \in Registrants : fut'[f].slot = fut'[g].slot => f = g
        BY <1>2, <2>2 DEF Places, Registrants
    <2> QED BY <1>1, <2>1, <2>2, <2>3 DEF Places, Partition
<1>4. Payloads'
    BY <1>1, <1>2 DEF Conservation, Payloads, Counted
<1>5. Passes'
    BY DEF Conservation, Passes
<1>6. Counts'
    BY <1>1 DEF Conservation, Counts
<1>7. SleepsOnlyWhenIdle'
    BY <1>2 DEF Conservation, SleepsOnlyWhenIdle
<1> QED BY <1>3, <1>4, <1>5, <1>6, <1>7 DEF Conservation

LEMMA QuietTurn ==
    ASSUME Types, Conservation, NEW f \in Future, NEW r \in FutureRecord,
           fut' = [fut EXCEPT ![f] = r],
           fut[f].pc \notin Holding \cup {"announced"}, r.pc \notin Holding \cup {"announced"},
           r.slot = NoSlot, r.doorbell = FALSE, r.pc # "new",
           UNCHANGED <<numSlots, active, payload, free, armed, token, scan>>
    PROVE  Conservation'
<1>1. Registered(fut[f])
    BY DEF Conservation, Places
<1>2. fut[f] \in FutureRecord
    BY DEF Types
<1>3. Quiet(fut[f], r)
    <2>1. fut[f].slot = NoSlot
        BY <1>1 DEF Registered
    <2>2. fut[f].doorbell = FALSE
        BY <1>1, <1>2 DEF Registered, FutureRecord, Holding
    <2> QED BY <2>1, <2>2 DEF Quiet
<1>4. \A g \in Future : fut'[g] = fut[g] => Quiet(fut[g], fut'[g])
    BY DEF Quiet
<1>5. QuietFutures
    BY <1>3, <1>4, FutureTurns DEF QuietFutures
<1> QED BY <1>5, QuietConserves

-----------------------------------------------------------------------------
(* What a step does to the stream.  Once begun, a future stays begun.      *)
Begun == \A g \in Future : fut[g].pc # "new" => fut'[g].pc # "new"

(* Who begins to drain waits for all of the stream.                        *)
DrainsAll(n) ==
    device' = "ok" => \A g \in Future : fut'[g].pc = "draining" =>
        (fut[g].pc = "draining" /\ fut'[g].wait = fut[g].wait) \/ fut'[g].wait = n

(* The slots whose flag is still to be written are left alone.             *)
SameSlot(s) == flag'[s] = flag[s] /\ \A g \in Future : Holds(g, s)' <=> Holds(g, s)

FlaggedSame ==
    device' = "ok" => device = "ok" /\ \A s \in Slot :
        (\E i \in DOMAIN stream : stream[i].kind = "flag" /\ stream[i].of = s) => SameSlot(s)

DoneStays == \A g \in Future : Done(g) => Done(g)'

LEMMA ItemTypes ==
    ASSUME Types
    PROVE  /\ DOMAIN stream = 1..Len(stream) /\ Len(stream) \in Nat
           /\ \A i \in DOMAIN stream :
                  /\ stream[i].kind = "flag" => stream[i].of \in Slot
                  /\ stream[i].kind \in {"host", "work"} => stream[i].of \in Future
                  /\ stream[i].kind \in {"host", "work", "flag"}
<1>1. stream \in Seq(Item)
    BY DEF Types
<1>2. DOMAIN stream = 1..Len(stream) /\ Len(stream) \in Nat
      /\ \A i \in DOMAIN stream : stream[i] \in Item
    BY <1>1
<1> QED BY <1>2 DEF Item

LEMMA StreamSame ==
    ASSUME Types, Order, stream' = stream, Begun, DrainsAll(Len(stream)), FlaggedSame
    PROVE  Fresh' /\ Drainage' /\ Items' /\ DoneStays
<1>1. DOMAIN stream = 1..Len(stream) /\ Len(stream) \in Nat
    BY ItemTypes
<1>2. Fresh' /\ DoneStays
    BY DEF Order, Fresh, Begun, DoneStays, Done
<1>3. Drainage'
    BY <1>1 DEF Order, Drainage, DrainsAll, FlaggedSame
<1>4. \A f \in Future, i \in DOMAIN stream : After(f, i) => After(f, i)'
    BY DEF After, Begun
<1>5. \A i \in DOMAIN stream : HostItem(i)'
    BY <1>4, ItemTypes DEF Order, Items, HostItem
<1>6. ASSUME device' = "ok", NEW i \in DOMAIN stream, stream[i].kind = "flag"
      PROVE  FlagItem(i)'
    <2>1. PICK s \in Slot : s = stream[i].of
        BY <1>6, ItemTypes
    <2>2. SameSlot(s) /\ FlagItem(i)
        BY <1>6, <2>1 DEF Order, Items, FlaggedSame
    <2>3. stream'[i].of = s
        BY <2>1
    <2>4. flag'[s] = 0 /\ (\E f \in Future : Holds(f, s)')
          /\ (\A f \in Future : Holds(f, s)' => After(f, i)')
        BY <1>4, <1>6, <2>1, <2>2 DEF FlagItem, SameSlot
    <2>5. \A j \in DOMAIN stream : stream'[j] = stream'[i] => i = j
        BY <1>6, <2>2 DEF FlagItem
    <2> QED BY <2>3, <2>4, <2>5 DEF FlagItem
<1>7. \A i \in DOMAIN stream : stream[i].kind # "flag" => FlagItem(i)'
    BY DEF FlagItem
<1> QED BY <1>2, <1>3, <1>5, <1>6, <1>7 DEF Items

LEMMA StreamGrows ==
    ASSUME Types, Order, NEW w \in Item, stream' = Append(stream, w),
           Begun, DrainsAll(Len(stream) + 1), FlaggedSame,
           w.kind = "work" => fut[w.of].pc = "new" /\ fut'[w.of].pc # "new",
           w.kind = "host" => fut'[w.of].pc # "new",
           w.kind = "flag" => /\ flag'[w.of] = 0
                              /\ \E f \in Future : Holds(f, w.of)'
                              /\ \A f \in Future : Holds(f, w.of)' => fut'[f].pc # "new"
                              /\ \A j \in DOMAIN stream : stream[j] # w
    PROVE  Fresh' /\ Drainage' /\ Items' /\ DoneStays
<1> DEFINE n == Len(stream)
<1>1. /\ n \in Nat /\ DOMAIN stream = 1..n /\ DOMAIN stream' = 1..(n + 1)
      /\ stream'[n + 1] = w /\ \A i \in 1..n : stream'[i] = stream[i]
      /\ \A i \in 1..(n + 1) : i \in 1..n \/ i = n + 1
      /\ \A i \in 1..n : i \in 1..(n + 1) /\ i < n + 1
    <2>1. stream \in Seq(Item)
        BY DEF Types
    <2> QED BY <2>1
<1> HIDE DEF n
<1>2. \A f \in Future : fut[f].pc # "new" => w # WorkOf(f)
    BY DEF WorkOf
<1>3. Fresh' /\ DoneStays
    <2>1. ASSUME NEW f \in Future, fut'[f].pc = "new", NEW i \in DOMAIN stream'
          PROVE  stream'[i] # WorkOf(f)
        <3>1. fut[f].pc = "new"
            BY <2>1 DEF Begun
        <3>2. w # WorkOf(f)
            BY <2>1 DEF WorkOf
        <3>3. \A j \in 1..n : stream[j] # WorkOf(f)
            BY <1>1, <3>1 DEF Order, Fresh
        <3> QED BY <1>1, <3>2, <3>3
    <2>2. DoneStays
        BY <1>1, <1>2 DEF DoneStays, Done, Begun
    <2> QED BY <2>1, <2>2 DEF Fresh
<1>4. Drainage'
    <2> SUFFICES ASSUME device' = "ok", NEW f \in Future, fut'[f].pc = "draining",
                        NEW i \in DOMAIN stream', stream'[i] = WorkOf(f)
                 PROVE  i <= fut'[f].wait
        BY DEF Drainage
    <2>1. device = "ok"
        BY DEF FlaggedSame
    <2>2. CASE fut'[f].wait = n + 1
        BY <1>1, <2>2
    <2>3. CASE fut[f].pc = "draining" /\ fut'[f].wait = fut[f].wait
        <3>1. i \in 1..n /\ stream[i] = WorkOf(f)
            BY <1>1, <1>2, <2>3
        <3> QED BY <1>1, <2>1, <2>3, <3>1 DEF Order, Drainage
    <2> QED BY <2>2, <2>3 DEF DrainsAll, n
<1>5. \A f \in Future, i \in 1..n : After(f, i) => After(f, i)'
    BY <1>1, <1>2 DEF After, Begun
<1>6. \A f \in Future, i \in 1..(n + 1) : i = n + 1 /\ fut'[f].pc # "new" => After(f, i)'
    BY <1>1 DEF After
<1>7. ASSUME NEW i \in 1..(n + 1) PROVE HostItem(i)'
    <2>1. CASE i \in 1..n
        BY <1>1, <1>5, <2>1, ItemTypes DEF Order, Items, HostItem
    <2>2. CASE i = n + 1
        BY <1>1, <1>6, <2>2 DEF HostItem, Item
    <2> QED BY <1>1, <2>1, <2>2
<1>8. ASSUME device' = "ok", NEW i \in 1..(n + 1), stream'[i].kind = "flag"
      PROVE  FlagItem(i)'
    <2>1. CASE i \in 1..n
        <3> PICK s \in Slot : s = stream[i].of
            BY <1>1, <1>8, <2>1, ItemTypes
        <3>1. stream'[i] = stream[i] /\ SameSlot(s) /\ FlagItem(i)
            BY <1>1, <1>8, <2>1 DEF Order, Items, FlaggedSame
        <3>2. stream[i] # w
            BY <1>1, <1>8, <2>1, <3>1
        <3>3. \A j \in 1..(n + 1) : stream'[j] = stream[i] => i = j
            BY <1>1, <1>8, <2>1, <3>1, <3>2 DEF FlagItem
        <3>4. flag'[s] = 0 /\ (\E f \in Future : Holds(f, s)')
              /\ (\A f \in Future : Holds(f, s)' => After(f, i)')
            BY <1>1, <1>5, <1>8, <2>1, <3>1 DEF FlagItem, SameSlot
        <3>5. stream'[i].of = s
            BY <3>1
        <3> QED BY <1>1, <1>8, <3>1, <3>3, <3>4, <3>5 DEF FlagItem
    <2>2. CASE i = n + 1
        <3>1. stream'[i] = w /\ w.kind = "flag"
            BY <1>1, <1>8, <2>2
        <3>2. \A j \in 1..(n + 1) : stream'[j] = w => i = j
            BY <1>1, <2>2, <3>1
        <3>3. \A f \in Future : Holds(f, w.of)' => After(f, i)'
            BY <1>6, <2>2, <3>1
        <3> QED BY <1>1, <3>1, <3>2, <3>3 DEF FlagItem
    <2> QED BY <1>1, <2>1, <2>2
<1>9. \A i \in 1..(n + 1) : stream'[i].kind # "flag" => FlagItem(i)'
    BY DEF FlagItem
<1> QED BY <1>1, <1>3, <1>4, <1>7, <1>8, <1>9 DEF Items

LEMMA StreamShrinks ==
    ASSUME Types, Order, stream # <<>>, stream' = Tail(stream),
           device = "ok", device' = "ok",
           \A g \in Future :
               /\ fut'[g].pc = fut[g].pc
               /\ fut'[g].wait = IF fut[g].wait > 0 THEN fut[g].wait - 1 ELSE fut[g].wait,
           \A g \in Future, s \in Slot : Holds(g, s)' <=> Holds(g, s),
           \A s \in Slot : flag'[s] = flag[s] \/ stream[1] = [kind |-> "flag", of |-> s]
    PROVE  /\ Fresh' /\ Drainage' /\ Items' /\ DoneStays
           /\ \A f \in Future : After(f, 1) => Done(f)'
<1> DEFINE n == Len(stream)
<1>1. /\ n \in Nat /\ n > 0 /\ DOMAIN stream = 1..n /\ DOMAIN stream' = 1..(n - 1)
      /\ \A i \in 1..(n - 1) : i \in Nat /\ stream'[i] = stream[i + 1] /\ i + 1 \in 1..n
                               /\ i + 1 > 1
    <2>1. stream \in Seq(Item)
        BY DEF Types
    <2> QED BY <2>1
<1> HIDE DEF n
<1>2. Fresh' /\ DoneStays
    BY <1>1 DEF Order, Fresh, DoneStays, Done
<1>3. \A f \in Future : After(f, 1) => Done(f)'
    BY <1>1 DEF After, Done
<1>4. Drainage'
    <2> SUFFICES ASSUME NEW f \in Future, fut'[f].pc = "draining",
                        NEW i \in 1..(n - 1), stream'[i] = WorkOf(f)
                 PROVE  i <= fut'[f].wait
        BY <1>1 DEF Drainage
    <2>1. stream[i + 1] = WorkOf(f) /\ i + 1 \in 1..n /\ fut[f].pc = "draining"
        BY <1>1
    <2>2. i + 1 <= fut[f].wait
        BY <1>1, <2>1 DEF Order, Drainage
    <2>3. fut[f].wait \in Nat /\ i \in Nat
        BY <1>1 DEF Types, FutureRecord
    <2> QED BY <2>2, <2>3
<1>5. \A f \in Future, i \in 1..(n - 1) : After(f, i + 1) => After(f, i)'
    <2> SUFFICES ASSUME NEW f \in Future, NEW i \in 1..(n - 1), After(f, i + 1),
                        NEW j \in 1..(n - 1), j > i
                 PROVE  stream'[j] # WorkOf(f)
        BY <1>1 DEF After
    <2>1. j + 1 \in 1..n /\ j + 1 > i + 1 /\ stream'[j] = stream[j + 1]
        BY <1>1
    <2> QED BY <1>1, <2>1 DEF After
<1>6. ASSUME NEW i \in 1..(n - 1) PROVE HostItem(i)'
    <2>1. HostItem(i + 1) /\ stream'[i] = stream[i + 1]
        BY <1>1 DEF Order, Items
    <2> QED BY <1>1, <1>5, <2>1, ItemTypes DEF HostItem
<1>7. ASSUME NEW i \in 1..(n - 1), stream'[i].kind = "flag" PROVE FlagItem(i)'
    <2>1. /\ FlagItem(i + 1) /\ FlagItem(1) /\ stream'[i] = stream[i + 1]
          /\ i + 1 \in 1..n /\ i + 1 # 1 /\ 1 \in 1..n
        BY <1>1 DEF Order, Items
    <2>2. stream[i + 1].of \in Slot /\ stream[i + 1] \in Item /\ stream[i + 1].kind = "flag"
        <3>1. stream[i + 1] \in Item
            BY <1>1, <2>1 DEF Types
        <3> QED BY <1>1, <1>7, <2>1, <3>1, ItemTypes
    <2>3. PICK s \in Slot : s = stream[i + 1].of
        BY <2>2
    <2>4. stream[1] # stream[i + 1] /\ stream[i + 1] = [kind |-> "flag", of |-> s]
        BY <1>1, <2>1, <2>2, <2>3 DEF FlagItem, Item
    <2>5. flag'[s] = 0
        BY <2>1, <2>2, <2>3, <2>4 DEF FlagItem
    <2>6. \A f \in Future : Holds(f, s)' => After(f, i)'
        BY <1>5, <2>1, <2>2, <2>3 DEF FlagItem
    <2>7. \E f \in Future : Holds(f, s)'
        BY <2>1, <2>2, <2>3 DEF FlagItem
    <2>8. \A j \in 1..(n - 1) : stream'[j] = stream'[i] => i = j
        <3> SUFFICES ASSUME NEW j \in 1..(n - 1), stream'[j] = stream'[i] PROVE i = j
            OBVIOUS
        <3>1. j + 1 \in 1..n /\ stream[j + 1] = stream[i + 1]
            BY <1>1
        <3>2. i + 1 = j + 1
            BY <1>1, <2>1, <2>2, <3>1 DEF FlagItem
        <3> QED BY <1>1, <3>2
    <2>9. stream'[i].of = s
        BY <2>1, <2>3
    <2> QED BY <1>1, <2>5, <2>6, <2>7, <2>8, <2>9 DEF FlagItem
<1>8. \A i \in 1..(n - 1) : stream'[i].kind # "flag" => FlagItem(i)'
    BY DEF FlagItem
<1> QED BY <1>1, <1>2, <1>3, <1>4, <1>6, <1>7, <1>8 DEF Items

-----------------------------------------------------------------------------
(* A future that has no part in the slots, before or after, goes on.       *)
QuietChange(f, r) ==
    /\ fut' = [fut EXCEPT ![f] = r]
    /\ fut[f].pc \notin Holding \cup {"announced"}
    /\ r.pc \notin Holding \cup {"announced", "new"}
    /\ r.slot = NoSlot /\ r.doorbell = FALSE /\ (r.complete => fut[f].complete)
    /\ UNCHANGED <<table, scan, token, world>>

LEMMA QuietTruth ==
    ASSUME Types, Truth, NEW f \in Future, NEW r \in FutureRecord, QuietChange(f, r),
           DoneStays, r.pc = "over" => Done(f)'
    PROVE  Truth'
<1>1. /\ fut' \in [Future -> FutureRecord] /\ fut'[f] = r
      /\ \A g \in Future \ {f} : fut'[g] = fut[g]
    BY FutureTurns DEF QuietChange, table
<1>2. UNCHANGED <<flag, active, payload, scan>> /\ Slot' = Slot
    BY DEF QuietChange, table, Slot
<1> SUFFICES ASSUME NEW g \in Future, Told(g)' PROVE Done(g)'
    BY DEF Truth
<1>3. CASE g # f
    <2>1. fut'[g] = fut[g]
        BY <1>1, <1>3
    <2>2. Told(g)
        BY <1>2, <2>1 DEF Told, Holds
    <2> QED BY <2>2 DEF Truth, DoneStays
<1>4. CASE g = f
    <2>1. r.pc \notin {"armed", "counted"} /\ (r.complete => fut[f].complete)
        BY DEF QuietChange, Holding
    <2>2. Told(f) \/ r.pc = "over"
        BY <1>1, <1>2, <1>4, <2>1 DEF Told, Holds
    <2> QED BY <1>4, <2>2 DEF Truth, DoneStays
<1> QED BY <1>3, <1>4

(* What a quiet change leaves alone.                                       *)
LEMMA QuietRest ==
    ASSUME IInv, NEW f \in Future, NEW r \in FutureRecord, QuietChange(f, r),
           stream' \in Seq(Item), r.pc = "draining" /\ device = "ok" => r.wait = Len(stream')
    PROVE  /\ Types' /\ Conservation' /\ Cleared' /\ Begun
           /\ FlaggedSame /\ DrainsAll(Len(stream')) /\ fut'[f] = r
<1>1. Types /\ Conservation /\ Cleared
    BY DEF IInv, Order
<1>2. /\ fut' \in [Future -> FutureRecord] /\ FutureRecord' = FutureRecord /\ fut'[f] = r
      /\ \A g \in Future \ {f} : fut'[g] = fut[g]
    BY <1>1, FutureTurns DEF QuietChange, table
<1>3. UNCHANGED <<numSlots, flag, active, payload, free, armed, scan, token, device, aborted>>
      /\ Slot' = Slot
    BY DEF QuietChange, table, world, Slot
<1>4. Types'
    <2>1. Item' = Item /\ ScanRecord' = ScanRecord
        BY <1>3 DEF Item, ScanRecord
    <2> QED BY <1>1, <1>2, <1>3, <2>1 DEF Types
<1>5. Conservation'
    BY <1>1, <1>3, QuietTurn DEF QuietChange
<1>6. r.pc \notin {"claimed", "armed", "counted", "new"} /\ r.slot = NoSlot
      /\ fut[f].pc \notin {"claimed", "armed", "counted"}
    BY DEF QuietChange, Holding
<1>7. Cleared'
    BY <1>1, <1>2, <1>3, <1>6 DEF Cleared
<1>8. Begun
    BY <1>2, <1>6 DEF Begun
<1>9. \A g \in Future, s \in Slot : Holds(g, s)' <=> Holds(g, s)
    BY <1>2, <1>3, <1>6 DEF Holds
<1>10. FlaggedSame
    BY <1>1, <1>3, <1>9, ItemTypes DEF FlaggedSame, SameSlot
<1>11. DrainsAll(Len(stream'))
    BY <1>2, <1>3 DEF DrainsAll
<1> QED BY <1>2, <1>4, <1>5, <1>7, <1>8, <1>10, <1>11

LEMMA QuietSame ==
    ASSUME IInv, NEW f \in Future, NEW r \in FutureRecord, QuietChange(f, r),
           stream' = stream, r.pc = "draining" /\ device = "ok" => r.wait = Len(stream),
           r.pc = "over" => \A i \in DOMAIN stream : stream[i] # WorkOf(f)
    PROVE  IInv'
<1>1. Types /\ Order /\ Truth
    BY DEF IInv
<1>2. /\ Types' /\ Conservation' /\ Cleared' /\ Begun
      /\ FlaggedSame /\ DrainsAll(Len(stream)) /\ fut'[f] = r
    BY <1>1, QuietRest DEF Types
<1>3. Fresh' /\ Drainage' /\ Items' /\ DoneStays
    BY <1>1, <1>2, StreamSame
<1>4. r.pc = "over" => Done(f)'
    BY <1>2 DEF Done
<1>5. Truth'
    BY <1>1, <1>3, <1>4, QuietTruth
<1> QED BY <1>2, <1>3, <1>5 DEF IInv, Order

LEMMA QuietGrows ==
    ASSUME IInv, NEW f \in Future, NEW r \in FutureRecord, QuietChange(f, r),
           NEW kind \in {"work", "host"}, kind = "work" => fut[f].pc = "new",
           stream' = Append(stream, [kind |-> kind, of |-> f]),
           r.pc = "draining" => r.wait = Len(stream'), r.pc # "over"
    PROVE  IInv'
<1>1. Types /\ Order /\ Truth
    BY DEF IInv
<1> DEFINE w == [kind |-> kind, of |-> f]
<1>2. w \in Item /\ w.kind = kind /\ w.of = f
    BY DEF Item
<1>3. stream' = Append(stream, w) /\ stream' \in Seq(Item) /\ Len(stream') = Len(stream) + 1
    BY <1>1, <1>2 DEF Types
<1> HIDE DEF w
<1>4. /\ Types' /\ Conservation' /\ Cleared' /\ Begun
      /\ FlaggedSame /\ DrainsAll(Len(stream) + 1) /\ fut'[f] = r
    BY <1>3, QuietRest
<1>5. r.pc # "new"
    BY DEF QuietChange
<1>6. Fresh' /\ Drainage' /\ Items' /\ DoneStays
    BY <1>1, <1>2, <1>3, <1>4, <1>5, StreamGrows
<1>7. Truth'
    BY <1>1, <1>6, QuietTruth
<1> QED BY <1>4, <1>6, <1>7 DEF IInv, Order

-----------------------------------------------------------------------------
(* What Becomes, Ends and Drains make of a future.                         *)
Updated(f, fields) ==
    [k \in DOMAIN NewFuture |-> IF k \in DOMAIN fields THEN fields[k] ELSE fut[f][k]]

Ended == [NewFuture EXCEPT !.pc = "over"]

Draining(n) == [NewFuture EXCEPT !.pc = "draining", !.wait = IF device = "ok" THEN n ELSE 0]

LEMMA Resting ==
    ASSUME IInv, NEW f \in Future
    PROVE  /\ fut[f] \in FutureRecord /\ stream \in Seq(Item) /\ Len(stream) \in Nat
           /\ fut[f].pc \notin Holding => fut[f].slot = NoSlot
           /\ fut[f].pc \notin Holding \cup {"announced"} => fut[f].doorbell = FALSE
<1>1. fut[f] \in FutureRecord /\ stream \in Seq(Item) /\ Len(stream) \in Nat
    BY DEF IInv, Types
<1>2. Registered(fut[f])
    BY DEF IInv, Conservation, Places
<1>3. fut[f].pc \notin Holding => fut[f].slot = NoSlot
    BY <1>2 DEF Registered
<1>4. fut[f].pc \notin Holding \cup {"announced"} => fut[f].doorbell = FALSE
    BY <1>1, <1>2 DEF Registered, FutureRecord, Holding
<1> QED BY <1>1, <1>3, <1>4

LEMMA QuietEnd ==
    ASSUME IInv, NEW f \in Future, Ends(f), fut[f].pc \notin Holding \cup {"announced"},
           UNCHANGED <<stream, table, scan, token, world>>,
           \A i \in DOMAIN stream : stream[i] # WorkOf(f)
    PROVE  IInv'
<1>1. /\ Ended \in FutureRecord /\ Ended.pc = "over" /\ Ended.slot = NoSlot
      /\ Ended.doorbell = FALSE /\ Ended.complete = FALSE
    BY DEF Ended, NewFuture, FutureRecord, PC, Task, NoSlot
<1>2. QuietChange(f, Ended)
    BY <1>1 DEF QuietChange, Ends, Ended, Holding
<1> QED BY <1>1, <1>2, QuietSame

LEMMA QuietDrain ==
    ASSUME IInv, NEW f \in Future, Drains(f, stream), fut[f].pc \notin Holding \cup {"announced"},
           UNCHANGED <<stream, table, scan, token, world>>
    PROVE  IInv'
<1> DEFINE r == Draining(Len(stream))
<1>1. Len(stream) \in Nat
    BY Resting
<1>2. /\ r \in FutureRecord /\ r.pc = "draining" /\ r.slot = NoSlot
      /\ r.doorbell = FALSE /\ r.complete = FALSE /\ (device = "ok" => r.wait = Len(stream))
    BY <1>1 DEF Draining, NewFuture, FutureRecord, PC, Task, NoSlot
<1>3. fut' = [fut EXCEPT ![f] = r]
    BY DEF Drains, Draining
<1> HIDE DEF r
<1>4. QuietChange(f, r)
    BY <1>2, <1>3 DEF QuietChange, Holding
<1> QED BY <1>2, <1>4, QuietSame

(* A future that goes on without a slot.                                   *)
LEMMA QuietUpdate ==
    ASSUME IInv, NEW f \in Future, NEW fields, Becomes(f, fields),
           fut[f].pc \notin Holding \cup {"announced"},
           UNCHANGED <<stream, table, scan, token, world>>,
           Updated(f, fields) \in FutureRecord,
           Updated(f, fields).pc \in {"submitted", "slotless", "pending", "probed", "rewaked"},
           Updated(f, fields).slot = fut[f].slot,
           Updated(f, fields).doorbell = fut[f].doorbell,
           Updated(f, fields).complete = fut[f].complete
    PROVE  IInv'
<1> DEFINE r == Updated(f, fields)
<1>1. fut' = [fut EXCEPT ![f] = r]
    BY DEF Becomes, Updated
<1>2. /\ r \in FutureRecord
      /\ r.pc \in {"submitted", "slotless", "pending", "probed", "rewaked"}
      /\ r.slot = NoSlot /\ r.doorbell = FALSE /\ r.complete = fut[f].complete
    BY Resting
<1> HIDE DEF r
<1>3. QuietChange(f, r) /\ r.pc \notin {"over", "draining"}
    BY <1>1, <1>2 DEF QuietChange, Holding
<1> QED BY <1>2, <1>3, QuietSame

-----------------------------------------------------------------------------
LEMMA SpinSeesKeeps ==
    ASSUME IInv, NEW f \in Future, SpinSees(f)
    PROVE  IInv'
<1>1. fut[f].pc \notin Holding \cup {"announced"}
    BY DEF SpinSees, Holding
<1>2. CASE stream = <<>> /\ Ends(f)
    BY <1>1, <1>2, QuietEnd DEF SpinSees
<1>3. CASE Drains(f, stream)
    BY <1>1, <1>3, QuietDrain DEF SpinSees
<1> QED BY <1>2, <1>3 DEF SpinSees

LEMMA CompleteIsDone ==
    ASSUME IInv, NEW f \in Future, fut[f].complete
    PROVE  \A i \in DOMAIN stream : stream[i] # WorkOf(f)
BY DEF IInv, Truth, Told, Done

LEMMA PollKeeps ==
    ASSUME IInv, NEW f \in Future, Poll(f)
    PROVE  IInv'
<1>1. fut[f].pc \notin Holding \cup {"announced"} /\ fut[f].complete \in BOOLEAN
    BY Resting DEF Poll, Holding, FutureRecord
<1>2. UNCHANGED <<stream, table, scan, token, world>>
    BY DEF Poll
<1>3. CASE fut[f].complete /\ Ends(f)
    BY <1>1, <1>2, <1>3, CompleteIsDone, QuietEnd
<1>4. CASE stream = <<>> /\ Ends(f)
    BY <1>1, <1>2, <1>4, QuietEnd
<1>5. CASE Drains(f, stream)
    BY <1>1, <1>2, <1>5, QuietDrain
<1> DEFINE probed == [pc |-> "probed", woken |-> FALSE]
<1>6. CASE Becomes(f, probed)
    <2>1. fut[f] \in FutureRecord
        BY Resting
    <2>2. /\ Updated(f, probed) \in FutureRecord
          /\ Updated(f, probed).pc = "probed"
          /\ Updated(f, probed).slot = fut[f].slot
          /\ Updated(f, probed).doorbell = fut[f].doorbell
          /\ Updated(f, probed).complete = fut[f].complete
        BY <2>1 DEF Updated, NewFuture, FutureRecord, PC
    <2> QED BY <1>1, <1>2, <1>6, <2>2, QuietUpdate
<1> QED BY <1>1, <1>3, <1>4, <1>5, <1>6 DEF Poll

LEMMA RegisterWakerKeeps ==
    ASSUME IInv, NEW f \in Future, RegisterWaker(f)
    PROVE  IInv'
<1> DEFINE rewaked == [pc |-> "rewaked", waker |-> fut[f].owner]
<1>1. /\ fut[f] \in FutureRecord /\ fut[f].pc \notin Holding \cup {"announced"}
      /\ UNCHANGED <<stream, table, scan, token, world>> /\ Becomes(f, rewaked)
    BY Resting DEF RegisterWaker, Holding
<1>2. /\ Updated(f, rewaked) \in FutureRecord
      /\ Updated(f, rewaked).pc = "rewaked"
      /\ Updated(f, rewaked).slot = fut[f].slot
      /\ Updated(f, rewaked).doorbell = fut[f].doorbell
      /\ Updated(f, rewaked).complete = fut[f].complete
    BY <1>1 DEF Updated, NewFuture, FutureRecord, PC
<1> QED BY <1>1, <1>2, QuietUpdate

LEMMA RecheckKeeps ==
    ASSUME IInv, NEW f \in Future, Recheck(f)
    PROVE  IInv'
<1> DEFINE pending == [pc |-> "pending"]
<1>1. /\ fut[f] \in FutureRecord /\ fut[f].pc \notin Holding \cup {"announced"}
      /\ UNCHANGED <<stream, table, scan, token, world>>
    BY Resting DEF Recheck, Holding
<1>2. CASE fut[f].complete
    BY <1>1, <1>2, CompleteIsDone, QuietEnd DEF Recheck
<1>3. CASE ~fut[f].complete
    <2>1. /\ Updated(f, pending) \in FutureRecord
          /\ Updated(f, pending).pc = "pending"
          /\ Updated(f, pending).slot = fut[f].slot
          /\ Updated(f, pending).doorbell = fut[f].doorbell
          /\ Updated(f, pending).complete = fut[f].complete
        BY <1>1 DEF Updated, NewFuture, FutureRecord, PC
    <2>2. Becomes(f, pending)
        BY <1>3 DEF Recheck
    <2> QED BY <1>1, <2>1, <2>2, QuietUpdate
<1> QED BY <1>2, <1>3

LEMMA MoveKeeps ==
    ASSUME IInv, NEW f \in Future, Move(f)
    PROVE  IInv'
<1> DEFINE moved == [owner |-> "second", woken |-> TRUE]
<1>1. /\ fut[f] \in FutureRecord /\ fut[f].pc = "pending"
      /\ UNCHANGED <<stream, table, scan, token, world>> /\ Becomes(f, moved)
    BY Resting DEF Move
<1>2. /\ Updated(f, moved) \in FutureRecord
      /\ Updated(f, moved).pc = "pending"
      /\ Updated(f, moved).slot = fut[f].slot
      /\ Updated(f, moved).doorbell = fut[f].doorbell
      /\ Updated(f, moved).complete = fut[f].complete
    BY <1>1 DEF Updated, NewFuture, FutureRecord, PC, Task
<1> QED BY <1>1, <1>2, QuietUpdate DEF Holding

LEMMA DropKeeps ==
    ASSUME IInv, NEW f \in Future, Drop(f)
    PROVE  IInv'
<1>1. /\ fut[f].pc \notin Holding \cup {"announced"}
      /\ UNCHANGED <<stream, table, scan, token, world>>
    BY DEF Drop, Droppable, Holding
<1>2. CASE fut[f].pc = "new"
    <2>1. \A i \in DOMAIN stream : stream[i] # WorkOf(f)
        BY <1>2 DEF IInv, Order, Fresh
    <2> QED BY <1>1, <1>2, <2>1, QuietEnd DEF Drop
<1>3. CASE fut[f].pc # "new"
    BY <1>1, <1>3, QuietDrain DEF Drop
<1> QED BY <1>2, <1>3

(* A future that has drained the stream has no work left in it.            *)
LEMMA DrainedKeeps ==
    ASSUME IInv, NEW f \in Future, Drained(f)
    PROVE  IInv'
<1>1. /\ fut[f].pc \notin Holding \cup {"announced"} /\ Ends(f)
      /\ UNCHANGED <<stream, table, scan, token, world>>
    BY DEF Drained, Holding
<1>2. \A i \in DOMAIN stream : stream[i] = WorkOf(f) => i <= 0
    BY DEF Drained, IInv, Order, Drainage
<1>3. \A i \in DOMAIN stream : i > 0 /\ i \in Nat
    BY Resting
<1>4. \A i \in DOMAIN stream : stream[i] # WorkOf(f)
    BY <1>2, <1>3
<1> QED BY <1>1, <1>4, QuietEnd

LEMMA HostFunctionKeeps ==
    ASSUME IInv, NEW f \in Future, HostFunction(f)
    PROVE  IInv'
<1> DEFINE pending == [pc |-> "pending"]
           r == Updated(f, pending)
<1>1. /\ fut[f] \in FutureRecord /\ fut[f].pc \notin Holding \cup {"announced", "new"}
      /\ UNCHANGED <<table, scan, token, world>>
    BY Resting DEF HostFunction, Holding
<1>2. CASE Drains(f, stream) /\ UNCHANGED stream
    BY <1>1, <1>2, QuietDrain
<1>3. CASE stream' = Append(stream, [kind |-> "host", of |-> f]) /\ Becomes(f, pending)
    <2>1. /\ r \in FutureRecord /\ r.pc = "pending" /\ r.slot = fut[f].slot
          /\ r.doorbell = fut[f].doorbell /\ r.complete = fut[f].complete
        BY <1>1 DEF Updated, NewFuture, FutureRecord, PC
    <2>2. fut' = [fut EXCEPT ![f] = r]
        BY <1>3 DEF Becomes, Updated
    <2> HIDE DEF r
    <2>3. QuietChange(f, r)
        BY <1>1, <2>1, <2>2, Resting DEF QuietChange, Holding
    <2> QED BY <1>3, <2>1, <2>3, QuietGrows
<1> QED BY <1>1, <1>2, <1>3 DEF HostFunction

(* An execute that fails after it submitted something waits for that too.  *)
LEMMA FirstPollKeeps ==
    ASSUME IInv, NEW f \in Future, NEW good \in BOOLEAN, NEW submits \in BOOLEAN,
           FirstPoll(f, good, submits)
    PROVE  IInv'
<1> DEFINE submitted == [pc |-> "submitted", waker |-> fut[f].owner]
           r == IF good THEN Updated(f, submitted) ELSE Draining(Len(stream'))
<1>1. /\ fut[f] \in FutureRecord /\ fut[f].pc = "new"
      /\ UNCHANGED <<table, scan, token, world>>
    BY Resting DEF FirstPoll
<1>2. fut[f].slot = NoSlot /\ fut[f].doorbell = FALSE
    BY <1>1, Resting DEF Holding
<1>3. stream \in Seq(Item) /\ Len(stream) \in Nat /\ [kind |-> "work", of |-> f] \in Item
    BY Resting DEF Item
<1>4. stream' = (IF submits THEN Append(stream, [kind |-> "work", of |-> f]) ELSE stream)
    BY DEF FirstPoll
<1>5. stream' \in Seq(Item) /\ Len(stream') \in Nat
    BY <1>3, <1>4
<1>6. fut' = [fut EXCEPT ![f] = r]
    BY DEF FirstPoll, Becomes, Updated, Drains, Draining
<1>7. /\ r \in FutureRecord /\ r.pc \in {"submitted", "draining"} /\ r.slot = NoSlot
      /\ r.doorbell = FALSE /\ (r.complete => fut[f].complete)
    <2>1. CASE good
        BY <1>1, <1>2, <2>1 DEF Updated, NewFuture, FutureRecord, PC
    <2>2. CASE ~good
        BY <1>5, <2>2 DEF Draining, NewFuture, FutureRecord, PC, Task, NoSlot
    <2> QED BY <2>1, <2>2
<1>8. r.pc = "draining" /\ device = "ok" => r.wait = Len(stream')
    <2>1. CASE good
        BY <1>1, <2>1 DEF Updated, NewFuture
    <2>2. CASE ~good
        BY <2>2 DEF Draining, NewFuture
    <2> QED BY <2>1, <2>2
<1>9. (good => submits) /\ (submits => device = "ok")
    BY DEF FirstPoll
<1> HIDE DEF r
<1>10. QuietChange(f, r) /\ r.pc # "over"
    BY <1>1, <1>6, <1>7 DEF QuietChange, Holding
<1>11. CASE submits
    BY <1>1, <1>4, <1>7, <1>8, <1>9, <1>10, <1>11, QuietGrows
<1>12. CASE ~submits
    BY <1>4, <1>7, <1>8, <1>10, <1>12, QuietSame
<1> QED BY <1>11, <1>12

-----------------------------------------------------------------------------
(* The steps by which a future takes a slot and publishes it.              *)
LEMMA TurnTypes ==
    ASSUME Types, NEW f \in Future, NEW r \in FutureRecord, fut' = [fut EXCEPT ![f] = r],
           UNCHANGED <<numSlots, scan, world>>,
           stream' \in Seq(Item), flag' \in [Slot -> {0, 1}], active' \in SUBSET Slot,
           payload' \in [Slot -> Future \cup {NoFuture}], free' \in Seq(Slot),
           armed' \in Nat, token' \in BOOLEAN
    PROVE  Types'
<1>1. fut' \in [Future -> FutureRecord] /\ FutureRecord' = FutureRecord
    BY FutureTurns
<1>2. Slot' = Slot /\ Item' = Item /\ ScanRecord' = ScanRecord
    BY DEF Slot, Item, ScanRecord
<1> QED BY <1>1, <1>2 DEF Types, world

(* The order of the stream, when who holds which slot stays the same and   *)
(* no flag that matters changes.                                           *)
LEMMA HoldersStay ==
    ASSUME Types, Places, Order, Truth, NEW f \in Future, NEW r \in FutureRecord,
           fut' = [fut EXCEPT ![f] = r], UNCHANGED <<numSlots, stream, scan, world>>,
           r.pc \notin {"new", "over", "draining"}, r.complete = fut[f].complete,
           r.pc = "claimed" => flag'[r.slot] = 0,
           \A g \in Future, s \in Slot : Holds(g, s)' <=> Holds(g, s),
           \A s \in Slot : flag'[s] = flag[s]
                           \/ (flag'[s] = 0 /\ \A g \in Future : ~Holds(g, s))
    PROVE  Order' /\ Truth'
<1>1. /\ fut' \in [Future -> FutureRecord] /\ fut'[f] = r
      /\ \A g \in Future \ {f} : fut'[g] = fut[g]
    BY FutureTurns
<1>2. Begun /\ DrainsAll(Len(stream))
    BY <1>1 DEF Begun, DrainsAll
<1>3. \A g \in Future : fut[g] \in FutureRecord
    BY DEF Types
<1>4. Cleared'
    <2> SUFFICES ASSUME NEW g \in Future, fut'[g].pc = "claimed" PROVE flag'[fut'[g].slot] = 0
        BY DEF Cleared
    <2>1. CASE g = f
        BY <1>1, <2>1
    <2>2. CASE g # f
        <3>1. fut'[g] = fut[g] /\ flag[fut[g].slot] = 0
            BY <1>1, <2>2 DEF Order, Cleared
        <3>2. Registered(fut[g]) /\ fut[g].pc \in Holding
            BY <2>2, <3>1 DEF Places, Holding
        <3>3. fut[g].slot \in Slot
            BY <1>3, <3>2 DEF Registered, FutureRecord
        <3> QED BY <3>1, <3>3
    <2> QED BY <2>1, <2>2
<1>5. FlaggedSame
    <2> SUFFICES ASSUME device' = "ok", NEW s \in Slot, NEW i \in DOMAIN stream,
                        stream[i].kind = "flag", stream[i].of = s
                 PROVE  SameSlot(s)
        BY DEF FlaggedSame, world
    <2>1. FlagItem(i)
        BY DEF Order, Items, world
    <2>2. \E g \in Future : Holds(g, s)
        BY <2>1 DEF FlagItem
    <2> QED BY <2>2 DEF SameSlot
<1>6. Fresh' /\ Drainage' /\ Items' /\ DoneStays
    BY <1>2, <1>5, StreamSame
<1>7. \A g \in Future : fut'[g].complete = fut[g].complete
                        /\ (fut'[g].pc = "over" => fut[g].pc = "over")
    BY <1>1
<1>8. Slot' = Slot
    BY DEF Slot
<1>9. Truth'
    <2> SUFFICES ASSUME NEW g \in Future, Told(g)' PROVE Told(g)
        BY <1>6 DEF Truth, DoneStays
    <2>1. CASE fut'[g].complete \/ fut'[g].pc = "over"
        BY <1>7, <2>1 DEF Told
    <2>2. CASE \E i \in DOMAIN scan.woken : scan.woken[i] = <<"complete", g>>
        BY <2>2 DEF Told
    <2>3. ASSUME NEW s \in Slot, Holds(g, s)', flag'[s] = 1 PROVE Told(g)
        BY <2>3 DEF Told
    <2> QED BY <1>8, <2>1, <2>2, <2>3 DEF Told
<1> QED BY <1>4, <1>6, <1>9 DEF Order

(* Where the slots of a registrant and of the free list are.               *)
LEMMA HeldSlot ==
    ASSUME Types, Places, NEW f \in Future, fut[f].pc \in Holding
    PROVE  /\ fut[f].slot \in Slot /\ f \in Registrants /\ fut[f].slot \in Claimed
           /\ fut[f].slot \notin Free \cup active \cup Retired
           /\ \A g \in Future : fut[g].slot = fut[f].slot => g = f
           /\ \A g \in Future : Holds(g, fut[f].slot) => g = f /\ fut[f].pc # "claimed"
<1>1. fut[f] \in FutureRecord /\ fut[f].slot # NoSlot
    BY DEF Types, Places, Registered
<1>2. fut[f].slot \in Slot /\ f \in Registrants /\ fut[f].slot \in Claimed
    BY <1>1 DEF FutureRecord, Registrants, Claimed
<1>3. fut[f].slot \notin Free \cup active \cup Retired
    BY <1>2 DEF Places, Partition
<1>4. \A g \in Future : fut[g].slot = fut[f].slot => g = f
    BY <1>1, <1>2 DEF Places, Registrants
<1>5. \A g \in Future : Holds(g, fut[f].slot) => g = f /\ fut[f].pc # "claimed"
    BY <1>3, <1>4 DEF Holds
<1> QED BY <1>2, <1>3, <1>4, <1>5

LEMMA FreeSlot ==
    ASSUME Types, Places, NEW s \in Free \cup Retired
    PROVE  s \in Slot /\ s \notin Claimed \cup active /\ \A g \in Future : ~Holds(g, s)
<1>1. s \in Slot /\ s \notin Claimed \cup active
    BY DEF Places, Partition
<1>2. \A g \in Future : Registered(fut[g])
    BY DEF Places
<1>3. ASSUME NEW g \in Future, fut[g].pc \in {"armed", "counted"} PROVE fut[g].slot # s
    <2>1. fut[g].slot \in Claimed
        BY <1>3, HeldSlot DEF Holding
    <2> QED BY <1>1, <2>1
<1> QED BY <1>1, <1>3 DEF Holds

(* Who is registered, when one future changes.                             *)
LEMMA TurnRegisters ==
    ASSUME Types, NEW f \in Future, NEW r \in FutureRecord, fut' = [fut EXCEPT ![f] = r],
           numSlots' = numSlots
    PROVE  /\ Registrants' = IF r.slot = NoSlot THEN Registrants \ {f}
                             ELSE Registrants \cup {f}
           /\ Counted' = IF r.pc = "counted" THEN Counted \cup {f} ELSE Counted \ {f}
           /\ NoSlot' = NoSlot
<1>1. /\ fut'[f] = r /\ \A g \in Future \ {f} : fut'[g] = fut[g]
    BY FutureTurns
<1> QED BY <1>1 DEF Registrants, Counted, NoSlot

LEMMA TurnClaims ==
    ASSUME Types, Places, NEW f \in Future, NEW r \in FutureRecord,
           fut' = [fut EXCEPT ![f] = r], numSlots' = numSlots, Registered(r),
           r.slot # NoSlot => r.slot = fut[f].slot \/ (fut[f].slot = NoSlot /\ r.slot \notin Claimed)
    PROVE  /\ \A g \in Future : Registered(fut'[g])
           /\ \A g, h \in Registrants' : fut'[g].slot = fut'[h].slot => g = h
           /\ Claimed' = (Claimed \ {fut[f].slot}) \cup ({r.slot} \ {NoSlot})
<1>1. /\ fut'[f] = r /\ \A g \in Future \ {f} : fut'[g] = fut[g]
    BY FutureTurns
<1>2. \A g \in Future : Registered(fut'[g])
    BY <1>1 DEF Places
<1>3. \A g, h \in Registrants : fut[g].slot = fut[h].slot => g = h
    BY DEF Places
<1>4. \A g \in Future \ {f} : /\ g \in Registrants' <=> g \in Registrants
                              /\ g \in Registrants => fut[g].slot \in Claimed
    BY <1>1 DEF Registrants, Claimed, NoSlot
<1>5. f \in Registrants' <=> r.slot # NoSlot
    BY <1>1 DEF Registrants, NoSlot
<1>6. f \in Registrants <=> fut[f].slot # NoSlot
    BY DEF Registrants
<1>7. \A g \in Registrants' \ {f} : r.slot # NoSlot => fut'[g].slot # r.slot
    <2> SUFFICES ASSUME NEW g \in Registrants', g # f, r.slot # NoSlot, fut'[g].slot = r.slot
                 PROVE  FALSE
        OBVIOUS
    <2>1. g \in Future /\ fut'[g] = fut[g] /\ g \in Registrants /\ fut[g].slot \in Claimed
        BY <1>1, <1>4 DEF Registrants
    <2>2. fut[f].slot = fut[g].slot /\ f \in Registrants
        BY <1>6, <2>1
    <2> QED BY <1>3, <2>1, <2>2
<1>8. \A g, h \in Registrants' : fut'[g].slot = fut'[h].slot => g = h
    <2> SUFFICES ASSUME NEW g \in Registrants', NEW h \in Registrants', fut'[g].slot = fut'[h].slot
                 PROVE  g = h
        OBVIOUS
    <2>1. g \in Future /\ h \in Future
        BY DEF Registrants
    <2>2. CASE g # f /\ h # f
        BY <1>1, <1>3, <1>4, <2>1, <2>2
    <2>3. CASE g = f /\ h # f
        BY <1>1, <1>5, <1>7, <2>3
    <2>4. CASE g # f /\ h = f
        BY <1>1, <1>5, <1>7, <2>4
    <2> QED BY <2>2, <2>3, <2>4
<1>9. Claimed' = (Claimed \ {fut[f].slot}) \cup ({r.slot} \ {NoSlot})
    <2>1. ASSUME NEW s \in Claimed' PROVE s \in (Claimed \ {fut[f].slot}) \cup ({r.slot} \ {NoSlot})
        <3>1. PICK g \in Registrants' : s = fut'[g].slot
            BY <2>1 DEF Claimed
        <3>2. g \in Future
            BY DEF Registrants
        <3>3. CASE g = f
            BY <1>1, <1>5, <3>1, <3>3
        <3>4. CASE g # f
            <4>1. g \in Registrants /\ s = fut[g].slot /\ s \in Claimed
                BY <1>1, <1>4, <3>1, <3>2, <3>4
            <4>2. s # NoSlot
                BY <4>1 DEF Registrants
            <4>3. s # fut[f].slot
                BY <1>3, <1>6, <3>4, <4>1, <4>2
            <4> QED BY <4>1, <4>3
        <3> QED BY <3>3, <3>4
    <2>2. ASSUME NEW s \in Claimed, s # fut[f].slot PROVE s \in Claimed'
        <3>1. PICK g \in Registrants : s = fut[g].slot
            BY <2>2 DEF Claimed
        <3>2. g \in Future /\ g # f
            BY <2>2, <3>1 DEF Registrants
        <3> QED BY <1>1, <1>4, <3>1, <3>2 DEF Claimed
    <2>3. r.slot # NoSlot => r.slot \in Claimed'
        BY <1>1, <1>5 DEF Claimed
    <2> QED BY <2>1, <2>2, <2>3
<1> QED BY <1>2, <1>8, <1>9

LEMMA ClaimKeeps ==
    ASSUME IInv, NEW f \in Future, Claim(f)
    PROVE  IInv'
<1> DEFINE s == Last(free)
           r == Updated(f, [pc |-> "claimed", slot |-> s])
<1>1. Types /\ Conservation /\ Places /\ Order /\ Truth
    BY DEF IInv, Conservation
<1>2. /\ fut[f].pc = "submitted" /\ free # <<>> /\ free' = Front(free)
      /\ flag' = [flag EXCEPT ![s] = 0] /\ fut' = [fut EXCEPT ![f] = r]
      /\ UNCHANGED <<numSlots, stream, active, payload, armed, scan, token, world>>
    BY DEF Claim, Becomes, Updated
<1>3. free \in Seq(Slot) /\ IsInjective(free)
    BY <1>1 DEF Types, Places
<1>4. /\ s \in Slot /\ s \in Free /\ free' \in Seq(Slot) /\ IsInjective(free')
      /\ Free' = Free \ {s}
    BY <1>2, <1>3, LastClaimed DEF Free
<1>5. fut[f] \in FutureRecord /\ fut[f].slot = NoSlot /\ fut[f].doorbell = FALSE
    BY <1>2, Resting DEF Holding
<1>6. s # NoSlot
    BY <1>1, <1>4 DEF Slot, NoSlot, Types
<1> HIDE DEF s
<1>7. /\ r \in FutureRecord /\ r.pc = "claimed" /\ r.slot = s /\ r.doorbell = FALSE
      /\ r.complete = fut[f].complete
    BY <1>4, <1>5 DEF Updated, NewFuture, FutureRecord, PC
<1> HIDE DEF r
<1>8. Types'
    <2>1. flag' \in [Slot -> {0, 1}]
        BY <1>1, <1>2 DEF Types
    <2> QED BY <1>1, <1>2, <1>4, <1>7, <2>1, TurnTypes DEF Types
<1>9. s \notin Claimed \cup active /\ \A g \in Future : ~Holds(g, s)
    BY <1>1, <1>4, FreeSlot
<1>10. Registered(r)
    BY <1>6, <1>7 DEF Registered, Holding
<1>11. /\ \A g \in Future : Registered(fut'[g])
       /\ \A g, h \in Registrants' : fut'[g].slot = fut'[h].slot => g = h
       /\ Claimed' = (Claimed \ {fut[f].slot}) \cup ({r.slot} \ {NoSlot})
    BY <1>1, <1>2, <1>5, <1>7, <1>9, <1>10, TurnClaims
<1>12. Counted' = Counted
    BY <1>1, <1>2, <1>7, TurnRegisters DEF Counted
<1>13. /\ fut'[f] = r /\ \A g \in Future \ {f} : fut'[g] = fut[g]
    BY <1>1, <1>2, <1>7, FutureTurns
<1>14. Places'
    <2>1. Claimed' = Claimed \cup {s}
        <3>1. NoSlot \notin Claimed
            BY DEF Claimed, Registrants
        <3> QED BY <1>5, <1>6, <1>7, <1>11, <3>1
    <2>2. Slot' = Slot /\ Retired' = Retired
        BY <1>2 DEF Slot, Retired
    <2>3. Partition(Free, Claimed, active, Retired)'
        BY <1>1, <1>2, <1>4, <2>1, <2>2 DEF Places, Partition
    <2> QED BY <1>4, <1>11, <2>3 DEF Places
<1>15. Conservation'
    <2>1. Payloads'
        BY <1>1, <1>2, <1>7, <1>12, <1>13 DEF Conservation, Payloads, Counted
    <2>2. Passes' /\ Counts'
        BY <1>1, <1>2, <1>12 DEF Conservation, Passes, Counts
    <2>3. SleepsOnlyWhenIdle'
        BY <1>1, <1>2, <1>5, <1>13 DEF Conservation, SleepsOnlyWhenIdle
    <2> QED BY <1>14, <2>1, <2>2, <2>3 DEF Conservation
<1>16. \A g \in Future, t \in Slot : Holds(g, t)' <=> Holds(g, t)
    BY <1>2, <1>7, <1>13 DEF Holds
<1>17. /\ flag'[s] = 0 /\ \A t \in Slot : t # s => flag'[t] = flag[t]
    BY <1>1, <1>2, <1>4 DEF Types
<1>18. Order' /\ Truth'
    BY <1>1, <1>2, <1>7, <1>9, <1>16, <1>17, HoldersStay
<1> QED BY <1>8, <1>15, <1>18 DEF IInv

(* The flag write is enqueued behind the work.                             *)
LEMMA ArmEnqueues ==
    ASSUME IInv, NEW f \in Future, fut[f].pc = "claimed", device = "ok",
           stream' = Append(stream, [kind |-> "flag", of |-> fut[f].slot]),
           Becomes(f, [pc |-> "armed"]),
           UNCHANGED <<numSlots, flag, active, payload, free, armed, scan, token, world>>
    PROVE  IInv'
<1> DEFINE r == Updated(f, [pc |-> "armed"])
<1>1. Types /\ Conservation /\ Places /\ Order /\ Truth
    BY DEF IInv, Conservation
<1>2. fut[f] \in FutureRecord /\ fut[f].pc \in Holding
    BY Resting DEF Holding
<1>5. PICK s \in Slot : s = fut[f].slot
    BY <1>1, <1>2, HeldSlot
<1>6. PICK w \in Item : w.kind = "flag" /\ w.of = s /\ stream' = Append(stream, w)
    BY <1>5 DEF Item
<1>3. /\ r \in FutureRecord /\ r.pc = "armed" /\ r.slot = s /\ r.complete = fut[f].complete
      /\ r.doorbell = fut[f].doorbell /\ fut' = [fut EXCEPT ![f] = r]
    BY <1>2, <1>5 DEF Updated, NewFuture, FutureRecord, PC, Becomes
<1>4. /\ s \in Slot /\ s \notin active
      /\ \A g \in Future : fut[g].slot = s => g = f
      /\ \A g \in Future : ~Holds(g, s)
    BY <1>1, <1>2, <1>5, HeldSlot
<1> HIDE DEF r
<1>7. stream' \in Seq(Item)
    BY <1>1, <1>6 DEF Types
<1>8. Types'
    BY <1>1, <1>3, <1>7, TurnTypes DEF Types
<1>9. /\ fut'[f] = r /\ \A g \in Future \ {f} : fut'[g] = fut[g]
    BY <1>1, <1>3, FutureTurns
<1>10. fut[f].doorbell = FALSE
    BY <1>1, <1>2 DEF Places, Registered, FutureRecord
<1>11. Conservation'
    <2>1. /\ Registered(r) /\ s # NoSlot
        BY <1>1, <1>2, <1>3, <1>5, <1>10 DEF Places, Registered, Holding
    <2>2. /\ \A g \in Future : Registered(fut'[g])
          /\ \A g, h \in Registrants' : fut'[g].slot = fut'[h].slot => g = h
          /\ Claimed' = (Claimed \ {fut[f].slot}) \cup ({r.slot} \ {NoSlot})
        BY <1>1, <1>3, <1>5, <2>1, TurnClaims
    <2>3. Counted' = Counted
        BY <1>1, <1>3, TurnRegisters DEF Counted
    <2>4. Claimed' = Claimed
        BY <1>1, <1>2, <1>3, <1>5, <2>1, <2>2, HeldSlot
    <2>5. Free' = Free /\ Retired' = Retired /\ Slot' = Slot
        BY DEF Free, Retired, Slot
    <2>6. Places'
        BY <1>1, <2>2, <2>4, <2>5 DEF Places, Partition
    <2>7. Payloads'
        BY <1>1, <1>3, <1>9, <2>3 DEF Conservation, Payloads, Counted
    <2>8. Passes' /\ Counts'
        BY <1>1, <2>3 DEF Conservation, Passes, Counts
    <2>9. SleepsOnlyWhenIdle'
        BY <1>1, <1>3, <1>9 DEF Conservation, SleepsOnlyWhenIdle
    <2> QED BY <2>6, <2>7, <2>8, <2>9 DEF Conservation
<1>12. Cleared'
    BY <1>1, <1>3, <1>9 DEF Order, Cleared
<1>13. /\ \A g \in Future, t \in Slot : t # s => (Holds(g, t)' <=> Holds(g, t))
       /\ \A g \in Future : Holds(g, s)' <=> g = f
    BY <1>3, <1>4, <1>5, <1>9 DEF Holds
<1>14. \A j \in DOMAIN stream : stream[j] # w
    <2> SUFFICES ASSUME NEW j \in DOMAIN stream, stream[j] = w PROVE FALSE
        OBVIOUS
    <2>1. FlagItem(j)
        BY <1>1 DEF Order, Items
    <2> QED BY <1>4, <1>6, <2>1 DEF FlagItem
<1>15. FlaggedSame
    <2> SUFFICES ASSUME device' = "ok", NEW t \in Slot, NEW i \in DOMAIN stream,
                        stream[i].kind = "flag", stream[i].of = t
                 PROVE  SameSlot(t)
        BY DEF FlaggedSame
    <2>1. FlagItem(i)
        BY <1>1 DEF Order, Items
    <2>2. t # s
        BY <1>4, <2>1 DEF FlagItem
    <2> QED BY <1>13, <2>2 DEF SameSlot
<1>16. Begun /\ DrainsAll(Len(stream) + 1)
    BY <1>3, <1>9 DEF Begun, DrainsAll
<1>17. flag'[s] = 0
    BY <1>1, <1>5 DEF Order, Cleared
<1>18. Fresh' /\ Drainage' /\ Items' /\ DoneStays
    BY <1>1, <1>3, <1>6, <1>9, <1>13, <1>14, <1>15, <1>16, <1>17, StreamGrows
<1>19. Truth'
    <2> SUFFICES ASSUME NEW g \in Future, Told(g)' PROVE Told(g)
        BY <1>1, <1>18 DEF Truth, DoneStays
    <2>1. CASE fut'[g].complete \/ fut'[g].pc = "over"
        BY <1>3, <1>9, <2>1 DEF Told
    <2>2. CASE \E i \in DOMAIN scan.woken : scan.woken[i] = <<"complete", g>>
        BY <2>2 DEF Told
    <2>3. ASSUME NEW t \in Slot, Holds(g, t)', flag'[t] = 1 PROVE Told(g)
        BY <1>13, <1>17, <2>3 DEF Told
    <2>4. Slot' = Slot
        BY DEF Slot
    <2> QED BY <2>1, <2>2, <2>3, <2>4 DEF Told
<1> QED BY <1>8, <1>11, <1>12, <1>18, <1>19 DEF IInv, Order

(* The write cannot be enqueued: the slot goes back to the free list.      *)
LEMMA ArmGivesBack ==
    ASSUME IInv, NEW f \in Future, fut[f].pc = "claimed",
           free' = Append(free, fut[f].slot), Becomes(f, [pc |-> "slotless", slot |-> NoSlot]),
           UNCHANGED <<numSlots, stream, flag, active, payload, armed, scan, token, world>>
    PROVE  IInv'
<1> DEFINE r == Updated(f, [pc |-> "slotless", slot |-> NoSlot])
<1>1. Types /\ Conservation /\ Places /\ Order /\ Truth
    BY DEF IInv, Conservation
<1>2. fut[f] \in FutureRecord /\ fut[f].pc \in Holding
    BY Resting DEF Holding
<1>3. PICK s \in Slot : s = fut[f].slot
    BY <1>1, <1>2, HeldSlot
<1>4. /\ r \in FutureRecord /\ r.pc = "slotless" /\ r.slot = NoSlot
      /\ r.complete = fut[f].complete
      /\ r.doorbell = fut[f].doorbell /\ fut' = [fut EXCEPT ![f] = r]
    BY <1>2 DEF Updated, NewFuture, FutureRecord, PC, Becomes
<1> HIDE DEF r
<1>5. s \in Claimed /\ s \notin Free \cup active \cup Retired
    BY <1>1, <1>2, <1>3, HeldSlot
<1>6. /\ free' \in Seq(Slot) /\ IsInjective(free') /\ Free' = Free \cup {s}
    BY <1>1, <1>3, <1>5, OneMore DEF Types, Places, Free
<1>7. Types'
    BY <1>1, <1>4, <1>6, TurnTypes DEF Types
<1>8. /\ fut'[f] = r /\ \A g \in Future \ {f} : fut'[g] = fut[g]
    BY <1>1, <1>4, FutureTurns
<1>9. fut[f].doorbell = FALSE
    BY <1>1, <1>2 DEF Places, Registered, FutureRecord
<1>10. Places'
    <2>1. Registered(r)
        BY <1>4, <1>9 DEF Registered, Holding
    <2>2. /\ \A g \in Future : Registered(fut'[g])
          /\ \A g, h \in Registrants' : fut'[g].slot = fut'[h].slot => g = h
          /\ Claimed' = (Claimed \ {fut[f].slot}) \cup ({r.slot} \ {NoSlot})
        BY <1>1, <1>4, <2>1, TurnClaims
    <2>3. Claimed' = Claimed \ {s}
        BY <1>3, <1>4, <2>2
    <2>4. Retired' = Retired /\ Slot' = Slot
        BY DEF Retired, Slot
    <2>5. Partition(Free, Claimed, active, Retired)'
        BY <1>1, <1>5, <1>6, <2>3, <2>4 DEF Places, Partition
    <2> QED BY <1>6, <2>2, <2>5 DEF Places
<1>11. Conservation'
    <2>1. Counted' = Counted
        BY <1>1, <1>4, TurnRegisters DEF Counted
    <2>2. Payloads'
        BY <1>1, <1>4, <1>8, <2>1 DEF Conservation, Payloads, Counted
    <2>3. Passes' /\ Counts'
        BY <1>1, <2>1 DEF Conservation, Passes, Counts
    <2>4. SleepsOnlyWhenIdle'
        BY <1>1, <1>4, <1>8 DEF Conservation, SleepsOnlyWhenIdle
    <2> QED BY <1>10, <2>2, <2>3, <2>4 DEF Conservation
<1>12. \A g \in Future, t \in Slot : Holds(g, t)' <=> Holds(g, t)
    BY <1>4, <1>8 DEF Holds
<1>13. Order' /\ Truth'
    BY <1>1, <1>4, <1>12, HoldersStay
<1> QED BY <1>7, <1>11, <1>13 DEF IInv

LEMMA ArmKeeps ==
    ASSUME IInv, NEW f \in Future, Arm(f)
    PROVE  IInv'
BY ArmEnqueues, ArmGivesBack DEF Arm

LEMMA CountKeeps ==
    ASSUME IInv, NEW f \in Future, Count(f)
    PROVE  IInv'
<1> DEFINE r == Updated(f, [pc |-> "counted", doorbell |-> (armed = 0)])
<1>1. Types /\ Conservation /\ Places /\ Order /\ Truth
    BY DEF IInv, Conservation
<1>2. fut[f] \in FutureRecord /\ fut[f].pc = "armed" /\ fut[f].pc \in Holding
    BY Resting DEF Count, Holding
<1>3. PICK s \in Slot : s = fut[f].slot
    BY <1>1, <1>2, HeldSlot
<1>4. /\ payload' = [payload EXCEPT ![s] = f] /\ armed' = armed + 1
      /\ UNCHANGED <<numSlots, stream, flag, active, free, scan, token, world>>
    BY <1>3 DEF Count
<1>5. /\ r \in FutureRecord /\ r.pc = "counted" /\ r.slot = s
      /\ r.complete = fut[f].complete /\ (r.doorbell <=> armed = 0)
      /\ fut' = [fut EXCEPT ![f] = r]
    BY <1>2, <1>3 DEF Updated, NewFuture, FutureRecord, PC, Becomes, Count
<1> HIDE DEF r
<1>6. /\ s \in Claimed /\ s \notin Free \cup active \cup Retired /\ s # NoSlot
      /\ \A g \in Future : fut[g].slot = s => g = f
    BY <1>1, <1>2, <1>3, HeldSlot DEF Claimed, Registrants
<1>7. Types'
    <2>1. /\ payload' \in [Slot -> Future \cup {NoFuture}] /\ armed' \in Nat
          /\ stream' \in Seq(Item) /\ flag' \in [Slot -> {0, 1}] /\ active' \in SUBSET Slot
          /\ free' \in Seq(Slot) /\ token' \in BOOLEAN
        BY <1>1, <1>4 DEF Types
    <2> QED BY <1>1, <1>4, <1>5, <2>1, TurnTypes
<1>8. /\ fut'[f] = r /\ \A g \in Future \ {f} : fut'[g] = fut[g]
    BY <1>1, <1>4, <1>5, FutureTurns
<1>9. payload'[s] = f /\ \A t \in Slot : t # s => payload'[t] = payload[t]
    BY <1>1, <1>4 DEF Types
<1>10. Places'
    <2>1. Registered(r)
        BY <1>5, <1>6 DEF Registered, Holding
    <2>2. /\ \A g \in Future : Registered(fut'[g])
          /\ \A g, h \in Registrants' : fut'[g].slot = fut'[h].slot => g = h
          /\ Claimed' = (Claimed \ {fut[f].slot}) \cup ({r.slot} \ {NoSlot})
        BY <1>1, <1>3, <1>4, <1>5, <2>1, TurnClaims
    <2>3. Claimed' = Claimed
        BY <1>3, <1>5, <1>6, <2>2
    <2>4. Free' = Free /\ Retired' = Retired /\ Slot' = Slot
        BY <1>4 DEF Free, Retired, Slot
    <2>5. Partition(Free, Claimed, active, Retired)'
        BY <1>1, <1>4, <2>3, <2>4 DEF Places, Partition
    <2> QED BY <1>1, <1>4, <2>2, <2>5 DEF Places
<1>11. Counted' = Counted \cup {f} /\ f \notin Counted
    BY <1>1, <1>2, <1>4, <1>5, TurnRegisters DEF Counted
<1>12. Counts'
    <2>1. /\ IsFiniteSet(Counted) /\ IsFiniteSet(active)
          /\ armed = Cardinality(active) + Cardinality(Counted) + Len(scan.retired)
        BY <1>1 DEF Conservation, Counts
    <2>2. IsFiniteSet(Counted') /\ Cardinality(Counted') = Cardinality(Counted) + 1
        BY <1>11, <2>1, FS_AddElement
    <2>3. Cardinality(active) \in Nat /\ Cardinality(Counted) \in Nat
        BY <2>1, FS_CardinalityType
    <2>4. Len(scan.retired) \in Nat
        BY <1>1 DEF Types, ScanRecord
    <2> QED BY <1>4, <2>1, <2>2, <2>3, <2>4 DEF Counts
<1>13. Payloads'
    <2>1. ASSUME NEW g \in Counted' PROVE payload'[fut'[g].slot] = g
        <3>1. CASE g = f
            BY <1>5, <1>8, <1>9, <3>1
        <3>2. CASE g # f
            <4>1. g \in Counted /\ g \in Future /\ fut'[g] = fut[g]
                BY <1>8, <1>11, <3>2 DEF Counted
            <4>2. fut[g].slot \in Slot /\ fut[g].slot # s
                BY <1>1, <1>6, <3>2, <4>1, HeldSlot DEF Counted, Holding
            <4> QED BY <1>1, <1>9, <4>1, <4>2 DEF Conservation, Payloads
        <3> QED BY <3>1, <3>2
    <2>2. ASSUME NEW t \in active PROVE payload'[t] \in Future /\ fut'[payload'[t]].pc # "new"
        <3>1. t \in Slot /\ t # s
            BY <1>1, <1>6 DEF Types
        <3>2. payload'[t] \in Future /\ fut[payload'[t]].pc # "new"
            BY <1>1, <1>9, <3>1 DEF Conservation, Payloads
        <3> QED BY <1>5, <1>8, <3>2
    <2> QED BY <1>4, <2>1, <2>2 DEF Payloads
<1>14. Passes'
    BY <1>1, <1>4 DEF Conservation, Passes
<1>15. SleepsOnlyWhenIdle'
    <2> SUFFICES ASSUME scan.pc = "parked", ~token PROVE \E g \in Future : fut'[g].doorbell
        BY <1>4 DEF SleepsOnlyWhenIdle
    <2>1. CASE armed = 0
        BY <1>5, <1>8, <2>1
    <2>2. CASE armed # 0
        <3>1. PICK g \in Future : fut[g].doorbell
            BY <1>1, <2>2 DEF Conservation, SleepsOnlyWhenIdle
        <3>2. g # f
            BY <1>1, <1>2, <3>1 DEF Places, Registered
        <3> QED BY <1>8, <3>1, <3>2
    <2> QED BY <2>1, <2>2
<1>16. \A g \in Future, t \in Slot : Holds(g, t)' <=> Holds(g, t)
    BY <1>2, <1>3, <1>4, <1>5, <1>6, <1>8, <1>9 DEF Holds
<1>17. Order' /\ Truth'
    BY <1>1, <1>4, <1>5, <1>16, HoldersStay
<1> QED BY <1>7, <1>10, <1>12, <1>13, <1>14, <1>15, <1>17 DEF IInv, Conservation

LEMMA SetBitKeeps ==
    ASSUME IInv, NEW f \in Future, SetBit(f)
    PROVE  IInv'
<1> DEFINE pc == IF fut[f].doorbell THEN "announced" ELSE "pending"
           r == Updated(f, [pc |-> pc, slot |-> NoSlot])
<1>1. Types /\ Conservation /\ Places /\ Order /\ Truth
    BY DEF IInv, Conservation
<1>2. fut[f] \in FutureRecord /\ fut[f].pc = "counted" /\ fut[f].pc \in Holding
    BY Resting DEF SetBit, Holding
<1>3. PICK s \in Slot : s = fut[f].slot
    BY <1>1, <1>2, HeldSlot
<1>4. /\ active' = active \cup {s}
      /\ UNCHANGED <<numSlots, stream, flag, payload, free, armed, scan, token, world>>
    BY <1>3 DEF SetBit
<1>5. /\ r \in FutureRecord /\ r.pc \in {"announced", "pending"} /\ r.slot = NoSlot
      /\ (fut[f].doorbell => r.pc = "announced") /\ r.complete = fut[f].complete
      /\ r.doorbell = fut[f].doorbell /\ fut' = [fut EXCEPT ![f] = r]
    BY <1>2, <1>3 DEF Updated, NewFuture, FutureRecord, PC, Becomes, SetBit
<1> HIDE DEF r, pc
<1>6. /\ s \in Claimed /\ s \notin Free \cup active \cup Retired /\ s # NoSlot
      /\ \A g \in Future : fut[g].slot = s => g = f
    BY <1>1, <1>2, <1>3, HeldSlot DEF Claimed, Registrants
<1>7. Types'
    <2>1. /\ payload' \in [Slot -> Future \cup {NoFuture}] /\ armed' \in Nat
          /\ stream' \in Seq(Item) /\ flag' \in [Slot -> {0, 1}] /\ active' \in SUBSET Slot
          /\ free' \in Seq(Slot) /\ token' \in BOOLEAN
        BY <1>1, <1>4 DEF Types
    <2> QED BY <1>1, <1>4, <1>5, <2>1, TurnTypes
<1>8. /\ fut'[f] = r /\ \A g \in Future \ {f} : fut'[g] = fut[g]
    BY <1>1, <1>4, <1>5, FutureTurns
<1>9. payload[s] = f
    BY <1>1, <1>2, <1>3 DEF Conservation, Payloads, Counted
<1>10. Places'
    <2>1. Registered(r)
        BY <1>5 DEF Registered, Holding
    <2>2. /\ \A g \in Future : Registered(fut'[g])
          /\ \A g, h \in Registrants' : fut'[g].slot = fut'[h].slot => g = h
          /\ Claimed' = (Claimed \ {fut[f].slot}) \cup ({r.slot} \ {NoSlot})
        BY <1>1, <1>4, <1>5, <2>1, TurnClaims
    <2>3. Claimed' = Claimed \ {s}
        BY <1>3, <1>5, <2>2
    <2>4. Free' = Free /\ Retired' = Retired /\ Slot' = Slot
        BY <1>4 DEF Free, Retired, Slot
    <2>5. Partition(Free, Claimed, active, Retired)'
        BY <1>1, <1>4, <1>6, <2>3, <2>4 DEF Places, Partition
    <2> QED BY <1>1, <1>4, <2>2, <2>5 DEF Places
<1>11. Counted' = Counted \ {f} /\ f \in Counted
    BY <1>1, <1>2, <1>4, <1>5, TurnRegisters DEF Counted
<1>12. Counts'
    <2>1. /\ IsFiniteSet(Counted) /\ IsFiniteSet(active)
          /\ armed = Cardinality(active) + Cardinality(Counted) + Len(scan.retired)
        BY <1>1 DEF Conservation, Counts
    <2>2. IsFiniteSet(Counted') /\ Cardinality(Counted') = Cardinality(Counted) - 1
        BY <1>11, <2>1, FS_RemoveElement
    <2>3. IsFiniteSet(active') /\ Cardinality(active') = Cardinality(active) + 1
        BY <1>4, <1>6, <2>1, FS_AddElement
    <2>4. Cardinality(active) \in Nat /\ Cardinality(Counted) \in Nat
        BY <2>1, FS_CardinalityType
    <2>5. Len(scan.retired) \in Nat
        BY <1>1 DEF Types, ScanRecord
    <2> QED BY <1>4, <2>1, <2>2, <2>3, <2>4, <2>5 DEF Counts
<1>13. Payloads'
    <2>1. ASSUME NEW g \in Counted' PROVE payload'[fut'[g].slot] = g
        BY <1>1, <1>4, <1>8, <1>11 DEF Conservation, Payloads, Counted
    <2>2. ASSUME NEW t \in active' PROVE payload'[t] \in Future /\ fut'[payload'[t]].pc # "new"
        <3>1. CASE t = s
            BY <1>4, <1>5, <1>8, <1>9, <3>1
        <3>2. CASE t # s
            <4>1. payload[t] \in Future /\ fut[payload[t]].pc # "new"
                BY <1>1, <1>4, <3>2 DEF Conservation, Payloads
            <4> QED BY <1>4, <1>5, <1>8, <4>1
        <3> QED BY <3>1, <3>2
    <2> QED BY <2>1, <2>2 DEF Payloads
<1>14. Passes'
    BY <1>1, <1>4 DEF Conservation, Passes
<1>15. SleepsOnlyWhenIdle'
    BY <1>1, <1>4, <1>5, <1>8 DEF Conservation, SleepsOnlyWhenIdle
<1>16. \A g \in Future, t \in Slot : Holds(g, t)' <=> Holds(g, t)
    <2>1. ASSUME NEW g \in Future PROVE Holds(g, s)' <=> Holds(g, s)
        BY <1>2, <1>3, <1>4, <1>5, <1>6, <1>8, <1>9 DEF Holds
    <2>2. ASSUME NEW g \in Future, NEW t \in Slot, t # s PROVE Holds(g, t)' <=> Holds(g, t)
        BY <1>2, <1>3, <1>4, <1>5, <1>8, <2>2 DEF Holds
    <2> QED BY <2>1, <2>2
<1>17. Order' /\ Truth'
    BY <1>1, <1>4, <1>5, <1>16, HoldersStay
<1> QED BY <1>7, <1>10, <1>12, <1>13, <1>14, <1>15, <1>17 DEF IInv, Conservation

LEMMA UnparkKeeps ==
    ASSUME IInv, NEW f \in Future, Unpark(f)
    PROVE  IInv'
<1> DEFINE r == Updated(f, [pc |-> "pending", doorbell |-> FALSE])
<1>1. Types /\ Conservation /\ Places /\ Order /\ Truth
    BY DEF IInv, Conservation
<1>2. /\ fut[f] \in FutureRecord /\ fut[f].pc = "announced" /\ fut[f].slot = NoSlot
      /\ fut[f].doorbell \in BOOLEAN
    BY Resting DEF Unpark, Holding, FutureRecord
<1>3. /\ (token' <=> token \/ fut[f].doorbell) /\ token' \in BOOLEAN
      /\ UNCHANGED <<numSlots, stream, flag, active, payload, free, armed, scan, world>>
    BY <1>1, <1>2 DEF Unpark, table, Types
<1>4. /\ r \in FutureRecord /\ r.pc = "pending" /\ r.slot = NoSlot
      /\ r.complete = fut[f].complete
      /\ r.doorbell = FALSE /\ fut' = [fut EXCEPT ![f] = r]
    BY <1>2 DEF Updated, NewFuture, FutureRecord, PC, Becomes, Unpark
<1> HIDE DEF r
<1>5. Types'
    <2>1. /\ payload' \in [Slot -> Future \cup {NoFuture}] /\ armed' \in Nat
          /\ stream' \in Seq(Item) /\ flag' \in [Slot -> {0, 1}] /\ active' \in SUBSET Slot
          /\ free' \in Seq(Slot)
        BY <1>1, <1>3 DEF Types
    <2> QED BY <1>1, <1>3, <1>4, <2>1, TurnTypes
<1>6. /\ fut'[f] = r /\ \A g \in Future \ {f} : fut'[g] = fut[g]
    BY <1>1, <1>3, <1>4, FutureTurns
<1>7. Places'
    <2>1. Registered(r)
        BY <1>4 DEF Registered, Holding
    <2>2. /\ \A g \in Future : Registered(fut'[g])
          /\ \A g, h \in Registrants' : fut'[g].slot = fut'[h].slot => g = h
          /\ Claimed' = (Claimed \ {fut[f].slot}) \cup ({r.slot} \ {NoSlot})
        BY <1>1, <1>3, <1>4, <2>1, TurnClaims
    <2>3. Claimed' = Claimed
        <3>1. NoSlot \notin Claimed
            BY DEF Claimed, Registrants
        <3> QED BY <1>2, <1>4, <2>2, <3>1
    <2>4. Free' = Free /\ Retired' = Retired /\ Slot' = Slot
        BY <1>3 DEF Free, Retired, Slot
    <2>5. Partition(Free, Claimed, active, Retired)'
        BY <1>1, <1>3, <2>3, <2>4 DEF Places, Partition
    <2> QED BY <1>1, <1>3, <2>2, <2>5 DEF Places
<1>8. Conservation'
    <2>1. Counted' = Counted
        BY <1>1, <1>2, <1>3, <1>4, TurnRegisters DEF Counted
    <2>2. Payloads'
        BY <1>1, <1>3, <1>4, <1>6, <2>1 DEF Conservation, Payloads, Counted
    <2>3. Passes' /\ Counts'
        BY <1>1, <1>3, <2>1 DEF Conservation, Passes, Counts
    <2>4. SleepsOnlyWhenIdle'
        <3> SUFFICES ASSUME scan.pc = "parked", ~token', armed # 0
                     PROVE  \E g \in Future : fut'[g].doorbell
            BY <1>3 DEF SleepsOnlyWhenIdle
        <3>1. PICK g \in Future : fut[g].doorbell
            BY <1>1, <1>3 DEF Conservation, SleepsOnlyWhenIdle
        <3>2. g # f
            BY <1>3, <3>1
        <3> QED BY <1>6, <3>1, <3>2
    <2> QED BY <1>7, <2>2, <2>3, <2>4 DEF Conservation
<1>9. \A g \in Future, t \in Slot : Holds(g, t)' <=> Holds(g, t)
    BY <1>2, <1>3, <1>4, <1>6 DEF Holds
<1>10. Order' /\ Truth'
    BY <1>1, <1>3, <1>4, <1>9, HoldersStay
<1> QED BY <1>5, <1>8, <1>10 DEF IInv

-----------------------------------------------------------------------------
(* The scanner.  It changes of a future only what it is told, and tells    *)
(* only those whose work has ended.                                        *)
SameCourse ==
    \A g \in Future :
        /\ fut'[g].pc = fut[g].pc /\ fut'[g].slot = fut[g].slot
        /\ fut'[g].doorbell = fut[g].doorbell /\ fut'[g].wait = fut[g].wait

LEMMA ScanOrder ==
    ASSUME Types, Order, Truth, SameCourse, UNCHANGED <<numSlots, stream, flag, world>>,
           \A g \in Future, s \in Slot : Holds(g, s)' => Holds(g, s),
           device = "ok" => \A g \in Future, s \in Slot :
               Holds(g, s) /\ flag[s] = 0 => Holds(g, s)',
           \A g \in Future : fut'[g].complete => Done(g),
           \A g \in Future : (\E i \in DOMAIN scan'.woken : scan'.woken[i] = <<"complete", g>>)
                                 => Done(g)
    PROVE  Order' /\ Truth'
<1>1. Begun /\ DrainsAll(Len(stream))
    BY DEF SameCourse, Begun, DrainsAll
<1>2. FlaggedSame
    <2> SUFFICES ASSUME device = "ok", NEW s \in Slot, NEW i \in DOMAIN stream,
                        stream[i].kind = "flag", stream[i].of = s
                 PROVE  SameSlot(s)
        BY DEF FlaggedSame, world
    <2>1. FlagItem(i)
        BY DEF Order, Items
    <2>2. flag[s] = 0
        BY <2>1 DEF FlagItem
    <2> QED BY <2>2 DEF SameSlot
<1>3. Fresh' /\ Drainage' /\ Items' /\ DoneStays
    BY <1>1, <1>2, StreamSame
<1>4. Cleared'
    BY DEF Order, Cleared, SameCourse
<1>5. Slot' = Slot
    BY DEF Slot
<1>6. Truth'
    <2> SUFFICES ASSUME NEW g \in Future, Told(g)' PROVE Done(g)
        BY <1>3 DEF Truth, DoneStays
    <2>1. CASE fut'[g].complete
        BY <2>1
    <2>2. CASE fut'[g].pc = "over"
        BY <2>2 DEF SameCourse, Truth, Told
    <2>3. CASE \E i \in DOMAIN scan'.woken : scan'.woken[i] = <<"complete", g>>
        BY <2>3
    <2>4. ASSUME NEW s \in Slot, Holds(g, s)', flag[s] = 1 PROVE Done(g)
        BY <2>4 DEF Truth, Told
    <2> QED BY <1>5, <2>1, <2>2, <2>3, <2>4 DEF Told
<1> QED BY <1>3, <1>4, <1>6 DEF Order

(* The same where the futures and the bitmap are left alone.               *)
LEMMA ScanOnly ==
    ASSUME Types, Order, Truth, UNCHANGED <<numSlots, fut, stream, flag, active, payload, world>>,
           \A g \in Future : (\E i \in DOMAIN scan'.woken : scan'.woken[i] = <<"complete", g>>)
                                 => Done(g)
    PROVE  Order' /\ Truth' /\ QuietFutures /\ Registrants' = Registrants
           /\ Claimed' = Claimed /\ Counted' = Counted
<1>1. SameCourse /\ QuietFutures
    BY DEF SameCourse, QuietFutures, Quiet
<1>2. \A g \in Future, s \in Slot : Holds(g, s)' <=> Holds(g, s)
    BY DEF Holds
<1>3. \A g \in Future : fut'[g].complete => Done(g)
    BY DEF Truth, Told
<1>4. Order' /\ Truth'
    BY <1>1, <1>2, <1>3, ScanOrder
<1> QED BY <1>1, <1>4, SamePlaces

LEMMA WokenIsDone ==
    ASSUME Truth, NEW g \in Future
    PROVE  (\E i \in DOMAIN scan.woken : scan.woken[i] = <<"complete", g>>) => Done(g)
BY DEF Truth, Told

LEMMA ScanTypes ==
    ASSUME Types, UNCHANGED <<numSlots, stream, world>>, fut' \in [Future -> FutureRecord],
           flag' \in [Slot -> {0, 1}], active' \in SUBSET Slot,
           payload' \in [Slot -> Future \cup {NoFuture}], free' \in Seq(Slot),
           armed' \in Nat, token' \in BOOLEAN, scan' \in ScanRecord
    PROVE  Types'
<1>1. Slot' = Slot /\ Item' = Item /\ ScanRecord' = ScanRecord /\ FutureRecord' = FutureRecord
    BY DEF Slot, Item, ScanRecord, FutureRecord, NoSlot
<1> QED BY <1>1 DEF Types, world

LEMMA ScanBeginKeeps ==
    ASSUME IInv, ScanBegin
    PROVE  IInv'
<1>1. Types /\ Conservation /\ Places /\ Order /\ Truth
    BY DEF IInv, Conservation
<1>2. /\ scan.pc = "scan" /\ scan' = [scan EXCEPT !.pc = "slots", !.todo = active]
      /\ UNCHANGED <<numSlots, fut, stream, flag, active, payload, free, armed, token, world>>
    BY DEF ScanBegin, table
<1>3. scan \in ScanRecord /\ active \in SUBSET Slot
    BY <1>1 DEF Types
<1>4. /\ scan' \in ScanRecord /\ scan'.pc = "slots" /\ scan'.todo = active
      /\ scan'.retired = scan.retired /\ scan'.woken = scan.woken
    BY <1>2, <1>3 DEF ScanRecord
<1>5. scan.retired = <<>>
    BY <1>1, <1>2 DEF Conservation, Passes
<1>6. Types'
    <2>1. /\ fut' \in [Future -> FutureRecord] /\ flag' \in [Slot -> {0, 1}]
          /\ active' \in SUBSET Slot /\ payload' \in [Slot -> Future \cup {NoFuture}]
          /\ free' \in Seq(Slot) /\ armed' \in Nat /\ token' \in BOOLEAN
        BY <1>1, <1>2 DEF Types
    <2> QED BY <1>1, <1>2, <1>4, <2>1, ScanTypes
<1>7. Order' /\ Truth' /\ QuietFutures /\ Registrants' = Registrants
      /\ Claimed' = Claimed /\ Counted' = Counted
    BY <1>1, <1>2, <1>4, WokenIsDone, ScanOnly
<1>8. Retired' = Retired
    BY <1>2, <1>4, <1>5, NoList DEF Retired
<1>9. Conservation'
    <2>1. Free' = Free /\ Slot' = Slot
        BY <1>2 DEF Free, Slot
    <2>2. Places'
        BY <1>1, <1>2, <1>7, <1>8, <2>1 DEF Places, Partition
    <2>3. Payloads'
        BY <1>1, <1>2, <1>7 DEF Conservation, Payloads
    <2>4. Passes'
        BY <1>2, <1>4, <1>5, NoList DEF Passes
    <2>5. Counts'
        BY <1>1, <1>2, <1>4, <1>7 DEF Conservation, Counts
    <2>6. SleepsOnlyWhenIdle'
        BY <1>4 DEF SleepsOnlyWhenIdle
    <2> QED BY <2>2, <2>3, <2>4, <2>5, <2>6 DEF Conservation
<1> QED BY <1>6, <1>7, <1>9 DEF IInv

(* A slot with nothing to report stays in the bitmap.                      *)
LEMMA SlotPassed ==
    ASSUME IInv, scan.pc = "slots", NEW s \in scan.todo, scan' = [scan EXCEPT !.todo = @ \ {s}],
           UNCHANGED <<numSlots, fut, stream, flag, active, payload, free, armed, token, world>>
    PROVE  IInv'
<1>1. Types /\ Conservation /\ Places /\ Order /\ Truth
    BY DEF IInv, Conservation
<1>2. scan \in ScanRecord
    BY <1>1 DEF Types
<1>3. /\ scan' \in ScanRecord /\ scan'.pc = "slots" /\ scan'.todo = scan.todo \ {s}
      /\ scan'.retired = scan.retired /\ scan'.woken = scan.woken
    BY <1>2 DEF ScanRecord
<1>4. Types'
    <2>1. /\ fut' \in [Future -> FutureRecord] /\ flag' \in [Slot -> {0, 1}]
          /\ active' \in SUBSET Slot /\ payload' \in [Slot -> Future \cup {NoFuture}]
          /\ free' \in Seq(Slot) /\ armed' \in Nat /\ token' \in BOOLEAN
        BY <1>1 DEF Types
    <2> QED BY <1>1, <1>3, <2>1, ScanTypes
<1>5. Order' /\ Truth' /\ QuietFutures /\ Registrants' = Registrants
      /\ Claimed' = Claimed /\ Counted' = Counted
    BY <1>1, <1>3, WokenIsDone, ScanOnly
<1>6. Conservation'
    <2>1. Free' = Free /\ Slot' = Slot /\ Retired' = Retired
        BY <1>3 DEF Free, Slot, Retired
    <2>2. Places'
        BY <1>1, <1>5, <2>1 DEF Places, Partition
    <2>3. Payloads'
        BY <1>1, <1>5 DEF Conservation, Payloads
    <2>4. Passes'
        BY <1>1, <1>3 DEF Conservation, Passes
    <2>5. Counts'
        BY <1>1, <1>3, <1>5 DEF Conservation, Counts
    <2>6. SleepsOnlyWhenIdle'
        BY <1>3 DEF SleepsOnlyWhenIdle
    <2> QED BY <2>2, <2>3, <2>4, <2>5, <2>6 DEF Conservation
<1> QED BY <1>4, <1>5, <1>6 DEF IInv

(* What the scanner is to tell the future of a slot it retires.            *)
LEMMA TellsTruth ==
    ASSUME IInv, NEW s \in active
    PROVE  /\ Tells(s) \in Seq({"complete", "wake"} \X Future)
           /\ flag[s] = 0 => Tells(s) \in Seq({"wake"} \X Future)
           /\ \A g \in Future : (\E i \in DOMAIN Tells(s) : Tells(s)[i] = <<"complete", g>>)
                                    => Done(g)
<1>1. payload[s] \in Future /\ s \in Slot
    BY DEF IInv, Conservation, Payloads, Types
<1>2. PICK p \in Future : p = payload[s]
    BY <1>1
<1>3. Tells(s) = IF Over(p) THEN <<>> ELSE IF flag[s] = 1
                     THEN <<<<"complete", p>>, <<"wake", p>>>> ELSE <<<<"wake", p>>>>
    BY <1>2 DEF Tells
<1>4. flag[s] = 1 => Done(p)
    <2>1. Holds(p, s)
        BY <1>2 DEF Holds
    <2> QED BY <1>1, <2>1 DEF IInv, Truth, Told
<1>5. /\ <<"complete", p>> \in {"complete", "wake"} \X Future
      /\ <<"wake", p>> \in {"complete", "wake"} \X Future
      /\ <<"wake", p>> \in {"wake"} \X Future
    OBVIOUS
<1>6. CASE Over(p)
    <2>1. Tells(s) = <<>>
        BY <1>3, <1>6
    <2> QED BY <2>1
<1>7. CASE ~Over(p) /\ flag[s] = 1
    <2>1. Tells(s) = <<<<"complete", p>>, <<"wake", p>>>>
        BY <1>3, <1>7
    <2>2. \A g \in Future : (\E i \in DOMAIN Tells(s) : Tells(s)[i] = <<"complete", g>>)
                                => g = p
        BY <2>1
    <2> QED BY <1>4, <1>5, <1>7, <2>1, <2>2
<1>8. CASE ~Over(p) /\ flag[s] # 1
    <2>1. Tells(s) = <<<<"wake", p>>>>
        BY <1>3, <1>8
    <2>2. \A g \in Future : ~\E i \in DOMAIN Tells(s) : Tells(s)[i] = <<"complete", g>>
        BY <2>1
    <2> QED BY <1>5, <2>1, <2>2
<1> QED BY <1>6, <1>7, <1>8

LEMMA SaysOnly ==
    ASSUME NEW S, NEW p \in Seq(S), NEW q \in Seq(S), NEW x, \E i \in DOMAIN (p \o q) : (p \o q)[i] = x
    PROVE  (\E j \in DOMAIN p : p[j] = x) \/ (\E j \in DOMAIN q : q[j] = x)
<1>1. x \in Range(p) \cup Range(q)
    BY Joined DEF Range
<1> QED BY <1>1 DEF Range

LEMMA ScanUpdates ==
    ASSUME scan \in ScanRecord, NEW todo \in SUBSET Slot, NEW retired \in Seq(Slot),
           NEW woken \in Seq({"complete", "wake"} \X Future), NEW dead \in Seq({"wake"} \X Future),
           scan' = [scan EXCEPT !.todo = todo, !.retired = retired,
                                !.woken = woken, !.dead = dead]
    PROVE  /\ scan' \in ScanRecord /\ scan'.pc = scan.pc /\ scan'.todo = todo
           /\ scan'.retired = retired /\ scan'.woken = woken
BY DEF ScanRecord

(* What is left to tell, with what a retired slot adds.                    *)
LEMMA MoreToTell ==
    ASSUME Truth, NEW p \in Seq({"complete", "wake"} \X Future),
           NEW q \in Seq({"complete", "wake"} \X Future), scan.woken = p,
           \A g \in Future : (\E i \in DOMAIN q : q[i] = <<"complete", g>>) => Done(g)
    PROVE  /\ p \o q \in Seq({"complete", "wake"} \X Future)
           /\ \A g \in Future :
                  (\E i \in DOMAIN (p \o q) : (p \o q)[i] = <<"complete", g>>) => Done(g)
<1>1. \A x : (\E i \in DOMAIN (p \o q) : (p \o q)[i] = x) =>
                 (\E j \in DOMAIN p : p[j] = x) \/ (\E j \in DOMAIN q : q[j] = x)
    BY SaysOnly
<1>2. \A g \in Future : (\E i \in DOMAIN p : p[i] = <<"complete", g>>) => Done(g)
    BY WokenIsDone
<1>3. p \o q \in Seq({"complete", "wake"} \X Future)
    BY Joined
<1> QED BY <1>1, <1>2, <1>3

LEMMA SlotRetires ==
    ASSUME IInv, scan.pc = "slots", NEW s \in scan.todo, Retires(s),
           active' = active \ {s}, payload' = [payload EXCEPT ![s] = NoFuture],
           NEW woken \in Seq({"complete", "wake"} \X Future),
           NEW dead \in Seq({"wake"} \X Future),
           \A g \in Future : (\E i \in DOMAIN woken : woken[i] = <<"complete", g>>) => Done(g),
           NEW todo, todo = scan.todo \ {s}, NEW retired, retired = Append(scan.retired, s),
           scan' = [scan EXCEPT !.todo = todo, !.retired = retired,
                                !.woken = woken, !.dead = dead],
           UNCHANGED <<numSlots, fut, stream, flag, free, armed, token, world>>
    PROVE  IInv'
<1>1. Types /\ Conservation /\ Places /\ Order /\ Truth
    BY DEF IInv, Conservation
<1>2. /\ scan \in ScanRecord /\ scan.todo \in SUBSET Slot /\ scan.retired \in Seq(Slot)
    BY <1>1 DEF Types, ScanRecord
<1>3. s \in active /\ s \in Slot /\ IsInjective(scan.retired) /\ scan.todo \subseteq active
    BY <1>1, <1>2 DEF Conservation, Passes
<1>4. s \notin Retired /\ s \notin Claimed /\ Retired = Range(scan.retired)
    BY <1>1, <1>3 DEF Places, Partition, Retired
<1>6. /\ retired \in Seq(Slot) /\ Len(retired) = Len(scan.retired) + 1 /\ IsInjective(retired)
      /\ Range(retired) = Range(scan.retired) \cup {s}
    BY <1>2, <1>3, <1>4, OneMore
<1>10. /\ scan' \in ScanRecord /\ scan'.pc = "slots" /\ scan'.todo = scan.todo \ {s}
       /\ scan'.retired = retired /\ scan'.woken = woken
    <2>1. todo \in SUBSET Slot
        BY <1>2
    <2>2. /\ scan' \in ScanRecord /\ scan'.pc = scan.pc /\ scan'.todo = todo
          /\ scan'.retired = retired /\ scan'.woken = woken
        BY <1>2, <1>6, <2>1 DEF ScanRecord
    <2> QED BY <1>2, <2>2
<1>11. /\ payload' \in [Slot -> Future \cup {NoFuture}]
       /\ \A t \in Slot : t # s => payload'[t] = payload[t]
    BY <1>1 DEF Types
<1>12. Types'
    <2>1. /\ fut' \in [Future -> FutureRecord] /\ flag' \in [Slot -> {0, 1}]
          /\ active' \in SUBSET Slot /\ free' \in Seq(Slot) /\ armed' \in Nat /\ token' \in BOOLEAN
        BY <1>1 DEF Types
    <2> QED BY <1>1, <1>10, <1>11, <2>1, ScanTypes
<1>13. SameCourse /\ QuietFutures
    BY DEF SameCourse, QuietFutures, Quiet
<1>14. Registrants' = Registrants /\ Claimed' = Claimed /\ Counted' = Counted
    BY <1>13, SamePlaces
<1>15. Order' /\ Truth'
    <2>1. \A g \in Future, t \in Slot : t # s => (Holds(g, t)' <=> Holds(g, t))
        BY <1>11 DEF Holds
    <2>2. \A g \in Future : ~Holds(g, s)'
        <3> SUFFICES ASSUME NEW g \in Future, fut[g].pc \in {"armed", "counted"}, fut[g].slot = s
                     PROVE  FALSE
            BY DEF Holds
        <3>1. s \in Claimed
            BY <1>1, HeldSlot DEF Holding
        <3> QED BY <1>4, <3>1
    <2>3. device = "ok" => flag[s] # 0
        BY DEF Retires
    <2>4. \A g \in Future : fut'[g].complete => Done(g)
        BY <1>1 DEF Truth, Told
    <2>5. device = "ok" => \A g \in Future, t \in Slot :
              Holds(g, t) /\ flag[t] = 0 => Holds(g, t)'
        BY <2>1, <2>3
    <2> QED BY <1>1, <1>10, <1>13, <2>1, <2>2, <2>4, <2>5, ScanOrder
<1>16. Conservation'
    <2>1. Free' = Free /\ Slot' = Slot /\ Retired' = Retired \cup {s}
        BY <1>4, <1>6, <1>10 DEF Free, Slot, Retired
    <2>2. Places'
        BY <1>1, <1>3, <1>14, <2>1 DEF Places, Partition
    <2>3. Payloads'
        <3>1. ASSUME NEW g \in Counted PROVE payload'[fut[g].slot] = g
            <4>1. fut[g].slot \in Slot /\ fut[g].slot \in Claimed
                BY <1>1, HeldSlot DEF Counted, Holding
            <4> QED BY <1>1, <1>4, <1>11, <4>1 DEF Conservation, Payloads
        <3>2. ASSUME NEW t \in active' PROVE payload'[t] \in Future /\ fut[payload'[t]].pc # "new"
            <4>1. t \in active /\ t # s /\ t \in Slot
                BY <1>1 DEF Types
            <4> QED BY <1>1, <1>11, <4>1 DEF Conservation, Payloads
        <3> QED BY <1>14, <3>1, <3>2 DEF Payloads
    <2>4. Passes'
        BY <1>3, <1>6, <1>10 DEF Passes
    <2>5. Counts'
        <3>1. /\ IsFiniteSet(Counted) /\ IsFiniteSet(active)
              /\ armed = Cardinality(active) + Cardinality(Counted) + Len(scan.retired)
            BY <1>1 DEF Conservation, Counts
        <3>2. IsFiniteSet(active') /\ Cardinality(active') = Cardinality(active) - 1
            BY <1>3, <3>1, FS_RemoveElement
        <3>3. Cardinality(active) \in Nat /\ Cardinality(Counted) \in Nat
            BY <3>1, FS_CardinalityType
        <3>4. Len(scan.retired) \in Nat
            BY <1>2
        <3> QED BY <1>6, <1>10, <1>14, <3>1, <3>2, <3>3, <3>4 DEF Counts
    <2>6. SleepsOnlyWhenIdle'
        BY <1>10 DEF SleepsOnlyWhenIdle
    <2> QED BY <2>2, <2>3, <2>4, <2>5, <2>6 DEF Conservation
<1> QED BY <1>12, <1>15, <1>16 DEF IInv

LEMMA ScanSlotKeeps ==
    ASSUME IInv, ScanSlot
    PROVE  IInv'
<1>1. scan.todo \in SUBSET Slot /\ numSlots \in Nat
    BY CompletionAssumption DEF IInv, Types, ScanRecord
<1>2. scan.todo \subseteq Nat
    BY <1>1 DEF Slot
<1>3. PICK s \in scan.todo : s = Min(scan.todo)
    BY <1>2, MinIsIn DEF ScanSlot
<1>4. CASE Retires(s)
    <2>1. PICK todo, retired, woken, dead :
              /\ todo = scan.todo \ {s} /\ retired = Append(scan.retired, s)
              /\ woken = IF flag[s] = 1 THEN scan.woken \o Tells(s) ELSE scan.woken
              /\ dead = IF flag[s] = 0 THEN scan.dead \o Tells(s) ELSE scan.dead
        OBVIOUS
    <2>2. /\ active' = active \ {s} /\ payload' = [payload EXCEPT ![s] = NoFuture]
          /\ scan' = [scan EXCEPT !.todo = todo, !.retired = retired,
                                  !.woken = woken, !.dead = dead]
          /\ UNCHANGED <<numSlots, fut, stream, flag, free, armed, token, world>>
          /\ scan.pc = "slots"
        BY <1>3, <1>4, <2>1 DEF ScanSlot
    <2>3. s \in active /\ s \in Slot
        BY <1>1, <2>2 DEF IInv, Conservation, Passes
    <2>4. /\ scan.woken \in Seq({"complete", "wake"} \X Future)
          /\ scan.dead \in Seq({"wake"} \X Future)
        BY DEF IInv, Types, ScanRecord
    <2>5. PICK q \in Seq({"complete", "wake"} \X Future) :
              /\ q = Tells(s)
              /\ flag[s] = 0 => q \in Seq({"wake"} \X Future)
              /\ \A g \in Future : (\E i \in DOMAIN q : q[i] = <<"complete", g>>) => Done(g)
        BY <2>3, TellsTruth
    <2>6. dead \in Seq({"wake"} \X Future)
        BY <2>1, <2>4, <2>5, Joined
    <2>7. /\ woken \in Seq({"complete", "wake"} \X Future)
          /\ \A g \in Future : (\E i \in DOMAIN woken : woken[i] = <<"complete", g>>) => Done(g)
        <3>1. Truth
            BY DEF IInv
        <3>2. CASE flag[s] = 1
            BY <2>1, <2>4, <2>5, <3>1, <3>2, MoreToTell
        <3>3. CASE flag[s] # 1
            BY <2>1, <2>4, <3>1, <3>3, WokenIsDone
        <3> QED BY <3>2, <3>3
    <2> QED BY <1>4, <2>1, <2>2, <2>6, <2>7, SlotRetires
<1>5. CASE ~Retires(s)
    BY <1>3, <1>5, SlotPassed DEF ScanSlot
<1> QED BY <1>4, <1>5

LEMMA ScanRecycleKeeps ==
    ASSUME IInv, ScanRecycle
    PROVE  IInv'
<1>1. Types /\ Conservation /\ Places /\ Order /\ Truth
    BY DEF IInv, Conservation
<1>2. /\ scan.pc = "slots" /\ free' = free \o scan.retired
      /\ scan' = [scan EXCEPT !.pc = "subtract"]
      /\ UNCHANGED <<numSlots, fut, stream, flag, active, payload, armed, token, world>>
    BY DEF ScanRecycle
<1>3. scan \in ScanRecord /\ scan.retired \in Seq(Slot)
    BY <1>1 DEF Types, ScanRecord
<1>4. /\ scan' \in ScanRecord /\ scan'.pc = "subtract" /\ scan'.retired = scan.retired
      /\ scan'.woken = scan.woken
    BY <1>2, <1>3 DEF ScanRecord
<1>5. Retired = Range(scan.retired) /\ Retired' = {} /\ IsInjective(scan.retired)
    BY <1>1, <1>2, <1>4 DEF Retired, Conservation, Passes
<1>6. free \in Seq(Slot) /\ IsInjective(free) /\ Free \cap Retired = {}
    BY <1>1 DEF Types, Places, Partition
<1>7. free' \in Seq(Slot) /\ IsInjective(free') /\ Free' = Free \cup Retired
    BY <1>2, <1>3, <1>5, <1>6, Joined DEF Free
<1>8. Types'
    <2>1. /\ fut' \in [Future -> FutureRecord] /\ flag' \in [Slot -> {0, 1}]
          /\ active' \in SUBSET Slot /\ payload' \in [Slot -> Future \cup {NoFuture}]
          /\ armed' \in Nat /\ token' \in BOOLEAN
        BY <1>1, <1>2 DEF Types
    <2> QED BY <1>1, <1>2, <1>4, <1>7, <2>1, ScanTypes
<1>9. Order' /\ Truth' /\ QuietFutures /\ Registrants' = Registrants
      /\ Claimed' = Claimed /\ Counted' = Counted
    BY <1>1, <1>2, <1>4, WokenIsDone, ScanOnly
<1>10. Conservation'
    <2>1. Slot' = Slot
        BY <1>2 DEF Slot
    <2>2. Partition(Free, Claimed, active, Retired)'
        BY <1>1, <1>2, <1>5, <1>7, <1>9, <2>1 DEF Places, Partition
    <2>3. Places'
        BY <1>1, <1>2, <1>7, <1>9, <2>2 DEF Places
    <2>4. Payloads'
        BY <1>1, <1>2, <1>9 DEF Conservation, Payloads
    <2>5. Passes'
        BY <1>4 DEF Passes
    <2>6. Counts'
        BY <1>1, <1>2, <1>4, <1>9 DEF Conservation, Counts
    <2>7. SleepsOnlyWhenIdle'
        BY <1>4 DEF SleepsOnlyWhenIdle
    <2> QED BY <2>3, <2>4, <2>5, <2>6, <2>7 DEF Conservation
<1> QED BY <1>8, <1>9, <1>10 DEF IInv

LEMMA ScanSubtractKeeps ==
    ASSUME IInv, ScanSubtract
    PROVE  IInv'
<1>1. Types /\ Conservation /\ Places /\ Order /\ Truth
    BY DEF IInv, Conservation
<1>2. /\ scan \in ScanRecord /\ scan.retired \in Seq(Slot)
      /\ scan.woken \in Seq({"complete", "wake"} \X Future)
      /\ scan.dead \in Seq({"wake"} \X Future)
    BY <1>1 DEF Types, ScanRecord
<1>3. PICK dead \in Seq({"complete", "wake"} \X Future) :
          /\ dead = scan.dead
          /\ \A g \in Future : ~\E i \in DOMAIN dead : dead[i] = <<"complete", g>>
    <2>1. scan.dead \in Seq({"complete", "wake"} \X Future)
        BY <1>2
    <2>2. \A i \in DOMAIN scan.dead : scan.dead[i] \in {"wake"} \X Future
        BY <1>2
    <2> QED BY <2>1, <2>2
<1>4. PICK woken \in Seq({"complete", "wake"} \X Future) :
          /\ woken = scan.woken \o dead
          /\ \A g \in Future : (\E i \in DOMAIN woken : woken[i] = <<"complete", g>>) => Done(g)
    <2>1. PICK p \in Seq({"complete", "wake"} \X Future) : p = scan.woken
        BY <1>2
    <2>2. /\ p \o dead \in Seq({"complete", "wake"} \X Future)
          /\ \A g \in Future :
                 (\E i \in DOMAIN (p \o dead) : (p \o dead)[i] = <<"complete", g>>) => Done(g)
        <3>1. \A g \in Future : (\E i \in DOMAIN dead : dead[i] = <<"complete", g>>) => Done(g)
            BY <1>3
        <3> QED BY <1>1, <2>1, <3>1, MoreToTell
    <2> QED BY <2>1, <2>2, Zenon
<1>5. /\ scan.pc = "subtract" /\ armed' = armed - Len(scan.retired)
      /\ scan' = [scan EXCEPT !.pc = "telling", !.retired = <<>>, !.woken = woken, !.dead = <<>>]
      /\ UNCHANGED <<numSlots, fut, stream, flag, active, payload, free, token, world>>
    BY <1>3, <1>4 DEF ScanSubtract, Subtracted
<1>6. /\ scan' \in ScanRecord /\ scan'.pc = "telling" /\ scan'.retired = <<>>
      /\ scan'.woken = woken
    <2>1. PICK none \in Seq(Slot) : none = <<>> /\ none \in Seq({"wake"} \X Future)
        <3>1. <<>> \in Seq(Slot) /\ <<>> \in Seq({"wake"} \X Future)
            OBVIOUS
        <3> QED BY <3>1, Zenon
    <2>2. scan' = [scan EXCEPT !.pc = "telling", !.retired = none, !.woken = woken, !.dead = none]
        BY <1>5, <2>1
    <2>3. /\ scan' \in ScanRecord /\ scan'.pc = "telling" /\ scan'.retired = none
          /\ scan'.woken = woken
        BY <1>2, <2>1, <2>2 DEF ScanRecord
    <2> QED BY <2>1, <2>3
<1>7. /\ IsFiniteSet(active) /\ IsFiniteSet(Counted) /\ armed' \in Nat
      /\ armed' = Cardinality(active) + Cardinality(Counted)
    <2>1. /\ IsFiniteSet(Counted) /\ IsFiniteSet(active)
          /\ armed = Cardinality(active) + Cardinality(Counted) + Len(scan.retired)
        BY <1>1 DEF Conservation, Counts
    <2>2. Cardinality(active) \in Nat /\ Cardinality(Counted) \in Nat
        BY <2>1, FS_CardinalityType
    <2>3. Len(scan.retired) \in Nat
        BY <1>2
    <2> QED BY <1>5, <2>1, <2>2, <2>3
<1>8. Types'
    <2>1. /\ fut' \in [Future -> FutureRecord] /\ flag' \in [Slot -> {0, 1}]
          /\ active' \in SUBSET Slot /\ payload' \in [Slot -> Future \cup {NoFuture}]
          /\ free' \in Seq(Slot) /\ token' \in BOOLEAN
        BY <1>1, <1>5 DEF Types
    <2> QED BY <1>1, <1>5, <1>6, <1>7, <2>1, ScanTypes
<1>9. Order' /\ Truth' /\ QuietFutures /\ Registrants' = Registrants
      /\ Claimed' = Claimed /\ Counted' = Counted
    BY <1>1, <1>4, <1>5, <1>6, ScanOnly
<1>10. Conservation'
    <2>1. Slot' = Slot /\ Free' = Free /\ Retired' = Retired
        BY <1>5, <1>6 DEF Slot, Free, Retired
    <2>2. Places'
        BY <1>1, <1>5, <1>9, <2>1 DEF Places, Partition
    <2>3. Payloads'
        BY <1>1, <1>5, <1>9 DEF Conservation, Payloads
    <2>4. Passes'
        BY <1>6 DEF Passes
    <2>5. Counts'
        <3>1. Cardinality(active) \in Nat /\ Cardinality(Counted) \in Nat
            BY <1>7, FS_CardinalityType
        <3>2. scan'.retired = <<>> /\ Len(<<>>) = 0
            BY <1>6, NoList
        <3> QED BY <1>5, <1>7, <1>9, <3>1, <3>2 DEF Counts
    <2>6. SleepsOnlyWhenIdle'
        BY <1>6 DEF SleepsOnlyWhenIdle
    <2> QED BY <2>2, <2>3, <2>4, <2>5, <2>6 DEF Conservation
<1> QED BY <1>8, <1>9, <1>10 DEF IInv

(* The scanner sleeps if it finds nothing in flight; a token wakes it.     *)
LEMMA ScannerRests ==
    ASSUME IInv, UNCHANGED <<fut, stream, table, world>>, token' \in BOOLEAN,
           scan.retired = <<>>, NEW pc \in {"scan", "parked"}, scan' = [scan EXCEPT !.pc = pc],
           pc = "parked" => armed = 0
    PROVE  IInv'
<1>1. Types /\ Conservation /\ Places /\ Order /\ Truth
    BY DEF IInv, Conservation
<1>2. UNCHANGED <<numSlots, fut, stream, flag, active, payload, free, armed, world>>
    BY DEF table
<1>3. scan \in ScanRecord
    BY <1>1 DEF Types
<1>4. /\ scan' \in ScanRecord /\ scan'.pc = pc /\ scan'.retired = scan.retired
      /\ scan'.woken = scan.woken
    BY <1>3 DEF ScanRecord
<1>5. Types'
    <2>1. /\ fut' \in [Future -> FutureRecord] /\ flag' \in [Slot -> {0, 1}]
          /\ active' \in SUBSET Slot /\ payload' \in [Slot -> Future \cup {NoFuture}]
          /\ free' \in Seq(Slot) /\ armed' \in Nat
        BY <1>1, <1>2 DEF Types
    <2> QED BY <1>1, <1>2, <1>4, <2>1, ScanTypes
<1>6. Order' /\ Truth' /\ QuietFutures /\ Registrants' = Registrants
      /\ Claimed' = Claimed /\ Counted' = Counted
    BY <1>1, <1>2, <1>4, WokenIsDone, ScanOnly
<1>7. Conservation'
    <2>1. Slot' = Slot /\ Free' = Free /\ Retired' = Retired
        BY <1>2, <1>4, NoList DEF Slot, Free, Retired
    <2>2. Places'
        BY <1>1, <1>2, <1>6, <2>1 DEF Places, Partition
    <2>3. Payloads'
        BY <1>1, <1>2, <1>6 DEF Conservation, Payloads
    <2>4. Passes'
        BY <1>4 DEF Passes
    <2>5. Counts'
        BY <1>1, <1>2, <1>4, <1>6 DEF Conservation, Counts
    <2>6. SleepsOnlyWhenIdle'
        BY <1>2, <1>4 DEF SleepsOnlyWhenIdle
    <2> QED BY <2>2, <2>3, <2>4, <2>5, <2>6 DEF Conservation
<1> QED BY <1>5, <1>6, <1>7 DEF IInv

LEMMA ScanEndKeeps ==
    ASSUME IInv, ScanEnd \/ Unparked
    PROVE  IInv'
<1>1. UNCHANGED <<fut, stream, table, world>> /\ token' \in BOOLEAN
    BY DEF ScanEnd, Unparked, IInv, Types
<1>2. scan.retired = <<>>
    BY DEF ScanEnd, Unparked, IInv, Conservation, Passes
<1>3. PICK pc \in {"scan", "parked"} :
          scan' = [scan EXCEPT !.pc = pc] /\ (pc = "parked" => armed = 0)
    BY DEF ScanEnd, Unparked
<1> QED BY <1>1, <1>2, <1>3, ScannerRests

(* What Completed and Woken leave of the futures.                          *)
LEMMA Said ==
    ASSUME Types, Truth, NEW f \in Future, NEW F,
           (F = Completed(f) /\ Done(f)) \/ F = Woken(f)
    PROVE  /\ F \in [Future -> FutureRecord]
           /\ \A g \in Future :
                  /\ F[g].pc = fut[g].pc /\ F[g].slot = fut[g].slot
                  /\ F[g].doorbell = fut[g].doorbell /\ F[g].wait = fut[g].wait
                  /\ F[g].complete => Done(g)
<1>1. fut \in [Future -> FutureRecord] /\ \A g \in Future : fut[g].complete => Done(g)
    BY DEF Types, Truth, Told
<1>2. CASE F = fut
    BY <1>1, <1>2
<1>3. CASE F = [fut EXCEPT ![f].complete = TRUE] /\ Done(f)
    <2>1. [fut[f] EXCEPT !.complete = TRUE] \in FutureRecord
        BY <1>1 DEF FutureRecord
    <2>2. F = [fut EXCEPT ![f] = [fut[f] EXCEPT !.complete = TRUE]]
        BY <1>3
    <2>3. \A g \in Future : F[g] = IF g = f THEN [fut[f] EXCEPT !.complete = TRUE] ELSE fut[g]
        BY <1>1, <2>2
    <2>4. F \in [Future -> FutureRecord]
        BY <1>1, <2>1, <2>2
    <2> QED BY <1>1, <1>3, <2>3, <2>4 DEF FutureRecord
<1>4. CASE F = [fut EXCEPT ![f].woken = @ \/ fut[f].waker = fut[f].owner, ![f].waker = "none"]
    <2> DEFINE r == [fut[f] EXCEPT !.woken = @ \/ fut[f].waker = fut[f].owner, !.waker = "none"]
    <2>1. r \in FutureRecord /\ r.pc = fut[f].pc /\ r.slot = fut[f].slot
          /\ r.doorbell = fut[f].doorbell /\ r.wait = fut[f].wait /\ r.complete = fut[f].complete
        BY <1>1 DEF FutureRecord
    <2>2. F = [fut EXCEPT ![f] = r]
        BY <1>1, <1>4 DEF FutureRecord
    <2> HIDE DEF r
    <2>3. \A g \in Future : F[g] = IF g = f THEN r ELSE fut[g]
        BY <1>1, <2>2
    <2>4. F \in [Future -> FutureRecord]
        BY <1>1, <2>1, <2>2
    <2> QED BY <1>1, <2>1, <2>3, <2>4
<1> QED BY <1>2, <1>3, <1>4 DEF Completed, Woken

LEMMA TellKeeps ==
    ASSUME IInv, Tell
    PROVE  IInv'
<1>1. Types /\ Conservation /\ Places /\ Order /\ Truth
    BY DEF IInv, Conservation
<1>2. scan \in ScanRecord /\ scan.woken \in Seq({"complete", "wake"} \X Future)
    BY <1>1 DEF Types, ScanRecord
<1>3. /\ scan.pc = "telling" /\ scan.woken # <<>>
      /\ UNCHANGED <<numSlots, stream, flag, active, payload, free, armed, token, world>>
    BY DEF Tell, table
<1>4. PICK what \in {"complete", "wake"}, f \in Future : scan.woken[1] = <<what, f>>
    BY <1>2, <1>3
<1>5. fut' = IF what = "complete" THEN Completed(f) ELSE Woken(f)
    BY <1>2, <1>3, <1>4 DEF Tell
<1>6. PICK woken \in Seq({"complete", "wake"} \X Future) :
          /\ scan' = [scan EXCEPT !.woken = woken]
          /\ \A i \in DOMAIN woken : \E j \in DOMAIN scan.woken : woken[i] = scan.woken[j]
    <2>1. /\ Tail(scan.woken) \in Seq({"complete", "wake"} \X Future)
          /\ \A i \in DOMAIN Tail(scan.woken) :
                 \E j \in DOMAIN scan.woken : Tail(scan.woken)[i] = scan.woken[j]
        BY <1>2, <1>3
    <2> QED BY <2>1 DEF Tell
<1>7. /\ scan' \in ScanRecord /\ scan'.pc = scan.pc /\ scan'.todo = scan.todo
      /\ scan'.retired = scan.retired /\ scan'.woken = woken
    BY <1>2, <1>6 DEF ScanRecord
<1>8. what = "complete" => Done(f)
    BY <1>1, <1>2, <1>3, <1>4 DEF Truth, Told
<1>9. /\ fut' \in [Future -> FutureRecord] /\ SameCourse
      /\ \A g \in Future : fut'[g].complete => Done(g)
    <2>1. (fut' = Completed(f) /\ Done(f)) \/ fut' = Woken(f)
        BY <1>5, <1>8
    <2>2. PICK F : F = fut'
        OBVIOUS
    <2>3. (F = Completed(f) /\ Done(f)) \/ F = Woken(f)
        BY <2>1, <2>2
    <2>4. /\ F \in [Future -> FutureRecord]
          /\ \A g \in Future :
                 /\ F[g].pc = fut[g].pc /\ F[g].slot = fut[g].slot
                 /\ F[g].doorbell = fut[g].doorbell /\ F[g].wait = fut[g].wait
                 /\ F[g].complete => Done(g)
        BY <1>1, <2>3, Said
    <2> QED BY <2>2, <2>4 DEF SameCourse
<1>10. Types'
    <2>1. /\ flag' \in [Slot -> {0, 1}]
          /\ active' \in SUBSET Slot /\ payload' \in [Slot -> Future \cup {NoFuture}]
          /\ free' \in Seq(Slot) /\ armed' \in Nat /\ token' \in BOOLEAN
        BY <1>1, <1>3 DEF Types
    <2> QED BY <1>1, <1>3, <1>7, <1>9, <2>1, ScanTypes
<1>11. QuietFutures
    BY <1>9 DEF SameCourse, QuietFutures, Quiet
<1>12. Conservation'
    BY <1>1, <1>3, <1>7, <1>11, QuietConserves
<1>13. Order' /\ Truth'
    <2>1. \A g \in Future, s \in Slot : Holds(g, s)' <=> Holds(g, s)
        BY <1>3, <1>9 DEF Holds, SameCourse
    <2>2. \A g \in Future : (\E i \in DOMAIN scan'.woken : scan'.woken[i] = <<"complete", g>>)
                                => Done(g)
        <3> SUFFICES ASSUME NEW g \in Future, NEW i \in DOMAIN woken, woken[i] = <<"complete", g>>
                     PROVE  Done(g)
            BY <1>7
        <3>1. \E j \in DOMAIN scan.woken : scan.woken[j] = <<"complete", g>>
            BY <1>6
        <3> QED BY <1>1, <3>1, WokenIsDone
    <2> QED BY <1>1, <1>3, <1>9, <2>1, <2>2, ScanOrder
<1> QED BY <1>10, <1>12, <1>13 DEF IInv

-----------------------------------------------------------------------------
(* The device.                                                             *)
Popped(F) == [f \in Future |-> IF F[f].wait > 0 THEN [F[f] EXCEPT !.wait = @ - 1] ELSE F[f]]

LEMMA PopKeeps ==
    ASSUME NEW F \in [Future -> FutureRecord], NEW P, P = Popped(F)
    PROVE  /\ P \in [Future -> FutureRecord]
           /\ \A g \in Future :
                  /\ P[g].pc = F[g].pc /\ P[g].slot = F[g].slot
                  /\ P[g].doorbell = F[g].doorbell /\ P[g].complete = F[g].complete
                  /\ P[g].wait = IF F[g].wait > 0 THEN F[g].wait - 1 ELSE F[g].wait
<1>1. ASSUME NEW e \in FutureRecord
      PROVE  LET r == IF e.wait > 0 THEN [e EXCEPT !.wait = @ - 1] ELSE e
             IN  /\ r \in FutureRecord /\ r.pc = e.pc /\ r.slot = e.slot
                 /\ r.doorbell = e.doorbell /\ r.complete = e.complete
                 /\ r.wait = IF e.wait > 0 THEN e.wait - 1 ELSE e.wait
    BY DEF FutureRecord
<1>2. \A g \in Future : /\ F[g] \in FutureRecord
                        /\ P[g] = IF F[g].wait > 0 THEN [F[g] EXCEPT !.wait = @ - 1] ELSE F[g]
    BY DEF Popped
<1>3. \A g \in Future : P[g] \in FutureRecord
    BY <1>1, <1>2
<1>4. P \in [Future -> FutureRecord]
    BY <1>3 DEF Popped
<1> QED BY <1>1, <1>2, <1>4

(* The first item of the stream is executed: F are the futures it leaves.  *)
LEMMA Executes ==
    ASSUME IInv, NEW F \in [Future -> FutureRecord], device = "ok", stream # <<>>,
           stream' = Tail(stream), fut' = Popped(F),
           \A g \in Future :
               /\ F[g].pc = fut[g].pc /\ F[g].slot = fut[g].slot
               /\ F[g].doorbell = fut[g].doorbell /\ F[g].wait = fut[g].wait
               /\ F[g].complete => Done(g),
           flag' \in [Slot -> {0, 1}],
           \A s \in Slot : flag'[s] = flag[s] \/ stream[1] = [kind |-> "flag", of |-> s],
           UNCHANGED <<numSlots, active, payload, free, armed, scan, token, world>>
    PROVE  IInv'
<1>1. Types /\ Conservation /\ Places /\ Order /\ Truth
    BY DEF IInv, Conservation
<1>2. PICK P : P = fut'
    OBVIOUS
<1>3. /\ fut' \in [Future -> FutureRecord] /\ QuietFutures
      /\ \A g \in Future :
             /\ fut'[g].pc = fut[g].pc /\ fut'[g].slot = fut[g].slot
             /\ fut'[g].complete => Done(g)
             /\ fut'[g].wait = IF fut[g].wait > 0 THEN fut[g].wait - 1 ELSE fut[g].wait
    <2>1. /\ P \in [Future -> FutureRecord]
          /\ \A g \in Future :
                 /\ P[g].pc = F[g].pc /\ P[g].slot = F[g].slot
                 /\ P[g].doorbell = F[g].doorbell /\ P[g].complete = F[g].complete
                 /\ P[g].wait = IF F[g].wait > 0 THEN F[g].wait - 1 ELSE F[g].wait
        BY <1>2, PopKeeps
    <2> QED BY <1>2, <2>1 DEF QuietFutures, Quiet
<1>4. stream \in Seq(Item) /\ stream' \in Seq(Item)
    BY <1>1 DEF Types
<1>5. Slot' = Slot /\ Item' = Item /\ ScanRecord' = ScanRecord /\ FutureRecord' = FutureRecord
    BY DEF Slot, Item, ScanRecord, FutureRecord, NoSlot
<1>6. Types'
    BY <1>1, <1>3, <1>4, <1>5 DEF Types, world
<1>7. Conservation'
    BY <1>1, <1>3, QuietConserves
<1>8. \A g \in Future, s \in Slot : Holds(g, s)' <=> Holds(g, s)
    BY <1>3 DEF Holds
<1>9. device' = "ok"
    BY DEF world
<1>10. /\ Fresh' /\ Drainage' /\ Items' /\ DoneStays
       /\ \A g \in Future : After(g, 1) => Done(g)'
    BY <1>1, <1>3, <1>8, <1>9, StreamShrinks
<1>11. stream[1] \in Item /\ 1 \in DOMAIN stream
    BY <1>4
<1>12. ASSUME NEW s \in Slot, stream[1] = [kind |-> "flag", of |-> s]
       PROVE  /\ \A g \in Future : Holds(g, s) => After(g, 1)
              /\ \E g \in Future : Holds(g, s)
    <2>1. FlagItem(1)
        BY <1>1, <1>11 DEF Order, Items
    <2> QED BY <1>12, <2>1 DEF FlagItem
<1>13. Cleared'
    <2> SUFFICES ASSUME NEW g \in Future, fut[g].pc = "claimed" PROVE flag'[fut[g].slot] = 0
        BY <1>3 DEF Cleared
    <2>1. PICK s \in Slot : s = fut[g].slot
        BY <1>1, HeldSlot DEF Holding
    <2>2. flag[s] = 0 /\ \A h \in Future : ~Holds(h, s)
        BY <1>1, <2>1, HeldSlot DEF Order, Cleared, Holding
    <2> QED BY <1>12, <2>1, <2>2
<1>14. Truth'
    <2> SUFFICES ASSUME NEW g \in Future, Told(g)' PROVE Done(g)'
        BY DEF Truth
    <2>1. CASE fut'[g].complete \/ fut'[g].pc = "over"
        BY <1>1, <1>3, <1>10, <2>1 DEF Truth, Told, DoneStays
    <2>2. CASE \E i \in DOMAIN scan.woken : scan.woken[i] = <<"complete", g>>
        BY <1>1, <1>10, <2>2, WokenIsDone DEF DoneStays
    <2>3. ASSUME NEW s \in Slot, Holds(g, s)', flag'[s] = 1 PROVE Done(g)'
        <3>1. Holds(g, s)
            BY <1>8, <2>3
        <3>2. CASE flag[s] = 1
            BY <1>1, <1>10, <3>1, <3>2 DEF Truth, Told, DoneStays
        <3>3. CASE flag[s] # 1
            BY <1>10, <1>12, <2>3, <3>1, <3>3
        <3> QED BY <3>2, <3>3
    <2> QED BY <1>5, <2>1, <2>2, <2>3 DEF Told
<1> QED BY <1>6, <1>7, <1>10, <1>13, <1>14 DEF IInv, Order

LEMMA StreamStepKeeps ==
    ASSUME IInv, StreamStep
    PROVE  IInv'
<1>1. Types /\ Conservation /\ Places /\ Order /\ Truth
    BY DEF IInv, Conservation
<1>2. /\ device = "ok" /\ stream # <<>> /\ stream[1] \in Item /\ 1 \in DOMAIN stream
      /\ UNCHANGED <<numSlots, active, payload, free, armed, scan, token, world>>
    <2>1. stream \in Seq(Item)
        BY <1>1 DEF Types
    <2> QED BY <2>1 DEF StreamStep
<1>3. /\ fut \in [Future -> FutureRecord] /\ flag \in [Slot -> {0, 1}]
      /\ \A g \in Future : fut[g].complete => Done(g)
    BY <1>1 DEF Types, Truth, Told
<1>4. CASE stream[1].kind = "work" /\ Pop(fut) /\ UNCHANGED flag
    <2>1. stream' = Tail(stream) /\ fut' = Popped(fut)
        BY <1>4 DEF Pop, Popped
    <2>2. flag' \in [Slot -> {0, 1}]
        BY <1>3, <1>4
    <2> QED BY <1>2, <1>3, <1>4, <2>1, <2>2, Executes
<1>5. CASE /\ stream[1].kind = "flag" /\ Pop(fut)
           /\ flag' = [flag EXCEPT ![stream[1].of] = 1]
    <2>1. stream' = Tail(stream) /\ fut' = Popped(fut)
        BY <1>5 DEF Pop, Popped
    <2>2. PICK s \in Slot : stream[1] = [kind |-> "flag", of |-> s]
        BY <1>2, <1>5 DEF Item
    <2>3. flag' = [flag EXCEPT ![s] = 1]
        BY <1>5, <2>2
    <2>4. /\ flag' \in [Slot -> {0, 1}]
          /\ \A t \in Slot : flag'[t] = flag[t] \/ stream[1] = [kind |-> "flag", of |-> t]
        BY <1>3, <2>2, <2>3
    <2> QED BY <1>2, <1>3, <2>1, <2>4, Executes
<1>6. ASSUME stream[1].kind = "host", UNCHANGED flag,
             IF Over(stream[1].of) \/ fut[stream[1].of].complete
             THEN Pop(Woken(stream[1].of))
             ELSE fut' = Completed(stream[1].of) /\ UNCHANGED stream
      PROVE  IInv'
    <2>1. PICK f \in Future : stream[1] = [kind |-> "host", of |-> f]
        BY <1>2, <1>6 DEF Item
    <2>2. CASE Pop(Woken(f))
        <3>1. PICK F : F = Woken(f)
            OBVIOUS
        <3>2. /\ F \in [Future -> FutureRecord]
              /\ \A g \in Future :
                     /\ F[g].pc = fut[g].pc /\ F[g].slot = fut[g].slot
                     /\ F[g].doorbell = fut[g].doorbell /\ F[g].wait = fut[g].wait
                     /\ F[g].complete => Done(g)
            BY <1>1, <3>1, Said
        <3>3. stream' = Tail(stream) /\ fut' = Popped(F)
            BY <2>2, <3>1 DEF Pop, Popped
        <3>4. flag' \in [Slot -> {0, 1}]
            BY <1>3, <1>6
        <3> QED BY <1>2, <1>6, <3>2, <3>3, <3>4, Executes
    <2>3. CASE fut' = Completed(f) /\ UNCHANGED stream
        <3>1. Done(f)
            <4>1. HostItem(1)
                BY <1>1, <1>2 DEF Order, Items
            <4>2. After(f, 1)
                BY <2>1, <4>1 DEF HostItem
            <4>3. \A i \in DOMAIN stream : i = 1 \/ i > 1
                BY <1>1 DEF Types
            <4>4. stream[1] # WorkOf(f)
                BY <2>1 DEF WorkOf
            <4> QED BY <4>2, <4>3, <4>4 DEF After, Done
        <3>2. PICK F : F = fut'
            OBVIOUS
        <3>3. /\ F \in [Future -> FutureRecord]
              /\ \A g \in Future :
                     /\ F[g].pc = fut[g].pc /\ F[g].slot = fut[g].slot
                     /\ F[g].doorbell = fut[g].doorbell /\ F[g].wait = fut[g].wait
                     /\ F[g].complete => Done(g)
            BY <1>1, <2>3, <3>1, <3>2, Said
        <3>4. fut' \in [Future -> FutureRecord] /\ SameCourse /\ QuietFutures
              /\ \A g \in Future : fut'[g].complete => Done(g)
            BY <3>2, <3>3 DEF SameCourse, QuietFutures, Quiet
        <3>5. UNCHANGED <<numSlots, stream, flag, active, payload, free, armed, scan, token, world>>
            BY <1>2, <1>6, <2>3
        <3>6. Types'
            <4>1. /\ flag' \in [Slot -> {0, 1}]
                  /\ active' \in SUBSET Slot /\ payload' \in [Slot -> Future \cup {NoFuture}]
                  /\ free' \in Seq(Slot) /\ armed' \in Nat /\ token' \in BOOLEAN
                  /\ scan' \in ScanRecord
                BY <1>1, <3>5 DEF Types
            <4> QED BY <1>1, <3>4, <3>5, <4>1, ScanTypes
        <3>7. Conservation'
            BY <1>1, <3>4, <3>5, QuietConserves
        <3>8. Order' /\ Truth'
            <4>1. \A g \in Future, s \in Slot : Holds(g, s)' <=> Holds(g, s)
                BY <3>4, <3>5 DEF Holds, SameCourse
            <4>2. \A g \in Future : (\E i \in DOMAIN scan'.woken : scan'.woken[i] = <<"complete", g>>)
                                        => Done(g)
                BY <1>1, <3>5, WokenIsDone
            <4> QED BY <1>1, <3>4, <3>5, <4>1, <4>2, ScanOrder
        <3> QED BY <3>6, <3>7, <3>8 DEF IInv
    <2> QED BY <1>6, <2>1, <2>2, <2>3
<1> QED BY <1>4, <1>5, <1>6 DEF StreamStep

LEMMA FaultKeeps ==
    ASSUME IInv, Fault
    PROVE  IInv'
<1>1. Types /\ Conservation /\ Places /\ Order /\ Truth
    BY DEF IInv, Conservation
<1>2. /\ device' = "faulted" /\ fut' = [f \in Future |-> [fut[f] EXCEPT !.wait = 0]]
      /\ UNCHANGED <<numSlots, stream, flag, active, payload, free, armed, scan, token, aborted>>
    BY DEF Fault, table
<1>3. \A g \in Future : /\ fut'[g] \in FutureRecord
                         /\ fut'[g].pc = fut[g].pc /\ fut'[g].slot = fut[g].slot
                         /\ fut'[g].doorbell = fut[g].doorbell
                         /\ fut'[g].complete = fut[g].complete
    <2>1. \A g \in Future : fut[g] \in FutureRecord
        BY <1>1 DEF Types
    <2> QED BY <1>2, <2>1 DEF FutureRecord
<1>4. fut' \in [Future -> FutureRecord]
    BY <1>2, <1>3
<1>5. Slot' = Slot /\ Item' = Item /\ ScanRecord' = ScanRecord /\ FutureRecord' = FutureRecord
    BY <1>2 DEF Slot, Item, ScanRecord, FutureRecord, NoSlot
<1>6. Types'
    BY <1>1, <1>2, <1>4, <1>5 DEF Types
<1>7. QuietFutures
    BY <1>3 DEF QuietFutures, Quiet
<1>8. Conservation'
    BY <1>1, <1>2, <1>7, QuietConserves
<1>9. Begun /\ DrainsAll(Len(stream)) /\ FlaggedSame
    BY <1>2, <1>3 DEF Begun, DrainsAll, FlaggedSame
<1>10. Fresh' /\ Drainage' /\ Items' /\ DoneStays
    BY <1>1, <1>2, <1>9, StreamSame
<1>11. Cleared'
    BY <1>1, <1>2, <1>3 DEF Order, Cleared
<1>12. \A g \in Future, s \in Slot : Holds(g, s)' <=> Holds(g, s)
    BY <1>2, <1>3 DEF Holds
<1>13. \A g \in Future : Told(g)' => Told(g)
    BY <1>2, <1>3, <1>5, <1>12 DEF Told
<1>14. Truth'
    BY <1>1, <1>10, <1>13 DEF Truth, DoneStays
<1> QED BY <1>6, <1>8, <1>10, <1>11, <1>14 DEF IInv, Order

-----------------------------------------------------------------------------
LEMMA InitHolds == Init => IInv
<1> SUFFICES ASSUME Init PROVE IInv
    OBVIOUS
<1>1. numSlots \in PoolSizes /\ numSlots \in Nat
    BY CompletionAssumption DEF Init
<1>2. \A f \in Future : fut[f] = NewFuture
    BY DEF Init
<1>3. /\ NewFuture.pc = "new" /\ NewFuture.slot = NoSlot /\ NewFuture.doorbell = FALSE
      /\ NewFuture.complete = FALSE /\ NewFuture \in FutureRecord
    BY DEF NewFuture, FutureRecord, PC, Task, NoSlot
<1>4. Registrants = {} /\ Claimed = {} /\ Counted = {}
    <2>1. Registrants = {} /\ Counted = {}
        BY <1>2, <1>3 DEF Registrants, Counted
    <2> QED BY <2>1 DEF Claimed
<1>5. active = {} /\ stream = <<>> /\ DOMAIN stream = {}
    BY DEF Init
<1>6. /\ scan.pc = "scan" /\ scan.retired = <<>> /\ scan.woken = <<>>
    BY DEF Init
<1>7. free \in Seq(Slot) /\ IsInjective(free) /\ Free = Slot
    <2>1. free = [i \in 1..numSlots |-> numSlots - i]
        BY DEF Init
    <2>2. \A i \in 1..numSlots : numSlots - i \in Slot
        BY <1>1 DEF Slot
    <2>3. free \in [1..numSlots -> Slot]
        BY <2>1, <2>2
    <2>4. free \in Seq(Slot)
        BY <1>1, <2>3
    <2>5. IsInjective(free)
        BY <1>1, <2>1 DEF IsInjective
    <2>6. \A s \in Slot : numSlots - s \in 1..numSlots /\ s = numSlots - (numSlots - s)
        BY <1>1 DEF Slot
    <2>7. \A s \in Slot : s \in Free
        BY <2>1, <2>6 DEF Free, Range
    <2>8. \A s \in Free : s \in Slot
        BY <2>3 DEF Free, Range
    <2> QED BY <2>4, <2>5, <2>7, <2>8
<1>8. Types
    <2>1. fut \in [Future -> FutureRecord]
        BY <1>3 DEF Init
    <2>2. stream \in Seq(Item)
        BY <1>5
    <2>3. scan \in ScanRecord
        <3>1. <<>> \in Seq(Slot) /\ <<>> \in Seq({"wake"} \X Future)
              /\ <<>> \in Seq({"complete", "wake"} \X Future)
            OBVIOUS
        <3>2. PICK none \in Seq(Slot) : /\ none = <<>> /\ none \in Seq({"wake"} \X Future)
                                        /\ none \in Seq({"complete", "wake"} \X Future)
            BY <3>1, Zenon
        <3>3. scan = [pc |-> "scan", todo |-> {}, retired |-> none, woken |-> none, dead |-> none]
            BY <3>2 DEF Init
        <3> QED BY <3>2, <3>3 DEF ScanRecord
    <2>4. /\ flag \in [Slot -> {0, 1}] /\ payload \in [Slot -> Future \cup {NoFuture}]
          /\ active \in SUBSET Slot /\ armed \in Nat /\ token \in BOOLEAN
          /\ device \in {"ok", "faulted"} /\ aborted \in BOOLEAN
        BY DEF Init
    <2> QED BY <1>1, <1>7, <2>1, <2>2, <2>3, <2>4 DEF Types
<1>9. Conservation
    <2>1. Retired = {}
        BY <1>6 DEF Retired
    <2>2. Partition(Free, Claimed, active, Retired)
        BY <1>4, <1>5, <1>7, <2>1 DEF Partition
    <2>3. \A f \in Future : Registered(fut[f])
        BY <1>2, <1>3 DEF Registered, Holding
    <2>4. Places
        BY <1>4, <1>7, <2>2, <2>3 DEF Places
    <2>5. Payloads
        BY <1>4, <1>5 DEF Payloads
    <2>6. Passes
        BY <1>6 DEF Passes
    <2>7. Counts
        <3>1. armed = 0 /\ Len(scan.retired) = 0
            BY <1>6, NoList DEF Init
        <3> QED BY <1>4, <1>5, <3>1, FS_EmptySet DEF Counts
    <2>8. SleepsOnlyWhenIdle
        BY <1>6 DEF SleepsOnlyWhenIdle
    <2> QED BY <2>4, <2>5, <2>6, <2>7, <2>8 DEF Conservation
<1>10. Order
    BY <1>2, <1>3, <1>5 DEF Order, Fresh, Drainage, Cleared, Items
<1>11. Truth
    <2>1. \A f \in Future : ~Told(f)
        BY <1>2, <1>3, <1>5, <1>6 DEF Told, Holds
    <2> QED BY <2>1 DEF Truth
<1> QED BY <1>8, <1>9, <1>10, <1>11 DEF IInv

LEMMA SameKeeps ==
    ASSUME IInv, UNCHANGED <<fut, stream, table, scan, token, device>>, aborted' \in BOOLEAN
    PROVE  IInv'
<1>1. UNCHANGED <<numSlots, fut, stream, flag, active, payload, free, armed, scan, token, device>>
    BY DEF table
<1>2. Slot' = Slot /\ Item' = Item /\ ScanRecord' = ScanRecord /\ FutureRecord' = FutureRecord
      /\ NoSlot' = NoSlot
    BY <1>1 DEF Slot, Item, ScanRecord, FutureRecord, NoSlot
<1>3. Types'
    BY <1>1, <1>2 DEF IInv, Types
<1>4. QuietFutures /\ Begun /\ DrainsAll(Len(stream))
    BY <1>1 DEF QuietFutures, Quiet, Begun, DrainsAll
<1>5. Conservation'
    BY <1>1, <1>4, QuietConserves DEF IInv
<1>6. \A g \in Future, s \in Slot : Holds(g, s)' <=> Holds(g, s)
    BY <1>1 DEF Holds
<1>7. FlaggedSame
    BY <1>1, <1>6 DEF FlaggedSame, SameSlot
<1>8. Fresh' /\ Drainage' /\ Items' /\ DoneStays
    BY <1>1, <1>4, <1>7, StreamSame DEF IInv
<1>9. Cleared'
    BY <1>1 DEF IInv, Order, Cleared
<1>10. \A g \in Future : Told(g)' => Told(g)
    BY <1>1, <1>2, <1>6 DEF Told
<1>11. Truth'
    BY <1>8, <1>10 DEF IInv, Truth, DoneStays
<1> QED BY <1>3, <1>5, <1>8, <1>9, <1>11 DEF IInv, Order

LEMMA NextKeeps == IInv /\ [Next]_vars => IInv'
<1> SUFFICES ASSUME IInv, [Next]_vars PROVE IInv'
    OBVIOUS
<1>1. ASSUME NEW f \in Future, Continue(f) PROVE IInv'
    <2>1. CASE FailStop(f)
        BY <2>1, SameKeeps DEF FailStop
    <2> QED BY <1>1, <2>1, SpinSeesKeeps, ClaimKeeps, ArmKeeps, CountKeeps, SetBitKeeps,
               UnparkKeeps, HostFunctionKeeps, RegisterWakerKeeps, RecheckKeeps, DrainedKeeps
            DEF Continue
<1>2. ASSUME NEW f \in Future, Choice(f) PROVE IInv'
    BY <1>2, FirstPollKeeps, PollKeeps, MoveKeeps, DropKeeps DEF Choice
<1>3. CASE StreamStep
    BY <1>3, StreamStepKeeps
<1>4. CASE Fault
    BY <1>4, FaultKeeps
<1>5. CASE Scanner
    BY <1>5, ScanBeginKeeps, ScanSlotKeeps, ScanRecycleKeeps, ScanSubtractKeeps, TellKeeps,
       ScanEndKeeps DEF Scanner
<1>6. CASE UNCHANGED vars
    BY <1>6, SameKeeps DEF vars, world, IInv, Types
<1> QED BY <1>1, <1>2, <1>3, <1>4, <1>5, <1>6 DEF Next

(* The slots are conserved and every signal comes after the work it stands *)
(* for, in every state.                                                    *)
THEOREM CompletionInvariant == Spec => []IInv
BY InitHolds, NextKeeps, PTL DEF Spec

(* Every future, slot and record of the scanner keeps its type; n_armed    *)
(* never goes below zero (slot_table.rs).                                  *)
THEOREM CompletionTypes == Spec => []TypeOK
<1>1. IInv => TypeOK
    BY DEF IInv, Types, TypeOK, FutureRecord, Item, ScanRecord
<1> QED BY <1>1, CompletionInvariant, PTL

(* A result is released only when its work is off the device, whatever the *)
(* slots, flags, moves and drops (device_future.rs).                       *)
THEOREM CompletionReleases == Spec => []ReleasedAfterWork
<1>1. IInv => ReleasedAfterWork
    <2> SUFFICES ASSUME IInv, NEW f \in Future, Over(f), InFlight(f) PROVE FALSE
        BY DEF ReleasedAfterWork
    <2>1. Done(f)
        BY DEF IInv, Truth, Told, Over
    <2>2. \A i \in 1..Len(stream) : i \in DOMAIN stream
        BY ItemTypes DEF IInv
    <2> QED BY <2>1, <2>2 DEF Done, InFlight, WorkOf
<1> QED BY <1>1, CompletionInvariant, PTL

(* Every slot has one place and n_armed counts those in flight             *)
(* (slot_table.rs).                                                        *)
THEOREM CompletionSlots == Spec => []SlotsConserved
<1>1. IInv => SlotsConserved
    <2> SUFFICES ASSUME IInv PROVE SlotsConserved
        OBVIOUS
    <2>1. Types /\ Places /\ Payloads /\ Counts /\ Partition(Free, Claimed, active, Retired)
        BY DEF IInv, Conservation, Places
    <2>2. Cardinality(Claimed) = Cardinality(Registrants)
        <3> DEFINE m == [f \in Registrants |-> fut[f].slot]
        <3>1. IsFiniteSet(Claimed)
            <4>1. Claimed \in SUBSET Slot
                BY <2>1 DEF Partition
            <4>2. IsFiniteSet(Slot)
                BY <2>1, CompletionAssumption, FS_Interval DEF Slot, Types
            <4> QED BY <4>1, <4>2, FS_Subset
        <3>2. /\ m \in [Registrants -> Claimed]
              /\ \A f, g \in Registrants : m[f] = m[g] => f = g
              /\ \A s \in Claimed : \E f \in Registrants : m[f] = s
            BY <2>1 DEF Claimed, Places
        <3>3. m \in Injection(Registrants, Claimed) /\ m \in Surjection(Registrants, Claimed)
            BY <3>2 DEF Injection, Surjection, IsInjective
        <3> HIDE DEF m
        <3> QED BY <3>1, <3>3, FS_Injection
    <2>3. \A s \in active : payload[s] # NoFuture
        BY <2>1, CompletionAssumption DEF Payloads
    <2> QED BY <2>1, <2>2, <2>3 DEF SlotsConserved, Counts, Counted, Places, Partition
<1> QED BY <1>1, CompletionInvariant, PTL

(* A slot that can be claimed has no flag write to come (reactor.rs).      *)
THEOREM CompletionFlags == Spec => []NoLateFlagWrite
<1>1. IInv => NoLateFlagWrite
    <2> SUFFICES ASSUME IInv, device = "ok", NEW s \in Free, NEW i \in 1..Len(stream),
                        stream[i] = [kind |-> "flag", of |-> s]
                 PROVE  FALSE
        BY DEF NoLateFlagWrite
    <2>1. Types /\ Places /\ i \in DOMAIN stream
        BY ItemTypes DEF IInv, Conservation
    <2>2. FlagItem(i)
        BY <2>1 DEF IInv, Order, Items
    <2>3. \E f \in Future : Holds(f, s)
        BY <2>2 DEF FlagItem
    <2> QED BY <2>1, <2>3, FreeSlot
<1> QED BY <1>1, CompletionInvariant, PTL

(* The scanner sleeps without a token only while nothing is armed, or its  *)
(* registrant is about to unpark it (reactor.rs).                          *)
THEOREM CompletionSleeps == Spec => []SleepsOnlyWhenIdle
<1>1. IInv => SleepsOnlyWhenIdle
    BY DEF IInv, Conservation
<1> QED BY <1>1, CompletionInvariant, PTL
=============================================================================
