------------------------- MODULE ExecuteOnceProofs --------------------------
(***************************************************************************)
(* The outcome of an execute-once operation is one, for every number of    *)
(* executors and streams.  The invariant says who may change OnceState:    *)
(* while it is Running only its thread is inside the operation, so only    *)
(* that thread settles it; and whoever has a result saw a settled state,   *)
(* which nothing changes again.  The second half is about the storage      *)
(* behind the value: who holds a part or has it in a quarantine (Wares),   *)
(* and which stream still has what work on it (Work).                      *)
(***************************************************************************)
EXTENDS ExecuteOnce, SequenceTheorems, TLAPS

Inside == {"running", "reentering", "resumed", "settling"}
Places == WithHandle \cup {"chaining", "terminal", "syncing", "ready", "gone"}

States ==
    {Pending} \cup {Running(t) : t \in Executor}
        \cup {Done(s) : s \in Stream \cup {NoStream}} \cup {Failed(e) : e \in Errors}

Types ==
    /\ pc \in [Executor -> Places]
    /\ result \in [Executor -> {"none", "value", "join"} \cup Errors]
    /\ once \in States
    /\ runs \in Nat

OneInside == \A t \in Executor : pc[t] \in Inside <=> once = Running(t)

RunCounted == runs <= 1 /\ (once = Pending => runs = 0)

ResultIsOutcome ==
    \A t \in Executor :
        /\ result[t] \in Errors => once = Failed(result[t])
        /\ result[t] \in {"value", "join"} => once.state = "done"

IInv == Types /\ OneInside /\ RunCounted /\ ResultIsOutcome

(* The four states are told apart by their tags, and a running or a failed *)
(* state by what it holds.                                                 *)
LEMMA StatesDiffer ==
    /\ Pending.state = "pending"
    /\ \A t : Running(t).state = "running" /\ Running(t).thread = t
    /\ \A s : Done(s).state = "done" /\ Done(s).producer = s
    /\ \A e : Failed(e).state = "failed" /\ Failed(e).error = e
BY DEF Pending, Running, Done, Failed

LEMMA InitIInv == Init => IInv
<1> SUFFICES ASSUME Init PROVE IInv
    OBVIOUS
<1>1. once = Pending \/ once = Done(NoStream)
    BY DEF Init
<1>2. Types
    BY <1>1 DEF Init, Types, States, Places, WithHandle, Errors
<1>3. OneInside
    BY <1>1, StatesDiffer DEF Init, OneInside, Inside
<1>4. RunCounted /\ ResultIsOutcome
    BY DEF Init, RunCounted, ResultIsOutcome, Errors
<1> QED BY <1>2, <1>3, <1>4 DEF IInv

(* A step of an executor outside the operation that leaves the state, the  *)
(* results and the number of runs alone, and stays outside.                *)
LEMMA Moves ==
    ASSUME IInv, NEW t \in Executor, pc[t] \notin Inside,
           NEW at \in Places \ Inside,
           pc' = [pc EXCEPT ![t] = at],
           UNCHANGED <<once, result, runs>>
    PROVE  IInv'
<1>1. Types'
    BY DEF IInv, Types, States
<1>2. OneInside'
    BY DEF IInv, Types, OneInside
<1> QED BY <1>1, <1>2 DEF IInv, RunCounted, ResultIsOutcome

(* The step that answers an executor: with the error of a failed state, or *)
(* with the value or a failure to join of a settled one.                   *)
LEMMA Answers ==
    ASSUME IInv, NEW t \in Executor, pc[t] = "entering",
           NEW at \in {"chaining", "terminal"}, NEW r,
           \/ once.state = "failed" /\ r = once.error
           \/ once.state = "done" /\ r \in {"value", "join"},
           pc' = [pc EXCEPT ![t] = at],
           result' = [result EXCEPT ![t] = r],
           UNCHANGED <<once, runs>>
    PROVE  IInv'
<1>1. once.state = "failed" => once = Failed(r) /\ r \in Errors
    BY StatesDiffer DEF IInv, Types, States, Errors
<1>2. Types'
    BY <1>1 DEF IInv, Types, States, Places
<1>3. OneInside'
    BY DEF IInv, Types, OneInside, Inside
<1>4. ResultIsOutcome'
  <2> SUFFICES ASSUME NEW u \in Executor
               PROVE  /\ result'[u] \in Errors => once = Failed(result'[u])
                      /\ result'[u] \in {"value", "join"} => once.state = "done"
      BY DEF ResultIsOutcome
  <2>1. CASE u = t
      BY <2>1, <1>1 DEF IInv, Types, Errors
  <2>2. CASE u # t
      BY <2>2 DEF IInv, Types, ResultIsOutcome
  <2> QED BY <2>1, <2>2
<1> QED BY <1>2, <1>3, <1>4 DEF IInv, RunCounted

(* The step that settles the state: taken by the thread inside, when no    *)
(* executor has a result yet.                                              *)
LEMMA Settles ==
    ASSUME IInv, NEW t \in Executor, pc[t] \in Inside,
           NEW at \in Places \ Inside,
           \/ \E s \in Stream : once' = Done(s)
           \/ \E e \in Errors : once' = Failed(e),
           pc' = [u \in Executor |-> IF u = t THEN at
                                     ELSE IF pc[u] = "waiting" THEN "entering" ELSE pc[u]]
             \/ pc' = [pc EXCEPT ![t] = at],
           UNCHANGED <<result, runs>>
    PROVE  IInv'
<1>1. once = Running(t)
    BY DEF IInv, OneInside
<1>2. \A u \in Executor : u # t => pc[u] \notin Inside
    BY <1>1, StatesDiffer DEF IInv, OneInside
<1>3. \A u \in Executor : result[u] = "none"
    BY <1>1, StatesDiffer DEF IInv, Types, ResultIsOutcome
<1>4. once'.state \in {"done", "failed"} /\ once' \in States
    BY StatesDiffer DEF States
<1>5. Types'
    BY <1>4 DEF IInv, Types, States, Places, WithHandle
<1>6. \A u \in Executor : pc'[u] \notin Inside
    BY <1>2 DEF IInv, Types, Inside
<1>7. OneInside' /\ RunCounted' /\ ResultIsOutcome'
    BY <1>1, <1>3, <1>4, <1>6, StatesDiffer
       DEF IInv, OneInside, RunCounted, ResultIsOutcome, Errors
<1> QED BY <1>5, <1>7 DEF IInv

LEMMA ClaimIInv == ASSUME IInv, NEW t \in Executor, Claim(t) PROVE IInv'
<1>1. /\ pc[t] = "entering" /\ once = Pending /\ once' = Running(t) /\ runs' = runs + 1
      /\ pc' = [pc EXCEPT ![t] = "running"] /\ result' = result
    BY DEF Claim
<1>2. \A u \in Executor : pc[u] \notin Inside
    BY <1>1, StatesDiffer DEF IInv, OneInside
<1>3. \A u \in Executor : result[u] = "none"
    BY <1>1, StatesDiffer DEF IInv, Types, ResultIsOutcome
<1>4. Types'
    BY <1>1 DEF IInv, Types, States, Places, WithHandle
<1>5. OneInside'
    BY <1>1, <1>2, StatesDiffer DEF IInv, Types, OneInside, Inside
<1>6. RunCounted'
    BY <1>1, StatesDiffer DEF IInv, Types, RunCounted
<1>7. ResultIsOutcome'
    BY <1>1, <1>3 DEF ResultIsOutcome, Errors
<1> QED BY <1>4, <1>5, <1>6, <1>7 DEF IInv

(* A step of the thread inside that keeps it inside.                       *)
LEMMA StaysInside ==
    ASSUME IInv, NEW t \in Executor, pc[t] \in Inside, NEW at \in Inside,
           pc' = [pc EXCEPT ![t] = at],
           UNCHANGED <<once, result, runs>>
    PROVE  IInv'
<1>1. Types' /\ OneInside'
    BY DEF IInv, Types, States, OneInside, Inside, Places, WithHandle
<1> QED BY <1>1 DEF IInv, RunCounted, ResultIsOutcome

LEMMA NotifyIInv == ASSUME IInv, NEW t \in Executor, Notify(t) PROVE IInv'
<1>1. /\ pc[t] = "notifying" /\ UNCHANGED <<once, result, runs>>
      /\ \A u \in Executor :
            pc'[u] \in Places /\ (pc'[u] \in Inside <=> pc[u] \in Inside)
      /\ pc' = [u \in Executor |-> pc'[u]]
    BY DEF Notify, Awakened, IInv, Types, Places, WithHandle, Inside
<1>2. Types'
    BY <1>1 DEF IInv, Types, States
<1>3. OneInside'
    BY <1>1 DEF IInv, OneInside
<1> QED BY <1>1, <1>2, <1>3 DEF IInv, RunCounted, ResultIsOutcome

LEMMA NextIInv == IInv /\ [Next]_vars => IInv'
<1> SUFFICES ASSUME IInv, [Next]_vars PROVE IInv'
    OBVIOUS
<1>1. ASSUME UNCHANGED <<pc, once, result, runs>> PROVE IInv'
    BY <1>1 DEF IInv, Types, States, OneInside, RunCounted, ResultIsOutcome
<1>2. CASE UNCHANGED vars
    BY <1>1, <1>2 DEF vars
<1>3. CASE \E s \in Stream : Device(s)
    BY <1>1, <1>3 DEF Device
<1>4. ASSUME NEW t \in Executor,
             \/ Start(t) \/ Abandon(t) \/ SpuriousWake(t) \/ DropValue(t) \/ Wait(t)
             \/ Chain(t) \/ Synchronize(t)
      PROVE  IInv'
  <2>1. \E at \in {"entering", "gone", "waiting", "terminal", "syncing"} :
           pc[t] \notin Inside /\ pc' = [pc EXCEPT ![t] = at]
      BY <1>4 DEF Start, Abandon, SpuriousWake, DropValue, Wait, Chain, Synchronize, Inside
  <2>2. UNCHANGED <<once, result, runs>>
      BY <1>4 DEF Start, Abandon, SpuriousWake, DropValue, Wait, Chain, Synchronize
  <2> QED BY <2>1, <2>2, Moves DEF Places, WithHandle, Inside
<1>5. ASSUME NEW t \in Executor, CompletionProven(t) PROVE IInv'
  <2>1. \E at \in {"ready", "gone"} : pc' = [pc EXCEPT ![t] = at]
      BY <1>5 DEF CompletionProven
  <2>2. pc[t] \notin Inside /\ UNCHANGED <<once, result, runs>>
      BY <1>5 DEF CompletionProven, Inside
  <2> QED BY <2>1, <2>2, Moves DEF Places, WithHandle, Inside
<1>6. ASSUME NEW t \in Executor, Refused(t) \/ Take(t) \/ JoinFails(t) PROVE IInv'
  <2>1. CASE Refused(t)
      BY <2>1, Answers DEF Refused
  <2>2. CASE Take(t)
      BY <2>2, Answers DEF Take, TakeValue
  <2>3. CASE JoinFails(t)
      BY <2>3, Answers DEF JoinFails
  <2> QED BY <1>6, <2>1, <2>2, <2>3
<1>7. ASSUME NEW t \in Executor, Reenter(t) \/ Reentered(t) \/ RunSucceeds(t) PROVE IInv'
  <2>1. \E at \in Inside : pc[t] \in Inside /\ pc' = [pc EXCEPT ![t] = at]
      BY <1>7 DEF Reenter, Reentered, RunSucceeds, Runs, Inside
  <2>2. UNCHANGED <<once, result, runs>>
      BY <1>7 DEF Reenter, Reentered, RunSucceeds, value
  <2> QED BY <2>1, <2>2, StaysInside
<1>8. ASSUME NEW t \in Executor, RunFails(t) \/ Panic(t) \/ SettleDone(t) \/ RecordFails(t)
      PROVE  IInv'
  <2>1. CASE RunFails(t)
      BY <2>1, Settles DEF RunFails, Runs, Errors, Inside, Places, WithHandle
  <2>2. CASE Panic(t)
      BY <2>2, Settles DEF Panic, Runs, Awakened, Errors, Inside, Places, WithHandle
  <2>3. CASE SettleDone(t)
      BY <2>3, Settles, ExecuteOnceAssumption
         DEF SettleDone, Inside, Places, WithHandle
  <2>4. CASE RecordFails(t)
      BY <2>4, Settles DEF RecordFails, Errors, Inside, Places, WithHandle
  <2> QED BY <1>8, <2>1, <2>2, <2>3, <2>4
<1>9. ASSUME NEW t \in Executor, FailStop(t) PROVE IInv'
    BY <1>1, <1>9 DEF FailStop
<1> QED
    BY <1>2, <1>3, <1>4, <1>5, <1>6, <1>7, <1>8, <1>9, ClaimIInv, NotifyIInv
       DEF Next, Execute

(* OutcomeIsShared of module ExecuteOnce, for any executors and streams:   *)
(* ExecuteOnce::execute runs the operation at most once and gives all its  *)
(* callers the same outcome.                                               *)
THEOREM OutcomeShared == Spec => []OutcomeIsShared
<1>1. IInv => OutcomeIsShared
  <2> SUFFICES ASSUME IInv, NEW t \in Executor, NEW u \in Executor, result[t] \in Errors
               PROVE  result[u] \in {"none", result[t]}
      BY DEF IInv, RunCounted, OutcomeIsShared
  <2>1. once = Failed(result[t])
      BY DEF IInv, ResultIsOutcome
  <2>2. result[u] \notin {"value", "join"}
      BY <2>1, StatesDiffer DEF IInv, ResultIsOutcome
  <2>3. result[u] \in Errors => result[u] = result[t]
      BY <2>1, StatesDiffer DEF IInv, ResultIsOutcome
  <2> QED BY <2>2, <2>3 DEF IInv, Types
<1>2. QED
    BY InitIInv, NextIInv, <1>1, PTL DEF Spec

(* A settled outcome stays: Done and Failed are never replaced             *)
(* (ExecuteOnce::execute, "The operation was consumed and cannot be        *)
(* retried").                                                              *)
OutcomeStays == [][once.state \in {"done", "failed"} => once' = once]_vars

THEOREM OutcomeSettled == Spec => OutcomeStays
<1>1. IInv /\ [Next]_vars => [once.state \in {"done", "failed"} => once' = once]_vars
  <2> SUFFICES ASSUME IInv, Next, once.state \in {"done", "failed"} PROVE once' = once
      OBVIOUS
  <2>1. ASSUME NEW t \in Executor PROVE pc[t] \notin Inside /\ once # Pending
      BY StatesDiffer DEF IInv, OneInside
  <2>2. ASSUME NEW t \in Executor, Execute(t) PROVE once' = once
      BY <2>1, <2>2 DEF Execute, Claim, Wait, Refused, Take, TakeValue, JoinFails,
         Reentered, RunSucceeds, RunFails, Panic, FailStop, SettleDone, RecordFails,
         Notify, Chain, Synchronize, CompletionProven, Runs, Inside
  <2> QED BY <2>2 DEF Next, Start, Abandon, Reenter, SpuriousWake, DropValue, Device
<1>2. QED
    BY InitIInv, NextIInv, <1>1, PTL DEF Spec, OutcomeStays

-----------------------------------------------------------------------------
(* The storage behind the outcome and the order of the work on it.         *)

Item == {"wait", "write", "record", "use", "sync"} \X Executor

WareTypes ==
    /\ kind \in {"shared", "unzip"}
    /\ memo \in SUBSET Part
    /\ holder \in [Part -> SUBSET Executor]
    /\ storage \in [Part -> {"none", "live", "leaked", "freed"}]
    /\ quarantine \in [Executor -> SUBSET Part]
    /\ unguarded \in SUBSET Part
    /\ kind = "unzip" => \A t \in Executor \ {First, Second} : pc[t] = "gone"

Settled == once.state = "done"

(* Every handle is worth its part of the memo; a half is taken once.       *)
MemoInv ==
    /\ memo # {} => Settled
    /\ Settled => \A t \in Executor : pc[t] \in WithHandle => PartOf(t) \in memo
    /\ kind = "unzip" => \A t \in Executor : result[t] = "value" => PartOf(t) \notin memo

(* Who owns a part was given the value, and has not returned it.           *)
HolderInv ==
    /\ \A p \in Part : \A t \in holder[p] :
          /\ PartOf(t) = p /\ result[t] = "value"
          /\ pc[t] \in {"chaining", "terminal", "syncing", "ready"}
    /\ \A t \in Executor : pc[t] \in {"chaining", "ready"} => t \in holder[PartOf(t)]
    /\ \A t \in Executor : pc[t] \in WithHandle => result[t] = "none"

(* Nobody has a reference to the part any more.                            *)
Given(p) == Settled /\ p \notin memo /\ holder[p] = {}

InQuarantine(t, p) ==
    /\ Given(p) /\ storage[p] # "freed"
    /\ pc[t] \in {"chaining", "terminal", "syncing"}
    /\ \A u \in Executor \ {t} : p \notin quarantine[u]
    /\ p \in unguarded \/ result[t] = "value"

QuarantineInv == \A t \in Executor : \A p \in quarantine[t] : InQuarantine(t, p)

FreedInv ==
    \A p \in Part : storage[p] = "freed" =>
        Given(p) /\ \A t \in Executor : p \notin quarantine[t]

Wares == WareTypes /\ MemoInv /\ HolderInv /\ QuarantineInv /\ FreedInv

WorkTypes ==
    /\ queue \in [Stream -> Seq(Item)]
    /\ \A s \in Stream : \A i \in DOMAIN queue[s] : StreamOf[queue[s][i][2]] = s

(* The item is behind all the work that produces the value: on its own     *)
(* stream, or behind a wait for the event that is still to be recorded.    *)
Ordered(s, i) ==
    /\ Settled
    /\ once.producer = s => \A j \in DOMAIN queue[s] : j > i => queue[s][j][1] # "write"
    /\ once.producer \notin {NoStream, s} /\ Queued("record") =>
          \E j \in DOMAIN queue[s] : j < i /\ queue[s][j][1] = "wait"

(* The part under a use is owned, or waits for a terminal, or is one of    *)
(* those that escape the quarantine.                                       *)
Covered(t) ==
    \/ t \in holder[PartOf(t)]
    \/ PartOf(t) \in unguarded
    \/ PartOf(t) \in quarantine[t]

UseOK(s, i, t) ==
    /\ result[t] = "value" /\ pc[t] \in {"terminal", "syncing"}
    /\ Covered(t)
    /\ pc[t] = "syncing" =>
          \E j \in DOMAIN queue[s] : j > i /\ queue[s][j] = <<"sync", t>>
    /\ Ordered(s, i)

UseInv ==
    \A s \in Stream : \A i \in DOMAIN queue[s] : \A t \in Executor :
        queue[s][i] = <<"use", t>> => UseOK(s, i, t)

SyncOK(s, i, t) == pc[t] = "syncing" /\ (result[t] = "value" => Ordered(s, i))

SyncInv ==
    \A s \in Stream : \A i \in DOMAIN queue[s] : \A t \in Executor :
        queue[s][i] = <<"sync", t>> => SyncOK(s, i, t)

(* An executor with the value has joined its stream, and has it only when  *)
(* its terminal has come behind the work.                                  *)
Joined(t) ==
    /\ pc[t] \in {"chaining", "terminal"} /\ Elsewhere(t) /\ Queued("record") =>
          \E j \in DOMAIN queue[StreamOf[t]] : queue[StreamOf[t]][j][1] = "wait"
    /\ pc[t] = "syncing" /\ ~InQueue("sync", t) => ~Queued("write")
    /\ pc[t] = "ready" => ~Queued("write")

JoinedInv == \A t \in Executor : result[t] = "value" => Joined(t)

(* Work that produces the value is followed by its event.                  *)
Recorded(s, i) ==
    \/ /\ Settled /\ once.producer = s
       /\ \E j \in DOMAIN queue[s] : j > i /\ queue[s][j][1] = "record"
    \/ once.state = "failed"
    \/ \E t \in Executor : once = Running(t) /\ pc[t] = "settling" /\ s = StreamOf[t]

WriteInv ==
    \A s \in Stream : \A i \in DOMAIN queue[s] :
        queue[s][i][1] = "write" => Recorded(s, i)

FreedOrdered == \A p \in Part : storage[p] = "freed" => p \in unguarded \/ ~Queued("write")

Work == WorkTypes /\ UseInv /\ SyncInv /\ JoinedInv /\ WriteInv /\ FreedOrdered

SInv == IInv /\ Wares /\ Work

LEMMA InitSInv == Init => Wares /\ Work
<1> SUFFICES ASSUME Init PROVE Wares /\ Work
    OBVIOUS
<1>1. /\ once = Pending \/ (once = Done(NoStream) /\ kind = "shared")
      /\ kind \in {"shared", "unzip"}
      /\ pc = [t \in Executor |->
             IF kind = "shared" \/ t \in {First, Second} THEN "idle" ELSE "gone"]
      /\ result = [t \in Executor |-> "none"] /\ holder = [p \in Part |-> {}]
      /\ storage = [p \in Part |-> IF once = Pending THEN "none" ELSE "live"]
      /\ quarantine = [t \in Executor |-> {}] /\ queue = [s \in Stream |-> <<>>]
      /\ memo = (IF once = Pending THEN {} ELSE Part) /\ unguarded = {}
    BY DEF Init
<1>2. \A p \in Part : storage[p] # "freed"
    BY <1>1
<1>3. WareTypes
    BY <1>1 DEF WareTypes
<1>4. MemoInv
    BY <1>1, StatesDiffer DEF MemoInv, Settled, Part, PartOf
<1>5. HolderInv
    BY <1>1 DEF HolderInv
<1>6. QuarantineInv /\ FreedInv /\ FreedOrdered
    BY <1>1, <1>2 DEF QuarantineInv, FreedInv, FreedOrdered
<1>7. \A s \in Stream : queue[s] = <<>> /\ DOMAIN queue[s] = {}
    BY <1>1
<1>8. WorkTypes
    BY <1>1, <1>7 DEF WorkTypes
<1>9. UseInv /\ SyncInv /\ WriteInv
    BY <1>7 DEF UseInv, SyncInv, WriteInv
<1>10. JoinedInv
    BY <1>1 DEF JoinedInv
<1> QED BY <1>3, <1>4, <1>5, <1>6, <1>8, <1>9, <1>10 DEF Wares, Work

(* Parts and who has which do not depend on the state but for the kind.    *)
LEMMA KindStays ==
    [Next]_vars => kind' = kind /\ Part' = Part /\ \A t : PartOf(t)' = PartOf(t)
<1> SUFFICES ASSUME [Next]_vars PROVE kind' = kind
    BY DEF Part, PartOf
<1>1. ASSUME NEW t \in Executor, Execute(t) PROVE kind' = kind
    BY <1>1 DEF Execute, Claim, Wait, Refused, Take, TakeValue, JoinFails, Reentered,
       RunSucceeds, RunFails, Panic, FailStop, SettleDone, RecordFails, Notify, Chain,
       Synchronize, CompletionProven
<1> QED BY <1>1 DEF Next, Start, Abandon, Reenter, SpuriousWake, DropValue, Device, vars

LEMMA PartsOfKind ==
    ASSUME WareTypes
    PROVE  /\ \A t \in Executor : PartOf(t) \in Part
           /\ kind = "shared" => Part = {"value"}
           /\ kind = "unzip" => PartOf(First) # PartOf(Second)
BY ExecuteOnceAssumption DEF WareTypes, Part, PartOf

(* Before the operation has settled well nobody has a part of the value,   *)
(* and nothing on the streams uses one.                                    *)
LEMMA Unsettled ==
    ASSUME SInv, ~Settled
    PROVE  /\ memo = {}
           /\ \A t \in Executor : result[t] # "value"
           /\ \A p \in Part : holder[p] = {} /\ storage[p] # "freed"
           /\ \A t \in Executor : quarantine[t] = {} /\ pc[t] \notin {"chaining", "ready"}
           /\ \A s \in Stream : \A i \in DOMAIN queue[s] : queue[s][i][1] # "use"
<1>1. memo = {} /\ \A t \in Executor : result[t] # "value"
    BY DEF SInv, Wares, MemoInv, IInv, ResultIsOutcome, Settled
<1>2. \A p \in Part : holder[p] = {}
    BY <1>1 DEF SInv, Wares, HolderInv, WareTypes
<1>3. \A p \in Part : storage[p] # "freed"
    BY DEF SInv, Wares, FreedInv, Given
<1>4. \A t \in Executor : quarantine[t] = {}
    BY DEF SInv, Wares, QuarantineInv, InQuarantine, Given
<1>5. \A t \in Executor : pc[t] \notin {"chaining", "ready"}
    BY <1>2, PartsOfKind DEF SInv, Wares, HolderInv
<1>6. ASSUME NEW s \in Stream, NEW i \in DOMAIN queue[s], queue[s][i][1] = "use" PROVE FALSE
  <2>1. queue[s][i] \in Item
      BY DEF SInv, Work, WorkTypes
  <2>2. PICK t \in Executor : queue[s][i] = <<"use", t>>
      BY <2>1, <1>6 DEF Item
  <2> QED BY <2>2, <1>1 DEF SInv, Work, UseInv, UseOK
<1> QED BY <1>1, <1>2, <1>3, <1>4, <1>5, <1>6

(* The same, read the other way: what has to be shown of a step after      *)
(* which the operation has not settled well.                               *)
LEMMA StaysUnsettled ==
    ASSUME SInv, [Next]_vars, IInv', ~Settled, ~Settled',
           UNCHANGED <<memo, holder, quarantine, unguarded>>,
           storage' \in [Part -> {"none", "live", "leaked"}] \/ storage' = storage,
           \A t \in Executor : /\ result'[t] # "value"
                               /\ pc'[t] \in WithHandle =>
                                     pc[t] \in WithHandle /\ result'[t] = result[t]
                               /\ pc'[t] \notin {"chaining", "ready"}
                               /\ pc[t] = "gone" => pc'[t] = "gone"
                               /\ pc[t] = "syncing" => pc'[t] = "syncing"
    PROVE  /\ Wares'
           /\ FreedOrdered' /\ JoinedInv'
           /\ queue' = queue => UseInv' /\ SyncInv'
<1>1. Part' = Part /\ kind' = kind /\ \A t : PartOf(t)' = PartOf(t)
    BY KindStays
<1>2. /\ memo = {} /\ \A t \in Executor : result[t] # "value"
      /\ \A p \in Part : holder[p] = {} /\ storage[p] # "freed"
      /\ \A t \in Executor : quarantine[t] = {}
      /\ \A s \in Stream : \A i \in DOMAIN queue[s] : queue[s][i][1] # "use"
    BY Unsettled
<1>3. WareTypes'
    BY <1>1 DEF SInv, Wares, WareTypes
<1>4. \A p \in Part : storage'[p] # "freed"
    BY <1>2
<1>5. MemoInv'
    BY <1>1, <1>2 DEF MemoInv
<1>6. HolderInv'
    BY <1>1, <1>2 DEF HolderInv, SInv, Wares
<1>7. QuarantineInv' /\ FreedInv' /\ FreedOrdered'
    BY <1>1, <1>2, <1>4 DEF QuarantineInv, FreedInv, FreedOrdered
<1>8. JoinedInv'
    BY <1>2 DEF JoinedInv
<1>9. ASSUME queue' = queue PROVE UseInv' /\ SyncInv'
  <2>1. UseInv'
      BY <1>2, <1>9 DEF UseInv
  <2>2. SyncInv'
      BY <1>2, <1>9 DEF SyncInv, SyncOK, SInv, Work
  <2> QED BY <2>1, <2>2
<1> QED BY <1>3, <1>5, <1>6, <1>7, <1>8, <1>9 DEF Wares

-----------------------------------------------------------------------------
(* Who owns and who releases the parts.                                    *)

(* A step that moves no reference: an executor waits, or submits.          *)
LEMMA WaresKept ==
    ASSUME SInv, [Next]_vars, UNCHANGED <<value, once, result>>,
           \A t \in Executor :
              /\ pc'[t] \in WithHandle => pc[t] \in WithHandle
              /\ pc'[t] \in {"chaining", "ready"} => pc'[t] = pc[t]
              /\ pc[t] \in {"chaining", "terminal", "syncing"} =>
                    pc'[t] \in {"chaining", "terminal", "syncing"}
              /\ pc[t] \in {"ready", "gone"} => pc'[t] = pc[t]
    PROVE  Wares'
<1>1. Part' = Part /\ kind' = kind /\ \A t : PartOf(t)' = PartOf(t)
    BY KindStays
<1>2. WareTypes'
    BY <1>1 DEF SInv, Wares, WareTypes, value
<1>3. MemoInv'
    BY <1>1 DEF SInv, Wares, MemoInv, value, Settled
<1>4. HolderInv'
    BY <1>1 DEF SInv, Wares, WareTypes, HolderInv, value
<1>5. QuarantineInv'
    BY <1>1 DEF SInv, Wares, QuarantineInv, InQuarantine, Given, Settled, value
<1>6. FreedInv'
    BY <1>1 DEF SInv, Wares, FreedInv, Given, Settled, value
<1> QED BY <1>2, <1>3, <1>4, <1>5, <1>6 DEF Wares

(* What the last handle leaves behind is in the memo, nobody owns it, and  *)
(* nothing has released it.                                                *)
LEMMA OrphansAre ==
    ASSUME SInv, NEW t \in Executor, NEW p \in Orphans(t, memo, holder)
    PROVE  /\ LastHandle(t) /\ Kept(t, memo) = {}
           /\ p \in Part /\ p \in memo /\ holder[p] = {} /\ Settled
           /\ storage[p] # "freed" /\ \A u \in Executor : p \notin quarantine[u]
<1>1. p \in memo /\ holder[p] = {} /\ LastHandle(t)
    BY DEF Orphans
<1>2. p \in Part /\ Settled
    BY <1>1 DEF SInv, Wares, WareTypes, MemoInv
<1> QED
    BY <1>1, <1>2 DEF Kept, SInv, Wares, FreedInv, QuarantineInv, InQuarantine, Given

LEMMA KeptOrphans ==
    ASSUME NEW t \in Executor, NEW held, NEW owners
    PROVE  /\ Kept(t, held) \subseteq held
           /\ Kept(t, held) # held => LastHandle(t)
           /\ Orphans(t, held, owners) \subseteq held
           /\ \A p \in Orphans(t, held, owners) :
                 owners[p] = {} /\ LastHandle(t) /\ Kept(t, held) = {}
BY DEF Kept, Orphans

(* A handle goes unused: abandoned, or because its stream could not be     *)
(* joined, when what it leaves is released by the executor's terminal.     *)
LEMMA HandleGoes ==
    ASSUME SInv, [Next]_vars, NEW t \in Executor, NEW at \in {"gone", "terminal"},
           NEW r \in {"none", "join"}, pc[t] \in WithHandle,
           pc' = [pc EXCEPT ![t] = at], result' = [result EXCEPT ![t] = r],
           memo' = Kept(t, memo),
           unguarded' = unguarded \cup Orphans(t, memo, holder),
           UNCHANGED <<once, holder>>,
           \/ /\ storage' = Free(Orphans(t, memo, holder)) /\ quarantine' = quarantine
           \/ /\ storage' = storage /\ at = "terminal"
              /\ quarantine' = [quarantine EXCEPT ![t] = @ \cup Orphans(t, memo, holder)],
           kind = "unzip" => t \in {First, Second}
    PROVE  Wares'
<1>1. Part' = Part /\ kind' = kind /\ \A u : PartOf(u)' = PartOf(u)
    BY KindStays
<1> PICK O : O = Orphans(t, memo, holder)
    OBVIOUS
<1>2. /\ memo' \subseteq memo /\ (memo' # memo => LastHandle(t)) /\ O \subseteq memo
      /\ \A p \in O : memo' = {} /\ p \in Part /\ holder[p] = {} /\ Settled
                      /\ storage[p] # "freed" /\ \A u \in Executor : p \notin quarantine[u]
    BY KeptOrphans, OrphansAre
<1>3. \A u \in Executor : u # t => pc'[u] = pc[u] /\ result'[u] = result[u]
    BY DEF SInv, IInv, Types
<1>4. pc'[t] = at /\ result'[t] = r /\ pc[t] \notin {"chaining", "terminal", "syncing", "ready"}
    BY DEF SInv, IInv, Types, WithHandle
<1>5. /\ \A p \in Part : p \in O \/ storage'[p] = storage[p]
      /\ \A p \in Part : storage'[p] = "freed" /\ p \in O => quarantine' = quarantine
    BY <1>2 DEF Free, SInv, Wares, WareTypes
<1>6. WareTypes'
  <2>1. storage' \in [Part -> {"none", "live", "leaked", "freed"}]
      BY DEF Free, SInv, Wares, WareTypes
  <2>2. memo' \in SUBSET Part /\ unguarded' \in SUBSET Part /\ holder' = holder
      BY <1>2 DEF SInv, Wares, WareTypes
  <2>3. quarantine' \in [Executor -> SUBSET Part]
      BY <1>2 DEF SInv, Wares, WareTypes
  <2>4. kind = "unzip" => \A u \in Executor \ {First, Second} : pc'[u] = "gone"
      BY <1>3 DEF SInv, Wares, WareTypes
  <2> QED BY <1>1, <2>1, <2>2, <2>3, <2>4 DEF SInv, Wares, WareTypes
<1>7. MemoInv'
  <2>1. at \notin WithHandle
      BY DEF WithHandle
  <2>2. ASSUME NEW u \in Executor, pc'[u] \in WithHandle PROVE memo' = memo
      BY <1>2, <1>3, <1>4, <2>1, <2>2 DEF LastHandle
  <2>3. \A u \in Executor : result'[u] = "value" => result[u] = "value"
      BY <1>3, <1>4
  <2> QED BY <1>1, <1>2, <1>3, <1>4, <2>1, <2>2, <2>3 DEF SInv, Wares, MemoInv, Settled
<1>8. HolderInv'
  <2>1. \A p \in Part : t \notin holder[p]
      BY <1>4 DEF SInv, Wares, HolderInv
  <2>2. pc'[t] \notin {"chaining", "ready"} /\ pc'[t] \notin WithHandle
      BY <1>4 DEF WithHandle
  <2> QED BY <1>1, <1>3, <2>1, <2>2 DEF SInv, Wares, WareTypes, HolderInv
<1>9. QuarantineInv'
  <2> SUFFICES ASSUME NEW u \in Executor, NEW p \in quarantine'[u] PROVE InQuarantine(u, p)'
      BY DEF QuarantineInv
  <2>0. p \in Part
      BY <1>1, <1>6 DEF WareTypes
  <2>1. CASE p \in quarantine[u]
    <3>1. InQuarantine(u, p)
        BY <2>1 DEF SInv, Wares, QuarantineInv
    <3>2. u # t /\ p \notin O
        BY <1>2, <1>4, <2>1, <3>1 DEF InQuarantine
    <3>3. \A v \in Executor \ {u} : p \notin quarantine'[v]
        BY <3>1, <3>2 DEF InQuarantine, SInv, Wares, WareTypes
    <3> QED
      BY <1>2, <1>3, <1>5, <2>0, <3>1, <3>2, <3>3 DEF InQuarantine, Given, Settled
  <2>2. CASE p \notin quarantine[u]
    <3>1. u = t /\ p \in O /\ at = "terminal" /\ storage' = storage
        BY <2>2 DEF SInv, Wares, WareTypes
    <3>2. \A v \in Executor \ {u} : p \notin quarantine'[v]
        BY <1>2, <2>2, <3>1 DEF SInv, Wares, WareTypes
    <3>3. p \in unguarded'
        BY <3>1
    <3> QED BY <1>2, <1>4, <3>1, <3>2, <3>3 DEF InQuarantine, Given, Settled
  <2> QED BY <2>1, <2>2
<1>10. FreedInv'
  <2> SUFFICES ASSUME NEW p \in Part, storage'[p] = "freed"
               PROVE  Given(p)' /\ \A u \in Executor : p \notin quarantine'[u]
      BY <1>1 DEF FreedInv
  <2>1. CASE p \in O
      BY <1>2, <1>5, <2>1 DEF Given, Settled
  <2>2. CASE p \notin O
    <3>1. storage[p] = "freed"
        BY <1>5, <2>2
    <3>2. Given(p) /\ \A u \in Executor : p \notin quarantine[u]
        BY <3>1 DEF SInv, Wares, FreedInv
    <3> QED BY <1>2, <2>2, <3>2 DEF Given, Settled, SInv, Wares, WareTypes
  <2> QED BY <2>1, <2>2
<1> QED BY <1>6, <1>7, <1>8, <1>9, <1>10 DEF Wares

LEMMA UnzipHas ==
    ASSUME WareTypes, NEW t \in Executor, pc[t] # "gone"
    PROVE  kind = "unzip" => t \in {First, Second}
BY DEF WareTypes

(* A handle is worth a part nobody else with a handle is after, if parts   *)
(* are taken out of the memo.                                              *)
LEMMA TakeWares == ASSUME SInv, [Next]_vars, NEW t \in Executor, TakeValue(t) PROVE Wares'
<1>1. Part' = Part /\ kind' = kind /\ \A u : PartOf(u)' = PartOf(u)
    BY KindStays
<1> PICK p \in Part : p = PartOf(t)
    BY PartsOfKind DEF SInv, Wares
<1> PICK held : held = IF kind = "shared" THEN memo ELSE memo \ {p}
    OBVIOUS
<1> PICK owners : owners = [holder EXCEPT ![p] = @ \cup {t}]
    OBVIOUS
<1> PICK O : O = Orphans(t, held, owners)
    OBVIOUS
<1>2. /\ pc[t] = "entering" /\ Settled /\ holder' = owners
      /\ memo' = Kept(t, held) /\ quarantine' = [quarantine EXCEPT ![t] = @ \cup O]
      /\ result' = [result EXCEPT ![t] = "value"] /\ pc' = [pc EXCEPT ![t] = "chaining"]
      /\ UNCHANGED <<kind, once, storage, runs, unguarded>>
    BY DEF TakeValue, Settled
<1>3. kind = "unzip" => t \in {First, Second}
    BY <1>2, UnzipHas DEF SInv, Wares
<1>4. p \in memo /\ held \subseteq memo
    BY <1>2 DEF SInv, Wares, MemoInv, WithHandle
<1>5. /\ memo' \subseteq held /\ (memo' # held => LastHandle(t)) /\ O \subseteq held
      /\ \A q \in O : memo' = {} /\ owners[q] = {} /\ LastHandle(t)
    BY <1>2, KeptOrphans
<1>6. /\ owners \in [Part -> SUBSET Executor] /\ owners[p] = holder[p] \cup {t}
      /\ \A q \in Part \ {p} : owners[q] = holder[q]
    BY DEF SInv, Wares, WareTypes
<1>7. \A q \in O : /\ q \in Part /\ q # p /\ q \in memo /\ holder[q] = {} /\ owners[q] = {}
                   /\ storage[q] # "freed" /\ \A u \in Executor : q \notin quarantine[u]
  <2> SUFFICES ASSUME NEW q \in O
               PROVE  /\ q \in Part /\ q # p /\ q \in memo /\ holder[q] = {} /\ owners[q] = {}
                      /\ storage[q] # "freed" /\ \A u \in Executor : q \notin quarantine[u]
      OBVIOUS
  <2>1. q \in memo /\ q \in Part /\ owners[q] = {}
      BY <1>4, <1>5 DEF SInv, Wares, WareTypes
  <2>2. q # p /\ holder[q] = {}
      BY <1>6, <2>1
  <2> QED BY <2>1, <2>2 DEF SInv, Wares, FreedInv, QuarantineInv, InQuarantine, Given
<1>8. \A u \in Executor : u # t => pc'[u] = pc[u] /\ result'[u] = result[u]
    BY <1>2 DEF SInv, IInv, Types
<1>9. pc'[t] = "chaining" /\ result'[t] = "value" /\ "chaining" \notin WithHandle
    BY <1>2 DEF SInv, IInv, Types, WithHandle
<1>10. WareTypes'
  <2>1. memo' \in SUBSET Part /\ holder' \in [Part -> SUBSET Executor]
      BY <1>2, <1>4, <1>5, <1>6 DEF SInv, Wares, WareTypes
  <2>2. quarantine' \in [Executor -> SUBSET Part]
    <3>1. quarantine \in [Executor -> SUBSET Part] /\ O \subseteq Part
        BY <1>7 DEF SInv, Wares, WareTypes
    <3>2. PICK X \in SUBSET Part : X = quarantine[t] \cup O
        BY <3>1
    <3>3. quarantine' = [quarantine EXCEPT ![t] = X]
        BY <1>2, <3>2
    <3> QED BY <3>1, <3>3
  <2>3. kind = "unzip" => \A u \in Executor \ {First, Second} : pc'[u] = "gone"
      BY <1>3, <1>8 DEF SInv, Wares, WareTypes
  <2> QED BY <1>1, <1>2, <2>1, <2>2, <2>3 DEF SInv, Wares, WareTypes
<1>11. MemoInv'
  <2>1. ASSUME NEW u \in Executor, pc'[u] \in WithHandle PROVE PartOf(u) \in memo'
    <3>1. u # t /\ pc[u] \in WithHandle
        BY <1>8, <1>9, <2>1
    <3>2. memo' = held
        BY <1>5, <3>1 DEF LastHandle
    <3>3. PartOf(u) \in memo
        BY <1>2, <3>1 DEF SInv, Wares, MemoInv
    <3>4. pc[u] # "gone"
        BY <3>1 DEF WithHandle
    <3>5. kind = "unzip" => u \in {First, Second}
        BY <3>4, UnzipHas DEF SInv, Wares
    <3>6. kind = "unzip" => PartOf(u) # p
        BY <1>3, <3>1, <3>5, PartsOfKind DEF SInv, Wares
    <3> QED BY <3>2, <3>3, <3>6 DEF SInv, Wares, WareTypes
  <2>2. kind = "unzip" => \A u \in Executor : result'[u] = "value" => PartOf(u) \notin memo'
      BY <1>4, <1>5, <1>8 DEF SInv, Wares, MemoInv
  <2> QED BY <1>1, <1>2, <2>1, <2>2 DEF MemoInv, Settled
<1>12. HolderInv'
  <2>1. ASSUME NEW q \in Part, NEW u \in holder'[q]
        PROVE  /\ PartOf(u) = q /\ result'[u] = "value"
               /\ pc'[u] \in {"chaining", "terminal", "syncing", "ready"}
    <3>1. CASE u = t
      <4>1. t \notin holder[q]
          BY <1>2 DEF SInv, Wares, HolderInv
      <4>2. q = p
          BY <1>2, <1>6, <2>1, <3>1, <4>1
      <4> QED BY <1>9, <3>1, <4>2
    <3>2. CASE u # t
      <4>1. u \in holder[q] /\ u \in Executor
          BY <1>2, <1>6, <2>1, <3>2 DEF SInv, Wares, WareTypes
      <4> QED BY <1>8, <3>2, <4>1 DEF SInv, Wares, HolderInv
    <3> QED BY <3>1, <3>2
  <2>2. ASSUME NEW u \in Executor, pc'[u] \in {"chaining", "ready"}
        PROVE  u \in holder'[PartOf(u)]
    <3>1. PartOf(u) \in Part
        BY PartsOfKind DEF SInv, Wares
    <3>2. CASE u = t
        BY <1>2, <1>6, <3>2
    <3>3. CASE u # t
        BY <1>2, <1>6, <1>8, <2>2, <3>1, <3>3 DEF SInv, Wares, HolderInv
    <3> QED BY <3>2, <3>3
  <2>3. \A u \in Executor : pc'[u] \in WithHandle => result'[u] = "none"
      BY <1>8, <1>9 DEF SInv, Wares, HolderInv
  <2> QED BY <1>1, <2>1, <2>2, <2>3 DEF HolderInv
<1>13. QuarantineInv'
  <2> SUFFICES ASSUME NEW u \in Executor, NEW q \in quarantine'[u] PROVE InQuarantine(u, q)'
      BY DEF QuarantineInv
  <2>1. CASE q \in quarantine[u]
    <3>1. InQuarantine(u, q)
        BY <2>1 DEF SInv, Wares, QuarantineInv
    <3>2. q \in Part /\ u # t /\ q \notin O /\ q # p
        BY <1>2, <1>4, <1>7, <2>1, <3>1 DEF InQuarantine, Given, SInv, Wares, WareTypes
    <3>3. \A v \in Executor \ {u} : q \notin quarantine'[v]
        BY <1>2, <3>1, <3>2 DEF InQuarantine, SInv, Wares, WareTypes
    <3>4. q \notin memo' /\ holder'[q] = {}
        BY <1>2, <1>4, <1>5, <1>6, <3>1, <3>2 DEF InQuarantine, Given
    <3> QED BY <1>2, <1>8, <3>1, <3>2, <3>3, <3>4 DEF InQuarantine, Given, Settled
  <2>2. CASE q \notin quarantine[u]
    <3>1. u = t /\ q \in O
        BY <1>2, <2>2 DEF SInv, Wares, WareTypes
    <3>2. \A v \in Executor \ {u} : q \notin quarantine'[v]
        BY <1>2, <1>7, <3>1 DEF SInv, Wares, WareTypes
    <3> QED BY <1>2, <1>5, <1>7, <1>9, <3>1, <3>2 DEF InQuarantine, Given, Settled
  <2> QED BY <2>1, <2>2
<1>14. FreedInv'
  <2> SUFFICES ASSUME NEW q \in Part, storage[q] = "freed"
               PROVE  Given(q)' /\ \A u \in Executor : q \notin quarantine'[u]
      BY <1>1, <1>2 DEF FreedInv
  <2>1. Given(q) /\ \A u \in Executor : q \notin quarantine[u]
      BY DEF SInv, Wares, FreedInv
  <2>2. q # p /\ q \notin O
      BY <1>4, <1>7, <2>1 DEF Given
  <2>3. q \notin memo' /\ holder'[q] = {}
      BY <1>2, <1>4, <1>5, <1>6, <2>1, <2>2 DEF Given
  <2>4. \A u \in Executor : q \notin quarantine'[u]
      BY <1>2, <2>1, <2>2 DEF SInv, Wares, WareTypes
  <2> QED BY <1>2, <2>3, <2>4 DEF Given, Settled
<1> QED BY <1>10, <1>11, <1>12, <1>13, <1>14 DEF Wares

(* The value is memoized before anybody has a part of it.                  *)
LEMMA SettleWares == ASSUME SInv, [Next]_vars, NEW t \in Executor, SettleDone(t) PROVE Wares'
<1>1. Part' = Part /\ kind' = kind /\ \A u : PartOf(u)' = PartOf(u)
    BY KindStays
<1>2. /\ pc[t] = "settling" /\ once' = Done(StreamOf[t]) /\ memo' = Part
      /\ pc' = [pc EXCEPT ![t] = "notifying"]
      /\ UNCHANGED <<kind, result, holder, storage, quarantine, runs, unguarded>>
    BY DEF SettleDone
<1>3. ~Settled /\ Settled'
    BY <1>2, StatesDiffer DEF SInv, IInv, OneInside, Inside, Settled
<1>4. /\ \A u \in Executor : result[u] # "value"
      /\ \A q \in Part : holder[q] = {} /\ storage[q] # "freed"
      /\ \A u \in Executor : quarantine[u] = {} /\ pc[u] \notin {"chaining", "ready"}
    BY <1>3, Unsettled
<1>5. WareTypes'
    BY <1>1, <1>2 DEF SInv, IInv, Types, Wares, WareTypes
<1>6. MemoInv'
    BY <1>1, <1>2, <1>3, <1>4, PartsOfKind DEF SInv, Wares, MemoInv
<1>7. HolderInv'
    BY <1>1, <1>2, <1>4 DEF SInv, IInv, Types, Wares, HolderInv, WithHandle
<1>8. QuarantineInv' /\ FreedInv'
    BY <1>1, <1>2, <1>4 DEF QuarantineInv, FreedInv
<1> QED BY <1>5, <1>6, <1>7, <1>8 DEF Wares

(* A reference dropped: the last one sends the part to the quarantine, or, *)
(* when nothing is in progress, to the allocator.                          *)
LEMMA ReferenceGoes ==
    ASSUME SInv, [Next]_vars, NEW t \in Executor, NEW p \in Part, p = PartOf(t),
           t \in holder[p], NEW at \in {"terminal", "gone"},
           pc' = [pc EXCEPT ![t] = at],
           holder' = [holder EXCEPT ![p] = @ \ {t}],
           UNCHANGED <<once, memo, result>>,
           unguarded' \in {unguarded, unguarded \cup {p}},
           NEW last, last = (p \notin memo /\ holder[p] = {t}),
           \/ /\ at = "terminal" /\ storage' = storage
              /\ quarantine' = [quarantine EXCEPT ![t] = IF last THEN @ \cup {p} ELSE @]
           \/ /\ pc[t] = "ready" /\ quarantine' = quarantine
              /\ storage' = IF last THEN Free({p}) ELSE storage,
           pc[t] \in {"chaining", "ready"}
    PROVE  Wares'
<1>1. Part' = Part /\ kind' = kind /\ \A u : PartOf(u)' = PartOf(u)
    BY KindStays
<1>2. \A u \in Executor : u # t => pc'[u] = pc[u]
    BY DEF SInv, IInv, Types
<1>3. pc'[t] = at /\ result[t] = "value" /\ at \notin WithHandle
    BY DEF SInv, IInv, Types, Wares, HolderInv, WithHandle
<1>4. Settled
    BY <1>3 DEF SInv, IInv, ResultIsOutcome, Settled
<1>5. /\ holder' \in [Part -> SUBSET Executor] /\ holder'[p] = holder[p] \ {t}
      /\ \A q \in Part \ {p} : holder'[q] = holder[q]
      /\ \A q \in Part : holder'[q] \subseteq holder[q]
    BY DEF SInv, Wares, WareTypes
<1>6. \A u \in Executor : p \notin quarantine[u]
    BY DEF SInv, Wares, QuarantineInv, InQuarantine, Given
<1>7. storage[p] # "freed"
    BY DEF SInv, Wares, FreedInv, Given
<1>8. /\ \A q \in Part : q # p => storage'[q] = storage[q]
      /\ storage'[p] = "freed" => last /\ quarantine' = quarantine
    BY <1>7 DEF Free, SInv, Wares, WareTypes
<1>9. /\ \A u \in Executor : \A q \in Part : q # p => (q \in quarantine'[u] <=> q \in quarantine[u])
      /\ \A u \in Executor : p \in quarantine'[u] => u = t /\ last /\ storage' = storage
                                                     /\ at = "terminal"
    BY <1>6 DEF SInv, Wares, WareTypes
<1>10. last => Given(p)'
    BY <1>4, <1>5 DEF Given, Settled
<1>11. WareTypes'
  <2>1. storage' \in [Part -> {"none", "live", "leaked", "freed"}]
      BY DEF Free, SInv, Wares, WareTypes
  <2>2. quarantine' \in [Executor -> SUBSET Part]
      BY DEF SInv, Wares, WareTypes
  <2>3. kind = "unzip" => t \in {First, Second}
      BY UnzipHas DEF SInv, Wares
  <2>4. kind = "unzip" => \A u \in Executor \ {First, Second} : pc'[u] = "gone"
      BY <1>2, <2>3 DEF SInv, Wares, WareTypes
  <2> QED BY <1>1, <1>5, <2>1, <2>2, <2>4 DEF SInv, Wares, WareTypes
<1>12. MemoInv'
    BY <1>1, <1>2, <1>3 DEF SInv, Wares, MemoInv, Settled
<1>13. HolderInv'
  <2>1. ASSUME NEW q \in Part, NEW u \in holder'[q]
        PROVE  /\ PartOf(u) = q /\ result[u] = "value"
               /\ pc'[u] \in {"chaining", "terminal", "syncing", "ready"}
    <3>1. u \in holder[q] /\ u \in Executor
        BY <1>5, <2>1 DEF SInv, Wares, WareTypes
    <3>2. PartOf(u) = q /\ result[u] = "value"
          /\ pc[u] \in {"chaining", "terminal", "syncing", "ready"}
        BY <3>1 DEF SInv, Wares, HolderInv
    <3>3. u # t
        BY <1>5, <2>1, <3>2
    <3> QED BY <1>2, <3>1, <3>2, <3>3
  <2>2. ASSUME NEW u \in Executor, pc'[u] \in {"chaining", "ready"}
        PROVE  u \in holder'[PartOf(u)]
    <3>1. u # t /\ pc'[u] = pc[u] /\ PartOf(u) \in Part
        BY <1>2, <1>3, <2>2, PartsOfKind DEF SInv, Wares
    <3> QED BY <1>5, <2>2, <3>1 DEF SInv, Wares, HolderInv
  <2>3. \A u \in Executor : pc'[u] \in WithHandle => result[u] = "none"
      BY <1>2, <1>3 DEF SInv, Wares, HolderInv
  <2> QED BY <1>1, <2>1, <2>2, <2>3 DEF HolderInv
<1>14. QuarantineInv'
  <2> SUFFICES ASSUME NEW u \in Executor, NEW q \in quarantine'[u] PROVE InQuarantine(u, q)'
      BY DEF QuarantineInv
  <2>1. q \in Part
      BY <1>1, <1>11 DEF WareTypes
  <2>2. CASE q = p
    <3>1. u = t /\ last /\ storage' = storage /\ at = "terminal"
        BY <1>9, <2>2
    <3>2. \A v \in Executor \ {u} : q \notin quarantine'[v]
        BY <1>9, <2>2, <3>1
    <3> QED BY <1>3, <1>7, <1>10, <2>2, <3>1, <3>2 DEF InQuarantine
  <2>3. CASE q # p
    <3>1. InQuarantine(u, q)
        BY <1>9, <2>1, <2>3 DEF SInv, Wares, QuarantineInv
    <3>2. pc'[u] \in {"chaining", "terminal", "syncing"}
        BY <1>2, <1>3, <3>1 DEF InQuarantine
    <3>3. \A v \in Executor \ {u} : q \notin quarantine'[v]
        BY <1>9, <2>1, <2>3, <3>1 DEF InQuarantine
    <3> QED BY <1>5, <1>8, <2>1, <2>3, <3>1, <3>2, <3>3 DEF InQuarantine, Given, Settled
  <2> QED BY <2>2, <2>3
<1>15. FreedInv'
  <2> SUFFICES ASSUME NEW q \in Part, storage'[q] = "freed"
               PROVE  Given(q)' /\ \A u \in Executor : q \notin quarantine'[u]
      BY <1>1 DEF FreedInv
  <2>1. CASE q = p
      BY <1>6, <1>8, <1>10, <2>1
  <2>2. CASE q # p
    <3>1. Given(q) /\ \A u \in Executor : q \notin quarantine[u]
        BY <1>8, <2>2 DEF SInv, Wares, FreedInv
    <3> QED BY <1>5, <1>9, <2>2, <3>1 DEF Given, Settled
  <2> QED BY <2>1, <2>2
<1> QED BY <1>11, <1>12, <1>13, <1>14, <1>15 DEF Wares

(* The terminal releases what its thread has in quarantine.                *)
LEMMA ReleaseWares ==
    ASSUME SInv, [Next]_vars, NEW t \in Executor, CompletionProven(t) PROVE Wares'
<1>1. Part' = Part /\ kind' = kind /\ \A u : PartOf(u)' = PartOf(u)
    BY KindStays
<1> PICK Q : Q = quarantine[t]
    OBVIOUS
<1> PICK at \in {"ready", "gone"} :
        at = IF t \in holder[PartOf(t)] THEN "ready" ELSE "gone"
    OBVIOUS
<1>2. /\ pc[t] = "syncing" /\ storage' = Free(Q)
      /\ quarantine' = [quarantine EXCEPT ![t] = {}] /\ pc' = [pc EXCEPT ![t] = at]
      /\ UNCHANGED <<once, memo, result, holder, unguarded>>
    BY DEF CompletionProven
<1>3. \A q \in Q : InQuarantine(t, q) /\ q \in Part
    BY DEF SInv, Wares, QuarantineInv, WareTypes
<1>4. \A u \in Executor : u # t => pc'[u] = pc[u] /\ quarantine'[u] = quarantine[u]
    BY <1>2 DEF SInv, IInv, Types, Wares, WareTypes
<1>5. pc'[t] = at /\ quarantine'[t] = {} /\ at \notin WithHandle
    BY <1>2 DEF SInv, IInv, Types, Wares, WareTypes, WithHandle
<1>6. \A q \in Part : storage'[q] = IF q \in Q THEN "freed" ELSE storage[q]
    BY <1>2 DEF Free
<1>7. WareTypes'
  <2>1. storage' \in [Part -> {"none", "live", "leaked", "freed"}]
      BY <1>2 DEF Free, SInv, Wares, WareTypes
  <2>2. quarantine' \in [Executor -> SUBSET Part]
      BY <1>2 DEF SInv, Wares, WareTypes
  <2>3. kind = "unzip" => t \in {First, Second}
      BY <1>2, UnzipHas DEF SInv, Wares
  <2>4. kind = "unzip" => \A u \in Executor \ {First, Second} : pc'[u] = "gone"
      BY <1>4, <2>3 DEF SInv, Wares, WareTypes
  <2> QED BY <1>1, <1>2, <2>1, <2>2, <2>4 DEF SInv, Wares, WareTypes
<1>8. MemoInv'
    BY <1>1, <1>2, <1>4, <1>5 DEF SInv, Wares, MemoInv, Settled
<1>9. HolderInv'
  <2>1. ASSUME NEW q \in Part, NEW u \in holder[q]
        PROVE  /\ PartOf(u) = q /\ result[u] = "value"
               /\ pc'[u] \in {"chaining", "terminal", "syncing", "ready"}
    <3>1. u \in Executor /\ PartOf(u) = q /\ result[u] = "value"
          /\ pc[u] \in {"chaining", "terminal", "syncing", "ready"}
        BY <2>1 DEF SInv, Wares, WareTypes, HolderInv
    <3> QED BY <1>4, <1>5, <2>1, <3>1
  <2>2. \A u \in Executor : pc'[u] \in {"chaining", "ready"} => u \in holder[PartOf(u)]
      BY <1>4, <1>5 DEF SInv, Wares, HolderInv
  <2>3. \A u \in Executor : pc'[u] \in WithHandle => result[u] = "none"
      BY <1>4, <1>5 DEF SInv, Wares, HolderInv
  <2> QED BY <1>1, <1>2, <2>1, <2>2, <2>3 DEF HolderInv
<1>10. QuarantineInv'
  <2> SUFFICES ASSUME NEW u \in Executor, NEW q \in quarantine'[u] PROVE InQuarantine(u, q)'
      BY DEF QuarantineInv
  <2>1. u # t /\ q \in quarantine[u]
      BY <1>4, <1>5
  <2>2. InQuarantine(u, q) /\ q \in Part /\ q \notin Q
      BY <2>1 DEF SInv, Wares, WareTypes, QuarantineInv, InQuarantine
  <2>3. \A v \in Executor \ {u} : q \notin quarantine'[v]
      BY <1>4, <1>5, <2>2 DEF InQuarantine
  <2> QED BY <1>2, <1>4, <1>6, <2>1, <2>2, <2>3 DEF InQuarantine, Given, Settled
<1>11. FreedInv'
  <2> SUFFICES ASSUME NEW q \in Part, storage'[q] = "freed"
               PROVE  Given(q)' /\ \A u \in Executor : q \notin quarantine'[u]
      BY <1>1 DEF FreedInv
  <2>1. Given(q)
      BY <1>3, <1>6 DEF InQuarantine, SInv, Wares, FreedInv
  <2>2. \A u \in Executor \ {t} : q \notin quarantine[u]
      BY <1>3, <1>6 DEF InQuarantine, SInv, Wares, FreedInv
  <2> QED BY <1>2, <1>4, <1>5, <2>1, <2>2 DEF Given, Settled
<1> QED BY <1>7, <1>8, <1>9, <1>10, <1>11 DEF Wares

-----------------------------------------------------------------------------
(* The order of the work.  A queue that grows keeps what it holds where it *)
(* is, and a stream that runs its head moves everything one place.         *)
LEMMA Grows ==
    ASSUME WorkTypes, NEW t \in Executor, NEW what \in {"wait", "write", "record", "use", "sync"},
           queue' = Enqueue(t, what)
    PROVE  /\ WorkTypes' /\ StreamOf[t] \in Stream
           /\ \A s \in Stream : \A i \in DOMAIN queue[s] :
                 i \in DOMAIN queue'[s] /\ queue'[s][i] = queue[s][i]
           /\ \A s \in Stream : \A i \in DOMAIN queue'[s] :
                 \/ i \in DOMAIN queue[s]
                 \/ /\ s = StreamOf[t] /\ queue'[s][i] = <<what, t>>
                    /\ \A j \in DOMAIN queue[s] : j < i
                    /\ \A j \in DOMAIN queue'[s] : j <= i
           /\ \E i \in DOMAIN queue'[StreamOf[t]] :
                 /\ queue'[StreamOf[t]][i] = <<what, t>>
                 /\ \A j \in DOMAIN queue[StreamOf[t]] : j < i
<1> PICK s \in Stream : s = StreamOf[t]
    BY ExecuteOnceAssumption
<1> PICK x \in Item : x = <<what, t>>
    BY DEF Item
<1> PICK q \in Seq(Item) : q = queue[s]
    BY DEF WorkTypes
<1> PICK r \in Seq(Item) : r = Append(q, x)
    BY AppendProperties
<1>1. queue' = [queue EXCEPT ![s] = r]
    BY DEF Enqueue
<1>2. /\ DOMAIN r = 1..(Len(q) + 1) /\ DOMAIN q = 1..Len(q) /\ Len(q) \in Nat
      /\ r[Len(q) + 1] = x /\ \A i \in 1..Len(q) : r[i] = q[i]
    OBVIOUS
<1>3. queue' \in [Stream -> Seq(Item)] /\ queue'[s] = r
      /\ \A u \in Stream \ {s} : queue'[u] = queue[u]
    BY <1>1 DEF WorkTypes
<1>4. x[2] = t
    OBVIOUS
<1>9. /\ DOMAIN queue'[s] = 1..(Len(q) + 1) /\ DOMAIN queue[s] = 1..Len(q)
      /\ queue'[s][Len(q) + 1] = x
      /\ \A i \in 1..Len(q) : i \in 1..(Len(q) + 1) /\ queue'[s][i] = queue[s][i]
    BY <1>2, <1>3
<1>5. \A u \in Stream : \A i \in DOMAIN queue'[u] : StreamOf[queue'[u][i][2]] = u
  <2> SUFFICES ASSUME NEW u \in Stream, NEW i \in DOMAIN queue'[u]
               PROVE  StreamOf[queue'[u][i][2]] = u
      OBVIOUS
  <2>1. CASE u # s
      BY <1>3, <2>1 DEF WorkTypes
  <2>2. CASE u = s /\ i \in 1..Len(q)
      BY <1>9, <2>2 DEF WorkTypes
  <2>3. CASE u = s /\ i = Len(q) + 1
      BY <1>9, <1>4, <2>3
  <2> QED BY <1>9, <2>1, <2>2, <2>3
<1>6. \A u \in Stream : \A i \in DOMAIN queue[u] :
         i \in DOMAIN queue'[u] /\ queue'[u][i] = queue[u][i]
    BY <1>2, <1>3, <1>9
<1>7. \A u \in Stream : \A i \in DOMAIN queue'[u] :
         \/ i \in DOMAIN queue[u]
         \/ /\ u = s /\ queue'[u][i] = x
            /\ \A j \in DOMAIN queue[u] : j < i
            /\ \A j \in DOMAIN queue'[u] : j <= i
  <2> SUFFICES ASSUME NEW u \in Stream, NEW i \in DOMAIN queue'[u],
                      i \notin DOMAIN queue[u]
               PROVE  /\ u = s /\ queue'[u][i] = x
                      /\ \A j \in DOMAIN queue[u] : j < i
                      /\ \A j \in DOMAIN queue'[u] : j <= i
      OBVIOUS
  <2>1. u = s
      BY <1>3
  <2>2. PICK n \in Nat : n = Len(q)
      BY <1>2
  <2>3. DOMAIN queue'[u] = 1..(n + 1) /\ DOMAIN queue[u] = 1..n /\ queue'[u][n + 1] = x
      BY <1>9, <2>1, <2>2
  <2>4. i = n + 1
      BY <2>2, <2>3
  <2> QED BY <2>1, <2>2, <2>3, <2>4
<1>8. \E i \in DOMAIN queue'[s] : queue'[s][i] = x /\ \A j \in DOMAIN queue[s] : j < i
  <2>1. Len(q) + 1 \in DOMAIN queue'[s] /\ \A j \in DOMAIN queue[s] : j < Len(q) + 1
      BY <1>2, <1>9
  <2> QED BY <1>9, <2>1
<1>10. WorkTypes'
    BY <1>3, <1>5 DEF WorkTypes
<1> QED BY <1>6, <1>7, <1>8, <1>10

(* Nothing that matters to the order of an item comes behind it later.     *)
LEMMA GrowsOrdered ==
    ASSUME WorkTypes, NEW t \in Executor, NEW what \in {"wait", "use", "sync"},
           queue' \in {queue, Enqueue(t, what)}, once' = once
    PROVE  /\ WorkTypes'
           /\ Queued("write")' <=> Queued("write")
           /\ Queued("record")' <=> Queued("record")
           /\ \A s \in Stream : \A i \in DOMAIN queue[s] : Ordered(s, i) => Ordered(s, i)'
<1>1. CASE queue' = queue
    BY <1>1 DEF WorkTypes, Queued, Ordered, Settled
<1>2. CASE queue' = Enqueue(t, what)
  <2>1. /\ WorkTypes' /\ StreamOf[t] \in Stream
        /\ \A s \in Stream : \A i \in DOMAIN queue[s] :
              i \in DOMAIN queue'[s] /\ queue'[s][i] = queue[s][i]
        /\ \A s \in Stream : \A i \in DOMAIN queue'[s] :
              i \in DOMAIN queue[s] \/ queue'[s][i][1] \notin {"write", "record"}
      BY <1>2, Grows
  <2>2. /\ Queued("write")' <=> Queued("write")
        /\ Queued("record")' <=> Queued("record")
      BY <2>1 DEF Queued
  <2>3. ASSUME NEW s \in Stream, NEW i \in DOMAIN queue[s], Ordered(s, i)
        PROVE  Ordered(s, i)'
      BY <2>1, <2>2, <2>3 DEF Ordered, Settled
  <2> QED BY <2>1, <2>2, <2>3
<1> QED BY <1>1, <1>2

LEMMA Shifts ==
    ASSUME WorkTypes, NEW v \in Stream, Device(v)
    PROVE  /\ WorkTypes'
           /\ 1 \in DOMAIN queue[v] /\ queue[v][1] = Head(queue[v])
           /\ \A s \in Stream : DOMAIN queue[s] \subseteq Nat \ {0} /\ DOMAIN queue'[s] \subseteq Nat \ {0}
           /\ \A s \in Stream \ {v} : queue'[s] = queue[s]
           /\ \A i \in DOMAIN queue'[v] :
                 i + 1 \in DOMAIN queue[v] /\ queue'[v][i] = queue[v][i + 1]
           /\ \A i \in DOMAIN queue[v] : i # 1 =>
                 i - 1 \in DOMAIN queue'[v] /\ queue'[v][i - 1] = queue[v][i]
<1> PICK q \in Seq(Item) : q = queue[v]
    BY DEF WorkTypes
<1>1. q # <<>>
    BY DEF Device
<1> PICK r \in Seq(Item) : r = Tail(q)
    BY <1>1, HeadTailProperties
<1>2. queue' = [queue EXCEPT ![v] = r]
    BY DEF Device
<1>3. /\ DOMAIN q = 1..Len(q) /\ DOMAIN r = 1..(Len(q) - 1) /\ Len(q) \in Nat \ {0}
      /\ \A i \in 1..(Len(q) - 1) : r[i] = q[i + 1]
      /\ q[1] = Head(q)
    BY <1>1
<1>4. queue' \in [Stream -> Seq(Item)] /\ queue'[v] = r
      /\ \A u \in Stream \ {v} : queue'[u] = queue[u]
    BY <1>2 DEF WorkTypes
<1>5. \A s \in Stream : DOMAIN queue[s] = 1..Len(queue[s]) /\ DOMAIN queue'[s] = 1..Len(queue'[s])
    BY <1>4 DEF WorkTypes
<1>6. \A i \in DOMAIN queue'[v] :
          i + 1 \in DOMAIN queue[v] /\ queue'[v][i] = queue[v][i + 1]
    BY <1>3, <1>4
<1>7. \A i \in DOMAIN queue[v] : i # 1 =>
          i - 1 \in DOMAIN queue'[v] /\ queue'[v][i - 1] = queue[v][i]
  <2> SUFFICES ASSUME NEW i \in DOMAIN queue[v], i # 1
               PROVE  i - 1 \in DOMAIN queue'[v] /\ queue'[v][i - 1] = queue[v][i]
      OBVIOUS
  <2>1. i - 1 \in 1..(Len(q) - 1) /\ (i - 1) + 1 = i
      BY <1>3
  <2> QED BY <1>3, <1>4, <2>1
<1>8. \A s \in Stream : \A i \in DOMAIN queue'[s] : StreamOf[queue'[s][i][2]] = s
  <2> SUFFICES ASSUME NEW s \in Stream, NEW i \in DOMAIN queue'[s]
               PROVE  StreamOf[queue'[s][i][2]] = s
      OBVIOUS
  <2>1. \E k \in DOMAIN queue[s] : queue'[s][i] = queue[s][k]
      BY <1>4, <1>6
  <2> QED BY <2>1 DEF WorkTypes
<1> QED BY <1>3, <1>4, <1>5, <1>6, <1>7, <1>8 DEF WorkTypes

LEMMA ShiftsOrdered ==
    ASSUME WorkTypes, NEW v \in Stream, Device(v)
    PROVE  /\ WorkTypes'
           /\ \A what : Queued(what)' => Queued(what)
           /\ \A s \in Stream : \A i \in DOMAIN queue'[s] : \E k \in DOMAIN queue[s] :
                 /\ queue'[s][i] = queue[s][k]
                 /\ Ordered(s, k) => Ordered(s, i)'
                 /\ \A j \in DOMAIN queue[s] : j > k =>
                       \E m \in DOMAIN queue'[s] : m > i /\ queue'[s][m] = queue[s][j]
           /\ \A s \in Stream : \A j \in DOMAIN queue[s] :
                 \/ \E m \in DOMAIN queue'[s] : queue'[s][m] = queue[s][j]
                 \/ s = v /\ j = 1
           /\ Queued("record")' => queue[v][1][1] # "wait"
<1>1. /\ WorkTypes'
      /\ 1 \in DOMAIN queue[v] /\ queue[v][1] = Head(queue[v])
      /\ \A s \in Stream : /\ DOMAIN queue[s] \subseteq Nat \ {0}
                           /\ DOMAIN queue'[s] \subseteq Nat \ {0}
      /\ \A s \in Stream \ {v} : queue'[s] = queue[s]
      /\ \A i \in DOMAIN queue'[v] :
            i + 1 \in DOMAIN queue[v] /\ queue'[v][i] = queue[v][i + 1]
      /\ \A i \in DOMAIN queue[v] : i # 1 =>
            i - 1 \in DOMAIN queue'[v] /\ queue'[v][i - 1] = queue[v][i]
    BY Shifts, Zenon
<1>2. ASSUME NEW what, Queued(what)' PROVE Queued(what)
  <2>0. PICK s \in Stream : \E i \in DOMAIN queue'[s] : queue'[s][i][1] = what
      BY <1>2 DEF Queued
  <2>1. PICK i \in DOMAIN queue'[s] : queue'[s][i][1] = what
      BY <2>0
  <2>2. \E k \in DOMAIN queue[s] : queue[s][k] = queue'[s][i]
      BY <1>1, <2>1
  <2> QED BY <2>1, <2>2 DEF Queued
<1>3. Queued("record")' => queue[v][1][1] # "wait"
    BY <1>1, <1>2 DEF Device
<1>4. ASSUME NEW s \in Stream, NEW j \in DOMAIN queue[s]
      PROVE  \/ \E m \in DOMAIN queue'[s] : queue'[s][m] = queue[s][j]
             \/ s = v /\ j = 1
    BY <1>1
<1>5. once' = once
    BY DEF Device
<1>6. ASSUME NEW s \in Stream, NEW i \in DOMAIN queue'[s]
      PROVE  \E k \in DOMAIN queue[s] :
                 /\ queue'[s][i] = queue[s][k]
                 /\ Ordered(s, k) => Ordered(s, i)'
                 /\ \A j \in DOMAIN queue[s] : j > k =>
                       \E m \in DOMAIN queue'[s] : m > i /\ queue'[s][m] = queue[s][j]
  <2>1. CASE s # v
    <3>1. queue'[s] = queue[s]
        BY <1>1, <2>1
    <3>2. Ordered(s, i) => Ordered(s, i)'
        BY <1>2, <1>5, <3>1 DEF Ordered, Settled
    <3> QED BY <3>1, <3>2
  <2>2. CASE s = v
    <3>1. /\ i + 1 \in DOMAIN queue[s] /\ queue'[s][i] = queue[s][i + 1]
          /\ i \in Nat /\ i > 0
        BY <1>1, <2>2
    <3>2. ASSUME NEW j \in DOMAIN queue[s], j > i + 1
          PROVE  \E m \in DOMAIN queue'[s] : m > i /\ queue'[s][m] = queue[s][j]
      <4>1. j \in Nat /\ j # 1 /\ j - 1 > i
          BY <1>1, <3>1, <3>2
      <4>2. j - 1 \in DOMAIN queue'[s] /\ queue'[s][j - 1] = queue[s][j]
          BY <1>1, <2>2, <4>1
      <4> QED BY <4>1, <4>2
    <3>3. ASSUME Ordered(s, i + 1) PROVE Ordered(s, i)'
      <4>1. Settled'
          BY <1>5, <3>3 DEF Ordered, Settled
      <4>2. ASSUME once.producer = s, NEW j \in DOMAIN queue'[s], j > i
            PROVE  queue'[s][j][1] # "write"
        <5>1. j \in Nat /\ j + 1 > i + 1 /\ j + 1 \in DOMAIN queue[s]
              /\ queue'[s][j] = queue[s][j + 1]
            BY <1>1, <2>2, <3>1, <4>2
        <5> QED BY <3>3, <4>2, <5>1 DEF Ordered
      <4>3. ASSUME once.producer \notin {NoStream, s}, Queued("record")'
            PROVE  \E j \in DOMAIN queue'[s] : j < i /\ queue'[s][j][1] = "wait"
        <5>1. PICK j \in DOMAIN queue[s] : j < i + 1 /\ queue[s][j][1] = "wait"
            BY <1>2, <3>3, <4>3 DEF Ordered
        <5>2. j \in Nat /\ j # 1 /\ j - 1 < i
            BY <1>1, <1>3, <2>2, <3>1, <4>3, <5>1
        <5>3. j - 1 \in DOMAIN queue'[s] /\ queue'[s][j - 1] = queue[s][j]
            BY <1>1, <2>2, <5>2
        <5> QED BY <5>1, <5>2, <5>3
      <4> QED BY <1>5, <4>1, <4>2, <4>3 DEF Ordered
    <3> QED BY <3>1, <3>2, <3>3
  <2> QED BY <2>1, <2>2
<1> QED BY <1>1, <1>2, <1>3, <1>4, <1>6

(* What is ordered behind the work and has come to the head of its stream  *)
(* has the work behind it, on every stream.                                *)
LEMMA HeadLast ==
    ASSUME SInv, NEW s \in Stream, 1 \in DOMAIN queue[s], queue[s][1][1] # "write",
           Ordered(s, 1)
    PROVE  ~Queued("write")
<1> SUFFICES ASSUME NEW u \in Stream, NEW j \in DOMAIN queue[u], queue[u][j][1] = "write"
             PROVE  FALSE
    BY DEF Queued
<1>1. /\ Settled /\ once.producer = u
      /\ \E k \in DOMAIN queue[u] : queue[u][k][1] = "record"
    BY StatesDiffer DEF SInv, Work, WriteInv, Recorded, Ordered, Settled
<1>2. /\ DOMAIN queue[s] \subseteq Nat \ {0} /\ DOMAIN queue[u] \subseteq Nat \ {0}
  <2>1. queue[s] \in Seq(Item) /\ queue[u] \in Seq(Item)
      BY DEF SInv, Work, WorkTypes
  <2> QED BY <2>1
<1>3. Queued("record")
    BY <1>1 DEF Queued
<1>4. CASE u = s
  <2>1. j > 1
      BY <1>2, <1>4
  <2> QED BY <1>1, <1>4, <2>1 DEF Ordered
<1>5. CASE u # s
  <2>1. \E k \in DOMAIN queue[s] : k < 1
      BY <1>1, <1>3, <1>5, ExecuteOnceAssumption DEF Ordered
  <2> QED BY <1>2, <2>1
<1> QED BY <1>4, <1>5

(* What the device does to the order of the work.                          *)
LEMMA DeviceWork == ASSUME SInv, [Next]_vars, NEW v \in Stream, Device(v) PROVE Work'
<1>1. /\ WorkTypes'
      /\ \A what : Queued(what)' => Queued(what)
      /\ \A s \in Stream : \A i \in DOMAIN queue'[s] : \E k \in DOMAIN queue[s] :
            /\ queue'[s][i] = queue[s][k]
            /\ Ordered(s, k) => Ordered(s, i)'
            /\ \A j \in DOMAIN queue[s] : j > k =>
                  \E m \in DOMAIN queue'[s] : m > i /\ queue'[s][m] = queue[s][j]
      /\ \A s \in Stream : \A j \in DOMAIN queue[s] :
            \/ \E m \in DOMAIN queue'[s] : queue'[s][m] = queue[s][j]
            \/ s = v /\ j = 1
      /\ Queued("record")' => queue[v][1][1] # "wait"
    BY ShiftsOrdered, Zenon DEF SInv, Work
<1>2. UNCHANGED <<kind, once, pc, result, value>>
    BY DEF Device
<1>3. Part' = Part /\ \A t : PartOf(t)' = PartOf(t) /\ (Covered(t)' <=> Covered(t))
    BY <1>2, KindStays DEF Covered, value
<1>4. ASSUME NEW s \in Stream, NEW i \in DOMAIN queue'[s], NEW t \in Executor,
             queue'[s][i] = <<"use", t>>
      PROVE  UseOK(s, i, t)'
  <2>1. PICK k \in DOMAIN queue[s] :
            /\ queue'[s][i] = queue[s][k]
            /\ Ordered(s, k) => Ordered(s, i)'
            /\ \A j \in DOMAIN queue[s] : j > k =>
                  \E m \in DOMAIN queue'[s] : m > i /\ queue'[s][m] = queue[s][j]
      BY <1>1
  <2>2. UseOK(s, k, t)
      BY <1>4, <2>1 DEF SInv, Work, UseInv
  <2> QED BY <1>2, <1>3, <2>1, <2>2 DEF UseOK
<1>5. ASSUME NEW s \in Stream, NEW i \in DOMAIN queue'[s], NEW t \in Executor,
             queue'[s][i] = <<"sync", t>>
      PROVE  SyncOK(s, i, t)'
  <2>1. PICK k \in DOMAIN queue[s] :
            queue'[s][i] = queue[s][k] /\ (Ordered(s, k) => Ordered(s, i)')
      BY <1>1
  <2>2. SyncOK(s, k, t)
      BY <1>5, <2>1 DEF SInv, Work, SyncInv
  <2> QED BY <1>2, <2>1, <2>2 DEF SyncOK
<1>6. ASSUME NEW s \in Stream, NEW i \in DOMAIN queue'[s], queue'[s][i][1] = "write"
      PROVE  Recorded(s, i)'
  <2>1. PICK k \in DOMAIN queue[s] :
            /\ queue'[s][i] = queue[s][k]
            /\ \A j \in DOMAIN queue[s] : j > k =>
                  \E m \in DOMAIN queue'[s] : m > i /\ queue'[s][m] = queue[s][j]
      BY <1>1
  <2>2. Recorded(s, k)
      BY <1>6, <2>1 DEF SInv, Work, WriteInv
  <2> QED BY <1>2, <2>1, <2>2 DEF Recorded, Settled
<1>7. ASSUME NEW t \in Executor, result[t] = "value" PROVE Joined(t)'
  <2> PICK s \in Stream : s = StreamOf[t]
      BY ExecuteOnceAssumption
  <2>1. Joined(t)
      BY <1>7 DEF SInv, Work, JoinedInv
  <2>2. ASSUME pc[t] \in {"chaining", "terminal"}, Elsewhere(t), Queued("record")'
        PROVE  \E j \in DOMAIN queue'[s] : queue'[s][j][1] = "wait"
    <3>1. PICK j \in DOMAIN queue[s] : queue[s][j][1] = "wait"
        BY <1>1, <2>1, <2>2 DEF Joined
    <3> QED BY <1>1, <2>2, <3>1
  <2>3. ASSUME pc[t] = "syncing", ~InQueue("sync", t)', Queued("write") PROVE ~Queued("write")'
    <3>1. PICK j \in DOMAIN queue[s] : queue[s][j] = <<"sync", t>>
        BY <2>1, <2>3 DEF Joined, InQueue
    <3>2. s = v /\ j = 1
        BY <1>1, <2>3, <3>1 DEF InQueue
    <3>3. Ordered(s, 1)
        BY <1>7, <3>1, <3>2 DEF SInv, Work, SyncInv, SyncOK
    <3> QED BY <1>7, <2>3, <3>1, <3>2, <3>3, HeadLast DEF SInv
  <2>4. Elsewhere(t)' <=> Elsewhere(t)
      BY <1>2 DEF Elsewhere
  <2> QED BY <1>1, <1>2, <2>1, <2>2, <2>3, <2>4 DEF Joined
<1>8. UseInv' /\ SyncInv' /\ WriteInv' /\ JoinedInv'
    BY <1>2, <1>4, <1>5, <1>6, <1>7 DEF UseInv, SyncInv, WriteInv, JoinedInv
<1>9. FreedOrdered'
    BY <1>1, <1>2, <1>3 DEF SInv, Work, FreedOrdered, value
<1> QED BY <1>1, <1>8, <1>9 DEF Work

(* An executor none of whose kernels or terminals is on a stream.          *)
Absent(t) ==
    \A s \in Stream : \A i \in DOMAIN queue[s] :
        queue[s][i] \notin {<<"use", t>>, <<"sync", t>>}

LEMMA AbsentOutside ==
    ASSUME SInv, NEW t \in Executor, pc[t] \notin {"terminal", "syncing"}
    PROVE  Absent(t)
BY DEF Absent, SInv, Work, UseInv, UseOK, SyncInv, SyncOK

(* What stays true of the work on the streams when a step adds at most an  *)
(* item behind it, and leaves alone the executors whose work it is, but    *)
(* for the one that gets to its terminal.                                  *)
LEMMA OldWork ==
    ASSUME SInv, NEW t \in Executor, NEW what \in {"wait", "use", "sync"},
           queue' \in {queue, Enqueue(t, what)}, once' = once,
           NEW synced \in SUBSET {t},
           synced # {} => /\ what = "sync" /\ queue' = Enqueue(t, what)
                          /\ pc[t] = "terminal" /\ pc'[t] = "syncing",
           \A u \in Executor :
              /\ Absent(u) \/ pc'[u] = pc[u] \/ u \in synced
              /\ Absent(u) \/ (result'[u] = result[u] /\ (Covered(u) => Covered(u)'))
              /\ pc[u] = "settling" => pc'[u] = "settling"
    PROVE  /\ WorkTypes' /\ WriteInv'
           /\ Queued("write")' <=> Queued("write")
           /\ \A s \in Stream : \A i \in DOMAIN queue[s] : \A u \in Executor :
                 /\ queue[s][i] = <<"use", u>> => UseOK(s, i, u)'
                 /\ queue[s][i] = <<"sync", u>> => SyncOK(s, i, u)'
           /\ \A u \in Executor : result[u] = "value" /\ pc'[u] = pc[u] => Joined(u)'
<1>1. /\ WorkTypes'
      /\ Queued("write")' <=> Queued("write")
      /\ Queued("record")' <=> Queued("record")
      /\ \A s \in Stream : \A i \in DOMAIN queue[s] : Ordered(s, i) => Ordered(s, i)'
    BY GrowsOrdered, Zenon DEF SInv, Work
<1>2. /\ \A s \in Stream : \A i \in DOMAIN queue[s] :
            i \in DOMAIN queue'[s] /\ queue'[s][i] = queue[s][i]
      /\ \A s \in Stream : \A i \in DOMAIN queue'[s] :
            i \in DOMAIN queue[s] \/ queue'[s][i] = <<what, t>>
  <2>1. CASE queue' = queue
      BY <2>1
  <2>2. CASE queue' = Enqueue(t, what)
    <3>1. what \in {"wait", "write", "record", "use", "sync"} /\ WorkTypes
        BY DEF SInv, Work
    <3> QED BY <2>2, <3>1, Grows
  <2> QED BY <2>1, <2>2
<1>3. synced # {} =>
          /\ StreamOf[t] \in Stream
          /\ \E j \in DOMAIN queue'[StreamOf[t]] :
                /\ queue'[StreamOf[t]][j] = <<"sync", t>>
                /\ \A i \in DOMAIN queue[StreamOf[t]] : i < j
  <2> SUFFICES ASSUME synced # {}
               PROVE  /\ StreamOf[t] \in Stream
                      /\ \E j \in DOMAIN queue'[StreamOf[t]] :
                            /\ queue'[StreamOf[t]][j] = <<"sync", t>>
                            /\ \A i \in DOMAIN queue[StreamOf[t]] : i < j
      OBVIOUS
  <2>1. queue' = Enqueue(t, "sync") /\ WorkTypes
      BY DEF SInv, Work
  <2> QED BY <2>1, Grows
<1>4. ASSUME NEW s \in Stream, NEW i \in DOMAIN queue[s], NEW u \in Executor,
             queue[s][i] = <<"use", u>>
      PROVE  UseOK(s, i, u)'
  <2>1. UseOK(s, i, u) /\ ~Absent(u)
      BY <1>4 DEF SInv, Work, UseInv, Absent
  <2>2. result'[u] = result[u] /\ Covered(u)' /\ Ordered(s, i)'
      BY <1>1, <2>1 DEF UseOK
  <2>3. CASE u \notin synced
      BY <1>2, <2>1, <2>2, <2>3 DEF UseOK
  <2>4. CASE u \in synced
    <3>1. u = t /\ pc'[u] = "syncing" /\ s = StreamOf[t]
      <4>1. queue[s][i][2] = u
          BY <1>4
      <4> QED BY <2>4, <4>1 DEF SInv, Work, WorkTypes
    <3> QED BY <1>3, <2>1, <2>2, <2>4, <3>1 DEF UseOK
  <2> QED BY <2>3, <2>4
<1>5. ASSUME NEW s \in Stream, NEW i \in DOMAIN queue[s], NEW u \in Executor,
             queue[s][i] = <<"sync", u>>
      PROVE  SyncOK(s, i, u)'
  <2>1. SyncOK(s, i, u) /\ ~Absent(u)
      BY <1>5 DEF SInv, Work, SyncInv, Absent
  <2> QED BY <1>1, <2>1 DEF SyncOK
<1>6. WriteInv'
  <2> SUFFICES ASSUME NEW s \in Stream, NEW i \in DOMAIN queue'[s], queue'[s][i][1] = "write"
               PROVE  Recorded(s, i)'
      BY DEF WriteInv
  <2>1. i \in DOMAIN queue[s] /\ queue[s][i][1] = "write"
      BY <1>2
  <2>2. Recorded(s, i)
      BY <2>1 DEF SInv, Work, WriteInv
  <2> QED BY <1>2, <2>2 DEF Recorded, Settled
<1>7. ASSUME NEW u \in Executor, result[u] = "value", pc'[u] = pc[u] PROVE Joined(u)'
  <2> PICK s \in Stream : s = StreamOf[u]
      BY ExecuteOnceAssumption
  <2>1. Joined(u)
      BY <1>7 DEF SInv, Work, JoinedInv
  <2>2. Elsewhere(u)' <=> Elsewhere(u)
      BY DEF Elsewhere
  <2>3. InQueue("sync", u) => InQueue("sync", u)'
      BY <1>2 DEF InQueue
  <2> QED BY <1>1, <1>2, <1>7, <2>1, <2>2, <2>3 DEF Joined
<1> QED BY <1>1, <1>4, <1>5, <1>6, <1>7

(* A step that puts nothing on a stream, takes nobody to its terminal and  *)
(* gives no one the value, unless the work has ended.                      *)
LEMMA WorkKept ==
    ASSUME SInv, [Next]_vars, queue' = queue, once' = once, FreedOrdered',
           \A u \in Executor :
              /\ Absent(u) \/ pc'[u] = pc[u]
              /\ Absent(u) \/ (result'[u] = result[u] /\ (Covered(u) => Covered(u)'))
              /\ pc[u] = "settling" => pc'[u] = "settling"
              /\ result'[u] = "value" =>
                    /\ result[u] = "value"
                    /\ \/ pc'[u] \in {pc[u], "gone"}
                       \/ pc'[u] = "ready" /\ ~Queued("write")
    PROVE  Work'
<1> PICK t \in Executor : TRUE
    BY ExecuteOnceAssumption
<1> PICK none : none = {}
    OBVIOUS
<1>1. /\ WorkTypes' /\ WriteInv'
      /\ Queued("write")' <=> Queued("write")
      /\ \A s \in Stream : \A i \in DOMAIN queue[s] : \A u \in Executor :
            /\ queue[s][i] = <<"use", u>> => UseOK(s, i, u)'
            /\ queue[s][i] = <<"sync", u>> => SyncOK(s, i, u)'
      /\ \A u \in Executor : result[u] = "value" /\ pc'[u] = pc[u] => Joined(u)'
  <2>1. queue' \in {queue, Enqueue(t, "wait")} /\ none \in SUBSET {t}
      OBVIOUS
  <2>2. /\ none # {} => FALSE
        /\ \A u \in Executor :
              /\ Absent(u) \/ pc'[u] = pc[u] \/ u \in none
              /\ Absent(u) \/ (result'[u] = result[u] /\ (Covered(u) => Covered(u)'))
              /\ pc[u] = "settling" => pc'[u] = "settling"
      OBVIOUS
  <2> QED BY <2>1, <2>2, OldWork
<1>2. UseInv' /\ SyncInv'
    BY <1>1 DEF UseInv, SyncInv
<1>3. ASSUME NEW u \in Executor, result'[u] = "value" PROVE Joined(u)'
  <2>1. CASE pc'[u] = pc[u]
      BY <1>1, <1>3, <2>1
  <2>2. CASE pc'[u] # pc[u]
      BY <1>1, <1>3, <2>2 DEF Joined
  <2> QED BY <2>1, <2>2
<1> QED BY <1>1, <1>2, <1>3 DEF Work, JoinedInv

-----------------------------------------------------------------------------
(* The actions.                                                            *)

LEMMA FreedKept ==
    ASSUME SInv, [Next]_vars, Queued("write")' => Queued("write"), unguarded \subseteq unguarded',
           \A p \in Part : storage'[p] = "freed" =>
               storage[p] = "freed" \/ p \in unguarded' \/ ~Queued("write")
    PROVE  FreedOrdered'
BY KindStays DEF SInv, Work, FreedOrdered

LEMMA CoveredKept ==
    ASSUME SInv, [Next]_vars, NEW u \in Executor, Covered(u), unguarded \subseteq unguarded',
           quarantine[u] \subseteq quarantine'[u],
           \A p \in Part : u \in holder[p] => u \in holder'[p]
    PROVE  Covered(u)'
<1>1. PartOf(u)' = PartOf(u) /\ PartOf(u) \in Part
    BY KindStays, PartsOfKind DEF SInv, Wares
<1> QED BY <1>1 DEF Covered

(* An executor waits, is woken, or goes on inside the operation.           *)
LEMMA MoveSafe ==
    ASSUME SInv, [Next]_vars, UNCHANGED <<value, once, result, queue>>,
           \A t \in Executor :
              pc'[t] = pc[t] \/ (/\ pc[t] \in WithHandle \ {"settling"}
                                 /\ pc'[t] \in WithHandle)
    PROVE  Wares' /\ Work'
<1>1. UNCHANGED <<memo, holder, storage, quarantine, unguarded>>
    BY DEF value
<1>2. \A w \in {"chaining", "terminal", "syncing", "ready", "gone"} : w \notin WithHandle
    BY DEF WithHandle
<1>3. Wares'
    BY <1>2, WaresKept
<1>4. \A u \in Executor : Covered(u) => Covered(u)'
    BY <1>1, CoveredKept
<1>5. FreedOrdered'
    BY <1>1, FreedKept DEF Queued
<1>6. \A u \in Executor : Absent(u) \/ pc'[u] = pc[u]
    BY <1>2, AbsentOutside
<1>7. \A u \in Executor : result[u] = "value" => pc'[u] = pc[u]
  <2>1. \A u \in Executor : pc[u] \in WithHandle => result[u] # "value"
      BY DEF SInv, Wares, HolderInv
  <2> QED BY <2>1
<1>8. Work'
    BY <1>4, <1>5, <1>6, <1>7, WorkKept
<1> QED BY <1>3, <1>8

LEMMA AbandonSafe == ASSUME SInv, [Next]_vars, NEW t \in Executor, Abandon(t) PROVE Wares' /\ Work'
<1>1. /\ pc[t] = "idle" /\ pc' = [pc EXCEPT ![t] = "gone"] /\ memo' = Kept(t, memo)
      /\ storage' = Free(Orphans(t, memo, holder))
      /\ unguarded' = unguarded \cup Orphans(t, memo, holder)
      /\ UNCHANGED <<once, result, holder, quarantine, queue>>
    BY DEF Abandon
<1>2. pc[t] \in WithHandle /\ result[t] = "none"
    BY <1>1 DEF SInv, Wares, HolderInv, WithHandle
<1>3. result' = [result EXCEPT ![t] = "none"]
    BY <1>1, <1>2 DEF SInv, IInv, Types
<1>4. kind = "unzip" => t \in {First, Second}
    BY <1>1, UnzipHas DEF SInv, Wares
<1>5. Wares'
    BY <1>1, <1>2, <1>3, <1>4, HandleGoes
<1>6. FreedOrdered'
  <2>1. \A p \in Part : storage'[p] = "freed" => storage[p] = "freed" \/ p \in unguarded'
      BY <1>1 DEF Free
  <2>2. Queued("write")' => Queued("write")
      BY <1>1 DEF Queued
  <2> QED BY <1>1, <2>1, <2>2, FreedKept
<1>7. \A u \in Executor : Covered(u) => Covered(u)'
    BY <1>1, CoveredKept
<1>8. \A u \in Executor : u # t => pc'[u] = pc[u]
    BY <1>1 DEF SInv, IInv, Types
<1>9. Absent(t) /\ pc'[t] = "gone" /\ pc[t] # "settling"
    BY <1>1, AbsentOutside DEF SInv, IInv, Types
<1>10. Work'
    BY <1>1, <1>6, <1>7, <1>8, <1>9, WorkKept
<1> QED BY <1>5, <1>10

LEMMA JoinFailsSafe ==
    ASSUME SInv, [Next]_vars, NEW t \in Executor, JoinFails(t) PROVE Wares' /\ Work'
<1>1. /\ pc[t] = "entering" /\ pc' = [pc EXCEPT ![t] = "terminal"] /\ memo' = Kept(t, memo)
      /\ quarantine' = [quarantine EXCEPT ![t] = @ \cup Orphans(t, memo, holder)]
      /\ unguarded' = unguarded \cup Orphans(t, memo, holder)
      /\ result' = [result EXCEPT ![t] = "join"]
      /\ UNCHANGED <<once, storage, holder, queue>>
    BY DEF JoinFails
<1>2. pc[t] \in WithHandle
    BY <1>1 DEF WithHandle
<1>4. kind = "unzip" => t \in {First, Second}
    BY <1>1, UnzipHas DEF SInv, Wares
<1>5. Wares'
    BY <1>1, <1>2, <1>4, HandleGoes
<1>6. FreedOrdered'
  <2>1. Queued("write")' => Queued("write")
      BY <1>1 DEF Queued
  <2> QED BY <1>1, <2>1, FreedKept
<1>7. \A u \in Executor : Covered(u) => Covered(u)'
  <2>1. \A u \in Executor : quarantine[u] \subseteq quarantine'[u]
      BY <1>1 DEF SInv, Wares, WareTypes
  <2> QED BY <1>1, <2>1, CoveredKept
<1>8. \A u \in Executor : u # t => pc'[u] = pc[u] /\ result'[u] = result[u]
    BY <1>1 DEF SInv, IInv, Types
<1>9. Absent(t) /\ result'[t] = "join" /\ pc[t] # "settling"
    BY <1>1, AbsentOutside DEF SInv, IInv, Types
<1>10. Work'
    BY <1>1, <1>6, <1>7, <1>8, <1>9, WorkKept
<1> QED BY <1>5, <1>10

LEMMA RefusedSafe ==
    ASSUME SInv, [Next]_vars, IInv', NEW t \in Executor, Refused(t) PROVE Wares' /\ Work'
<1>1. /\ pc[t] = "entering" /\ once.state = "failed" /\ pc' = [pc EXCEPT ![t] = "terminal"]
      /\ result' = [result EXCEPT ![t] = once.error]
      /\ UNCHANGED <<once, memo, holder, storage, quarantine, unguarded, queue>>
    BY DEF Refused, value
<1>2. ~Settled /\ ~Settled' /\ once.error \in Errors
    BY <1>1, StatesDiffer DEF Settled, SInv, IInv, Types, States
<1>3. \A u \in Executor : u # t => pc'[u] = pc[u] /\ result'[u] = result[u]
    BY <1>1 DEF SInv, IInv, Types
<1>4. pc'[t] = "terminal" /\ result'[t] # "value" /\ "terminal" \notin WithHandle
    BY <1>1, <1>2 DEF SInv, IInv, Types, Errors, WithHandle
<1>5. \A u \in Executor : result[u] # "value" /\ pc[u] \notin {"chaining", "ready"}
    BY <1>2, Unsettled
<1>6. Wares' /\ UseInv' /\ FreedOrdered' /\ JoinedInv'
  <2>1. \A u \in Executor : /\ result'[u] # "value"
                            /\ pc'[u] \in WithHandle =>
                                  pc[u] \in WithHandle /\ result'[u] = result[u]
                            /\ pc'[u] \notin {"chaining", "ready"}
                            /\ pc[u] = "gone" => pc'[u] = "gone"
                            /\ pc[u] = "syncing" => pc'[u] = "syncing"
      BY <1>1, <1>3, <1>4, <1>5
  <2> QED BY <1>1, <1>2, <2>1, StaysUnsettled
<1>7. SyncInv'
    BY <1>1, <1>2, <1>3, <1>4, <1>5 DEF SInv, Work, SyncInv, SyncOK
<1>8. WorkTypes' /\ WriteInv'
    BY <1>1 DEF SInv, Work, WorkTypes, WriteInv, Recorded
<1> QED BY <1>6, <1>7, <1>8 DEF Work

(* A step of the thread inside the operation, while it is not settled, or  *)
(* one that starts it or settles it badly.                                 *)
LEMMA InsideSafe ==
    ASSUME SInv, [Next]_vars, IInv', NEW t \in Executor,
           \/ Claim(t) \/ RunSucceeds(t) \/ RunFails(t) \/ Panic(t) \/ RecordFails(t)
    PROVE  Wares' /\ Work'
<1>1. ~Settled /\ ~Settled'
  <2>1. CASE Claim(t)
      BY <2>1, StatesDiffer DEF Claim, Settled
  <2>2. CASE RunSucceeds(t) \/ RunFails(t) \/ Panic(t) \/ RecordFails(t)
    <3>1. once = Running(t)
        BY <2>2 DEF SInv, IInv, OneInside, Inside, RunSucceeds, RunFails, Panic,
           RecordFails, Runs
    <3>2. once' \in {once, Failed("op"), Failed("panic"), Failed("event")}
        BY <2>2 DEF RunSucceeds, RunFails, Panic, RecordFails
    <3> QED BY <3>1, <3>2, StatesDiffer DEF Settled
  <2> QED BY <2>1, <2>2
<1>2. /\ \A u \in Executor : result[u] # "value" /\ pc[u] \notin {"chaining", "ready"}
      /\ \A s \in Stream : \A i \in DOMAIN queue[s] : queue[s][i][1] # "use"
    BY <1>1, Unsettled
<1>3. UNCHANGED <<memo, result, holder, quarantine, unguarded>>
    BY DEF Claim, RunSucceeds, RunFails, Panic, RecordFails, value
<1>4. storage' \in [Part -> {"none", "live", "leaked"}] \/ storage' = storage
    BY DEF Claim, RunSucceeds, RunFails, Panic, RecordFails, value
<1>5. \A u \in Executor :
         pc'[u] = pc[u] \/ (pc[u] \in WithHandle /\ pc'[u] \in WithHandle)
    BY DEF Claim, RunSucceeds, RunFails, Panic, RecordFails, Runs, Awakened, SInv, IInv,
       Types, WithHandle
<1>6. Wares' /\ FreedOrdered' /\ JoinedInv' /\ (queue' = queue => UseInv' /\ SyncInv')
  <2>1. \A u \in Executor : /\ result'[u] # "value"
                            /\ pc'[u] \in WithHandle =>
                                  pc[u] \in WithHandle /\ result'[u] = result[u]
                            /\ pc'[u] \notin {"chaining", "ready"}
                            /\ pc[u] = "gone" => pc'[u] = "gone"
                            /\ pc[u] = "syncing" => pc'[u] = "syncing"
      BY <1>2, <1>3, <1>5 DEF WithHandle
  <2> QED BY <1>1, <1>3, <1>4, <2>1, StaysUnsettled
<1>7. queue' = queue \/ (queue' = Enqueue(t, "write") /\ (RunSucceeds(t) \/ RunFails(t)))
    BY DEF Claim, RunSucceeds, RunFails, Panic, RecordFails
<1>8. WorkTypes' /\ UseInv' /\ SyncInv'
  <2>1. CASE queue' = queue
      BY <1>6, <2>1 DEF SInv, Work, WorkTypes
  <2>2. CASE queue' = Enqueue(t, "write")
    <3>1. /\ WorkTypes'
          /\ \A s \in Stream : \A i \in DOMAIN queue[s] :
                i \in DOMAIN queue'[s] /\ queue'[s][i] = queue[s][i]
          /\ \A s \in Stream : \A i \in DOMAIN queue'[s] :
                i \in DOMAIN queue[s] \/ queue'[s][i] = <<"write", t>>
        BY <2>2, Grows DEF SInv, Work
    <3>2. UseInv'
        BY <1>2, <3>1 DEF UseInv
    <3>3. ASSUME NEW s \in Stream, NEW i \in DOMAIN queue'[s], NEW u \in Executor,
                 queue'[s][i] = <<"sync", u>>
          PROVE  SyncOK(s, i, u)'
      <4>1. i \in DOMAIN queue[s] /\ queue[s][i] = <<"sync", u>>
          BY <3>1, <3>3
      <4>2. pc[u] = "syncing"
          BY <4>1 DEF SInv, Work, SyncInv, SyncOK
      <4> QED BY <1>2, <1>3, <1>5, <4>2 DEF SyncOK, WithHandle
    <3> QED BY <3>1, <3>2, <3>3 DEF SyncInv
  <2> QED BY <1>7, <2>1, <2>2
<1>9. WriteInv'
  <2>1. CASE Claim(t)
    <3>1. \A s \in Stream : \A i \in DOMAIN queue[s] : queue[s][i][1] # "write"
        BY <2>1, StatesDiffer DEF Claim, SInv, Work, WriteInv, Recorded, Settled
    <3> QED BY <2>1, <3>1 DEF Claim, WriteInv
  <2>2. CASE RunFails(t) \/ Panic(t) \/ RecordFails(t)
      BY <2>2, StatesDiffer DEF RunFails, Panic, RecordFails, WriteInv, Recorded
  <2>3. CASE RunSucceeds(t)
    <3>1. /\ once = Running(t) /\ pc[t] # "settling" /\ once' = once
          /\ pc'[t] = "settling" /\ queue' = Enqueue(t, "write")
        BY <2>3 DEF RunSucceeds, Runs, SInv, IInv, Types, OneInside, Inside
    <3>2. \A s \in Stream : \A i \in DOMAIN queue[s] : queue[s][i][1] # "write"
        BY <3>1, StatesDiffer DEF SInv, Work, WriteInv, Recorded, Settled
    <3>3. \A s \in Stream : \A i \in DOMAIN queue'[s] :
              (i \in DOMAIN queue[s] /\ queue'[s][i] = queue[s][i]) \/ s = StreamOf[t]
        BY <3>1, Grows DEF SInv, Work
    <3> QED BY <3>1, <3>2, <3>3 DEF WriteInv, Recorded
  <2> QED BY <2>1, <2>2, <2>3
<1> QED BY <1>6, <1>8, <1>9 DEF Work

(* The event is recorded behind everything the operation has submitted.    *)
LEMMA SettleSafe ==
    ASSUME SInv, [Next]_vars, NEW t \in Executor, SettleDone(t) PROVE Wares' /\ Work'
<1> PICK s0 \in Stream : s0 = StreamOf[t]
    BY ExecuteOnceAssumption
<1>1. /\ pc[t] = "settling" /\ once' = Done(s0) /\ queue' = Enqueue(t, "record")
      /\ pc' = [pc EXCEPT ![t] = "notifying"]
      /\ UNCHANGED <<result, storage, unguarded>>
    BY DEF SettleDone
<1>2. once = Running(t) /\ ~Settled /\ Settled' /\ once'.producer = s0
    BY <1>1, StatesDiffer DEF SInv, IInv, OneInside, Inside, Settled
<1>3. /\ \A u \in Executor : result[u] # "value"
      /\ \A p \in Part : storage[p] # "freed"
      /\ \A s \in Stream : \A i \in DOMAIN queue[s] : queue[s][i][1] # "use"
    BY <1>2, Unsettled
<1>4. /\ WorkTypes'
      /\ \A s \in Stream : \A i \in DOMAIN queue[s] :
            i \in DOMAIN queue'[s] /\ queue'[s][i] = queue[s][i]
      /\ \A s \in Stream : \A i \in DOMAIN queue'[s] :
            i \in DOMAIN queue[s] \/ queue'[s][i] = <<"record", t>>
      /\ \E i \in DOMAIN queue'[s0] :
            /\ queue'[s0][i] = <<"record", t>>
            /\ \A j \in DOMAIN queue[s0] : j < i
  <2>1. WorkTypes /\ queue' = Enqueue(t, "record")
        /\ "record" \in {"wait", "write", "record", "use", "sync"}
      BY <1>1 DEF SInv, Work
  <2>2. /\ WorkTypes'
        /\ \A s \in Stream : \A i \in DOMAIN queue[s] :
              i \in DOMAIN queue'[s] /\ queue'[s][i] = queue[s][i]
        /\ \A s \in Stream : \A i \in DOMAIN queue'[s] :
              i \in DOMAIN queue[s] \/ queue'[s][i] = <<"record", t>>
      BY <2>1, Grows
  <2>3. \E i \in DOMAIN queue'[StreamOf[t]] :
            /\ queue'[StreamOf[t]][i] = <<"record", t>>
            /\ \A j \in DOMAIN queue[StreamOf[t]] : j < i
      BY <2>1, Grows
  <2> QED BY <2>2, <2>3
<1>5. UseInv'
    BY <1>3, <1>4 DEF UseInv
<1>6. SyncInv'
  <2> SUFFICES ASSUME NEW s \in Stream, NEW i \in DOMAIN queue'[s], NEW u \in Executor,
                      queue'[s][i] = <<"sync", u>>
               PROVE  SyncOK(s, i, u)'
      BY DEF SyncInv
  <2>1. i \in DOMAIN queue[s] /\ queue[s][i] = <<"sync", u>>
      BY <1>4
  <2>2. pc[u] = "syncing"
      BY <2>1 DEF SInv, Work, SyncInv, SyncOK
  <2>3. pc'[u] = "syncing"
      BY <1>1, <2>2 DEF SInv, IInv, Types
  <2> QED BY <1>1, <1>3, <2>3 DEF SyncOK
<1>7. WriteInv'
  <2> SUFFICES ASSUME NEW s \in Stream, NEW i \in DOMAIN queue'[s], queue'[s][i][1] = "write"
               PROVE  Recorded(s, i)'
      BY DEF WriteInv
  <2>1. i \in DOMAIN queue[s] /\ queue[s][i][1] = "write"
      BY <1>4
  <2>2. s = s0
      BY <1>2, <2>1, StatesDiffer DEF SInv, Work, WriteInv, Recorded, Settled
  <2> QED BY <1>2, <1>4, <2>1, <2>2 DEF Recorded
<1>8. JoinedInv' /\ FreedOrdered'
  <2>1. Part' = Part
      BY KindStays
  <2> QED BY <1>1, <1>3, <2>1 DEF JoinedInv, FreedOrdered
<1> QED BY <1>4, <1>5, <1>6, <1>7, <1>8, SettleWares DEF Work

(* The executor with the value has joined its stream to the work.          *)
LEMMA TakeSafe ==
    ASSUME SInv, [Next]_vars, NEW t \in Executor, Take(t) PROVE Wares' /\ Work'
<1> PICK s0 \in Stream : s0 = StreamOf[t]
    BY ExecuteOnceAssumption
<1>1. /\ pc[t] = "entering" /\ Settled /\ once' = once
      /\ result' = [result EXCEPT ![t] = "value"] /\ pc' = [pc EXCEPT ![t] = "chaining"]
      /\ UNCHANGED <<storage, unguarded>>
      /\ queue' \in {queue, Enqueue(t, "wait")}
      /\ Elsewhere(t) => queue' = Enqueue(t, "wait")
    BY DEF Take, TakeValue, Settled
<1>2. Wares'
    BY TakeWares DEF Take
<1>3. \A u \in Executor : Covered(u) => Covered(u)'
  <2>1. /\ \A u \in Executor : quarantine[u] \subseteq quarantine'[u]
        /\ \A p \in Part : holder[p] \subseteq holder'[p]
      BY PartsOfKind DEF Take, TakeValue, SInv, Wares, WareTypes
  <2> QED BY <1>1, <2>1, CoveredKept
<1>4. \A u \in Executor : u # t => pc'[u] = pc[u] /\ result'[u] = result[u]
    BY <1>1 DEF SInv, IInv, Types
<1>5. Absent(t) /\ pc[t] # "settling" /\ pc'[t] = "chaining" /\ result'[t] = "value"
    BY <1>1, AbsentOutside DEF SInv, IInv, Types
<1> PICK none : none = {}
    OBVIOUS
<1>6. /\ WorkTypes' /\ WriteInv'
      /\ Queued("write")' <=> Queued("write")
      /\ \A s \in Stream : \A i \in DOMAIN queue[s] : \A u \in Executor :
            /\ queue[s][i] = <<"use", u>> => UseOK(s, i, u)'
            /\ queue[s][i] = <<"sync", u>> => SyncOK(s, i, u)'
      /\ \A u \in Executor : result[u] = "value" /\ pc'[u] = pc[u] => Joined(u)'
  <2>1. none \in SUBSET {t} /\ (none # {} => FALSE)
      OBVIOUS
  <2>2. \A u \in Executor :
           /\ Absent(u) \/ pc'[u] = pc[u] \/ u \in none
           /\ Absent(u) \/ (result'[u] = result[u] /\ (Covered(u) => Covered(u)'))
           /\ pc[u] = "settling" => pc'[u] = "settling"
      BY <1>3, <1>4, <1>5
  <2> QED BY <1>1, <2>1, <2>2, OldWork
<1>7. \A s \in Stream : \A i \in DOMAIN queue'[s] :
         \/ i \in DOMAIN queue[s] /\ queue'[s][i] = queue[s][i]
         \/ queue'[s][i] = <<"wait", t>>
  <2>1. CASE queue' = queue
      BY <2>1
  <2>2. CASE queue' = Enqueue(t, "wait")
      BY <2>2, Grows DEF SInv, Work
  <2> QED BY <1>1, <2>1, <2>2
<1>8. UseInv' /\ SyncInv'
    BY <1>6, <1>7 DEF UseInv, SyncInv
<1>9. Joined(t)'
  <2>1. Elsewhere(t) => \E i \in DOMAIN queue'[s0] : queue'[s0][i] = <<"wait", t>>
    <3>1. queue' = Enqueue(t, "wait") => \E i \in DOMAIN queue'[s0] : queue'[s0][i] = <<"wait", t>>
        BY Grows DEF SInv, Work
    <3> QED BY <1>1, <3>1
  <2>2. Elsewhere(t)' <=> Elsewhere(t)
      BY <1>1 DEF Elsewhere
  <2>3. Elsewhere(t)' => \E i \in DOMAIN queue'[s0] : queue'[s0][i][1] = "wait"
      BY <2>1, <2>2
  <2> QED BY <1>5, <2>3 DEF Joined
<1>10. JoinedInv'
  <2> SUFFICES ASSUME NEW u \in Executor, result'[u] = "value", u # t PROVE Joined(u)'
      BY <1>9 DEF JoinedInv
  <2> QED BY <1>4, <1>6
<1>11. FreedOrdered'
    BY <1>1, <1>6, FreedKept
<1> QED BY <1>2, <1>6, <1>8, <1>10, <1>11 DEF Work

(* A kernel on the value, behind the work; and perhaps the last of the     *)
(* executor's reference, which leaves the part covered.                    *)
LEMMA ChainSafe ==
    ASSUME SInv, [Next]_vars, NEW t \in Executor, Chain(t) PROVE Wares' /\ Work'
<1> PICK s0 \in Stream : s0 = StreamOf[t]
    BY ExecuteOnceAssumption
<1> PICK p \in Part : p = PartOf(t)
    BY PartsOfKind DEF SInv, Wares
<1> PICK last : last = (p \notin memo /\ holder[p] = {t})
    OBVIOUS
<1>1. /\ pc[t] = "chaining" /\ once' = once
      /\ pc' = [pc EXCEPT ![t] = "terminal"]
      /\ UNCHANGED <<memo, result, storage>>
      /\ queue' \in {queue, Enqueue(t, "use")}
    BY DEF Chain, Drops
<1>2. \/ UNCHANGED <<holder, quarantine, unguarded>>
      \/ /\ holder' = [holder EXCEPT ![p] = @ \ {t}]
         /\ quarantine' = [quarantine EXCEPT ![t] = IF last THEN @ \cup {p} ELSE @]
         /\ unguarded' = IF last THEN unguarded ELSE unguarded \cup {p}
    BY DEF Chain, Drops
<1>3. t \in holder[p] /\ result[t] = "value"
    BY <1>1 DEF SInv, Wares, HolderInv
<1>4. Wares'
  <2>1. CASE UNCHANGED <<holder, quarantine, unguarded>>
    <3>1. \A u \in Executor : u # t => pc'[u] = pc[u]
        BY <1>1 DEF SInv, IInv, Types
    <3>2. pc'[t] = "terminal" /\ "terminal" \notin WithHandle
        BY <1>1 DEF SInv, IInv, Types, WithHandle
    <3>3. UNCHANGED <<value, once, result>>
        BY <1>1, <2>1 DEF value
    <3> QED BY <1>1, <3>1, <3>2, <3>3, WaresKept
  <2>2. CASE /\ holder' = [holder EXCEPT ![p] = @ \ {t}]
             /\ quarantine' = [quarantine EXCEPT ![t] = IF last THEN @ \cup {p} ELSE @]
             /\ unguarded' = IF last THEN unguarded ELSE unguarded \cup {p}
      BY <1>1, <1>3, <2>2, ReferenceGoes
  <2> QED BY <1>2, <2>1, <2>2
<1>5. Part' = Part /\ \A u : PartOf(u)' = PartOf(u)
    BY KindStays
<1>6. /\ unguarded \subseteq unguarded'
      /\ \A u \in Executor : quarantine[u] \subseteq quarantine'[u]
      /\ \A u \in Executor : u # t => \A q \in Part : u \in holder[q] => u \in holder'[q]
    BY <1>2 DEF SInv, Wares, WareTypes
<1>7. Covered(t)'
  <2>1. t \in holder'[p] \/ p \in unguarded' \/ p \in quarantine'[t]
      BY <1>2, <1>3 DEF SInv, Wares, WareTypes
  <2> QED BY <1>5, <2>1 DEF Covered
<1>8. \A u \in Executor : Covered(u) => Covered(u)'
    BY <1>6, <1>7, CoveredKept
<1>9. \A u \in Executor : u # t => pc'[u] = pc[u]
    BY <1>1 DEF SInv, IInv, Types
<1>10. Absent(t) /\ pc[t] # "settling" /\ pc'[t] = "terminal" /\ result'[t] = "value"
    BY <1>1, <1>3, AbsentOutside DEF SInv, IInv, Types
<1> PICK none : none = {}
    OBVIOUS
<1>11. /\ WorkTypes' /\ WriteInv'
       /\ Queued("write")' <=> Queued("write")
       /\ \A s \in Stream : \A i \in DOMAIN queue[s] : \A u \in Executor :
             /\ queue[s][i] = <<"use", u>> => UseOK(s, i, u)'
             /\ queue[s][i] = <<"sync", u>> => SyncOK(s, i, u)'
       /\ \A u \in Executor : result[u] = "value" /\ pc'[u] = pc[u] => Joined(u)'
  <2>1. none \in SUBSET {t} /\ (none # {} => FALSE)
      OBVIOUS
  <2>2. \A u \in Executor :
           /\ Absent(u) \/ pc'[u] = pc[u] \/ u \in none
           /\ Absent(u) \/ (result'[u] = result[u] /\ (Covered(u) => Covered(u)'))
           /\ pc[u] = "settling" => pc'[u] = "settling"
      BY <1>1, <1>8, <1>9, <1>10
  <2> QED BY <1>1, <2>1, <2>2, OldWork
<1>12. /\ \A s \in Stream : \A i \in DOMAIN queue'[s] :
             \/ i \in DOMAIN queue[s]
             \/ /\ s = s0 /\ queue'[s][i] = <<"use", t>>
                /\ \A j \in DOMAIN queue[s] : j < i
                /\ \A j \in DOMAIN queue'[s] : j <= i
       /\ \A s \in Stream : \A i \in DOMAIN queue[s] :
             i \in DOMAIN queue'[s] /\ queue'[s][i] = queue[s][i]
  <2>1. CASE queue' = queue
      BY <2>1
  <2>2. CASE queue' = Enqueue(t, "use")
      BY <2>2, Grows DEF SInv, Work
  <2> QED BY <1>1, <2>1, <2>2
<1>13. Joined(t)
    BY <1>3 DEF SInv, Work, JoinedInv
<1>14. Settled'
    BY <1>1, <1>3 DEF SInv, IInv, ResultIsOutcome, Settled
<1>15. /\ \A s \in Stream : DOMAIN queue'[s] \subseteq Nat
       /\ Queued("record")' => Queued("record")
  <2>1. \A s \in Stream : queue'[s] \in Seq(Item)
      BY <1>11 DEF WorkTypes
  <2>2. Queued("record")' => Queued("record")
      BY <1>12 DEF Queued
  <2> QED BY <2>1, <2>2
<1>16. ASSUME NEW i \in DOMAIN queue'[s0], \A j \in DOMAIN queue[s0] : j < i,
              \A j \in DOMAIN queue'[s0] : j <= i
       PROVE  Ordered(s0, i)'
  <2>1. \A j \in DOMAIN queue'[s0] : ~(j > i)
      BY <1>15, <1>16
  <2>2. ASSUME once.producer \notin {NoStream, s0}, Queued("record")'
        PROVE  \E j \in DOMAIN queue'[s0] : j < i /\ queue'[s0][j][1] = "wait"
    <3>1. \E j \in DOMAIN queue[s0] : queue[s0][j][1] = "wait"
        BY <1>1, <1>13, <1>15, <2>2 DEF Joined, Elsewhere
    <3> QED BY <1>12, <1>16, <3>1
  <2> QED BY <1>1, <1>14, <2>1, <2>2 DEF Ordered
<1>17. UseInv'
  <2> SUFFICES ASSUME NEW s \in Stream, NEW i \in DOMAIN queue'[s], NEW u \in Executor,
                      queue'[s][i] = <<"use", u>>
               PROVE  UseOK(s, i, u)'
      BY DEF UseInv
  <2>1. CASE i \in DOMAIN queue[s]
      BY <1>11, <1>12, <2>1
  <2>2. CASE i \notin DOMAIN queue[s]
    <3>1. /\ s = s0 /\ u = t /\ \A j \in DOMAIN queue[s0] : j < i
          /\ \A j \in DOMAIN queue'[s0] : j <= i
        BY <1>12, <2>2
    <3>2. Ordered(s, i)'
        BY <1>16, <3>1
    <3> QED BY <1>7, <1>10, <3>1, <3>2 DEF UseOK
  <2> QED BY <2>1, <2>2
<1>18. SyncInv'
    BY <1>11, <1>12 DEF SyncInv
<1>19. Joined(t)'
  <2>1. (Elsewhere(t) /\ Queued("record"))' => Elsewhere(t) /\ Queued("record")
      BY <1>1, <1>15 DEF Elsewhere
  <2>2. Elsewhere(t) /\ Queued("record") => \E j \in DOMAIN queue[s0] : queue[s0][j][1] = "wait"
      BY <1>1, <1>13 DEF Joined
  <2>3. (\E j \in DOMAIN queue[s0] : queue[s0][j][1] = "wait") =>
            \E j \in DOMAIN queue'[s0] : queue'[s0][j][1] = "wait"
      BY <1>12
  <2> QED BY <1>10, <2>1, <2>2, <2>3 DEF Joined
<1>20. JoinedInv'
  <2> SUFFICES ASSUME NEW u \in Executor, result'[u] = "value", u # t PROVE Joined(u)'
      BY <1>19 DEF JoinedInv
  <2> QED BY <1>1, <1>9, <1>11
<1>21. FreedOrdered'
    BY <1>1, <1>6, <1>11, FreedKept
<1> QED BY <1>4, <1>11, <1>17, <1>18, <1>20, <1>21 DEF Work

(* The terminal comes behind the executor's kernels, and so behind all     *)
(* that produced the value.                                                *)
LEMMA SynchronizeSafe ==
    ASSUME SInv, [Next]_vars, NEW t \in Executor, Synchronize(t) PROVE Wares' /\ Work'
<1> PICK s0 \in Stream : s0 = StreamOf[t]
    BY ExecuteOnceAssumption
<1>1. /\ pc[t] = "terminal" /\ pc' = [pc EXCEPT ![t] = "syncing"]
      /\ queue' = Enqueue(t, "sync") /\ UNCHANGED <<value, once, result>>
    BY DEF Synchronize
<1>2. \A u \in Executor : u # t => pc'[u] = pc[u]
    BY <1>1 DEF SInv, IInv, Types
<1>3. pc'[t] = "syncing" /\ "syncing" \notin WithHandle
    BY <1>1 DEF SInv, IInv, Types, WithHandle
<1>4. Wares'
    BY <1>1, <1>2, <1>3, WaresKept
<1>5. UNCHANGED <<memo, holder, storage, quarantine, unguarded>>
    BY <1>1 DEF value
<1>6. \A u \in Executor : Covered(u) => Covered(u)'
    BY <1>5, CoveredKept
<1> PICK synced : synced = {t}
    OBVIOUS
<1>7. /\ WorkTypes' /\ WriteInv'
      /\ Queued("write")' <=> Queued("write")
      /\ \A s \in Stream : \A i \in DOMAIN queue[s] : \A u \in Executor :
            /\ queue[s][i] = <<"use", u>> => UseOK(s, i, u)'
            /\ queue[s][i] = <<"sync", u>> => SyncOK(s, i, u)'
      /\ \A u \in Executor : result[u] = "value" /\ pc'[u] = pc[u] => Joined(u)'
  <2>1. /\ synced \in SUBSET {t}
        /\ queue' \in {queue, Enqueue(t, "sync")}
        /\ synced # {} => queue' = Enqueue(t, "sync") /\ pc[t] = "terminal" /\ pc'[t] = "syncing"
      BY <1>1, <1>3
  <2>2. \A u \in Executor :
           /\ Absent(u) \/ pc'[u] = pc[u] \/ u \in synced
           /\ Absent(u) \/ (result'[u] = result[u] /\ (Covered(u) => Covered(u)'))
           /\ pc[u] = "settling" => pc'[u] = "settling"
      BY <1>1, <1>2, <1>6
  <2> QED BY <1>1, <2>1, <2>2, OldWork
<1>8. /\ \A s \in Stream : \A i \in DOMAIN queue'[s] :
            \/ i \in DOMAIN queue[s]
            \/ /\ s = s0 /\ queue'[s][i] = <<"sync", t>>
               /\ \A j \in DOMAIN queue[s] : j < i
               /\ \A j \in DOMAIN queue'[s] : j <= i
      /\ \A s \in Stream : \A i \in DOMAIN queue[s] :
            i \in DOMAIN queue'[s] /\ queue'[s][i] = queue[s][i]
    BY <1>1, Grows DEF SInv, Work
<1>9. \E i \in DOMAIN queue'[StreamOf[t]] : queue'[StreamOf[t]][i] = <<"sync", t>>
    BY <1>1, Grows DEF SInv, Work
<1>10. /\ \A s \in Stream : DOMAIN queue'[s] \subseteq Nat
       /\ Queued("record")' => Queued("record")
  <2>1. \A s \in Stream : queue'[s] \in Seq(Item)
      BY <1>7 DEF WorkTypes
  <2>2. Queued("record")' => Queued("record")
      BY <1>8 DEF Queued
  <2> QED BY <2>1, <2>2
<1>11. ASSUME result[t] = "value", NEW i \in DOMAIN queue'[s0],
              \A j \in DOMAIN queue[s0] : j < i, \A j \in DOMAIN queue'[s0] : j <= i
       PROVE  Ordered(s0, i)'
  <2>1. Joined(t)
      BY <1>11 DEF SInv, Work, JoinedInv
  <2>2. Settled'
      BY <1>1, <1>11 DEF SInv, IInv, ResultIsOutcome, Settled
  <2>3. \A j \in DOMAIN queue'[s0] : ~(j > i)
      BY <1>10, <1>11
  <2>4. ASSUME once.producer \notin {NoStream, s0}, Queued("record")'
        PROVE  \E j \in DOMAIN queue'[s0] : j < i /\ queue'[s0][j][1] = "wait"
    <3>1. \E j \in DOMAIN queue[s0] : queue[s0][j][1] = "wait"
        BY <1>1, <1>10, <2>1, <2>4 DEF Joined, Elsewhere
    <3> QED BY <1>8, <1>11, <3>1
  <2> QED BY <1>1, <2>2, <2>3, <2>4 DEF Ordered
<1>12. UseInv'
    BY <1>7, <1>8 DEF UseInv
<1>13. SyncInv'
  <2> SUFFICES ASSUME NEW s \in Stream, NEW i \in DOMAIN queue'[s], NEW u \in Executor,
                      queue'[s][i] = <<"sync", u>>
               PROVE  SyncOK(s, i, u)'
      BY DEF SyncInv
  <2>1. CASE i \in DOMAIN queue[s]
      BY <1>7, <1>8, <2>1
  <2>2. CASE i \notin DOMAIN queue[s]
    <3>1. /\ s = s0 /\ u = t /\ \A j \in DOMAIN queue[s0] : j < i
          /\ \A j \in DOMAIN queue'[s0] : j <= i
        BY <1>8, <2>2
    <3>2. result[t] = "value" => Ordered(s, i)'
        BY <1>11, <3>1
    <3> QED BY <1>1, <1>3, <3>1, <3>2 DEF SyncOK
  <2> QED BY <2>1, <2>2
<1>14. JoinedInv'
  <2> SUFFICES ASSUME NEW u \in Executor, result[u] = "value" PROVE Joined(u)'
      BY <1>1 DEF JoinedInv
  <2>1. CASE u # t
      BY <1>2, <1>7, <2>1
  <2>2. CASE u = t
    <3>1. InQueue("sync", t)'
        BY <1>9 DEF InQueue
    <3> QED BY <1>3, <2>2, <3>1 DEF Joined
  <2> QED BY <2>1, <2>2
<1>15. FreedOrdered'
    BY <1>5, <1>7, FreedKept
<1> QED BY <1>4, <1>7, <1>12, <1>13, <1>14, <1>15 DEF Work

(* The terminal has come: nothing of this executor is on its stream any    *)
(* more, and if it has the value, nothing that produces it on any.         *)
LEMMA ProvenSafe ==
    ASSUME SInv, [Next]_vars, NEW t \in Executor, CompletionProven(t) PROVE Wares' /\ Work'
<1> PICK Q : Q = quarantine[t]
    OBVIOUS
<1> PICK at \in {"ready", "gone"} :
        at = IF t \in holder[PartOf(t)] THEN "ready" ELSE "gone"
    OBVIOUS
<1>1. /\ pc[t] = "syncing" /\ ~InQueue("sync", t) /\ storage' = Free(Q)
      /\ quarantine' = [quarantine EXCEPT ![t] = {}] /\ pc' = [pc EXCEPT ![t] = at]
      /\ UNCHANGED <<once, memo, result, holder, unguarded, queue>>
    BY DEF CompletionProven
<1>2. Wares'
    BY ReleaseWares
<1>3. Absent(t)
  <2> SUFFICES ASSUME NEW s \in Stream, NEW i \in DOMAIN queue[s],
                      queue[s][i] \in {<<"use", t>>, <<"sync", t>>}
               PROVE  FALSE
      BY DEF Absent
  <2>1. \E j \in DOMAIN queue[s] : queue[s][j] = <<"sync", t>>
      BY <1>1 DEF SInv, Work, UseInv, UseOK
  <2>2. queue[s][i][2] = t
      OBVIOUS
  <2>3. s = StreamOf[t]
      BY <2>2 DEF SInv, Work, WorkTypes
  <2> QED BY <1>1, <2>1, <2>3 DEF InQueue
<1>4. result[t] = "value" => ~Queued("write")
    BY <1>1 DEF SInv, Work, JoinedInv, Joined
<1>5. \A u \in Executor : u # t => pc'[u] = pc[u] /\ quarantine'[u] = quarantine[u]
    BY <1>1 DEF SInv, IInv, Types, Wares, WareTypes
<1>6. pc'[t] = at
    BY <1>1 DEF SInv, IInv, Types
<1>7. FreedOrdered'
  <2>1. \A p \in Q : p \in unguarded \/ result[t] = "value"
      BY DEF SInv, Wares, QuarantineInv, InQuarantine
  <2>2. \A p \in Part : storage'[p] = "freed" =>
            storage[p] = "freed" \/ p \in unguarded \/ ~Queued("write")
      BY <1>1, <1>4, <2>1 DEF Free
  <2>3. Queued("write")' => Queued("write")
      BY <1>1 DEF Queued
  <2> QED BY <1>1, <2>2, <2>3, FreedKept
<1>8. \A u \in Executor : u # t /\ Covered(u) => Covered(u)'
    BY <1>1, <1>5, CoveredKept
<1>9. Work'
  <2>1. \A u \in Executor :
           /\ Absent(u) \/ pc'[u] = pc[u]
           /\ Absent(u) \/ (result'[u] = result[u] /\ (Covered(u) => Covered(u)'))
           /\ pc[u] = "settling" => pc'[u] = "settling"
      BY <1>1, <1>3, <1>5, <1>8
  <2>2. \A u \in Executor : result'[u] = "value" =>
           /\ result[u] = "value"
           /\ \/ pc'[u] \in {pc[u], "gone"}
              \/ pc'[u] = "ready" /\ ~Queued("write")
      BY <1>1, <1>4, <1>5, <1>6
  <2> QED BY <1>1, <1>7, <2>1, <2>2, WorkKept
<1> QED BY <1>2, <1>9

LEMMA DropValueSafe ==
    ASSUME SInv, [Next]_vars, NEW t \in Executor, DropValue(t) PROVE Wares' /\ Work'
<1> PICK p \in Part : p = PartOf(t)
    BY PartsOfKind DEF SInv, Wares
<1> PICK last : last = (p \notin memo /\ holder[p] = {t})
    OBVIOUS
<1>1. /\ pc[t] = "ready" /\ holder' = [holder EXCEPT ![p] = @ \ {t}]
      /\ storage' = IF last THEN Free({p}) ELSE storage
      /\ pc' = [pc EXCEPT ![t] = "gone"]
      /\ UNCHANGED <<once, memo, result, quarantine, queue, unguarded>>
    BY DEF DropValue
<1>2. t \in holder[p] /\ result[t] = "value"
    BY <1>1 DEF SInv, Wares, HolderInv
<1>3. Wares'
    BY <1>1, <1>2, ReferenceGoes
<1>4. ~Queued("write")
    BY <1>1, <1>2 DEF SInv, Work, JoinedInv, Joined
<1>5. FreedOrdered'
  <2>1. Queued("write")' => Queued("write")
      BY <1>1 DEF Queued
  <2> QED BY <1>1, <1>4, <2>1, FreedKept
<1>6. \A u \in Executor : u # t => pc'[u] = pc[u]
    BY <1>1 DEF SInv, IInv, Types
<1>7. Absent(t) /\ pc'[t] = "gone"
    BY <1>1, AbsentOutside DEF SInv, IInv, Types
<1>8. \A u \in Executor : u # t /\ Covered(u) => Covered(u)'
  <2>1. \A u \in Executor : u # t => \A q \in Part : u \in holder[q] => u \in holder'[q]
      BY <1>1 DEF SInv, Wares, WareTypes
  <2> QED BY <1>1, <2>1, CoveredKept
<1>9. Work'
  <2>1. \A u \in Executor :
           /\ Absent(u) \/ pc'[u] = pc[u]
           /\ Absent(u) \/ (result'[u] = result[u] /\ (Covered(u) => Covered(u)'))
           /\ pc[u] = "settling" => pc'[u] = "settling"
      BY <1>1, <1>6, <1>7, <1>8
  <2>2. \A u \in Executor : result'[u] = "value" =>
           result[u] = "value" /\ pc'[u] \in {pc[u], "gone"}
      BY <1>1, <1>6, <1>7
  <2> QED BY <1>1, <1>5, <2>1, <2>2, WorkKept
<1> QED BY <1>3, <1>9

LEMMA NextSInv == SInv /\ [Next]_vars => SInv'
<1> SUFFICES ASSUME SInv, [Next]_vars PROVE Wares' /\ Work'
    BY NextIInv DEF SInv
<1>1. IInv'
    BY NextIInv DEF SInv
<1>2. CASE UNCHANGED vars
  <2>1. UNCHANGED <<value, once, result, queue, pc>>
      BY <1>2 DEF vars, value
  <2> QED BY <2>1, MoveSafe
<1>3. ASSUME NEW s \in Stream, Device(s) PROVE Wares' /\ Work'
  <2>1. UNCHANGED <<value, once, result, pc>>
      BY <1>3 DEF Device
  <2>2. Wares'
      BY <2>1, WaresKept
  <2> QED BY <1>3, <2>2, DeviceWork
<1>4. ASSUME NEW t \in Executor,
             \/ Start(t) \/ Wait(t) \/ SpuriousWake(t) \/ Reenter(t) \/ Reentered(t)
             \/ FailStop(t) \/ Notify(t)
      PROVE  Wares' /\ Work'
  <2>1. UNCHANGED <<value, once, result, queue>>
      BY <1>4 DEF Start, Wait, SpuriousWake, Reenter, Reentered, FailStop, Notify
  <2>2. \A u \in Executor :
           pc'[u] = pc[u] \/ (pc[u] \in WithHandle \ {"settling"} /\ pc'[u] \in WithHandle)
      BY <1>4 DEF Start, Wait, SpuriousWake, Reenter, Reentered, FailStop, Notify, Awakened,
         WithHandle, SInv, IInv, Types
  <2> QED BY <2>1, <2>2, MoveSafe
<1>5. ASSUME NEW t \in Executor,
             \/ Claim(t) \/ RunSucceeds(t) \/ RunFails(t) \/ Panic(t) \/ RecordFails(t)
      PROVE  Wares' /\ Work'
    BY <1>1, <1>5, InsideSafe
<1>6. ASSUME NEW t \in Executor PROVE Refused(t) => Wares' /\ Work'
    BY <1>1, RefusedSafe
<1> QED
    BY <1>2, <1>3, <1>4, <1>5, <1>6, AbandonSafe, TakeSafe, JoinFailsSafe, SettleSafe,
       ChainSafe, SynchronizeSafe, ProvenSafe, DropValueSafe DEF Next, Execute

(* The parts and the work on them, in every state.                         *)
THEOREM StorageInvariant == Spec => []SInv
BY InitIInv, InitSInv, NextSInv, PTL DEF Spec, SInv

-----------------------------------------------------------------------------
(* Every variable keeps its type, the operation is marked as running       *)
(* exactly while its executor is inside it, and only a settled outcome has *)
(* a memo (OnceState, device_operation.rs).                                *)
THEOREM ExecuteOnceTypes == Spec => []TypeOK
<1>1. SInv => TypeOK
    BY DEF SInv, IInv, Types, States, OneInside, Inside, Places, Wares, WareTypes, MemoInv,
       Settled, TypeOK
<1> QED BY <1>1, StorageInvariant, PTL

(* A kernel on the value reaches the head of its stream only when the work *)
(* that produces the value has ended, whatever streams the two are on      *)
(* (Producer::join, device_operation.rs).                                  *)
THEOREM WorkIsFinished == Spec => []UsesFinishedWork
<1>1. SInv => UsesFinishedWork
  <2> SUFFICES ASSUME SInv, NEW s \in Stream, queue[s] # <<>>, Head(queue[s])[1] = "use"
               PROVE  ~Queued("write")
      BY DEF UsesFinishedWork
  <2> PICK q \in Seq(Item) : q = queue[s]
      BY DEF SInv, Work, WorkTypes
  <2>1. 1 \in DOMAIN q /\ q[1] = Head(q) /\ q[1] \in Item
      OBVIOUS
  <2>2. PICK t \in Executor : q[1] = <<"use", t>>
      BY <2>1 DEF Item
  <2>3. Ordered(s, 1) /\ queue[s][1][1] # "write"
      BY <2>1, <2>2 DEF SInv, Work, UseInv, UseOK
  <2> QED BY <2>1, <2>3, HeadLast
<1> QED BY <1>1, StorageInvariant, PTL

(* But for parts whose reference no quarantine saw go, storage is released *)
(* only when nothing on any stream works on it (DeviceBuffer::drop and     *)
(* UncertainExecution).                                                    *)
THEOREM StorageOutlivesWork == Spec => []GuardedReleasedAfterWork
<1>1. SInv => GuardedReleasedAfterWork
  <2> SUFFICES ASSUME SInv, NEW p \in Part, storage[p] = "freed", p \notin unguarded
               PROVE  ~WorkOn(p)
      BY DEF GuardedReleasedAfterWork
  <2>1. ~Queued("write")
      BY DEF SInv, Work, FreedOrdered
  <2>2. Given(p) /\ \A t \in Executor : p \notin quarantine[t]
      BY DEF SInv, Wares, FreedInv
  <2>3. ASSUME NEW t \in Executor, PartOf(t) = p, InQueue("use", t) PROVE FALSE
    <3>1. Covered(t)
        BY <2>3, ExecuteOnceAssumption DEF InQueue, SInv, Work, UseInv, UseOK
    <3> QED BY <2>2, <2>3, <3>1 DEF Covered, Given
  <2> QED BY <2>1, <2>3 DEF WorkOn
<1> QED BY <1>1, StorageInvariant, PTL
=============================================================================
