----------------------- MODULE NestedExecutionProofs ------------------------
(***************************************************************************)
(* The thread-locals match the scopes, for any threads, streams, futures   *)
(* and memoized operations, and any depth of nesting.  Scopes begin and    *)
(* end at the inner end only, so one lemma on a pushed and one on a popped *)
(* scope carry the invariant through every action; what the lock becomes   *)
(* when a closure ends is what the closure noted, which is always TRUE.    *)
(* The second half proves that storage is never freed under work: what is  *)
(* in flight has somebody who will see it end (FlightInv), and a buffer    *)
(* has one holder (HolderInv).                                             *)
(***************************************************************************)
EXTENDS NestedExecution, FiniteSetTheorems, TLAPS

(* The parts of the type that the argument needs.                          *)
Types ==
    /\ scopes \in [Thread -> Seq(Scope)]
    /\ at \in [Thread -> {"running", "proving", "unwinding"} \cup Memo]
    /\ lock \in [Thread -> BOOLEAN] /\ depth \in [Thread -> Nat]
    /\ quarantine \in [Thread -> SUBSET Buffer]

Locked == Terminal \cup {"memo"}

GuardedIn(q) == {i \in DOMAIN q : q[i].kind \in Guarded}

(* Scopes q nest as the code opens them, with the lock l and the depth d.  *)
Matches(q, l, d) ==
    /\ l <=> q # <<>> /\ q[Len(q)].kind \in Locked
    /\ \A i \in DOMAIN q :
          q[i].kind \in Terminal <=> i = 1 \/ q[i - 1].kind = "closure"
    /\ \A i \in DOMAIN q : q[i].kind = "closure" => q[i].held = TRUE
    /\ d = Cardinality(GuardedIn(q))

ThreadInv(t) ==
    /\ Matches(scopes[t], lock[t], depth[t])
    /\ quarantine[t] # {} => depth[t] > 0
    /\ at[t] = "proving" => InsideA(t, Guarded)

IInv == Types /\ \A t \in Thread : ThreadInv(t)

-----------------------------------------------------------------------------
LEMMA GuardedFinite ==
    ASSUME NEW q \in Seq(Scope)
    PROVE  IsFiniteSet(GuardedIn(q)) /\ Cardinality(GuardedIn(q)) \in Nat
<1>1. IsFiniteSet(1 .. Len(q))
    BY FS_Interval
<1>2. GuardedIn(q) \in SUBSET (1 .. Len(q))
    BY DEF GuardedIn
<1> QED BY <1>1, <1>2, FS_Subset, FS_CardinalityType

(* A scope is opened: a terminal outside or in a closure, any other scope  *)
(* in a chain.                                                             *)
LEMMA PushMatches ==
    ASSUME NEW q \in Seq(Scope), NEW l \in BOOLEAN, NEW d \in Nat, Matches(q, l, d),
           NEW c \in Scope,
           c.kind \in Terminal <=> ~l,
           c.kind = "closure" => c.held = TRUE
    PROVE  /\ Append(q, c) \in Seq(Scope)
           /\ Matches(Append(q, c), c.kind \in Locked,
                      IF c.kind \in Guarded THEN d + 1 ELSE d)
<1> DEFINE n == Len(q)
           p == Append(q, c)
<1>1. /\ n \in Nat /\ DOMAIN q = 1 .. n /\ DOMAIN p = 1 .. n + 1 /\ Len(p) = n + 1
      /\ p \in Seq(Scope) /\ p # <<>> /\ p[n + 1] = c
      /\ \A i \in 1 .. n : p[i] = q[i]
      /\ n = 0 <=> q = <<>>
    OBVIOUS
<1> HIDE DEF n, p
<1>2. \A i \in 1 .. n : q[i].kind \in {"sync", "capture", "poll", "closure", "memo"}
    BY <1>1 DEF Scope
<1>3. ~l <=> n = 0 \/ q[n].kind = "closure"
    <2>1. CASE n = 0
        BY <1>1, <2>1 DEF Matches
    <2>2. CASE n # 0
        BY <1>1, <1>2, <2>2 DEF Matches, Locked, Terminal, n
    <2> QED BY <2>1, <2>2
<1>4. \A i \in DOMAIN p :
          p[i].kind \in Terminal <=> i = 1 \/ p[i - 1].kind = "closure"
    <2> SUFFICES ASSUME NEW i \in 1 .. n + 1
                 PROVE  p[i].kind \in Terminal <=> i = 1 \/ p[i - 1].kind = "closure"
        BY <1>1
    <2>1. CASE i = n + 1
        BY <1>1, <1>3, <2>1
    <2>2. CASE i \in 1 .. n
        <3>1. i = 1 \/ i - 1 \in 1 .. n
            BY <1>1, <2>2
        <3>2. p[i] = q[i] /\ (i = 1 \/ p[i - 1] = q[i - 1])
            BY <1>1, <2>2, <3>1
        <3>3. q[i].kind \in Terminal <=> i = 1 \/ q[i - 1].kind = "closure"
            BY <1>1, <2>2 DEF Matches
        <3> QED BY <3>2, <3>3
    <2> QED BY <1>1, <2>1, <2>2
<1>5. \A i \in DOMAIN p : p[i].kind = "closure" => p[i].held = TRUE
    BY <1>1 DEF Matches
<1>6. GuardedIn(p) = IF c.kind \in Guarded THEN GuardedIn(q) \cup {n + 1} ELSE GuardedIn(q)
    BY <1>1 DEF GuardedIn
<1>7. n + 1 \notin GuardedIn(q)
    BY <1>1 DEF GuardedIn
<1>8. Cardinality(GuardedIn(p)) = IF c.kind \in Guarded THEN d + 1 ELSE d
    <2>1. d = Cardinality(GuardedIn(q)) /\ IsFiniteSet(GuardedIn(q))
        BY GuardedFinite DEF Matches
    <2>2. Cardinality(GuardedIn(q) \cup {n + 1}) = d + 1
        BY <2>1, <1>7, FS_AddElement
    <2> QED BY <2>1, <2>2, <1>6
<1> USE DEF p
<1> QED BY <1>1, <1>4, <1>5, <1>8 DEF Matches

(* The innermost scope is left: behind a terminal the lock is free, behind *)
(* any other scope it is held.                                             *)
LEMMA PopMatches ==
    ASSUME NEW q \in Seq(Scope), NEW l \in BOOLEAN, NEW d \in Nat, Matches(q, l, d),
           q # <<>>
    PROVE  LET c == Last(q) IN
           /\ c \in Scope
           /\ Front(q) \in Seq(Scope)
           /\ Matches(Front(q), c.kind \notin Terminal,
                      IF c.kind \in Guarded THEN d - 1 ELSE d)
           /\ c.kind \in Guarded => d - 1 \in Nat
           /\ c.kind = "closure" => c.held = TRUE
<1> DEFINE n == Len(q)
           c == Last(q)
           p == Front(q)
<1>1. /\ n \in Nat /\ n > 0 /\ DOMAIN q = 1 .. n /\ q[n] = c
    BY DEF Last
<1>2. /\ p \in Seq(Scope) /\ Len(p) = n - 1 /\ DOMAIN p = 1 .. n - 1
      /\ \A i \in 1 .. n - 1 : p[i] = q[i]
    BY <1>1 DEF Front
<1> HIDE DEF n, c, p
<1>3. \A i \in 1 .. n : q[i].kind \in {"sync", "capture", "poll", "closure", "memo"}
    BY <1>1 DEF Scope
<1>4. c \in Scope /\ (c.kind = "closure" => c.held = TRUE)
    BY <1>1 DEF Matches
<1>5. c.kind \notin Terminal <=> p # <<>> /\ p[Len(p)].kind \in Locked
    <2>1. c.kind \in Terminal <=> n = 1 \/ q[n - 1].kind = "closure"
        BY <1>1 DEF Matches
    <2>2. CASE n = 1
        BY <1>2, <2>1, <2>2
    <2>3. CASE n > 1
        <3>1. p # <<>> /\ p[Len(p)] = q[n - 1]
            BY <1>1, <1>2, <2>3
        <3>2. q[n - 1].kind \in {"sync", "capture", "poll", "closure", "memo"}
            BY <1>1, <1>3, <2>3
        <3> QED BY <2>1, <2>3, <3>1, <3>2 DEF Locked, Terminal
    <2> QED BY <1>1, <2>2, <2>3
<1>6. /\ \A i \in DOMAIN p :
            p[i].kind \in Terminal <=> i = 1 \/ p[i - 1].kind = "closure"
      /\ \A i \in DOMAIN p : p[i].kind = "closure" => p[i].held = TRUE
    BY <1>1, <1>2 DEF Matches
<1>7. GuardedIn(p) = GuardedIn(q) \ {n}
    BY <1>1, <1>2 DEF GuardedIn
<1>8. n \in GuardedIn(q) <=> c.kind \in Guarded
    BY <1>1 DEF GuardedIn
<1>9. Cardinality(GuardedIn(p)) = IF c.kind \in Guarded THEN d - 1 ELSE d
    <2>1. d = Cardinality(GuardedIn(q)) /\ IsFiniteSet(GuardedIn(q))
        BY GuardedFinite DEF Matches
    <2>2. Cardinality(GuardedIn(q) \ {n}) = IF c.kind \in Guarded THEN d - 1 ELSE d
        BY <2>1, <1>8, FS_RemoveElement
    <2> QED BY <2>2, <1>7
<1>10. Cardinality(GuardedIn(p)) \in Nat
    BY <1>2, GuardedFinite
<1> USE DEF c, p
<1> QED BY <1>2, <1>4, <1>5, <1>6, <1>9, <1>10 DEF Matches

-----------------------------------------------------------------------------
LEMMA InitIInv == Init => IInv
<1> SUFFICES ASSUME Init PROVE IInv
    OBVIOUS
<1>1. Types
    BY DEF Init, Types
<1>2. Matches(<<>>, FALSE, 0)
    <2>1. GuardedIn(<<>>) = {}
        BY DEF GuardedIn
    <2> QED BY <2>1, FS_EmptySet DEF Matches
<1>3. \A t \in Thread : ThreadInv(t)
    BY <1>2 DEF Init, ThreadInv
<1> QED BY <1>1, <1>3 DEF IInv

(* A step of one thread leaves the locals of the others alone.             *)
Places == {"running", "proving", "unwinding"} \cup Memo

TypesOf(t) ==
    /\ scopes[t] \in Seq(Scope) /\ at[t] \in Places /\ lock[t] \in BOOLEAN
    /\ depth[t] \in Nat /\ quarantine[t] \in SUBSET Buffer

Only(t) ==
    /\ scopes' = [scopes EXCEPT ![t] = scopes'[t]]
    /\ at' = [at EXCEPT ![t] = at'[t]]
    /\ lock' = [lock EXCEPT ![t] = lock'[t]]
    /\ depth' = [depth EXCEPT ![t] = depth'[t]]
    /\ quarantine' = [quarantine EXCEPT ![t] = quarantine'[t]]

LEMMA ThreadStep ==
    ASSUME IInv, NEW t \in Thread, Only(t), TypesOf(t)', ThreadInv(t)'
    PROVE  IInv'
<1>1. Types'
    BY DEF IInv, Types, TypesOf, Only, Places
<1>2. ASSUME NEW u \in Thread, u # t PROVE ThreadInv(u)'
    <2>1. /\ scopes'[u] = scopes[u] /\ at'[u] = at[u] /\ lock'[u] = lock[u]
          /\ depth'[u] = depth[u] /\ quarantine'[u] = quarantine[u]
        BY <1>2 DEF IInv, Types, Only
    <2>2. ThreadInv(u)
        BY DEF IInv
    <2> QED BY <2>1, <2>2 DEF ThreadInv, InsideA, Inner
<1> QED BY <1>1, <1>2 DEF IInv

(* What the invariant says of one thread.                                  *)
LEMMA OneThread ==
    ASSUME IInv, NEW t \in Thread
    PROVE  TypesOf(t) /\ ThreadInv(t)
BY DEF IInv, Types, TypesOf, Places

(* A scope is pushed by a running thread.                                  *)
LEMMA PushStep ==
    ASSUME IInv, NEW t \in Thread, NEW c \in Scope,
           c.kind \in Terminal <=> ~lock[t],
           c.kind = "closure" => c.held = TRUE,
           at[t] = "running", Push(t, c),
           Locks(t, c.kind \in Locked),
           depth' = [depth EXCEPT ![t] = IF c.kind \in Guarded THEN @ + 1 ELSE @],
           UNCHANGED <<at, quarantine>>
    PROVE  IInv'
<1> DEFINE d == IF c.kind \in Guarded THEN depth[t] + 1 ELSE depth[t]
<1>1. TypesOf(t) /\ ThreadInv(t)
    BY OneThread
<1>2. /\ scopes'[t] = Append(scopes[t], c) /\ lock'[t] = (c.kind \in Locked)
      /\ depth'[t] = d /\ at'[t] = "running" /\ quarantine'[t] = quarantine[t]
    BY DEF Push, Locks, IInv, Types
<1>3. Only(t)
    BY DEF Only, Push, Locks, IInv, Types
<1>4. Append(scopes[t], c) \in Seq(Scope) /\ Matches(Append(scopes[t], c), c.kind \in Locked, d)
    BY <1>1, PushMatches DEF TypesOf, ThreadInv
<1>5. d \in Nat /\ (depth[t] > 0 => d > 0)
    BY <1>1 DEF TypesOf
<1> HIDE DEF d
<1>6. TypesOf(t)'
    BY <1>1, <1>2, <1>4, <1>5 DEF TypesOf, Places
<1>7. ThreadInv(t)'
    BY <1>1, <1>2, <1>4, <1>5 DEF ThreadInv
<1> QED BY <1>3, <1>6, <1>7, ThreadStep

(* The innermost scope is popped; the thread runs on or unwinds.           *)
LEMMA PopStep ==
    ASSUME IInv, NEW t \in Thread, scopes[t] # <<>>, Pop(t),
           at' = [at EXCEPT ![t] = at'[t]], at'[t] \in {"running", "unwinding"},
           Locks(t, Inner(t).kind \notin Terminal),
           depth' = [depth EXCEPT ![t] = IF Inner(t).kind \in Guarded THEN @ - 1 ELSE @],
           quarantine' = [quarantine EXCEPT ![t] = quarantine'[t]],
           quarantine'[t] \in SUBSET Buffer,
           quarantine'[t] # {} => depth'[t] > 0
    PROVE  IInv'
<1> DEFINE d == IF Inner(t).kind \in Guarded THEN depth[t] - 1 ELSE depth[t]
<1>1. TypesOf(t) /\ ThreadInv(t)
    BY OneThread
<1>2. /\ scopes'[t] = Front(scopes[t]) /\ lock'[t] = (Inner(t).kind \notin Terminal)
      /\ depth'[t] = d
    BY DEF Pop, Locks, IInv, Types
<1>3. Only(t)
    BY DEF Only, Pop, Locks, IInv, Types
<1>4. /\ Front(scopes[t]) \in Seq(Scope) /\ d \in Nat
      /\ Matches(Front(scopes[t]), Inner(t).kind \notin Terminal, d)
    BY <1>1, PopMatches DEF TypesOf, ThreadInv, Inner
<1> HIDE DEF d
<1>5. TypesOf(t)'
    BY <1>2, <1>4 DEF TypesOf, Places
<1>6. ThreadInv(t)'
    BY <1>2, <1>4 DEF ThreadInv
<1> QED BY <1>3, <1>5, <1>6, ThreadStep

(* The thread's scopes, lock and depth stay.                               *)
LEMMA StayStep ==
    ASSUME IInv, NEW t \in Thread, UNCHANGED <<scopes, lock, depth>>,
           at' = [at EXCEPT ![t] = at'[t]], at'[t] \in Places,
           at'[t] = "proving" => InsideA(t, Guarded),
           quarantine' = [quarantine EXCEPT ![t] = quarantine'[t]],
           quarantine'[t] \in SUBSET Buffer,
           quarantine'[t] # {} => depth[t] > 0
    PROVE  IInv'
<1>1. TypesOf(t) /\ ThreadInv(t)
    BY OneThread
<1>2. Only(t)
    BY DEF Only, IInv, Types
<1>3. TypesOf(t)' /\ ThreadInv(t)'
    BY <1>1 DEF TypesOf, ThreadInv, InsideA, Inner
<1> QED BY <1>2, <1>3, ThreadStep

LEMMA ChainIsLocked ==
    ASSUME IInv, NEW t \in Thread
    PROVE  lock[t] <=> InChain(t)
BY OneThread DEF ThreadInv, Matches, InChain, InsideA, Inner, Last, Locked

(* The steps that take a thread into a scope.                              *)
LEMMA EnterStep ==
    ASSUME IInv, NEW t \in Thread, Enter(t)
    PROVE  IInv'
<1> USE DEF Terminal, Guarded, Locked
<1>1. TypesOf(t) /\ ThreadInv(t)
    BY OneThread
<1>2. ASSUME NEW s \in Stream, SyncOn(t, s) PROVE IInv'
    <2> DEFINE c == [kind |-> "sync", on |-> s]
    <2>1. c \in Scope /\ c.kind = "sync"
        BY DEF Scope
    <2>2. depth' = [depth EXCEPT ![t] = depth[t] + 1]
        BY <1>2 DEF SyncOn
    <2> QED BY <1>2, <2>1, <2>2, PushStep DEF SyncOn, Locks
<1>3. ASSUME NEW o \in Memo, ExecuteHandle(t, o) PROVE IInv'
    <2>1. CASE once[o] = "pending" /\ Push(t, [kind |-> "memo", on |-> o]) /\ UNCHANGED at
        <3> DEFINE c == [kind |-> "memo", on |-> o]
        <3>1. c \in Scope /\ c.kind = "memo"
            BY DEF Scope
        <3>2. lock[t] /\ lock' = [lock EXCEPT ![t] = TRUE] /\ depth' = [depth EXCEPT ![t] = @]
            BY <1>1, <1>3, ChainIsLocked DEF ExecuteHandle, locals, IInv, Types
        <3> QED BY <1>3, <2>1, <3>1, <3>2, PushStep DEF ExecuteHandle, Locks, locals
    <2>2. CASE at' = [at EXCEPT ![t] = o] /\ UNCHANGED scopes
        <3>1. at'[t] = o /\ o \in Places /\ o # "proving"
            BY <2>2, NestedAssumption DEF IInv, Types, Places
        <3> QED BY <1>1, <1>3, <2>2, <3>1, StayStep
                DEF ExecuteHandle, locals, TypesOf, ThreadInv, IInv, Types
    <2> QED BY <1>3, <2>1, <2>2 DEF ExecuteHandle
<1>4. ASSUME NEW f \in Future, Resolve(t, f) PROVE IInv'
    BY <1>1, <1>4, StayStep DEF Resolve, locals, TypesOf, ThreadInv, IInv, Types
<1>5. ASSUME NEW b \in Buffer, Drop(t, b) PROVE IInv'
    <2>1. /\ quarantine' = [quarantine EXCEPT ![t] = quarantine'[t]]
          /\ quarantine'[t] \in SUBSET Buffer /\ (quarantine'[t] # {} => depth[t] > 0)
        BY <1>1, <1>5 DEF Drop, TypesOf, ThreadInv, IInv, Types
    <2>2. at' = [at EXCEPT ![t] = at'[t]] /\ at'[t] \in Places /\ at'[t] # "proving"
        BY <1>1, <1>5 DEF Drop, TypesOf, IInv, Types
    <2>3. UNCHANGED <<scopes, lock, depth>>
        BY <1>5 DEF Drop
    <2> QED BY <2>1, <2>2, <2>3, StayStep
<1>6. ASSUME DriverError(t) PROVE IInv'
    BY <1>1, <1>6, StayStep DEF DriverError, locals, TypesOf, ThreadInv, IInv, Types
<1>7. ASSUME NEW s \in Stream, Capture(t, s) PROVE IInv'
    <2> DEFINE c == [kind |-> "capture", on |-> s]
    <2>1. c \in Scope /\ c.kind = "capture"
        BY DEF Scope
    <2>2. depth' = [depth EXCEPT ![t] = depth[t]]
        BY <1>7 DEF Capture, IInv, Types
    <2> QED BY <1>7, <2>1, <2>2, PushStep DEF Capture, Locks
<1>8. ASSUME NEW f \in Future, FirstPoll(t, f) PROVE IInv'
    <2>1. CASE lock[t]
        BY <1>1, <1>8, <2>1, StayStep DEF FirstPoll, TypesOf, ThreadInv, IInv, Types
    <2>2. CASE ~lock[t]
        <3> DEFINE c == [kind |-> "poll", on |-> f]
        <3>1. c \in Scope /\ c.kind = "poll"
            BY DEF Scope
        <3>2. depth' = [depth EXCEPT ![t] = depth[t] + 1]
            BY <1>8, <2>2 DEF FirstPoll
        <3> QED BY <1>8, <2>2, <3>1, <3>2, PushStep DEF FirstPoll, Locks
    <2> QED BY <2>1, <2>2
<1>9. ASSUME NEW b \in Buffer,
             Allocate(t, b) \/ Launch(t, b) \/ TransferFails(t, b)
      PROVE IInv'
    <2>1. at[t] = "running" /\ UNCHANGED <<scopes, at, lock, depth, quarantine>>
        BY <1>9 DEF Allocate, Launch, TransferFails, locals
    <2> QED BY <1>1, <2>1, StayStep DEF TypesOf, ThreadInv, IInv, Types
<1>10. ASSUME OpenClosure(t) PROVE IInv'
    <2> DEFINE c == [kind |-> "closure", held |-> lock[t]]
    <2>1. lock[t] = TRUE
        BY <1>1, <1>10, ChainIsLocked DEF OpenClosure, TypesOf
    <2>2. c \in Scope /\ c.kind = "closure" /\ c.held = TRUE
        BY <2>1 DEF Scope
    <2>3. depth' = [depth EXCEPT ![t] = depth[t]]
        BY <1>10 DEF OpenClosure, IInv, Types
    <2>4. Push(t, c) /\ Locks(t, FALSE) /\ at[t] = "running" /\ UNCHANGED <<at, quarantine>>
        BY <1>10 DEF OpenClosure
    <2>5. (c.kind \in Terminal) = FALSE /\ (c.kind \in Locked) = FALSE /\ c.kind \notin Guarded
        BY <2>2
    <2> HIDE DEF c, Terminal, Guarded, Locked
    <2> QED BY <2>1, <2>2, <2>3, <2>4, <2>5, PushStep DEF Locks
<1>11. ASSUME Panic(t) PROVE IInv'
    <2>1. at'[t] = "unwinding"
        BY <1>11 DEF Panic, IInv, Types
    <2> QED BY <1>1, <1>11, <2>1, StayStep
            DEF Panic, TypesOf, ThreadInv, IInv, Types, Places
<1> QED BY <1>2, <1>3, <1>4, <1>5, <1>6, <1>7, <1>8, <1>9, <1>10, <1>11 DEF Enter

(* The steps that take a thread out of a scope.                            *)
LEMMA LeaveStep ==
    ASSUME IInv, NEW t \in Thread, Leave(t)
    PROVE  IInv'
<1> USE DEF Terminal, Guarded
<1>1. TypesOf(t) /\ ThreadInv(t)
    BY OneThread
<1>2. /\ at = [at EXCEPT ![t] = at[t]] /\ depth = [depth EXCEPT ![t] = depth[t]]
      /\ lock = [lock EXCEPT ![t] = lock[t]]
      /\ quarantine = [quarantine EXCEPT ![t] = quarantine[t]]
    BY DEF IInv, Types
<1>3. scopes[t] # <<>> =>
          Inner(t) \in Scope /\ (Inner(t).kind = "closure" => Inner(t).held = TRUE)
    BY <1>1, PopMatches DEF TypesOf, ThreadInv, Inner
<1>4. CASE CloseClosure(t)
    BY <1>1, <1>2, <1>3, <1>4, PopStep DEF CloseClosure, InsideA, Locks, TypesOf, ThreadInv
<1>5. CASE Settle(t)
    <2>1. lock[t] = TRUE
        BY <1>1, <1>5, ChainIsLocked DEF Settle, InChain, InsideA, TypesOf
    <2> QED BY <1>1, <1>2, <1>5, <2>1, PopStep
            DEF Settle, InsideA, Locks, locals, TypesOf, ThreadInv
<1>6. CASE Resume(t)
    <2>1. at'[t] = "running"
        BY <1>6 DEF Resume, IInv, Types
    <2> QED BY <1>1, <1>2, <1>6, <2>1, StayStep DEF Resume, locals, TypesOf, ThreadInv, Places
<1>7. CASE Synchronize(t)
    <2>1. at' = [at EXCEPT ![t] = at'[t]] /\ at'[t] \in {"running", "proving"}
        BY <1>2, <1>7 DEF Synchronize, IInv, Types
    <2> QED BY <1>1, <1>2, <1>7, <2>1, StayStep
            DEF Synchronize, locals, TypesOf, ThreadInv, Places
<1>8. CASE Proven(t)
    <2>1. scopes[t] # <<>> /\ Inner(t).kind \in Guarded
        BY <1>1, <1>8 DEF Proven, ThreadInv, InsideA
    <2>2. at' = [at EXCEPT ![t] = at'[t]] /\ at'[t] = "running"
        BY <1>8 DEF Proven, IInv, Types
    <2>3. depth' = [depth EXCEPT ![t] = depth[t] - 1] /\ depth'[t] = depth[t] - 1
        BY <1>8 DEF Proven, IInv, Types
    <2>4. depth[t] \in Nat /\ depth[t] - 1 \in Nat
        BY <1>1, <2>1, PopMatches DEF TypesOf, ThreadInv, Inner
    <2>5. /\ quarantine' = [quarantine EXCEPT ![t] = quarantine'[t]]
          /\ quarantine'[t] \in SUBSET Buffer
          /\ quarantine'[t] # {} => depth'[t] > 0
        <3>1. CASE depth[t] = 1
            BY <1>8, <3>1 DEF Proven, IInv, Types
        <3>2. CASE depth[t] # 1
            BY <1>1, <1>2, <1>8, <2>3, <2>4, <3>2 DEF Proven, TypesOf
        <3> QED BY <3>1, <3>2
    <2> QED BY <1>8, <2>1, <2>2, <2>3, <2>5, PopStep DEF Proven, Locks
<1>9. CASE HandOver(t)
    <2>1. CASE depth[t] # 1
        BY <1>1, <1>2, <1>9, <2>1, StayStep DEF HandOver, TypesOf, ThreadInv
    <2>2. CASE depth[t] = 1
        <3>1. /\ scopes[t] # <<>> /\ Inner(t).kind = "poll" /\ Pop(t)
              /\ at[t] = "running" /\ UNCHANGED at /\ Locks(t, FALSE)
              /\ depth' = [depth EXCEPT ![t] = 0]
              /\ quarantine' = [quarantine EXCEPT ![t] = {}]
            BY <1>9, <2>2 DEF HandOver, InsideA
        <3>2. depth[t] - 1 = 0
            BY <2>2
        <3>3. depth' = [depth EXCEPT ![t] = depth[t] - 1]
            BY <3>1, <3>2
        <3>4. quarantine'[t] = {}
            BY <3>1 DEF IInv, Types
        <3> QED BY <1>2, <3>1, <3>3, <3>4, PopStep DEF Locks
    <2> QED BY <2>1, <2>2
<1>10. CASE EndCapture(t)
    BY <1>1, <1>2, <1>10, PopStep DEF EndCapture, InsideA, Locks, TypesOf, ThreadInv
<1>11. CASE Unwind(t)
    <2> USE <1>11 DEF Unwind
    <2>1. CASE at' = [at EXCEPT ![t] = "running"] /\ UNCHANGED <<scopes, lock>>
        <3>1. at'[t] = "running"
            BY <2>1 DEF IInv, Types
        <3> QED BY <1>1, <1>2, <2>1, <3>1, StayStep DEF TypesOf, ThreadInv, Places
    <2>2. CASE InsideA(t, {"closure"}) /\ Locks(t, Inner(t).held) /\ Pop(t) /\ UNCHANGED at
        BY <1>1, <1>2, <1>3, <2>2, PopStep DEF InsideA, Locks, TypesOf, ThreadInv
    <2>3. CASE InsideA(t, {"memo"}) /\ Pop(t) /\ UNCHANGED <<at, lock>>
        <3>1. lock[t] = TRUE
            BY <1>1, <2>3, ChainIsLocked DEF InChain, InsideA, TypesOf
        <3> QED BY <1>1, <1>2, <2>3, <3>1, PopStep DEF InsideA, Locks, TypesOf, ThreadInv
    <2>4. CASE InsideA(t, {"capture"}) /\ Locks(t, FALSE) /\ Pop(t) /\ UNCHANGED at
        BY <1>1, <1>2, <2>4, PopStep DEF InsideA, Locks, TypesOf, ThreadInv
    <2>5. CASE UNCHANGED <<scopes, at, lock>>
        BY <1>1, <1>2, <2>5, StayStep DEF TypesOf, ThreadInv
    <2> QED BY <2>1, <2>2, <2>3, <2>4, <2>5
<1> QED BY <1>4, <1>5, <1>6, <1>7, <1>8, <1>9, <1>10, <1>11, Leave(t) DEF Leave

LEMMA NextIInv == IInv /\ [Next]_vars => IInv'
<1> SUFFICES ASSUME IInv, [Next]_vars PROVE IInv'
    OBVIOUS
<1>1. CASE UNCHANGED vars
    BY <1>1 DEF vars, locals, IInv, Types, ThreadInv, InsideA, Inner
<1>2. ASSUME NEW s \in Stream, Device(s) PROVE IInv'
    BY <1>2 DEF Device, locals, IInv, Types, ThreadInv, InsideA, Inner
<1> QED BY <1>1, <1>2, EnterStep, LeaveStep DEF Next

(* For any number of threads, streams and memoized operations, and any     *)
(* depth of nesting: the lock is held exactly in a chain, the depth counts *)
(* the uncertain executions, and a quarantine has a terminal to release it *)
(* (device_operation.rs, fault_policy.rs).                                 *)
THEOREM NestingMatchesLocals == Spec => []LocalsMatchScopes
<1>1. IInv => LocalsMatchScopes
    <2> SUFFICES ASSUME IInv, NEW t \in Thread
                 PROVE  /\ lock[t] <=> InChain(t)
                        /\ \A i \in DOMAIN scopes[t] :
                              scopes[t][i].kind \in Terminal
                                  <=> i = 1 \/ scopes[t][i - 1].kind = "closure"
                        /\ depth[t] = Cardinality(GuardedScopes(t))
                        /\ quarantine[t] # {} => depth[t] > 0
        BY DEF LocalsMatchScopes
    <2>1. ThreadInv(t)
        BY OneThread
    <2>2. GuardedScopes(t) = GuardedIn(scopes[t])
        BY DEF GuardedScopes, GuardedIn
    <2> QED BY <2>1, <2>2, ChainIsLocked DEF ThreadInv, Matches
<1> QED BY InitIInv, NextIInv, <1>1, PTL DEF Spec

-----------------------------------------------------------------------------
(* Released storage.  Work in flight on a buffer has somebody who will see *)
(* it end before the buffer can be freed: a guarded terminal on the same   *)
(* stream whose thread, or the future it polls, holds the buffer or has it *)
(* in its quarantine, or a pending future whose mark is behind the work.   *)

(* The rest of the type.                                                   *)
DeviceTypes ==
    /\ budget \in [Thread -> Nat]
    /\ once \in [Memo -> Thread \cup {"pending", "settled"}]
    /\ fut \in [Future -> {"new", "executing", "pending", "over"}]
    /\ handed \in [Future -> SUBSET Buffer]
    /\ owner \in [Buffer -> Thread \cup Future \cup {NoOwner}]
    /\ storage \in [Buffer -> {"none", "live", "freed"}]
    /\ queue \in [Stream -> Seq(Buffer \cup Thread \cup Future)]
    /\ capturing \in SUBSET Stream
    /\ aborted \in {"no", "synchronize", "handoff", "unwound", "transfer"}

(* Every scope is in the chain of some terminal.                           *)
Chained(q) ==
    \A n \in DOMAIN q : \E i \in 1 .. n :
        /\ q[i].kind \in Terminal
        /\ \A j \in i + 1 .. n : q[j].kind \notin Terminal

ChainInv == \A t \in Thread : Chained(scopes[t])

(* A future is polled, and a stream captured, in one scope at a time.      *)
Claims(c) ==
    \/ c.kind = "poll" /\ fut[c.on] = "executing"
    \/ c.kind = "capture" /\ c.on \in capturing

ScopeInv ==
    \A t \in Thread : \A i \in DOMAIN scopes[t] : \A c \in Scope :
        scopes[t][i] = c /\ c.kind \in {"poll", "capture"} =>
            /\ Claims(c)
            /\ \A u \in Thread : \A j \in DOMAIN scopes[u] :
                  scopes[u][j] = c => u = t /\ j = i

(* A buffer has one holder: the owner of its value, or one quarantine.     *)
HolderOf(b) ==
    /\ owner[b] # NoOwner =>
          /\ storage[b] = "live"
          /\ \A t \in Thread : b \notin quarantine[t]
          /\ \A f \in Future : b \notin handed[f]
    /\ \A t \in Thread : b \in quarantine[t] =>
          /\ storage[b] = "live"
          /\ \A u \in Thread : b \in quarantine[u] => u = t
          /\ \A f \in Future : b \notin handed[f]
    /\ \A f \in Future : b \in handed[f] =>
          /\ storage[b] = "live" /\ fut[f] = "pending"
          /\ \A g \in Future : b \in handed[g] => g = f

HolderInv == \A b \in Buffer : HolderOf(b)

(* A thread that waits for the proof of a failed poll left no value in it. *)
ProvingInv ==
    \A t \in Thread : \A f \in Future :
        at[t] = "proving" /\ Inner(t) = [kind |-> "poll", on |-> f] =>
            \A b \in Buffer : owner[b] # f

(* Item x is in the queue of s behind position k.                          *)
Behind(s, k, x) == \E m \in DOMAIN queue[s] : m > k /\ queue[s][m] = x

ScopeStream(c) == IF c.kind = "poll" THEN StreamOf[c.on] ELSE c.on

(* The execution of future f is one of the scopes of thread t.             *)
Polls(t, f) ==
    /\ f \in Future
    /\ \E j \in Nat : j \in DOMAIN scopes[t] /\ scopes[t][j] = [kind |-> "poll", on |-> f]

(* Thread t has buffer b, while it works in scope c.                       *)
Keeps(t, c, b) ==
    \/ b \in quarantine[t]
    \/ owner[b] = t /\ c.kind = "sync"
    \/ Polls(t, owner[b])

(* Scope i of thread t will see the work of stream s on b end.             *)
Guards(t, i, b, s) ==
    /\ i \in DOMAIN scopes[t] /\ scopes[t][i].kind \in Guarded
    /\ ScopeStream(scopes[t][i]) = s
    /\ Keeps(t, scopes[t][i], b)

Awaits(t, i, s, k) == at[t] = "proving" /\ i = Len(scopes[t]) => Behind(s, k, t)

(* Future f will.                                                          *)
Leads(f, b, s) ==
    /\ fut[f] = "pending" /\ StreamOf[f] = s
    /\ owner[b] = f \/ b \in handed[f]

Carried(b, s, k) ==
    \/ \E t \in Thread : \E i \in Nat : Guards(t, i, b, s) /\ Awaits(t, i, s, k)
    \/ \E f \in Future : Leads(f, b, s) /\ Behind(s, k, f)

FlightInv ==
    \A s \in Stream : \A k \in DOMAIN queue[s] : \A b \in Buffer :
        queue[s][k] = b => storage[b] = "live" /\ Carried(b, s, k)

NInv ==
    /\ IInv /\ DeviceTypes /\ ChainInv /\ ScopeInv
    /\ HolderInv /\ ProvingInv /\ FlightInv

-----------------------------------------------------------------------------
LEMMA ScopeFields ==
    ASSUME NEW c \in Scope
    PROVE  /\ c.kind \in {"sync", "capture", "poll", "closure", "memo"}
           /\ c.kind \in {"sync", "capture"} => c.on \in Stream
           /\ c.kind = "poll" => c.on \in Future
           /\ c.kind = "memo" => c.on \in Memo
           /\ c.kind = "poll" => c = [kind |-> "poll", on |-> c.on]
           /\ c.kind = "capture" => c = [kind |-> "capture", on |-> c.on]
BY DEF Scope

LEMMA AppendChained ==
    ASSUME NEW q \in Seq(Scope), NEW c \in Scope, Chained(q),
           q = <<>> => c.kind \in Terminal
    PROVE  Chained(Append(q, c))
<1> DEFINE p == Append(q, c)
<1>1. /\ Len(q) \in Nat /\ DOMAIN q = 1 .. Len(q) /\ DOMAIN p = 1 .. Len(q) + 1
      /\ p[Len(q) + 1] = c /\ (Len(q) = 0 <=> q = <<>>)
      /\ \A i \in 1 .. Len(q) : p[i] = q[i]
    OBVIOUS
<1> HIDE DEF p
<1>2. SUFFICES ASSUME NEW n \in DOMAIN p
               PROVE  \E i \in 1 .. n : /\ p[i].kind \in Terminal
                                        /\ \A j \in i + 1 .. n : p[j].kind \notin Terminal
    BY DEF Chained, p
<1>3. CASE n \in DOMAIN q
    <2>1. PICK i \in 1 .. n : /\ q[i].kind \in Terminal
                              /\ \A j \in i + 1 .. n : q[j].kind \notin Terminal
        BY <1>3 DEF Chained
    <2> QED BY <1>1, <1>3, <2>1
<1>4. CASE n = Len(q) + 1 /\ c.kind \in Terminal
    BY <1>1, <1>4
<1>5. CASE n = Len(q) + 1 /\ c.kind \notin Terminal
    <2>1. Len(q) \in DOMAIN q
        BY <1>1, <1>5
    <2>2. PICK i \in 1 .. Len(q) :
              /\ q[i].kind \in Terminal
              /\ \A j \in i + 1 .. Len(q) : q[j].kind \notin Terminal
        BY <2>1 DEF Chained
    <2> QED BY <1>1, <1>5, <2>2
<1> QED BY <1>1, <1>2, <1>3, <1>4, <1>5

LEMMA FrontChained ==
    ASSUME NEW q \in Seq(Scope), q # <<>>, Chained(q)
    PROVE  Chained(Front(q))
<1>1. /\ DOMAIN Front(q) = 1 .. Len(q) - 1 /\ DOMAIN q = 1 .. Len(q) /\ Len(q) \in Nat
      /\ \A i \in 1 .. Len(q) - 1 : Front(q)[i] = q[i]
    BY DEF Front
<1>2. SUFFICES ASSUME NEW n \in DOMAIN Front(q)
               PROVE  \E i \in 1 .. n :
                          /\ Front(q)[i].kind \in Terminal
                          /\ \A j \in i + 1 .. n : Front(q)[j].kind \notin Terminal
    BY DEF Chained
<1>3. PICK i \in 1 .. n : /\ q[i].kind \in Terminal
                          /\ \A j \in i + 1 .. n : q[j].kind \notin Terminal
    BY <1>1 DEF Chained
<1> QED BY <1>1, <1>3

(* The terminal whose chain a thread executes is one of its scopes, and    *)
(* the innermost scope when that is a terminal.                            *)
LEMMA ChainScope ==
    ASSUME NInv, NEW t \in Thread, scopes[t] # <<>>
    PROVE  \E i \in DOMAIN scopes[t] :
               /\ Chain(t) = scopes[t][i] /\ Chain(t) \in Scope
               /\ Chain(t).kind \in Terminal
               /\ Inner(t).kind \in Terminal => i = Len(scopes[t])
<1> DEFINE q == scopes[t]
           P(i) == /\ q[i].kind \in Terminal
                   /\ \A j \in i + 1 .. Len(q) : q[j].kind \notin Terminal
<1>1. q \in Seq(Scope) /\ Chained(q)
    BY OneThread DEF NInv, ChainInv, TypesOf
<1>2. Len(q) \in DOMAIN q /\ DOMAIN q = 1 .. Len(q) /\ Len(q) \in Nat
    BY <1>1
<1>3. \E i \in DOMAIN q : P(i)
    <2>1. PICK i \in 1 .. Len(q) : /\ q[i].kind \in Terminal
                                   /\ \A j \in i + 1 .. Len(q) : q[j].kind \notin Terminal
        BY <1>1, <1>2 DEF Chained
    <2> QED BY <1>2, <2>1
<1>4. PICK i \in DOMAIN q : P(i) /\ Chain(t) = q[i]
    <2> DEFINE x == CHOOSE i \in DOMAIN q : P(i)
    <2>1. x \in DOMAIN q /\ P(x)
        BY <1>3
    <2>2. Chain(t) = q[x]
        BY DEF Chain
    <2> QED BY <2>1, <2>2
<1>5. Inner(t) = q[Len(q)]
    BY DEF Inner, Last
<1>6. Inner(t).kind \in Terminal => i = Len(q)
    BY <1>2, <1>4, <1>5
<1> QED BY <1>1, <1>4, <1>6

LEMMA ChainPlaces ==
    ASSUME NInv, NEW t \in Thread, scopes[t] # <<>>
    PROVE  ChainStream(t) \in Stream /\ ChainOwner(t) \in Thread \cup Future
<1>1. Chain(t) \in Scope /\ Chain(t).kind \in Terminal
    BY ChainScope
<1> QED BY <1>1, ScopeFields, NestedAssumption DEF ChainStream, ChainOwner, Terminal

LEMMA InnerScope ==
    ASSUME NInv, NEW t \in Thread, scopes[t] # <<>>
    PROVE  /\ Inner(t) \in Scope /\ Inner(t) = scopes[t][Len(scopes[t])]
           /\ Len(scopes[t]) \in DOMAIN scopes[t]
BY OneThread DEF NInv, TypesOf, Inner, Last

-----------------------------------------------------------------------------
(* The type.                                                               *)
(* Work is queued at the end.                                              *)
Items == Buffer \cup Thread \cup Future

LEMMA EnqueueStep ==
    ASSUME queue \in [Stream -> Seq(Items)], NEW s \in Stream, NEW x \in Items,
           Enqueue(s, x)
    PROVE  /\ queue' \in [Stream -> Seq(Items)]
           /\ \A r \in Stream : \A k \in DOMAIN queue'[r] :
                 \/ k \in DOMAIN queue[r] /\ queue'[r][k] = queue[r][k]
                 \/ r = s /\ queue'[r][k] = x
           /\ \A r \in Stream : \A k \in Nat : \A y \in Items :
                 Behind(r, k, y) => Behind(r, k, y)'
           /\ \A k \in DOMAIN queue[s] : Behind(s, k, x)'
<1>1. PICK q \in Seq(Items) : q = queue[s]
    OBVIOUS
<1>2. PICK p \in Seq(Items) : p = Append(q, x)
    <2>1. Append(q, x) \in Seq(Items)
        OBVIOUS
    <2> QED BY <2>1
<1>3. /\ Len(q) \in Nat /\ DOMAIN q = 1 .. Len(q) /\ DOMAIN p = 1 .. Len(q) + 1
      /\ p[Len(q) + 1] = x /\ \A i \in 1 .. Len(q) : p[i] = q[i]
    BY <1>2
<1>4. queue' = [queue EXCEPT ![s] = p]
    BY <1>1, <1>2 DEF Enqueue
<1>5. queue' \in [Stream -> Seq(Items)]
    BY <1>4
<1>6. queue'[s] = p /\ \A r \in Stream : r # s => queue'[r] = queue[r]
    BY <1>4
<1>7. \A r \in Stream : \A k \in DOMAIN queue'[r] :
          \/ k \in DOMAIN queue[r] /\ queue'[r][k] = queue[r][k]
          \/ r = s /\ queue'[r][k] = x
    BY <1>1, <1>3, <1>6
<1>8. ASSUME NEW r \in Stream, NEW k \in Nat, NEW y \in Items, Behind(r, k, y)
      PROVE  Behind(r, k, y)'
    <2>1. PICK m \in DOMAIN queue[r] : m > k /\ queue[r][m] = y
        BY <1>8 DEF Behind
    <2>2. m \in DOMAIN queue'[r] /\ queue'[r][m] = y
        BY <2>1, <1>1, <1>3, <1>6
    <2> QED BY <2>1, <2>2 DEF Behind
<1>9. ASSUME NEW k \in DOMAIN queue[s] PROVE Behind(s, k, x)'
    <2>1. Len(q) + 1 > k /\ Len(q) + 1 \in DOMAIN queue'[s] /\ queue'[s][Len(q) + 1] = x
        BY <1>1, <1>3, <1>6
    <2>2. PICK m \in Nat : m = Len(q) + 1
        BY <1>3
    <2> QED BY <2>1, <2>2 DEF Behind
<1> QED BY <1>5, <1>7, <1>8, <1>9

LEMMA EnterTypes ==
    ASSUME NInv, NEW t \in Thread, Enter(t)
    PROVE  DeviceTypes'
<1> USE DEF locals, buffers, device
<1>1. DeviceTypes
    BY DEF NInv
<1>2. ASSUME NEW s \in Stream, SyncOn(t, s) PROVE DeviceTypes'
    BY <1>1, <1>2 DEF SyncOn, Spend, DeviceTypes
<1>3. ASSUME NEW o \in Memo, ExecuteHandle(t, o) PROVE DeviceTypes'
    BY <1>1, <1>3 DEF ExecuteHandle, DeviceTypes
<1>4. ASSUME NEW f \in Future, Resolve(t, f) PROVE DeviceTypes'
    <2>1. UNCHANGED <<budget, once, queue, capturing>>
        BY <1>4 DEF Resolve
    <2>2. /\ fut' \in [Future -> {"new", "executing", "pending", "over"}]
          /\ handed' \in [Future -> SUBSET Buffer]
          /\ aborted' \in {"no", "synchronize", "handoff", "unwound", "transfer"}
        BY <1>1, <1>4 DEF Resolve, DeviceTypes
    <2>3. /\ owner' \in [Buffer -> Thread \cup Future \cup {NoOwner}]
          /\ storage' \in [Buffer -> {"none", "live", "freed"}]
        BY <1>1, <1>4 DEF Resolve, Released, DeviceTypes
    <2> QED BY <1>1, <2>1, <2>2, <2>3 DEF DeviceTypes
<1>5. ASSUME NEW b \in Buffer, Drop(t, b) PROVE DeviceTypes'
    <2>1. UNCHANGED <<budget, once, fut, handed, queue, capturing, aborted>>
        BY <1>5 DEF Drop
    <2>2. owner' \in [Buffer -> Thread \cup Future \cup {NoOwner}]
        BY <1>1, <1>5 DEF Drop, DeviceTypes
    <2>3. storage' \in [Buffer -> {"none", "live", "freed"}]
        BY <1>1, <1>5 DEF Drop, Released, DeviceTypes
    <2> QED BY <1>1, <2>1, <2>2, <2>3 DEF DeviceTypes
<1>6. ASSUME DriverError(t) PROVE DeviceTypes'
    BY <1>1, <1>6 DEF DriverError, DeviceTypes
<1>7. ASSUME NEW s \in Stream, Capture(t, s) PROVE DeviceTypes'
    BY <1>1, <1>7 DEF Capture, Spend, DeviceTypes
<1>8. ASSUME NEW f \in Future, FirstPoll(t, f) PROVE DeviceTypes'
    <2>1. fut' = [fut EXCEPT ![f] = "over"] \/ fut' = [fut EXCEPT ![f] = "executing"]
        BY <1>8 DEF FirstPoll
    <2>2. budget' = budget \/ (budget[t] > 0 /\ budget' = [budget EXCEPT ![t] = @ - 1])
        BY <1>8 DEF FirstPoll, Spend
    <2>3. UNCHANGED <<once, handed, owner, storage, queue, capturing, aborted>>
        BY <1>8 DEF FirstPoll
    <2>4. budget' \in [Thread -> Nat]
        BY <1>1, <2>2 DEF DeviceTypes
    <2>5. fut' \in [Future -> {"new", "executing", "pending", "over"}]
        BY <1>1, <2>1 DEF DeviceTypes
    <2> QED BY <1>1, <2>3, <2>4, <2>5 DEF DeviceTypes
<1>9. ASSUME NEW b \in Buffer, Launch(t, b) PROVE DeviceTypes'
    <2>1. UNCHANGED <<budget, once, fut, handed, storage, capturing, aborted>>
        BY <1>9 DEF Launch
    <2>2. scopes[t] # <<>>
        BY <1>9 DEF Launch, InChain, InsideA
    <2>3. PICK s \in Stream : s = ChainStream(t)
        BY <2>2, ChainPlaces
    <2>4. PICK o \in Thread \cup Future \cup {NoOwner} : owner' = [owner EXCEPT ![b] = o]
        <3>1. Chain(t).kind = "poll" => Chain(t).on \in Future
            BY <2>2, ChainScope, ScopeFields
        <3>2. owner[b] \in Thread \cup Future \cup {NoOwner}
            BY <1>1 DEF DeviceTypes
        <3> QED BY <1>9, <3>1, <3>2 DEF Launch
    <2>5. queue' = queue \/ queue' = [queue EXCEPT ![s] = Append(@, b)]
        BY <1>9, <2>3 DEF Launch, Enqueue
    <2>6. queue' \in [Stream -> Seq(Buffer \cup Thread \cup Future)]
        BY <1>1, <2>5, EnqueueStep DEF DeviceTypes, Enqueue, Items
    <2> QED BY <1>1, <2>1, <2>4, <2>6 DEF DeviceTypes
<1>12. ASSUME NEW b \in Buffer, Allocate(t, b) PROVE DeviceTypes'
    <2>1. PICK o \in Thread \cup Future : o = ChainOwner(t)
        BY <1>12, ChainPlaces DEF Allocate, InChain, InsideA
    <2>2. owner' = [owner EXCEPT ![b] = o] /\ storage' = [storage EXCEPT ![b] = "live"]
        BY <1>12, <2>1 DEF Allocate
    <2> QED BY <1>1, <1>12, <2>2 DEF Allocate, DeviceTypes
<1>13. ASSUME NEW b \in Buffer, TransferFails(t, b) PROVE DeviceTypes'
    BY <1>1, <1>13 DEF TransferFails, DeviceTypes
<1>10. ASSUME OpenClosure(t) PROVE DeviceTypes'
    BY <1>1, <1>10 DEF OpenClosure, Spend, DeviceTypes
<1>11. ASSUME Panic(t) PROVE DeviceTypes'
    BY <1>1, <1>11 DEF Panic, Spend, DeviceTypes
<1> QED BY <1>2, <1>3, <1>4, <1>5, <1>6, <1>7, <1>8, <1>9, <1>10, <1>11, <1>12, <1>13
        DEF Enter

LEMMA LeaveTypes ==
    ASSUME NInv, NEW t \in Thread, Leave(t)
    PROVE  DeviceTypes'
<1> USE DEF locals, buffers, device
<1>1. DeviceTypes
    BY DEF NInv
<1>2. CASE CloseClosure(t)
    BY <1>1, <1>2 DEF CloseClosure, DeviceTypes
<1>3. CASE Settle(t)
    <2>1. Inner(t).on \in Memo
        BY <1>3, InnerScope, ScopeFields DEF Settle, InsideA
    <2> QED BY <1>1, <1>3, <2>1 DEF Settle, DeviceTypes
<1>4. CASE Resume(t)
    BY <1>1, <1>4 DEF Resume, DeviceTypes
<1>5. CASE Synchronize(t)
    <2>1. PICK s \in Stream : s = ChainStream(t)
        BY <1>5, ChainPlaces DEF Synchronize, InsideA
    <2>2. queue' = queue \/ queue' = [queue EXCEPT ![s] = Append(@, t)]
        BY <1>5, <2>1 DEF Synchronize, Enqueue
    <2>3. queue' \in [Stream -> Seq(Buffer \cup Thread \cup Future)]
        BY <1>1, <2>2, EnqueueStep DEF DeviceTypes, Enqueue, Items
    <2>4. /\ UNCHANGED <<budget, once, fut, handed, owner, storage, capturing>>
          /\ aborted' \in {aborted, "synchronize"}
        BY <1>5 DEF Synchronize
    <2> QED BY <1>1, <2>3, <2>4 DEF DeviceTypes
<1>6. CASE Proven(t)
    <2>1. UNCHANGED <<budget, once, handed, owner, queue, capturing, aborted>>
        BY <1>6 DEF Proven
    <2>2. storage' \in [Buffer -> {"none", "live", "freed"}]
        BY <1>1, <1>6 DEF Proven, Released, DeviceTypes
    <2>3. fut' \in [Future -> {"new", "executing", "pending", "over"}]
        BY <1>1, <1>6 DEF Proven, DeviceTypes
    <2> QED BY <1>1, <2>1, <2>2, <2>3 DEF DeviceTypes
<1>7. CASE HandOver(t)
    <2>1. PICK f \in Future : f = Inner(t).on
        BY <1>7, InnerScope, ScopeFields DEF HandOver, InsideA
    <2>2. PICK s \in Stream : s = StreamOf[f]
        BY NestedAssumption
    <2>3. /\ queue' = queue \/ queue' = [queue EXCEPT ![s] = Append(@, f)]
          /\ fut' = fut \/ fut' = [fut EXCEPT ![f] = "pending"]
          /\ handed' = handed \/ handed' = [handed EXCEPT ![f] = quarantine[t]]
          /\ UNCHANGED <<budget, once, owner, storage, capturing>>
          /\ aborted' \in {aborted, "handoff"}
        BY <1>7, <2>1, <2>2 DEF HandOver, Enqueue
    <2>4. quarantine[t] \in SUBSET Buffer
        BY OneThread DEF NInv, TypesOf
    <2>5. queue' \in [Stream -> Seq(Buffer \cup Thread \cup Future)]
        BY <1>1, <2>3, EnqueueStep DEF DeviceTypes, Enqueue, Items
    <2> QED BY <1>1, <2>3, <2>4, <2>5 DEF DeviceTypes
<1>8. CASE EndCapture(t)
    BY <1>1, <1>8 DEF EndCapture, DeviceTypes
<1>9. CASE Unwind(t)
    <2>1. InsideA(t, {"memo"}) => Inner(t).on \in Memo
        BY InnerScope, ScopeFields DEF InsideA
    <2>2. UNCHANGED <<budget, fut, handed, owner, storage, queue>>
        BY <1>9 DEF Unwind
    <2>3. once' = once \/ (InsideA(t, {"memo"}) /\ once' = [once EXCEPT ![Inner(t).on] = "settled"])
        BY <1>9 DEF Unwind
    <2>4. once' \in [Memo -> Thread \cup {"pending", "settled"}]
        BY <1>1, <2>1, <2>3 DEF DeviceTypes
    <2>5. capturing' = capturing \/ capturing' = capturing \ {Inner(t).on}
        BY <1>9 DEF Unwind
    <2>6. aborted' \in {aborted, "unwound"}
        BY <1>9 DEF Unwind
    <2> QED BY <1>1, <2>2, <2>4, <2>5, <2>6 DEF DeviceTypes
<1> QED BY <1>2, <1>3, <1>4, <1>5, <1>6, <1>7, <1>8, <1>9 DEF Leave

LEMMA DeviceTypesStep ==
    ASSUME NInv, NEW s \in Stream, Device(s)
    PROVE  DeviceTypes'
<1>1. DeviceTypes
    BY DEF NInv
<1>2. queue[s] \in Seq(Buffer \cup Thread \cup Future) /\ queue[s] # <<>>
    BY <1>1 DEF Device, DeviceTypes
<1>3. Tail(queue[s]) \in Seq(Buffer \cup Thread \cup Future)
    BY <1>2
<1> QED BY <1>1, <1>3 DEF Device, DeviceTypes, locals, buffers

-----------------------------------------------------------------------------
(* Scopes, and steps that only open or leave a scope.                      *)

(* The guarded terminals stay in scope, and none begins to prove.          *)
Steady ==
    \A u \in Thread : \A i \in Nat :
        i \in DOMAIN scopes[u] /\ scopes[u][i].kind \in Guarded =>
            /\ i \in DOMAIN scopes'[u] /\ scopes'[u][i] = scopes[u][i]
            /\ at'[u] = "proving" /\ i = Len(scopes'[u]) =>
                  at[u] = "proving" /\ i = Len(scopes[u])

Quiet ==
    /\ UNCHANGED <<owner, storage, quarantine, handed, queue>>
    /\ \A f \in Future : fut'[f] = "pending" <=> fut[f] = "pending"
    /\ Steady

KeepsClaims == \A d \in Scope : Claims(d) => Claims(d)'

LEMMA OthersChained ==
    ASSUME NInv, NEW t \in Thread, NEW p, Chained(p), scopes'[t] = p,
           \A u \in Thread : u # t => scopes'[u] = scopes[u]
    PROVE  ChainInv'
<1>1. ASSUME NEW u \in Thread, NEW q, q = scopes'[u] PROVE Chained(q)
    <2>1. CASE u = t
        BY <1>1, <2>1
    <2>2. CASE u # t
        BY <1>1, <2>2 DEF NInv, ChainInv
    <2> QED BY <2>1, <2>2
<1> QED BY <1>1 DEF ChainInv, Chained

LEMMA PushScopes ==
    ASSUME NInv, NEW t \in Thread, NEW c \in Scope, Push(t, c),
           scopes[t] = <<>> => c.kind \in Terminal,
           c.kind \in {"poll", "capture"} => ~Claims(c) /\ Claims(c)',
           KeepsClaims
    PROVE  ChainInv' /\ ScopeInv'
<1>1. PICK q \in Seq(Scope) : q = scopes[t]
    BY OneThread DEF NInv, TypesOf
<1>2. PICK p \in Seq(Scope) : p = Append(q, c)
    <2>1. Append(q, c) \in Seq(Scope)
        OBVIOUS
    <2> QED BY <2>1
<1>3. /\ scopes' = [scopes EXCEPT ![t] = p] /\ scopes'[t] = p
      /\ \A u \in Thread : u # t => scopes'[u] = scopes[u]
    BY <1>1, <1>2 DEF Push, NInv, IInv, Types
<1>4. /\ Len(q) \in Nat /\ DOMAIN q = 1 .. Len(q) /\ DOMAIN p = 1 .. Len(q) + 1
      /\ p[Len(q) + 1] = c /\ \A i \in 1 .. Len(q) : p[i] = q[i]
    BY <1>2
<1>5. ChainInv'
    <2>1. Chained(p)
        BY <1>1, <1>2, AppendChained DEF NInv, ChainInv
    <2> QED BY <1>3, <2>1, OthersChained
<1>6. ASSUME NEW u \in Thread, NEW i \in DOMAIN scopes'[u], NEW d \in Scope,
             scopes'[u][i] = d, d.kind \in {"poll", "capture"}
      PROVE  \/ i \in DOMAIN scopes[u] /\ scopes[u][i] = d /\ d # c
             \/ u = t /\ i = Len(q) + 1 /\ d = c
    <2>1. \/ i \in DOMAIN scopes[u] /\ scopes[u][i] = d
          \/ u = t /\ i = Len(q) + 1 /\ d = c
        BY <1>1, <1>3, <1>4, <1>6
    <2>2. i \in DOMAIN scopes[u] /\ scopes[u][i] = d => Claims(d)
        BY <1>6 DEF NInv, ScopeInv
    <2> QED BY <1>6, <2>1, <2>2
<1>7. ScopeInv'
    <2> SUFFICES ASSUME NEW u \in Thread, NEW i \in DOMAIN scopes'[u], NEW d \in Scope,
                        scopes'[u][i] = d, d.kind \in {"poll", "capture"}
                 PROVE  /\ Claims(d)'
                        /\ \A v \in Thread : \A j \in DOMAIN scopes'[v] :
                              scopes'[v][j] = d => v = u /\ j = i
        BY DEF ScopeInv
    <2>1. CASE d = c
        BY <1>6, <2>1
    <2>2. CASE d # c
        <3>1. i \in DOMAIN scopes[u] /\ scopes[u][i] = d
            BY <1>6, <2>2
        <3>2. Claims(d) /\ \A v \in Thread : \A j \in DOMAIN scopes[v] :
                               scopes[v][j] = d => v = u /\ j = i
            BY <3>1 DEF NInv, ScopeInv
        <3>3. Claims(d)'
            BY <3>2 DEF KeepsClaims
        <3> QED BY <1>6, <2>2, <3>2, <3>3
    <2> QED BY <2>1, <2>2
<1> QED BY <1>5, <1>7

LEMMA PopScopes ==
    ASSUME NInv, NEW t \in Thread, scopes[t] # <<>>, Pop(t),
           \A d \in Scope : Claims(d) /\ d # Inner(t) => Claims(d)'
    PROVE  ChainInv' /\ ScopeInv'
<1>1. PICK q \in Seq(Scope) : q = scopes[t]
    BY OneThread DEF NInv, TypesOf
<1>2. PICK p \in Seq(Scope) : p = Front(q)
    <2>1. Front(q) \in Seq(Scope)
        BY <1>1 DEF Front
    <2> QED BY <2>1
<1>3. /\ scopes' = [scopes EXCEPT ![t] = p] /\ scopes'[t] = p
      /\ \A u \in Thread : u # t => scopes'[u] = scopes[u]
    BY <1>1, <1>2 DEF Pop, NInv, IInv, Types
<1>4. /\ Len(q) \in Nat /\ Len(q) > 0 /\ DOMAIN q = 1 .. Len(q)
      /\ DOMAIN p = 1 .. Len(q) - 1 /\ \A i \in 1 .. Len(q) - 1 : p[i] = q[i]
    BY <1>1, <1>2 DEF Front
<1>5. ChainInv'
    <2>1. Chained(p)
        BY <1>1, <1>2, FrontChained DEF NInv, ChainInv
    <2> QED BY <1>3, <2>1, OthersChained
<1>6. ASSUME NEW u \in Thread, NEW i \in DOMAIN scopes'[u], NEW d \in Scope,
             scopes'[u][i] = d
      PROVE  i \in DOMAIN scopes[u] /\ scopes[u][i] = d /\ (u = t => i # Len(q))
    BY <1>1, <1>3, <1>4, <1>6
<1>7. Inner(t) \in Scope /\ Len(q) \in DOMAIN scopes[t] /\ scopes[t][Len(q)] = Inner(t)
    BY <1>1, InnerScope
<1>8. ScopeInv'
    <2> SUFFICES ASSUME NEW u \in Thread, NEW i \in DOMAIN scopes'[u], NEW d \in Scope,
                        scopes'[u][i] = d, d.kind \in {"poll", "capture"}
                 PROVE  /\ Claims(d)'
                        /\ \A v \in Thread : \A j \in DOMAIN scopes'[v] :
                              scopes'[v][j] = d => v = u /\ j = i
        BY DEF ScopeInv
    <2>1. i \in DOMAIN scopes[u] /\ scopes[u][i] = d /\ (u = t => i # Len(q))
        BY <1>6
    <2>2. Claims(d) /\ \A v \in Thread : \A j \in DOMAIN scopes[v] :
                           scopes[v][j] = d => v = u /\ j = i
        BY <2>1 DEF NInv, ScopeInv
    <2>3. d # Inner(t)
        BY <1>7, <2>1, <2>2
    <2> QED BY <1>6, <2>2, <2>3
<1> QED BY <1>5, <1>8

LEMMA StayScopes ==
    ASSUME NInv, UNCHANGED scopes, KeepsClaims
    PROVE  ChainInv' /\ ScopeInv'
<1>1. ChainInv'
    BY DEF NInv, ChainInv, Chained
<1>2. ScopeInv'
    BY DEF NInv, ScopeInv, KeepsClaims
<1> QED BY <1>1, <1>2

LEMMA PushSteady ==
    ASSUME NInv, NEW t \in Thread, NEW c \in Scope, Push(t, c), at[t] = "running",
           UNCHANGED at
    PROVE  Steady
<1>1. PICK q \in Seq(Scope) : q = scopes[t]
    BY OneThread DEF NInv, TypesOf
<1>2. /\ scopes'[t] = Append(q, c)
      /\ \A u \in Thread : u # t => scopes'[u] = scopes[u]
    BY <1>1 DEF Push, NInv, IInv, Types
<1>3. \A i \in DOMAIN q : i \in DOMAIN Append(q, c) /\ Append(q, c)[i] = q[i]
    OBVIOUS
<1> QED BY <1>1, <1>2, <1>3 DEF Steady

LEMMA PopSteady ==
    ASSUME NInv, NEW t \in Thread, scopes[t] # <<>>, Pop(t), Inner(t).kind \notin Guarded,
           UNCHANGED at
    PROVE  Steady
<1>1. PICK q \in Seq(Scope) : q = scopes[t]
    BY OneThread DEF NInv, TypesOf
<1>2. /\ scopes'[t] = Front(q)
      /\ \A u \in Thread : u # t => scopes'[u] = scopes[u]
    BY <1>1 DEF Pop, NInv, IInv, Types
<1>3. at[t] # "proving"
    BY OneThread DEF NInv, ThreadInv, InsideA
<1>4. q[Len(q)].kind \notin Guarded
    BY <1>1, InnerScope
<1>5. \A i \in DOMAIN q : i # Len(q) => i \in DOMAIN Front(q) /\ Front(q)[i] = q[i]
    BY <1>1 DEF Front
<1> QED BY <1>1, <1>2, <1>3, <1>4, <1>5 DEF Steady

LEMMA StaySteady ==
    ASSUME NInv, NEW t \in Thread, UNCHANGED scopes,
           UNCHANGED at \/ (at' = [at EXCEPT ![t] = at'[t]] /\ at'[t] # "proving")
    PROVE  Steady
BY DEF Steady, NInv, IInv, Types

LEMMA QuietStep ==
    ASSUME NInv, Quiet
    PROVE  HolderInv' /\ FlightInv'
<1>1. HolderInv'
    <2> SUFFICES ASSUME NEW b \in Buffer PROVE HolderOf(b)'
        BY DEF HolderInv
    <2>1. HolderOf(b)
        BY DEF NInv, HolderInv
    <2> QED BY <2>1 DEF HolderOf, Quiet
<1>2. FlightInv'
    <2> SUFFICES ASSUME NEW s \in Stream, NEW k \in DOMAIN queue[s], NEW b \in Buffer,
                        queue[s][k] = b
                 PROVE  storage[b] = "live" /\ Carried(b, s, k)'
        BY DEF FlightInv, Quiet
    <2>1. storage[b] = "live" /\ Carried(b, s, k)
        BY DEF NInv, FlightInv
    <2>2. ASSUME NEW t \in Thread, NEW i \in Nat, Guards(t, i, b, s), Awaits(t, i, s, k)
          PROVE  Carried(b, s, k)'
        <3>1. Guards(t, i, b, s)'
            <4>1. \A f : Polls(t, f) => Polls(t, f)'
                BY DEF Polls, Quiet, Steady, Guarded
            <4>2. Keeps(t, scopes[t][i], b) /\ scopes'[t][i] = scopes[t][i]
                BY <2>2 DEF Guards, Quiet, Steady
            <4>3. Keeps(t, scopes[t][i], b)'
                BY <4>1, <4>2 DEF Keeps, Quiet
            <4> QED BY <2>2, <4>2, <4>3 DEF Guards, Quiet, Steady
        <3>2. Awaits(t, i, s, k)'
            BY <2>2 DEF Guards, Awaits, Behind, Quiet, Steady
        <3> QED BY <3>1, <3>2 DEF Carried
    <2>3. ASSUME NEW f \in Future, Leads(f, b, s), Behind(s, k, f)
          PROVE  Carried(b, s, k)'
        <3>1. Leads(f, b, s)' /\ Behind(s, k, f)'
            BY <2>3 DEF Leads, Behind, Quiet
        <3> QED BY <3>1 DEF Carried
    <2> QED BY <2>1, <2>2, <2>3 DEF Carried
<1> QED BY <1>1, <1>2

-----------------------------------------------------------------------------
(* Steps that start, end or hand over work, or release storage.            *)

(* What holds of every buffer in flight.                                   *)
LEMMA InFlightIsLive ==
    ASSUME NInv, NEW b \in Buffer, InFlight(b)
    PROVE  /\ storage[b] = "live"
           /\ \E s \in Stream : \E k \in DOMAIN queue[s] :
                 queue[s][k] = b /\ Carried(b, s, k)
<1>1. PICK s \in Stream : b \in Range(queue[s])
    BY DEF InFlight
<1>2. PICK k \in DOMAIN queue[s] : queue[s][k] = b
    BY <1>1 DEF Range
<1> QED BY <1>2 DEF NInv, FlightInv

LEMMA BehindIsInFlight ==
    ASSUME NEW s \in Stream, NEW k, NEW x, Behind(s, k, x)
    PROVE  InFlight(x)
BY DEF Behind, InFlight, Range

(* A thread in a guarded terminal is at some depth.                        *)
LEMMA GuardedIsDeep ==
    ASSUME IInv, NEW t \in Thread, NEW i \in DOMAIN scopes[t],
           scopes[t][i].kind \in Guarded
    PROVE  /\ depth[t] > 0
           /\ depth[t] = 1 => \A j \in DOMAIN scopes[t] :
                                  scopes[t][j].kind \in Guarded => j = i
<1> DEFINE G == GuardedIn(scopes[t])
<1>1. /\ scopes[t] \in Seq(Scope) /\ depth[t] = Cardinality(G) /\ depth[t] \in Nat
      /\ IsFiniteSet(G)
    BY OneThread, GuardedFinite DEF TypesOf, ThreadInv, Matches
<1>2. i \in G
    BY DEF GuardedIn
<1>3. Cardinality(G) # 0
    BY <1>1, <1>2, FS_EmptySet
<1>4. ASSUME depth[t] = 1, NEW j \in DOMAIN scopes[t], scopes[t][j].kind \in Guarded
      PROVE  j = i
    <2>1. j \in G
        BY <1>4 DEF GuardedIn
    <2>2. \E x : G = {x}
        BY <1>1, <1>4, FS_Singleton
    <2> QED BY <1>2, <2>1, <2>2
<1> QED BY <1>1, <1>3, <1>4

(* A future is polled by one thread, while it executes.                    *)
LEMMA PolledOnce ==
    ASSUME NInv, NEW t \in Thread, NEW f, Polls(t, f)
    PROVE  f \in Future /\ fut[f] = "executing" /\ \A u \in Thread : Polls(u, f) => u = t
<1>1. f \in Future /\ [kind |-> "poll", on |-> f] \in Scope
    BY DEF Polls, Scope
<1>2. PICK c \in Scope : c = [kind |-> "poll", on |-> f]
    BY <1>1
<1>3. PICK i \in DOMAIN scopes[t] : scopes[t][i] = c
    BY <1>2 DEF Polls
<1>4. /\ Claims(c) /\ \A u \in Thread : \A j \in DOMAIN scopes[u] :
                          scopes[u][j] = c => u = t /\ j = i
    BY <1>2, <1>3 DEF NInv, ScopeInv
<1>5. fut[f] = "executing"
    BY <1>2, <1>4 DEF Claims
<1>6. \A u \in Thread : Polls(u, f) => u = t
    BY <1>2, <1>4 DEF Polls
<1> QED BY <1>1, <1>5, <1>6

LEMMA PolledPolls ==
    ASSUME NInv, NEW t \in Thread, NEW f \in Polled(t)
    PROVE  Polls(t, f)
<1>1. f \in Future /\ \E j \in DOMAIN scopes[t] : scopes[t][j] = [kind |-> "poll", on |-> f]
    BY DEF Polled, Range
<1>2. DOMAIN scopes[t] \subseteq Nat
    BY OneThread DEF NInv, TypesOf
<1> QED BY <1>1, <1>2 DEF Polls

(* Who may use a buffer has a value: no future but the polled one has it,  *)
(* and no quarantine.                                                      *)
LEMMA Usable ==
    ASSUME NInv, NEW t \in Thread, NEW b \in Buffer, owner[b] \in {t} \cup Polled(t)
    PROVE  /\ owner[b] \in Thread \cup Future /\ owner[b] # NoOwner
           /\ owner[b] = t \/ Polls(t, owner[b])
           /\ storage[b] = "live"
           /\ \A u \in Thread : b \notin quarantine[u]
           /\ \A f \in Future : b \notin handed[f]
<1>1. owner[b] = t \/ Polls(t, owner[b])
    BY PolledPolls
<1>2. owner[b] \in Thread \cup Future /\ owner[b] # NoOwner
    BY <1>1, NestedAssumption DEF Polls
<1>3. HolderOf(b)
    BY DEF NInv, HolderInv
<1> QED BY <1>1, <1>2, <1>3 DEF HolderOf

(* Work on such a buffer is under a scope of the thread.                   *)
LEMMA UsableWork ==
    ASSUME NInv, NEW t \in Thread, NEW b \in Buffer, owner[b] \in {t} \cup Polled(t),
           NEW s \in Stream, NEW k, Carried(b, s, k)
    PROVE  \E i \in Nat : Guards(t, i, b, s) /\ Awaits(t, i, s, k)
<1>1. PICK o : o = owner[b]
    OBVIOUS
<1>2. /\ o \in Thread \cup Future
      /\ o = t \/ Polls(t, o)
      /\ \A u \in Thread : b \notin quarantine[u]
      /\ \A f \in Future : b \notin handed[f]
    BY <1>1, Usable
<1>3. ASSUME NEW u \in Thread, NEW j \in Nat, Guards(u, j, b, s)
      PROVE  u = t
    <2>1. o = u \/ Polls(u, o)
        BY <1>1, <1>2, <1>3 DEF Guards, Keeps
    <2>2. CASE o = t
        BY <2>1, <2>2, NestedAssumption DEF Polls
    <2>3. CASE Polls(t, o)
        <3>1. o \in Future
            BY <2>3 DEF Polls
        <3> QED BY <2>1, <2>3, <3>1, PolledOnce, NestedAssumption
    <2> QED BY <1>2, <2>2, <2>3
<1>4. ASSUME NEW f \in Future, Leads(f, b, s) PROVE FALSE
    <2>1. o = f /\ fut[f] = "pending"
        BY <1>1, <1>2, <1>4 DEF Leads
    <2>2. Polls(t, f)
        BY <1>2, <2>1, NestedAssumption
    <2> QED BY <2>1, <2>2, PolledOnce
<1> QED BY <1>3, <1>4 DEF Carried

LEMMA AllocateStep ==
    ASSUME NInv, NEW t \in Thread, NEW b \in Buffer, Allocate(t, b)
    PROVE  HolderInv' /\ FlightInv'
<1>1. /\ scopes[t] # <<>> /\ storage[b] = "none"
      /\ storage' = [storage EXCEPT ![b] = "live"]
      /\ UNCHANGED <<scopes, at, quarantine, fut, handed, queue>>
    BY DEF Allocate, InChain, InsideA, locals, device
<1>2. PICK o \in Thread \cup Future : o = ChainOwner(t)
    BY <1>1, ChainPlaces
<1>3. /\ storage'[b] = "live" /\ owner'[b] = o /\ o # NoOwner
      /\ \A d \in Buffer : d # b => storage'[d] = storage[d] /\ owner'[d] = owner[d]
    BY <1>1, <1>2, NestedAssumption DEF Allocate, NInv, DeviceTypes
<1>4. HolderInv'
    <2> SUFFICES ASSUME NEW d \in Buffer PROVE HolderOf(d)'
        BY DEF HolderInv
    <2>1. HolderOf(d)
        BY DEF NInv, HolderInv
    <2> QED BY <1>1, <1>3, <2>1 DEF HolderOf
<1>5. FlightInv'
    <2> SUFFICES ASSUME NEW r \in Stream, NEW k \in DOMAIN queue[r], NEW d \in Buffer,
                        queue[r][k] = d
                 PROVE  storage'[d] = "live" /\ Carried(d, r, k)'
        BY <1>1 DEF FlightInv
    <2>1. storage[d] = "live" /\ Carried(d, r, k) /\ d # b
        BY <1>1 DEF NInv, FlightInv
    <2>2. owner'[d] = owner[d] /\ storage'[d] = "live"
        BY <1>3, <2>1
    <2>3. ASSUME NEW u \in Thread, NEW j \in Nat, Guards(u, j, d, r), Awaits(u, j, r, k)
          PROVE  Guards(u, j, d, r)' /\ Awaits(u, j, r, k)'
        BY <1>1, <2>2, <2>3 DEF Guards, Keeps, Polls, Awaits, Behind
    <2>4. ASSUME NEW f \in Future, Leads(f, d, r), Behind(r, k, f)
          PROVE  Leads(f, d, r)' /\ Behind(r, k, f)'
        BY <1>1, <2>2, <2>4 DEF Leads, Behind
    <2> QED BY <2>1, <2>2, <2>3, <2>4 DEF Carried
<1> QED BY <1>4, <1>5

(* Who launches holds the buffer, in an execution or in a polled future,   *)
(* and so sees the end of this work and of what is on it already.          *)
LEMMA LaunchStep ==
    ASSUME NInv, NEW t \in Thread, NEW b \in Buffer, Launch(t, b)
    PROVE  HolderInv' /\ FlightInv'
<1>1. /\ at[t] = "running" /\ scopes[t] # <<>> /\ owner[b] \in {t} \cup Polled(t)
      /\ UNCHANGED <<scopes, at, quarantine, fut, handed, storage>>
    BY DEF Launch, InChain, InsideA, locals
<1>2. PICK i \in DOMAIN scopes[t] :
          /\ Chain(t) = scopes[t][i] /\ Chain(t) \in Scope
          /\ Chain(t).kind \in Terminal
    BY <1>1, ChainScope
<1>3. PICK c \in Scope : c = Chain(t)
    BY <1>2
<1>4. i \in Nat /\ scopes[t][i] = c /\ c.kind \in Terminal
    BY <1>2, <1>3, OneThread DEF NInv, TypesOf
<1>5. PICK s \in Stream : s = ChainStream(t) /\ s = ScopeStream(c)
    BY <1>1, <1>3, ChainPlaces DEF ChainStream, ScopeStream
<1>6. PICK o : o = IF c.kind = "poll" THEN c.on ELSE owner[b]
    OBVIOUS
<1>7. owner' = [owner EXCEPT ![b] = o]
    BY <1>3, <1>6 DEF Launch
<1>8. owner'[b] = o /\ \A d \in Buffer : d # b => owner'[d] = owner[d]
    BY <1>7 DEF NInv, DeviceTypes
<1>9. c.kind = "poll" => Polls(t, o)
    BY <1>2, <1>4, <1>6, ScopeFields DEF Polls
<1>10. /\ owner[b] = t \/ Polls(t, owner[b])
       /\ storage[b] = "live"
       /\ \A u \in Thread : b \notin quarantine[u]
       /\ \A f \in Future : b \notin handed[f]
    BY <1>1, Usable
<1>11. o = t \/ Polls(t, o)
    BY <1>6, <1>9, <1>10
<1>12. \A u \in Thread : \A x : Polls(u, x) => Polls(u, x)'
    BY <1>1 DEF Polls
<1>13. HolderInv'
    <2> SUFFICES ASSUME NEW d \in Buffer PROVE HolderOf(d)'
        BY DEF HolderInv
    <2>1. HolderOf(d)
        BY DEF NInv, HolderInv
    <2> QED BY <1>1, <1>8, <1>10, <2>1 DEF HolderOf
<1>14. ASSUME NEW r \in Stream, NEW k \in DOMAIN queue[r], NEW d \in Buffer,
              queue[r][k] = d,
              \A x \in Items : Behind(r, k, x) => Behind(r, k, x)'
       PROVE  storage'[d] = "live" /\ Carried(d, r, k)'
    <2>1. storage[d] = "live" /\ Carried(d, r, k)
        BY <1>14 DEF NInv, FlightInv
    <2>2. CASE d = b
        <3>1. PICK j \in Nat : Guards(t, j, b, r) /\ Awaits(t, j, r, k)
            BY <1>1, <2>1, <2>2, UsableWork
        <3>2. PICK e : e = scopes[t][j]
            OBVIOUS
        <3>3. Keeps(t, e, b)'
            <4>1. CASE c.kind = "poll"
                BY <1>8, <1>9, <1>12, <4>1 DEF Keeps
            <4>2. CASE c.kind # "poll"
                BY <1>1, <1>6, <1>8, <1>12, <3>1, <3>2, <4>2 DEF Guards, Keeps
            <4> QED BY <4>1, <4>2
        <3>4. Guards(t, j, b, r)'
            BY <1>1, <3>1, <3>2, <3>3 DEF Guards
        <3>5. Awaits(t, j, r, k)'
            BY <1>1 DEF Awaits
        <3> QED BY <1>1, <2>1, <2>2, <3>4, <3>5 DEF Carried
    <2>3. CASE d # b
        <3>1. owner'[d] = owner[d]
            BY <1>8, <2>3
        <3>2. ASSUME NEW u \in Thread, NEW j \in Nat, Guards(u, j, d, r), Awaits(u, j, r, k)
              PROVE  Guards(u, j, d, r)' /\ Awaits(u, j, r, k)'
            BY <1>1, <1>14, <3>1, <3>2 DEF Guards, Keeps, Polls, Awaits, Items
        <3>3. ASSUME NEW f \in Future, Leads(f, d, r), Behind(r, k, f)
              PROVE  Leads(f, d, r)' /\ Behind(r, k, f)'
            BY <1>1, <1>14, <3>1, <3>3 DEF Leads, Items
        <3> QED BY <1>1, <2>1, <3>2, <3>3 DEF Carried
    <2> QED BY <2>2, <2>3
<1>15. ASSUME UNCHANGED queue PROVE FlightInv'
    <2>1. \A r \in Stream : \A k, x : Behind(r, k, x) => Behind(r, k, x)'
        BY <1>15 DEF Behind
    <2> QED BY <1>14, <1>15, <2>1 DEF FlightInv
<1>16. ASSUME Enqueue(s, b), c.kind \in Guarded PROVE FlightInv'
    <2> SUFFICES ASSUME NEW r \in Stream, NEW k \in DOMAIN queue'[r], NEW d \in Buffer,
                        queue'[r][k] = d
                 PROVE  storage'[d] = "live" /\ Carried(d, r, k)'
        BY DEF FlightInv
    <2>1. /\ \/ k \in DOMAIN queue[r] /\ queue'[r][k] = queue[r][k]
             \/ r = s /\ d = b
          /\ k \in DOMAIN queue[r] =>
                \A x \in Items : Behind(r, k, x) => Behind(r, k, x)'
        BY <1>16, EnqueueStep DEF NInv, DeviceTypes, Items
    <2>2. CASE k \in DOMAIN queue[r] /\ queue'[r][k] = queue[r][k]
        BY <1>14, <2>1, <2>2
    <2>3. CASE r = s /\ d = b
        <3>1. c.kind = "poll" \/ c.kind = "sync"
            BY <1>16 DEF Guarded
        <3>2. Keeps(t, c, b)'
            BY <1>8, <1>9, <1>11, <1>12, <3>1 DEF Keeps
        <3>3. Guards(t, i, b, s)'
            BY <1>1, <1>2, <1>4, <1>5, <1>16, <3>2 DEF Guards
        <3>4. Awaits(t, i, s, k)'
            BY <1>1 DEF Awaits
        <3> QED BY <1>1, <1>4, <1>10, <2>3, <3>3, <3>4 DEF Carried
    <2> QED BY <2>1, <2>2, <2>3
<1>17. UNCHANGED queue \/ (Enqueue(s, b) /\ c.kind \in Guarded)
    <2>1. CASE s \in capturing
        BY <1>5, <2>1 DEF Launch
    <2>2. CASE s \notin capturing
        <3>1. c.kind # "capture"
            BY <1>2, <1>4, <1>5, <2>2 DEF NInv, ScopeInv, Claims, ScopeStream
        <3> QED BY <1>4, <1>5, <2>2, <3>1 DEF Launch, Terminal, Guarded
    <2> QED BY <2>1, <2>2
<1> QED BY <1>13, <1>15, <1>16, <1>17

LEMMA DeviceStep ==
    ASSUME NInv, NEW s \in Stream, Device(s)
    PROVE  HolderInv' /\ FlightInv'
<1>1. /\ queue[s] # <<>> /\ queue' = [queue EXCEPT ![s] = Tail(queue[s])]
      /\ UNCHANGED <<scopes, at, quarantine, fut, handed, owner, storage>>
    BY DEF Device, locals, buffers
<1>2. HolderInv'
    BY <1>1 DEF NInv, HolderInv, HolderOf
<1>3. PICK q \in Seq(Items) : q = queue[s]
    BY DEF NInv, DeviceTypes, Items
<1>4. /\ queue'[s] = Tail(q) /\ q # <<>>
      /\ \A r \in Stream : r # s => queue'[r] = queue[r]
    BY <1>1, <1>3 DEF NInv, DeviceTypes
<1>5. /\ Len(q) \in Nat /\ DOMAIN q = 1 .. Len(q) /\ DOMAIN Tail(q) = 1 .. Len(q) - 1
      /\ \A k \in 1 .. Len(q) - 1 : Tail(q)[k] = q[k + 1]
    BY <1>4
<1>6. ASSUME NEW r \in Stream, NEW k \in DOMAIN queue'[r]
      PROVE  \E m \in DOMAIN queue[r] :
                 /\ queue'[r][k] = queue[r][m]
                 /\ \A x \in Items : Behind(r, m, x) => Behind(r, k, x)'
    <2>1. CASE r # s
        BY <1>4, <2>1 DEF Behind
    <2>2. CASE r = s
        <3>1. /\ k \in 1 .. Len(q) - 1 /\ k + 1 \in DOMAIN queue[r]
              /\ queue'[r][k] = queue[r][k + 1]
            <4>1. queue'[r] = Tail(q) /\ queue[r] = q
                BY <1>3, <1>4, <2>2
            <4>2. k \in 1 .. Len(q) - 1
                BY <1>5, <4>1
            <4> QED BY <1>5, <4>1, <4>2
        <3>2. PICK m \in DOMAIN queue[r] : m = k + 1
            BY <3>1
        <3>3. ASSUME NEW x \in Items, Behind(r, m, x) PROVE Behind(r, k, x)'
            <4>1. PICK n \in DOMAIN queue[r] : n > m /\ queue[r][n] = x
                BY <3>3 DEF Behind
            <4>2. /\ n \in 1 .. Len(q) /\ n > k + 1 /\ k \in Nat
                BY <1>3, <1>5, <2>2, <3>1, <3>2, <4>1
            <4>3. PICK p \in DOMAIN queue'[r] : p = n - 1
                BY <1>4, <1>5, <2>2, <4>2
            <4>4. queue'[r] = Tail(q) /\ queue[r] = q
                BY <1>3, <1>4, <2>2
            <4>5. p \in 1 .. Len(q) - 1 /\ p + 1 = n /\ p > k
                BY <1>5, <4>2, <4>3, <4>4
            <4>6. queue'[r][p] = x
                BY <1>5, <4>1, <4>4, <4>5
            <4> QED BY <4>5, <4>6 DEF Behind
        <3> QED BY <3>1, <3>2, <3>3
    <2> QED BY <2>1, <2>2
<1>7. FlightInv'
    <2> SUFFICES ASSUME NEW r \in Stream, NEW k \in DOMAIN queue'[r], NEW b \in Buffer,
                        queue'[r][k] = b
                 PROVE  storage'[b] = "live" /\ Carried(b, r, k)'
        BY DEF FlightInv
    <2>1. PICK m \in DOMAIN queue[r] :
              /\ queue[r][m] = b
              /\ \A x \in Items : Behind(r, m, x) => Behind(r, k, x)'
        BY <1>6
    <2>2. storage[b] = "live" /\ Carried(b, r, m)
        BY <2>1 DEF NInv, FlightInv
    <2>3. ASSUME NEW u \in Thread, NEW j \in Nat, Guards(u, j, b, r), Awaits(u, j, r, m)
          PROVE  Guards(u, j, b, r)' /\ Awaits(u, j, r, k)'
        BY <1>1, <2>1, <2>3 DEF Guards, Keeps, Polls, Awaits, Items
    <2>4. ASSUME NEW f \in Future, Leads(f, b, r), Behind(r, m, f)
          PROVE  Leads(f, b, r)' /\ Behind(r, k, f)'
        BY <1>1, <2>1, <2>4 DEF Leads, Items
    <2> QED BY <1>1, <2>2, <2>3, <2>4 DEF Carried
<1> QED BY <1>2, <1>7

LEMMA SynchronizeStep ==
    ASSUME NInv, NEW t \in Thread, Synchronize(t)
    PROVE  HolderInv' /\ FlightInv'
<1>1. /\ at[t] = "running" /\ scopes[t] # <<>> /\ Inner(t).kind \in Guarded
      /\ UNCHANGED <<scopes, quarantine, fut, handed, owner, storage>>
    BY DEF Synchronize, InsideA, locals, buffers
<1>2. HolderInv'
    BY <1>1 DEF NInv, HolderInv, HolderOf
<1>3. PICK s \in Stream : s = ChainStream(t)
    BY <1>1, ChainPlaces
<1>4. PICK n \in DOMAIN scopes[t] :
          n = Len(scopes[t]) /\ ScopeStream(scopes[t][n]) = s
    <2>1. Inner(t).kind \in Terminal
        BY <1>1 DEF Guarded, Terminal
    <2> QED BY <1>1, <1>3, <2>1, ChainScope DEF ScopeStream, ChainStream
<1>5. ASSUME UNCHANGED <<at, queue>> PROVE FlightInv'
    BY <1>1, <1>5 DEF NInv, FlightInv, Carried, Guards, Keeps, Polls, Awaits, Leads, Behind
<1>6. ASSUME Enqueue(s, t), at' = [at EXCEPT ![t] = "proving"] PROVE FlightInv'
    <2> SUFFICES ASSUME NEW r \in Stream, NEW k \in DOMAIN queue'[r], NEW b \in Buffer,
                        queue'[r][k] = b
                 PROVE  storage'[b] = "live" /\ Carried(b, r, k)'
        BY DEF FlightInv
    <2>1. /\ \/ k \in DOMAIN queue[r] /\ queue'[r][k] = queue[r][k]
             \/ r = s /\ queue'[r][k] = t
          /\ k \in DOMAIN queue[r] =>
                \A x \in Items : Behind(r, k, x) => Behind(r, k, x)'
          /\ r = s /\ k \in DOMAIN queue[r] => Behind(r, k, t)'
        BY <1>6, EnqueueStep DEF NInv, DeviceTypes, Items
    <2>2. k \in DOMAIN queue[r] /\ queue[r][k] = b
        BY <2>1, NestedAssumption
    <2>3. storage[b] = "live" /\ Carried(b, r, k)
        BY <2>2 DEF NInv, FlightInv
    <2>4. \A u \in Thread : u # t => at'[u] = at[u]
        BY <1>6 DEF NInv, IInv, Types
    <2>5. ASSUME NEW u \in Thread, NEW j \in Nat, Guards(u, j, b, r), Awaits(u, j, r, k)
          PROVE  Guards(u, j, b, r)' /\ Awaits(u, j, r, k)'
        <3>1. Guards(u, j, b, r)'
            BY <1>1, <2>5 DEF Guards, Keeps, Polls
        <3>2. CASE u = t
            <4>1. j = n => r = s
                BY <1>4, <2>5, <3>2 DEF Guards
            <4> QED BY <1>1, <1>4, <2>1, <2>2, <3>1, <3>2, <4>1 DEF Awaits
        <3>3. CASE u # t
            BY <1>1, <2>1, <2>2, <2>4, <2>5, <3>1, <3>3 DEF Awaits, Items
        <3> QED BY <3>2, <3>3
    <2>6. ASSUME NEW f \in Future, Leads(f, b, r), Behind(r, k, f)
          PROVE  Leads(f, b, r)' /\ Behind(r, k, f)'
        BY <1>1, <2>1, <2>2, <2>6 DEF Leads, Items
    <2> QED BY <1>1, <2>3, <2>5, <2>6 DEF Carried
<1> QED BY <1>2, <1>3, <1>5, <1>6 DEF Synchronize

LEMMA DropStep ==
    ASSUME NInv, NEW t \in Thread, NEW b \in Buffer, Drop(t, b)
    PROVE  HolderInv' /\ FlightInv'
<1>1. /\ owner[b] \in {t} \cup Polled(t) /\ owner' = [owner EXCEPT ![b] = NoOwner]
      /\ UNCHANGED <<scopes, at, fut, handed, queue>>
    BY DEF Drop, device
<1>2. owner[b] # NoOwner
    BY <1>1, Usable
<1>3. owner'[b] = NoOwner /\ \A d \in Buffer : d # b => owner'[d] = owner[d]
    BY <1>1 DEF NInv, DeviceTypes
<1>4. \/ /\ depth[t] = 0 /\ storage'[b] = "freed" /\ UNCHANGED quarantine
         /\ \A d \in Buffer : d # b => storage'[d] = storage[d]
      \/ /\ depth[t] # 0 /\ quarantine'[t] = quarantine[t] \cup {b} /\ UNCHANGED storage
         /\ \A u \in Thread : u # t => quarantine'[u] = quarantine[u]
    BY DEF Drop, Released, NInv, IInv, Types, DeviceTypes
<1>5. HolderInv'
    <2> SUFFICES ASSUME NEW d \in Buffer PROVE HolderOf(d)'
        BY DEF HolderInv
    <2>1. HolderOf(d)
        BY DEF NInv, HolderInv
    <2>2. CASE d = b
        BY <1>1, <1>2, <1>3, <1>4, <2>1, <2>2 DEF HolderOf
    <2>3. CASE d # b
        BY <1>1, <1>3, <1>4, <2>1, <2>3 DEF HolderOf
    <2> QED BY <2>2, <2>3
<1>6. FlightInv'
    <2> SUFFICES ASSUME NEW s \in Stream, NEW k \in DOMAIN queue[s], NEW d \in Buffer,
                        queue[s][k] = d
                 PROVE  storage'[d] = "live" /\ Carried(d, s, k)'
        BY <1>1 DEF FlightInv
    <2>1. storage[d] = "live" /\ Carried(d, s, k)
        BY DEF NInv, FlightInv
    <2>2. CASE d = b
        <3>1. PICK i \in Nat : Guards(t, i, b, s) /\ Awaits(t, i, s, k)
            BY <1>1, <2>1, <2>2, UsableWork
        <3>2. depth[t] > 0
            BY <3>1, GuardedIsDeep DEF Guards, NInv
        <3>3. b \in quarantine'[t] /\ UNCHANGED storage
            BY <1>4, <3>2
        <3>4. Guards(t, i, b, s)' /\ Awaits(t, i, s, k)'
            BY <1>1, <3>1, <3>3 DEF Guards, Keeps, Awaits, Behind
        <3> QED BY <2>1, <2>2, <3>3, <3>4 DEF Carried
    <2>3. CASE d # b
        <3>1. storage'[d] = "live" /\ owner'[d] = owner[d]
            BY <1>3, <1>4, <2>1, <2>3
        <3>2. ASSUME NEW u \in Thread, NEW j \in Nat, Guards(u, j, d, s), Awaits(u, j, s, k)
              PROVE  Guards(u, j, d, s)' /\ Awaits(u, j, s, k)'
            BY <1>1, <1>4, <3>1, <3>2 DEF Guards, Keeps, Polls, Awaits, Behind
        <3>3. ASSUME NEW f \in Future, Leads(f, d, s), Behind(s, k, f)
              PROVE  Leads(f, d, s)' /\ Behind(s, k, f)'
            BY <1>1, <3>1, <3>3 DEF Leads, Behind
        <3> QED BY <2>1, <3>1, <3>2, <3>3 DEF Carried
    <2> QED BY <2>2, <2>3
<1> QED BY <1>5, <1>6

(* Work on a buffer that a pending future holds is in front of its mark.   *)
LEMMA PendingWork ==
    ASSUME NInv, NEW f \in Future, fut[f] = "pending", NEW b \in Buffer,
           owner[b] = f \/ b \in handed[f],
           NEW s \in Stream, NEW k, Carried(b, s, k)
    PROVE  Behind(s, k, f)
<1>1. HolderOf(b)
    BY DEF NInv, HolderInv
<1>2. f # NoOwner /\ f \notin Thread
    BY NestedAssumption
<1>3. \A t \in Thread : b \notin quarantine[t]
    BY <1>1, <1>2 DEF HolderOf
<1>4. owner[b] \in {f, NoOwner}
    BY <1>1 DEF HolderOf
<1>5. ASSUME NEW t \in Thread, NEW i \in Nat, Guards(t, i, b, s) PROVE FALSE
    <2>1. owner[b] = t \/ Polls(t, owner[b])
        BY <1>3, <1>5 DEF Guards, Keeps
    <2>2. CASE owner[b] = t
        BY <1>2, <1>4, <2>2, NestedAssumption
    <2>3. CASE Polls(t, owner[b])
        <3>1. owner[b] = f
            BY <1>4, <2>3, NestedAssumption DEF Polls
        <3> QED BY <2>3, <3>1, PolledOnce
    <2> QED BY <2>1, <2>2, <2>3
<1>6. ASSUME NEW g \in Future, Leads(g, b, s) PROVE g = f
    BY <1>1, <1>2, <1>6, NestedAssumption DEF Leads, HolderOf
<1> QED BY <1>5, <1>6, Carried(b, s, k) DEF Carried

LEMMA ResolveStep ==
    ASSUME NInv, NEW t \in Thread, NEW f \in Future, Resolve(t, f)
    PROVE  HolderInv' /\ FlightInv'
<1>1. /\ fut[f] = "pending"
      /\ UNCHANGED <<scopes, at, quarantine, queue>>
    BY DEF Resolve, locals, device
<1>2. CASE UNCHANGED <<fut, handed, owner, storage>>
    <2>1. Quiet
        BY <1>1, <1>2, StaySteady DEF Quiet
    <2> QED BY <2>1, QuietStep
<1>3. CASE /\ ~InFlight(f)
           /\ fut' = [fut EXCEPT ![f] = "over"]
           /\ Released(handed[f])
           /\ handed' = [handed EXCEPT ![f] = {}]
           /\ owner' = [b \in Buffer |-> IF owner[b] = f THEN t ELSE owner[b]]
    <2>1. /\ fut'[f] = "over" /\ handed'[f] = {}
          /\ \A g \in Future : g # f => fut'[g] = fut[g] /\ handed'[g] = handed[g]
          /\ \A b \in Buffer :
                /\ storage'[b] = IF b \in handed[f] THEN "freed" ELSE storage[b]
                /\ owner'[b] = IF owner[b] = f THEN t ELSE owner[b]
        BY <1>3 DEF Released, NInv, DeviceTypes
    <2>2. HolderInv'
        <3> SUFFICES ASSUME NEW b \in Buffer PROVE HolderOf(b)'
            BY DEF HolderInv
        <3>1. HolderOf(b) /\ f # NoOwner
            BY NestedAssumption DEF NInv, HolderInv
        <3>2. CASE b \in handed[f]
            BY <1>1, <2>1, <3>1, <3>2 DEF HolderOf
        <3>3. CASE b \notin handed[f]
            BY <1>1, <2>1, <3>1, <3>3 DEF HolderOf
        <3> QED BY <3>2, <3>3
    <2>3. FlightInv'
        <3> SUFFICES ASSUME NEW s \in Stream, NEW k \in DOMAIN queue[s], NEW b \in Buffer,
                            queue[s][k] = b
                     PROVE  storage'[b] = "live" /\ Carried(b, s, k)'
            BY <1>1 DEF FlightInv
        <3>1. storage[b] = "live" /\ Carried(b, s, k)
            BY DEF NInv, FlightInv
        <3>2. owner[b] # f /\ b \notin handed[f]
            BY <1>1, <1>3, <3>1, PendingWork, BehindIsInFlight
        <3>3. storage'[b] = "live" /\ owner'[b] = owner[b]
            BY <2>1, <3>1, <3>2
        <3>4. ASSUME NEW u \in Thread, NEW j \in Nat, Guards(u, j, b, s), Awaits(u, j, s, k)
              PROVE  Guards(u, j, b, s)' /\ Awaits(u, j, s, k)'
            BY <1>1, <3>3, <3>4 DEF Guards, Keeps, Polls, Awaits, Behind
        <3>5. ASSUME NEW g \in Future, Leads(g, b, s), Behind(s, k, g)
              PROVE  Leads(g, b, s)' /\ Behind(s, k, g)'
            BY <1>1, <2>1, <3>2, <3>3, <3>5 DEF Leads, Behind
        <3> QED BY <3>1, <3>3, <3>4, <3>5 DEF Carried
    <2> QED BY <2>2, <2>3
<1> QED BY <1>2, <1>3 DEF Resolve, buffers

LEMMA ProvenStep ==
    ASSUME NInv, NEW t \in Thread, Proven(t)
    PROVE  HolderInv' /\ FlightInv'
<1>1. /\ at[t] = "proving" /\ ~InFlight(t) /\ Pop(t)
      /\ at' = [at EXCEPT ![t] = "running"]
      /\ UNCHANGED <<handed, owner, queue>>
    BY DEF Proven, device
<1>2. /\ scopes[t] # <<>> /\ Inner(t).kind \in Guarded
      /\ scopes[t] \in Seq(Scope)
    BY <1>1, OneThread DEF NInv, ThreadInv, TypesOf, InsideA
<1>3. PICK n \in DOMAIN scopes[t] : n = Len(scopes[t]) /\ scopes[t][n].kind \in Guarded
    BY <1>2, InnerScope
<1>4. /\ at'[t] = "running" /\ scopes'[t] = Front(scopes[t])
      /\ \A u \in Thread : u # t => at'[u] = at[u] /\ scopes'[u] = scopes[u]
    BY <1>1 DEF Pop, NInv, IInv, Types
<1>5. \/ /\ depth[t] = 1 /\ quarantine'[t] = {}
         /\ \A u \in Thread : u # t => quarantine'[u] = quarantine[u]
         /\ \A b \in Buffer :
               storage'[b] = IF b \in quarantine[t] THEN "freed" ELSE storage[b]
      \/ depth[t] # 1 /\ UNCHANGED <<storage, quarantine>>
    BY DEF Proven, Released, NInv, IInv, Types
<1>6. \A f \in Future : fut[f] = "pending" <=> fut'[f] = "pending"
    <2> SUFFICES ASSUME NEW f \in Future PROVE fut[f] = "pending" <=> fut'[f] = "pending"
        OBVIOUS
    <2>1. fut'[f] = IF Inner(t) = [kind |-> "poll", on |-> f] THEN "over" ELSE fut[f]
        BY DEF Proven
    <2>2. [kind |-> "poll", on |-> f] \in Scope
        BY DEF Scope
    <2>3. Inner(t) = [kind |-> "poll", on |-> f] => fut[f] = "executing"
        BY <1>2, <2>2, InnerScope DEF NInv, ScopeInv, Claims
    <2> QED BY <2>1, <2>3
<1>7. HolderInv'
    <2> SUFFICES ASSUME NEW b \in Buffer PROVE HolderOf(b)'
        BY DEF HolderInv
    <2>1. HolderOf(b)
        BY DEF NInv, HolderInv
    <2> QED BY <1>1, <1>5, <1>6, <2>1 DEF HolderOf
<1>8. FlightInv'
    <2> SUFFICES ASSUME NEW s \in Stream, NEW k \in DOMAIN queue[s], NEW b \in Buffer,
                        queue[s][k] = b
                 PROVE  storage'[b] = "live" /\ Carried(b, s, k)'
        BY <1>1 DEF FlightInv
    <2>1. storage[b] = "live" /\ Carried(b, s, k) /\ HolderOf(b)
        BY DEF NInv, FlightInv, HolderInv
    <2>2. ASSUME NEW u \in Thread, NEW j \in Nat, Guards(u, j, b, s), Awaits(u, j, s, k)
          PROVE  storage'[b] = "live" /\ Carried(b, s, k)'
        <3>1. CASE u = t
            <4>1. j # n
                BY <1>1, <1>3, <2>2, <3>1, BehindIsInFlight DEF Awaits
            <4>2. UNCHANGED <<storage, quarantine>>
                <5>1. depth[t] = 1 => j = n
                    BY <1>3, <2>2, <3>1, GuardedIsDeep DEF Guards, NInv
                <5> QED BY <1>5, <4>1, <5>1
            <4>3. j \in DOMAIN Front(scopes[t]) /\ Front(scopes[t])[j] = scopes[t][j]
                BY <1>2, <1>3, <2>2, <3>1, <4>1 DEF Guards, Front
            <4>4. ASSUME Polls(t, owner[b]) PROVE Polls(t, owner[b])'
                <5>1. PICK f \in Future : f = owner[b]
                    BY <4>4 DEF Polls
                <5>2. PICK m \in DOMAIN scopes[t] :
                          scopes[t][m] = [kind |-> "poll", on |-> f]
                    BY <4>4, <5>1 DEF Polls
                <5>3. m # n
                    BY <1>1, <1>2, <1>3, <5>1, <5>2, InnerScope DEF NInv, ProvingInv
                <5>4. /\ m \in Nat /\ m \in DOMAIN Front(scopes[t])
                      /\ Front(scopes[t])[m] = scopes[t][m]
                    BY <1>2, <1>3, <5>2, <5>3 DEF Front
                <5> QED BY <1>1, <1>4, <5>1, <5>2, <5>4 DEF Polls
            <4>5. PICK c : c = scopes[t][j]
                OBVIOUS
            <4>6. Keeps(t, c, b)'
                BY <1>1, <2>2, <3>1, <4>2, <4>4, <4>5 DEF Guards, Keeps
            <4>7. Guards(t, j, b, s)' /\ Awaits(t, j, s, k)'
                BY <1>1, <1>4, <2>2, <3>1, <4>3, <4>5, <4>6 DEF Guards, Awaits
            <4> QED BY <2>1, <4>2, <4>7 DEF Carried
        <3>2. CASE u # t
            <4>1. b \notin quarantine[t]
                <5>1. owner[b] = u \/ owner[b] \in Future \/ b \in quarantine[u]
                    BY <2>2 DEF Guards, Keeps, Polls
                <5> QED BY <2>1, <3>2, <5>1, NestedAssumption DEF HolderOf
            <4>2. storage'[b] = "live" /\ quarantine'[u] = quarantine[u]
                BY <1>5, <2>1, <3>2, <4>1
            <4>3. Guards(u, j, b, s)' /\ Awaits(u, j, s, k)'
                BY <1>1, <1>4, <2>2, <3>2, <4>2 DEF Guards, Keeps, Polls, Awaits, Behind
            <4> QED BY <4>2, <4>3 DEF Carried
        <3> QED BY <3>1, <3>2
    <2>3. ASSUME NEW f \in Future, Leads(f, b, s), Behind(s, k, f)
          PROVE  storage'[b] = "live" /\ Carried(b, s, k)'
        <3>1. b \notin quarantine[t]
            BY <2>1, <2>3, NestedAssumption DEF Leads, HolderOf
        <3>2. storage'[b] = "live"
            BY <1>5, <2>1, <3>1
        <3>3. Leads(f, b, s)' /\ Behind(s, k, f)'
            BY <1>1, <1>6, <2>3 DEF Leads, Behind
        <3> QED BY <3>2, <3>3 DEF Carried
    <2> QED BY <2>1, <2>2, <2>3 DEF Carried
<1> QED BY <1>7, <1>8

LEMMA HandOverStep ==
    ASSUME NInv, NEW t \in Thread, HandOver(t), depth[t] = 1
    PROVE  HolderInv' /\ FlightInv'
<1>1. at[t] = "running" /\ scopes[t] # <<>> /\ Inner(t).kind = "poll"
    BY DEF HandOver, InsideA
<1>2. PICK f \in Future : f = Inner(t).on
    BY <1>1, InnerScope, ScopeFields
<1>3. PICK n \in DOMAIN scopes[t] :
          n = Len(scopes[t]) /\ scopes[t][n] = [kind |-> "poll", on |-> f]
    BY <1>1, <1>2, InnerScope, ScopeFields
<1>4. fut[f] = "executing"
    <2>1. [kind |-> "poll", on |-> f] \in Scope
        BY DEF Scope
    <2> QED BY <1>3, <2>1 DEF NInv, ScopeInv, Claims
<1>5. /\ Pop(t) /\ Enqueue(StreamOf[f], f)
      /\ UNCHANGED <<at, owner, storage>>
    BY <1>2 DEF HandOver, buffers
<1>6. /\ quarantine'[t] = {} /\ fut'[f] = "pending" /\ handed'[f] = quarantine[t]
      /\ \A u \in Thread : u # t => quarantine'[u] = quarantine[u]
      /\ \A g \in Future : g # f => fut'[g] = fut[g] /\ handed'[g] = handed[g]
    BY <1>2 DEF HandOver, NInv, IInv, Types, DeviceTypes
<1>7. \A u \in Thread : u # t => scopes'[u] = scopes[u]
    BY <1>5 DEF Pop, NInv, IInv, Types
<1>8. HolderInv'
    <2> SUFFICES ASSUME NEW b \in Buffer PROVE HolderOf(b)'
        BY DEF HolderInv
    <2>1. HolderOf(b)
        BY DEF NInv, HolderInv
    <2>2. b \notin handed[f]
        BY <1>4, <2>1 DEF HolderOf
    <2>3. CASE b \in quarantine[t]
        BY <1>5, <1>6, <2>1, <2>2, <2>3 DEF HolderOf
    <2>4. CASE b \notin quarantine[t]
        BY <1>5, <1>6, <2>1, <2>2, <2>4 DEF HolderOf
    <2> QED BY <2>3, <2>4
<1>9. PICK r \in Stream : r = StreamOf[f]
    BY NestedAssumption
<1>10. FlightInv'
    <2> SUFFICES ASSUME NEW s \in Stream, NEW k \in DOMAIN queue'[s], NEW b \in Buffer,
                        queue'[s][k] = b
                 PROVE  storage'[b] = "live" /\ Carried(b, s, k)'
        BY DEF FlightInv
    <2>1. /\ \/ k \in DOMAIN queue[s] /\ queue'[s][k] = queue[s][k]
             \/ s = r /\ queue'[s][k] = f
          /\ k \in DOMAIN queue[s] =>
                \A x \in Items : Behind(s, k, x) => Behind(s, k, x)'
          /\ s = r /\ k \in DOMAIN queue[s] => Behind(s, k, f)'
        BY <1>5, <1>9, EnqueueStep DEF NInv, DeviceTypes, Items
    <2>2. k \in DOMAIN queue[s] /\ queue[s][k] = b
        BY <2>1, NestedAssumption
    <2>3. storage[b] = "live" /\ Carried(b, s, k)
        BY <2>2 DEF NInv, FlightInv
    <2>4. ASSUME NEW u \in Thread, NEW j \in Nat, Guards(u, j, b, s), Awaits(u, j, s, k)
          PROVE  Carried(b, s, k)'
        <3>1. CASE u = t
            <4>1. j = n
                <5>1. scopes[t][n].kind \in Guarded
                    BY <1>3 DEF Guarded
                <5> QED BY <2>4, <3>1, <5>1, GuardedIsDeep DEF Guards, NInv
            <4>2. s = r /\ Keeps(t, scopes[t][n], b)
                BY <1>3, <1>9, <2>4, <3>1, <4>1 DEF Guards, ScopeStream
            <4>5. ASSUME Polls(t, owner[b]) PROVE owner[b] = f
                <5>1. PICK g \in Future : g = owner[b]
                    BY <4>5 DEF Polls
                <5>2. PICK m \in DOMAIN scopes[t] :
                          scopes[t][m] = [kind |-> "poll", on |-> g]
                    BY <4>5, <5>1 DEF Polls
                <5>3. scopes[t][m].kind \in Guarded /\ scopes[t][n].kind \in Guarded
                    BY <1>3, <5>2 DEF Guarded
                <5>4. m = n
                    BY <5>3, GuardedIsDeep DEF NInv
                <5> QED BY <1>3, <5>1, <5>2, <5>4
            <4>6. owner[b] = f \/ b \in quarantine[t]
                BY <1>3, <4>2, <4>5 DEF Keeps
            <4>3. Leads(f, b, s)'
                BY <1>5, <1>6, <1>9, <4>2, <4>6 DEF Leads
            <4> QED BY <2>1, <2>2, <4>2, <4>3 DEF Carried
        <3>2. CASE u # t
            <4>1. Guards(u, j, b, s)' /\ Awaits(u, j, s, k)'
                BY <1>5, <1>6, <1>7, <2>1, <2>2, <2>4, <3>2
                DEF Guards, Keeps, Polls, Awaits, Items
            <4> QED BY <4>1 DEF Carried
        <3> QED BY <3>1, <3>2
    <2>5. ASSUME NEW g \in Future, Leads(g, b, s), Behind(s, k, g)
          PROVE  Carried(b, s, k)'
        <3>1. g # f
            BY <1>4, <2>5 DEF Leads
        <3>2. Leads(g, b, s)' /\ Behind(s, k, g)'
            BY <1>5, <1>6, <2>1, <2>2, <2>5, <3>1 DEF Leads, Items
        <3> QED BY <3>2 DEF Carried
    <2> QED BY <1>5, <2>3, <2>4, <2>5 DEF Carried
<1> QED BY <1>8, <1>10

-----------------------------------------------------------------------------
(* All steps.                                                              *)
LEMMA ClaimsStay ==
    ASSUME UNCHANGED <<fut, capturing>>
    PROVE  KeepsClaims
BY DEF KeepsClaims, Claims

LEMMA EnterNest ==
    ASSUME NInv, NEW t \in Thread, Enter(t)
    PROVE  ChainInv' /\ ScopeInv' /\ HolderInv' /\ FlightInv'
<1> DEFINE Goal == ChainInv' /\ ScopeInv' /\ HolderInv' /\ FlightInv'
<1> USE DEF locals, buffers, device
<1>1. scopes[t] = <<>> => ~lock[t]
    BY ChainIsLocked DEF NInv, InChain, InsideA
<1>2. ASSUME NEW s \in Stream, SyncOn(t, s) PROVE Goal
    <2>1. PICK c \in Scope : c = [kind |-> "sync", on |-> s]
        BY DEF Scope
    <2>2. Push(t, c) /\ at[t] = "running" /\ UNCHANGED <<at, fut, capturing>>
        BY <1>2, <2>1 DEF SyncOn
    <2>3. ChainInv' /\ ScopeInv'
        BY <2>1, <2>2, ClaimsStay, PushScopes DEF Terminal
    <2>4. Quiet
        BY <1>2, <2>2, PushSteady DEF SyncOn, Quiet
    <2> QED BY <2>3, <2>4, QuietStep
<1>3. ASSUME NEW o \in Memo, ExecuteHandle(t, o) PROVE Goal
    <2>1. UNCHANGED <<fut, capturing>> /\ scopes[t] # <<>> /\ at[t] = "running"
        BY <1>3 DEF ExecuteHandle, InChain, InsideA
    <2>2. CASE Push(t, [kind |-> "memo", on |-> o]) /\ UNCHANGED at
        <3>1. PICK c \in Scope : c = [kind |-> "memo", on |-> o]
            BY DEF Scope
        <3>2. ChainInv' /\ ScopeInv'
            BY <2>1, <2>2, <3>1, ClaimsStay, PushScopes
        <3>3. Quiet
            BY <1>3, <2>1, <2>2, <3>1, PushSteady DEF ExecuteHandle, Quiet
        <3> QED BY <3>2, <3>3, QuietStep
    <2>3. CASE at' = [at EXCEPT ![t] = o] /\ UNCHANGED scopes
        <3>1. at' = [at EXCEPT ![t] = at'[t]] /\ at'[t] # "proving"
            BY <2>3, NestedAssumption DEF NInv, IInv, Types
        <3>2. ChainInv' /\ ScopeInv'
            BY <2>1, <2>3, ClaimsStay, StayScopes
        <3>3. Quiet
            BY <1>3, <2>3, <3>1, StaySteady DEF ExecuteHandle, Quiet
        <3> QED BY <3>2, <3>3, QuietStep
    <2> QED BY <1>3, <2>2, <2>3 DEF ExecuteHandle
<1>4. ASSUME NEW f \in Future, Resolve(t, f) PROVE Goal
    <2>1. KeepsClaims
        <3>1. \A g \in Future : fut[g] = "executing" => fut'[g] = "executing"
            BY <1>4 DEF Resolve, NInv, DeviceTypes
        <3> QED BY <1>4, <3>1, ScopeFields DEF KeepsClaims, Claims, Resolve
    <2>2. UNCHANGED scopes
        BY <1>4 DEF Resolve
    <2> QED BY <1>4, <2>1, <2>2, StayScopes, ResolveStep
<1>5. ASSUME NEW b \in Buffer, Drop(t, b) PROVE Goal
    <2>1. UNCHANGED <<scopes, fut, capturing>>
        BY <1>5 DEF Drop
    <2> QED BY <1>5, <2>1, ClaimsStay, StayScopes, DropStep
<1>6. ASSUME DriverError(t) PROVE Goal
    <2>1. UNCHANGED <<scopes, fut, capturing, at, quarantine, handed, owner, storage, queue>>
        BY <1>6 DEF DriverError
    <2>2. Quiet
        BY <2>1, StaySteady DEF Quiet
    <2> QED BY <2>1, <2>2, ClaimsStay, StayScopes, QuietStep
<1>7. ASSUME NEW s \in Stream, Capture(t, s) PROVE Goal
    <2>1. PICK c \in Scope : c = [kind |-> "capture", on |-> s]
        BY DEF Scope
    <2>2. /\ Push(t, c) /\ at[t] = "running" /\ s \notin capturing
          /\ capturing' = capturing \cup {s}
          /\ UNCHANGED <<at, fut, quarantine, handed, owner, storage, queue>>
        BY <1>7, <2>1 DEF Capture
    <2>3. ~Claims(c) /\ Claims(c)' /\ KeepsClaims
        BY <2>1, <2>2 DEF Claims, KeepsClaims
    <2>4. ChainInv' /\ ScopeInv'
        BY <2>1, <2>2, <2>3, PushScopes DEF Terminal
    <2>5. Quiet
        BY <2>2, PushSteady DEF Quiet
    <2> QED BY <2>4, <2>5, QuietStep
<1>8. ASSUME NEW f \in Future, FirstPoll(t, f) PROVE Goal
    <2>1. /\ fut[f] = "new" /\ at[t] = "running"
          /\ UNCHANGED <<at, capturing, quarantine, handed, owner, storage, queue>>
        BY <1>8 DEF FirstPoll
    <2>2. /\ fut'[f] \in {"over", "executing"}
          /\ \A g \in Future : g # f => fut'[g] = fut[g]
        BY <1>8 DEF FirstPoll, NInv, DeviceTypes
    <2>3. KeepsClaims
        <3>1. \A g \in Future : fut[g] = "executing" => fut'[g] = "executing"
            BY <2>1, <2>2
        <3> QED BY <2>1, <3>1, ScopeFields DEF KeepsClaims, Claims
    <2>4. CASE lock[t]
        <3>1. UNCHANGED scopes
            BY <1>8, <2>4 DEF FirstPoll
        <3>2. Quiet
            BY <2>1, <2>2, <3>1, StaySteady DEF Quiet
        <3> QED BY <2>3, <3>1, <3>2, StayScopes, QuietStep
    <2>5. CASE ~lock[t]
        <3>1. PICK c \in Scope : c = [kind |-> "poll", on |-> f]
            BY DEF Scope
        <3>2. Push(t, c) /\ fut'[f] = "executing"
            BY <1>8, <2>5, <3>1 DEF FirstPoll, NInv, DeviceTypes
        <3>3. ~Claims(c) /\ Claims(c)'
            BY <2>1, <3>1, <3>2 DEF Claims
        <3>4. ChainInv' /\ ScopeInv'
            BY <2>3, <3>1, <3>2, <3>3, PushScopes DEF Terminal
        <3>5. Quiet
            BY <2>1, <2>2, <3>2, PushSteady DEF Quiet
        <3> QED BY <3>4, <3>5, QuietStep
    <2> QED BY <2>4, <2>5
<1>9. ASSUME NEW b \in Buffer, Allocate(t, b) \/ Launch(t, b) PROVE Goal
    <2>1. UNCHANGED <<scopes, fut, capturing>>
        BY <1>9 DEF Allocate, Launch
    <2> QED BY <1>9, <2>1, ClaimsStay, StayScopes, AllocateStep, LaunchStep
<1>12. ASSUME NEW b \in Buffer, TransferFails(t, b) PROVE Goal
    <2>1. UNCHANGED <<scopes, fut, capturing, at, quarantine, handed, owner, storage, queue>>
        BY <1>12 DEF TransferFails
    <2>2. Quiet
        BY <2>1, StaySteady DEF Quiet
    <2> QED BY <2>1, <2>2, ClaimsStay, StayScopes, QuietStep
<1>10. ASSUME OpenClosure(t) PROVE Goal
    <2>1. lock[t] \in BOOLEAN
        BY OneThread DEF NInv, TypesOf
    <2>2. PICK c \in Scope : c = [kind |-> "closure", held |-> lock[t]]
        BY <2>1 DEF Scope
    <2>3. /\ Push(t, c) /\ at[t] = "running" /\ scopes[t] # <<>>
          /\ UNCHANGED <<at, fut, capturing, quarantine, handed, owner, storage, queue>>
        BY <1>10, <2>2 DEF OpenClosure, InChain, InsideA
    <2>4. ChainInv' /\ ScopeInv'
        BY <2>2, <2>3, ClaimsStay, PushScopes
    <2>5. Quiet
        BY <2>3, PushSteady DEF Quiet
    <2> QED BY <2>4, <2>5, QuietStep
<1>11. ASSUME Panic(t) PROVE Goal
    <2>1. UNCHANGED <<scopes, fut, capturing, quarantine, handed, owner, storage, queue>>
        BY <1>11 DEF Panic
    <2>2. at' = [at EXCEPT ![t] = at'[t]] /\ at'[t] # "proving"
        BY <1>11 DEF Panic, NInv, IInv, Types
    <2>3. Quiet
        BY <2>1, <2>2, StaySteady DEF Quiet
    <2> QED BY <2>1, <2>3, ClaimsStay, StayScopes, QuietStep
<1> QED BY <1>2, <1>3, <1>4, <1>5, <1>6, <1>7, <1>8, <1>9, <1>10, <1>11, <1>12 DEF Enter

(* A scope that is no guarded terminal is left.                            *)
LEMMA LeaveQuietly ==
    ASSUME NInv, NEW t \in Thread, scopes[t] # <<>>, Pop(t), Inner(t).kind \notin Guarded,
           UNCHANGED <<at, fut, quarantine, handed, owner, storage, queue>>,
           \/ UNCHANGED capturing
           \/ Inner(t).kind = "capture" /\ capturing' = capturing \ {Inner(t).on}
    PROVE  ChainInv' /\ ScopeInv' /\ HolderInv' /\ FlightInv'
<1>1. ASSUME NEW d \in Scope, Claims(d), d # Inner(t) PROVE Claims(d)'
    <2>1. Inner(t) \in Scope
        BY InnerScope
    <2>2. d.kind = "capture" /\ Inner(t).kind = "capture" => d.on # Inner(t).on
        BY <1>1, <2>1, ScopeFields
    <2> QED BY <1>1, <2>2 DEF Claims
<1>2. Quiet
    BY PopSteady DEF Quiet
<1> QED BY <1>1, <1>2, PopScopes, QuietStep

LEMMA LeaveNest ==
    ASSUME NInv, NEW t \in Thread, Leave(t)
    PROVE  ChainInv' /\ ScopeInv' /\ HolderInv' /\ FlightInv'
<1> USE DEF locals, buffers, device
<1>1. CASE CloseClosure(t)
    BY <1>1, LeaveQuietly DEF CloseClosure, InsideA, Guarded
<1>2. CASE Settle(t)
    BY <1>2, LeaveQuietly DEF Settle, InsideA, Guarded
<1>3. CASE Resume(t)
    <2>1. UNCHANGED <<scopes, fut, capturing, quarantine, handed, owner, storage, queue>>
        BY <1>3 DEF Resume
    <2>2. at' = [at EXCEPT ![t] = at'[t]] /\ at'[t] # "proving"
        BY <1>3 DEF Resume, NInv, IInv, Types
    <2>3. Quiet
        BY <2>1, <2>2, StaySteady DEF Quiet
    <2> QED BY <2>1, <2>3, ClaimsStay, StayScopes, QuietStep
<1>4. CASE Synchronize(t)
    <2>1. UNCHANGED <<scopes, fut, capturing>>
        BY <1>4 DEF Synchronize
    <2> QED BY <1>4, <2>1, ClaimsStay, StayScopes, SynchronizeStep
<1>5. CASE Proven(t)
    <2>1. scopes[t] # <<>> /\ Pop(t) /\ UNCHANGED capturing
        BY <1>5, OneThread DEF Proven, NInv, ThreadInv, InsideA
    <2>2. ASSUME NEW d \in Scope, Claims(d), d # Inner(t) PROVE Claims(d)'
        <3>1. ASSUME d.kind = "poll" PROVE fut'[d.on] = fut[d.on]
            <4>1. d.on \in Future /\ d = [kind |-> "poll", on |-> d.on]
                BY <3>1, ScopeFields
            <4>2. Inner(t) # [kind |-> "poll", on |-> d.on]
                BY <2>2, <4>1
            <4> QED BY <1>5, <4>1, <4>2 DEF Proven
        <3> QED BY <2>1, <2>2, <3>1 DEF Claims
    <2> QED BY <1>5, <2>1, <2>2, PopScopes, ProvenStep
<1>6. CASE HandOver(t)
    <2>1. CASE depth[t] # 1
        <3>1. UNCHANGED <<scopes, at, fut, capturing, quarantine, handed, owner, storage, queue>>
            BY <1>6, <2>1 DEF HandOver
        <3>2. Quiet
            BY <3>1, StaySteady DEF Quiet
        <3> QED BY <3>1, <3>2, ClaimsStay, StayScopes, QuietStep
    <2>2. CASE depth[t] = 1
        <3>1. /\ scopes[t] # <<>> /\ Pop(t) /\ UNCHANGED capturing
              /\ Inner(t).kind = "poll"
              /\ fut' = [fut EXCEPT ![Inner(t).on] = "pending"]
            BY <1>6, <2>2 DEF HandOver, InsideA
        <3>2. ASSUME NEW d \in Scope, Claims(d), d # Inner(t) PROVE Claims(d)'
            <4>1. Inner(t) \in Scope /\ Inner(t) = [kind |-> "poll", on |-> Inner(t).on]
                BY <3>1, InnerScope, ScopeFields
            <4>2. ASSUME d.kind = "poll" PROVE fut'[d.on] = fut[d.on]
                <5>1. d.on \in Future /\ d = [kind |-> "poll", on |-> d.on]
                    BY <4>2, ScopeFields
                <5>2. d.on # Inner(t).on
                    BY <3>2, <4>1, <5>1
                <5> QED BY <3>1, <5>1, <5>2 DEF NInv, DeviceTypes
            <4> QED BY <3>1, <3>2, <4>2 DEF Claims
        <3> QED BY <1>6, <2>2, <3>1, <3>2, PopScopes, HandOverStep
    <2> QED BY <2>1, <2>2
<1>7. CASE EndCapture(t)
    BY <1>7, LeaveQuietly DEF EndCapture, InsideA, Guarded
<1>8. CASE Unwind(t)
    <2>1. UNCHANGED <<fut, quarantine, handed, owner, storage, queue>> /\ at[t] = "unwinding"
        BY <1>8 DEF Unwind
    <2>2. CASE /\ at' = at \/ at' = [at EXCEPT ![t] = "running"]
               /\ UNCHANGED <<scopes, capturing>>
        <3>1. UNCHANGED at \/ (at' = [at EXCEPT ![t] = at'[t]] /\ at'[t] # "proving")
            BY <2>2 DEF NInv, IInv, Types
        <3>2. Quiet
            BY <2>1, <2>2, <3>1, StaySteady DEF Quiet
        <3> QED BY <2>1, <2>2, <3>2, ClaimsStay, StayScopes, QuietStep
    <2>3. CASE InsideA(t, {"closure", "memo"}) /\ Pop(t) /\ UNCHANGED <<at, capturing>>
        BY <2>1, <2>3, LeaveQuietly DEF InsideA, Guarded
    <2>4. CASE InsideA(t, {"capture"}) /\ Pop(t) /\ UNCHANGED at
               /\ capturing' = capturing \ {Inner(t).on}
        BY <2>1, <2>4, LeaveQuietly DEF InsideA, Guarded
    <2> QED BY <1>8, <2>2, <2>3, <2>4 DEF Unwind, InsideA
<1> QED BY <1>1, <1>2, <1>3, <1>4, <1>5, <1>6, <1>7, <1>8 DEF Leave

(* Nobody hands a value to a future while a thread waits for its proof:    *)
(* only the thread that polls a future does, and only while it runs.       *)
LEMMA ProvingStep ==
    ASSUME NInv, IInv',
           \A u \in Thread : at'[u] = "proving" =>
               /\ scopes'[u] = scopes[u]
               /\ \/ at[u] = "proving"
                  \/ \A f \in Future : Inner(u) = [kind |-> "poll", on |-> f] =>
                         \A b \in Buffer : owner[b] # f,
           \A b \in Buffer :
               \/ owner'[b] = owner[b]
               \/ owner'[b] \notin Future
               \/ \E t \in Thread : at'[t] # "proving" /\ Polls(t, owner'[b])
    PROVE  ProvingInv'
<1> SUFFICES ASSUME NEW u \in Thread, NEW f \in Future, NEW b \in Buffer,
                    at'[u] = "proving", Inner(u)' = [kind |-> "poll", on |-> f],
                    owner'[b] = f
             PROVE  FALSE
    BY DEF ProvingInv
<1>1. scopes'[u] = scopes[u] /\ Inner(u) = [kind |-> "poll", on |-> f]
    BY DEF Inner
<1>2. owner[b] # f
    BY <1>1 DEF NInv, ProvingInv
<1>3. PICK t \in Thread : at'[t] # "proving" /\ Polls(t, f)
    BY <1>2
<1>4. scopes[u] # <<>>
    BY <1>1 DEF IInv, ThreadInv, InsideA
<1>5. Polls(u, f)
    BY <1>1, <1>4, InnerScope, OneThread DEF Polls, NInv, TypesOf
<1> QED BY <1>3, <1>5, PolledOnce

LEMMA EnterProving ==
    ASSUME NInv, IInv', NEW t \in Thread, Enter(t)
    PROVE  ProvingInv'
<1> USE DEF locals, buffers, device
<1>1. ASSUME UNCHANGED owner,
             \/ DriverError(t) \/ OpenClosure(t) \/ Panic(t)
             \/ \E s \in Stream : SyncOn(t, s) \/ Capture(t, s)
             \/ \E o \in Memo : ExecuteHandle(t, o)
             \/ \E f \in Future : FirstPoll(t, f)
             \/ \E b \in Buffer : TransferFails(t, b)
      PROVE  ProvingInv'
    <2>1. \A u \in Thread : at'[u] = "proving" => scopes'[u] = scopes[u] /\ at[u] = "proving"
        <3> SUFFICES ASSUME NEW u \in Thread, at'[u] = "proving"
                     PROVE  scopes'[u] = scopes[u] /\ at[u] = "proving"
            OBVIOUS
        <3>1. at[u] = "proving"
            <4>1. \/ UNCHANGED at
                  \/ at' = [at EXCEPT ![t] = "unwinding"]
                  \/ \E o \in Memo : at' = [at EXCEPT ![t] = o]
                BY <1>1
                DEF DriverError, OpenClosure, Panic, SyncOn, Capture, ExecuteHandle,
                    FirstPoll, TransferFails
            <4>2. at \in [Thread -> Places] /\ "proving" \notin Memo
                BY NestedAssumption DEF NInv, IInv, Types, Places
            <4> QED BY <4>1, <4>2
        <3>2. scopes' = scopes \/ (at[t] = "running" /\ \E c : Push(t, c))
            BY <1>1
            DEF DriverError, OpenClosure, Panic, SyncOn, Capture, ExecuteHandle, FirstPoll,
                TransferFails
        <3>3. u # t => scopes'[u] = scopes[u]
            BY <3>2 DEF Push, NInv, IInv, Types
        <3> QED BY <3>1, <3>2, <3>3
    <2> QED BY <1>1, <2>1, ProvingStep
<1>2. ASSUME NEW f \in Future, Resolve(t, f) PROVE ProvingInv'
    <2>1. UNCHANGED <<scopes, at>>
        BY <1>2 DEF Resolve
    <2>2. \A b \in Buffer : owner'[b] = owner[b] \/ owner'[b] \notin Future
        BY <1>2, NestedAssumption DEF Resolve
    <2> QED BY <2>1, <2>2, ProvingStep
<1>3. ASSUME NEW b \in Buffer, Drop(t, b) PROVE ProvingInv'
    <2>1. UNCHANGED <<scopes, at>>
        BY <1>3 DEF Drop
    <2>2. \A d \in Buffer : owner'[d] = owner[d] \/ owner'[d] \notin Future
        BY <1>3, NestedAssumption DEF Drop, NInv, DeviceTypes
    <2> QED BY <2>1, <2>2, ProvingStep
<1>4. ASSUME NEW b \in Buffer, Allocate(t, b) \/ Launch(t, b) PROVE ProvingInv'
    <2>1. UNCHANGED <<scopes, at>> /\ at[t] = "running" /\ scopes[t] # <<>>
        BY <1>4 DEF Allocate, Launch, InChain, InsideA
    <2>2. PICK i \in DOMAIN scopes[t] : Chain(t) = scopes[t][i] /\ Chain(t) \in Scope
        BY <2>1, ChainScope
    <2>3. PICK c \in Scope : c = Chain(t) /\ c = scopes[t][i]
        BY <2>2
    <2>4. i \in Nat
        BY OneThread DEF NInv, TypesOf
    <2>5. c.kind = "poll" => Polls(t, c.on)
        BY <2>3, <2>4, ScopeFields DEF Polls
    <2>6. owner'[b] \in {owner[b], t} \/ (c.kind = "poll" /\ owner'[b] = c.on)
        BY <1>4, <2>3 DEF Allocate, Launch, ChainOwner, NInv, DeviceTypes
    <2>7. \A d \in Buffer : d # b => owner'[d] = owner[d]
        BY <1>4 DEF Allocate, Launch, NInv, DeviceTypes
    <2>8. t \notin Future
        BY NestedAssumption
    <2> QED BY <2>1, <2>5, <2>6, <2>7, <2>8, ProvingStep
<1> QED BY <1>1, <1>2, <1>3, <1>4
        DEF Enter, DriverError, OpenClosure, Panic, SyncOn, Capture, ExecuteHandle,
            FirstPoll, TransferFails

LEMMA LeaveProving ==
    ASSUME NInv, IInv', NEW t \in Thread, Leave(t)
    PROVE  ProvingInv'
<1> USE DEF locals, buffers, device
<1>1. UNCHANGED owner
    BY DEF Leave, CloseClosure, Settle, Resume, Synchronize, Proven, HandOver, EndCapture,
           Unwind
<1>2. CASE Synchronize(t)
    <2>1. UNCHANGED scopes /\ \A u \in Thread : u # t => at'[u] = at[u]
        BY <1>2 DEF Synchronize, NInv, IInv, Types
    <2>2. \A f \in Future : Inner(t) = [kind |-> "poll", on |-> f] =>
              \A b \in Buffer : owner[b] # f
        BY <1>2 DEF Synchronize
    <2> QED BY <1>1, <2>1, <2>2, ProvingStep
<1>3. CASE ~Synchronize(t)
    <2>1. at'[t] # "proving" /\ \A u \in Thread : u # t => at'[u] = at[u]
        <3>1. at[t] # "proving" \/ at'[t] = "running"
            BY <1>3 DEF Leave, CloseClosure, Settle, Resume, Proven, HandOver, EndCapture,
                        Unwind, NInv, IInv, Types
        <3>2. at' = at \/ at' = [at EXCEPT ![t] = "running"]
            BY <1>3 DEF Leave, CloseClosure, Settle, Resume, Proven, HandOver, EndCapture,
                        Unwind
        <3> QED BY <3>1, <3>2 DEF NInv, IInv, Types
    <2>2. scopes' = scopes \/ Pop(t)
        BY <1>3 DEF Leave, CloseClosure, Settle, Resume, Proven, HandOver, EndCapture, Unwind
    <2>3. \A u \in Thread : u # t => scopes'[u] = scopes[u]
        BY <2>2 DEF Pop, NInv, IInv, Types
    <2> QED BY <1>1, <2>1, <2>3, ProvingStep
<1> QED BY <1>2, <1>3

LEMMA DeviceNest ==
    ASSUME NInv, NEW s \in Stream, Device(s)
    PROVE  ChainInv' /\ ScopeInv' /\ HolderInv' /\ FlightInv'
<1>1. UNCHANGED <<scopes, fut, capturing>>
    BY DEF Device
<1> QED BY <1>1, ClaimsStay, StayScopes, DeviceStep

LEMMA InitNInv == Init => NInv
<1> SUFFICES ASSUME Init PROVE NInv
    OBVIOUS
<1>1. DeviceTypes
    BY NestedAssumption DEF Init, DeviceTypes
<1>2. ChainInv /\ ScopeInv /\ FlightInv
    BY DEF Init, ChainInv, Chained, ScopeInv, FlightInv
<1>3. HolderInv
    BY DEF Init, HolderInv, HolderOf
<1>4. ProvingInv
    BY DEF Init, ProvingInv
<1> QED BY <1>1, <1>2, <1>3, <1>4, InitIInv DEF NInv

LEMMA NextNInv == NInv /\ [Next]_vars => NInv'
<1> SUFFICES ASSUME NInv, [Next]_vars PROVE NInv'
    OBVIOUS
<1>1. IInv'
    BY NextIInv DEF NInv
<1>2. CASE UNCHANGED vars
    <2>1. UNCHANGED <<scopes, at, fut, capturing, quarantine, handed, owner, storage, queue>>
          /\ UNCHANGED <<budget, once, aborted>>
        BY <1>2 DEF vars, locals, buffers, device
    <2>2. Quiet
        BY <2>1 DEF Quiet, Steady
    <2>3. DeviceTypes'
        BY <2>1 DEF NInv, DeviceTypes
    <2>4. ProvingInv'
        BY <2>1 DEF NInv, ProvingInv, Inner
    <2> QED BY <1>1, <2>1, <2>2, <2>3, <2>4, ClaimsStay, StayScopes, QuietStep DEF NInv
<1>3. ASSUME NEW t \in Thread, Enter(t) PROVE NInv'
    BY <1>1, <1>3, EnterTypes, EnterNest, EnterProving DEF NInv
<1>4. ASSUME NEW t \in Thread, Leave(t) PROVE NInv'
    BY <1>1, <1>4, LeaveTypes, LeaveNest, LeaveProving DEF NInv
<1>5. ASSUME NEW s \in Stream, Device(s) PROVE NInv'
    <2>1. ProvingInv'
        BY <1>5 DEF Device, buffers, NInv, ProvingInv, Inner
    <2> QED BY <1>1, <1>5, <2>1, DeviceTypesStep, DeviceNest DEF NInv
<1> QED BY <1>2, <1>3, <1>4, <1>5 DEF Next

(* For any threads, futures, streams, buffers and memoized operations:     *)
(* every buffer has one holder, a future is polled and a stream captured   *)
(* in one scope, a failed poll leaves no value behind, and work in flight  *)
(* is under a terminal or a future that will see it end before the buffer  *)
(* can be freed.                                                           *)
THEOREM NestedInvariant == Spec => []NInv
BY InitNInv, NextNInv, PTL DEF Spec

(* Every variable keeps its type.                                          *)
THEOREM NestedTypes == Spec => []TypeOK
<1>1. NInv => TypeOK
    BY DEF NInv, IInv, Types, DeviceTypes, TypeOK
<1> QED BY <1>1, NestedInvariant, PTL

(* Storage is never freed under work in flight: not by the end of a nested *)
(* execution on another stream, a hand-over to a future, a drop in or      *)
(* outside an execution, an error or a panic (fault_policy.rs,             *)
(* device_buffer.rs).                                                      *)
THEOREM NestedReleasesAfterWork == Spec => []ReleasedAfterWork
<1>1. NInv => ReleasedAfterWork
    BY InFlightIsLive DEF ReleasedAfterWork
<1> QED BY <1>1, NestedInvariant, PTL
=============================================================================
