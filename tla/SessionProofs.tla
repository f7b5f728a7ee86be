--------------------------- MODULE SessionProofs ----------------------------
(***************************************************************************)
(* The safety of a session, for any callers, buffers, shapes and limits:   *)
(* no buffer is freed under work that touches it, no two items of work     *)
(* conflict, what is published is whole, and the charges are those of the  *)
(* abstract budget.                                                        *)
(*                                                                         *)
(* The argument is about ownership.  A frame keeps the buffers it owns or  *)
(* still has to destroy or give back, and borrows those of its caller; the *)
(* buffers kept by different frames are apart, and work in the stream is   *)
(* that of frames that still hold its buffers.                             *)
(***************************************************************************)
EXTENDS Session, FiniteSetTheorems, TLAPS

Destructor == ({"free", "uncharge"} \X Buf) \cup {<<"unadmit", NoBuf>>}

(* The destructors in a list, a list without repetition, and one in which  *)
(* no storage outlives its charge.                                         *)
Els(q) == {q[i] : i \in DOMAIN q}
Tidy(q) == q \in Seq(Destructor) /\ \A i, j \in DOMAIN q : q[i] = q[j] => i = j
InOrder(q) ==
    \A b \in Buf : \A i, j \in DOMAIN q :
        i < j => ~(q[i] = <<"uncharge", b>> /\ q[j] = <<"free", b>>)

(* A frame that has not begun to return, or whose step goes on.            *)
Live(f) == \/ f.pc \notin {"idle", "dropping"}
           \/ f.pc = "dropping" /\ f.op = "step" /\ f.ok

Active == {"submitted", "pending", "draining", "forgotten"}

FrameArgs(f) == {f.src, f.rhs, f.out} \ {NoBuf}

Owned(f) ==
    {b \in Buf : \/ b = f.out /\ (f.op \in Uploads \/ f.owned)
                 \/ f.op = "async" /\ b \in {f.src, f.rhs, f.out}
                 \/ f.op = "into_host" /\ b = f.src}

Dropped(f) ==
    {b \in Buf : <<"free", b>> \in Els(f.drops) \/ <<"uncharge", b>> \in Els(f.drops)}

Keep(f) == IF Live(f) THEN Owned(f) ELSE Dropped(f) \cup f.gives

(* step_into and laplacian_into have `&mut out`.                           *)
Lends(f) == f.op \in Steps /\ ~f.owned

Borrow(f) ==
    {b \in Buf : \/ f.op \in Steps \cup {"step"} /\ b \in {f.src, f.rhs}
                 \/ Lends(f) /\ b = f.out}

Hold(f) == Keep(f) \cup Borrow(f)

-----------------------------------------------------------------------------
(* Which operation may be where, with which arguments.                     *)
FrameOK(f) ==
    /\ f.op = "none" <=> f.pc = "idle"
    /\ f.pc = "reserved" => f.op \in Uploads
    /\ f.pc = "checked" => f.op \in Steps
    /\ f.pc = "admitted" => f.op \in Uploads \cup Steps \cup {"into_host"}
    /\ f.pc \in {"unpolled", "pending", "draining", "forgotten"} => f.op = "async"
    /\ f.op = "drop" => f.pc = "dropping"
    /\ f.op = "none" => f.src = NoBuf /\ f.rhs = NoBuf /\ f.out = NoBuf
    /\ f.op = "upload" => f.src = NoBuf /\ f.rhs = NoBuf /\ f.out \in Buf
    /\ f.op \in {"step", "step_into", "async"} =>
          f.src \in Buf /\ f.rhs \in Buf /\ f.out \in Buf
    /\ f.op = "laplacian_into" => f.src \in Buf /\ f.rhs = NoBuf /\ f.out \in Buf
    /\ f.op \in {"into_host", "drop"} => f.src \in Buf /\ f.rhs = NoBuf /\ f.out = NoBuf
    /\ f.op = "async" => f.src # f.rhs /\ f.src # f.out /\ f.rhs # f.out
    /\ f.owned => f.op = "step_into"
    /\ f.pc \in {"idle", "reserved", "checked", "admitted", "unpolled", "pending", "draining"}
          => f.ok
    /\ f.pc # "dropping" => f.drops = <<>> /\ f.gives = {}
    /\ Tidy(f.drops)

(* What a live frame knows of its arguments.                               *)
LiveInv(f, bf) ==
    /\ \A b, d \in FrameArgs(f) : bf[b].home = "own" /\ bf[b].shape = bf[d].shape
    /\ \A b \in Owned(f) : bf[b].charged /\ (f.op \notin Uploads => bf[b].stored)
    /\ f.op \in Uploads => ~bf[f.out].uncertain
    /\ f.op \in Uploads /\ f.pc \in {"reserved", "admitted"} => ~bf[f.out].stored
    /\ f.op \in Uploads /\ f.pc \in {"submitted", "dropping"} /\ f.ok => bf[f.out].stored
    /\ f.op = "into_host" => ~bf[f.src].uncertain
    /\ f.op \in Steps => (bf[f.out].uncertain <=> f.pc = "submitted")
    /\ f.pc = "dropping" => Dropped(f) = {} /\ f.gives = {}

(* A frame that returns has one destructor for each thing that is left of  *)
(* a buffer.                                                               *)
DropInv(f, bf) ==
    /\ \A b \in Dropped(f) : /\ bf[b].stored <=> <<"free", b>> \in Els(f.drops)
                             /\ bf[b].charged <=> <<"uncharge", b>> \in Els(f.drops)
    /\ \A b \in f.gives : b \notin Dropped(f) /\ bf[b].stored /\ bf[b].charged
    /\ f.op = "into_host" => Dropped(f) \subseteq {f.src}
    /\ f.op # "into_host" \/ f.ok => InOrder(f.drops)

FrameInv(f, bf) ==
    /\ FrameOK(f)
    /\ \A b \in Keep(f) : bf[b].owner = IF f.pc = "forgotten" THEN "leaked" ELSE "call"
    /\ \A b \in Borrow(f) : bf[b].owner = "user"
    /\ Live(f) => LiveInv(f, bf)
    /\ f.pc = "dropping" => DropInv(f, bf)

CallsInv == \A c \in Caller : FrameInv(call[c], buf)

(* Frames own apart, and what is borrowed mutably is borrowed alone.       *)
ApartFrom(f, g) ==
    /\ Keep(f) \cap Keep(g) = {}
    /\ Lends(f) => f.out \notin FrameArgs(g)
    /\ Lends(g) => g.out \notin FrameArgs(f)

Apart == \A c, d \in Caller : c # d => ApartFrom(call[c], call[d])

(* The stream holds at most one item of each caller, which waits for it.   *)
OnStream(c) ==
    \A i \in DOMAIN stream : stream[i].by = c =>
        /\ call[c].pc \in Active
        /\ stream[i] = Work(c)
        /\ call[c].pc = "forgotten" \/ call[c].wait >= i

StreamInv ==
    /\ running => stream # <<>>
    /\ \A c \in Caller : OnStream(c)
    /\ \A i, j \in DOMAIN stream : stream[i].by = stream[j].by => i = j

Writing(b) == running /\ b \in Head(stream).writes

(* into_host, when its bind has failed, gives the charge back first.       *)
GoesLate(f, b) ==
    /\ f.pc = "dropping" /\ f.op = "into_host" /\ ~f.ok /\ f.src = b
    /\ <<"free", b>> \in Els(f.drops)

BufferInv(b) ==
    /\ Working(b) => buf[b].stored
    /\ buf[b].owner = "none" => ~buf[b].stored /\ ~buf[b].charged
    /\ buf[b].owner \in {"user", "leaked"} => buf[b].stored /\ buf[b].charged
    /\ buf[b].content = "torn" => buf[b].uncertain \/ Writing(b)
    /\ buf[b].stored /\ ~buf[b].charged => \E c \in Caller : GoesLate(call[c], b)

BufInv == \A b \in Buf : BufferInv(b)

(* The output of a step in progress is torn only while its kernel runs.    *)
OutputWhole(f) ==
    f.op \in Steps /\ Live(f) /\ buf[f.out].content = "torn" => Writing(f.out)

OutputInv == \A c \in Caller : OutputWhole(call[c])

(* The operations charged are those admitted.                              *)
Admissions == {c \in Caller : Admitted(c)}

UsageInv ==
    /\ usage \in Usage
    /\ IsFiniteSet(Admissions)
    /\ usage.operations = Cardinality(Admissions) /\ usage.operations <= Operations

WorkItem == [by : Caller, reads : SUBSET Buf, writes : SUBSET Buf]

Types ==
    /\ buf \in [Buf -> Buffer]
    /\ call \in [Caller -> Frame]
    /\ stream \in Seq(WorkItem)
    /\ running \in BOOLEAN
    /\ device \in {"ok", "faulted"}
    /\ aborted \in BOOLEAN

Ownership == CallsInv /\ Apart /\ StreamInv /\ BufInv /\ OutputInv

IInv == Types /\ Ownership /\ UsageInv

-----------------------------------------------------------------------------
(* Lists of destructors.                                                   *)
LEMMA Concat ==
    ASSUME NEW q, NEW r, Tidy(q), Tidy(r), Els(q) \cap Els(r) = {}
    PROVE  /\ Tidy(q \o r)
           /\ Els(q \o r) = Els(q) \cup Els(r)
           /\ InOrder(q) /\ InOrder(r) /\ (\A b \in Buf : ~(<<"uncharge", b>> \in Els(q)
                                                    /\ <<"free", b>> \in Els(r)))
                 => InOrder(q \o r)
<1>1. q \in Seq(Destructor) /\ r \in Seq(Destructor)
    BY DEF Tidy
<1>2. /\ q \o r \in Seq(Destructor) /\ Len(q \o r) = Len(q) + Len(r)
      /\ \A i \in 1 .. Len(q) : (q \o r)[i] = q[i]
      /\ \A i \in 1 .. Len(r) : (q \o r)[Len(q) + i] = r[i]
      /\ DOMAIN q = 1 .. Len(q) /\ DOMAIN r = 1 .. Len(r)
      /\ DOMAIN (q \o r) = 1 .. Len(q) + Len(r)
      /\ Len(q) \in Nat /\ Len(r) \in Nat
    BY <1>1
<1> DEFINE s == q \o r
           m == Len(q)
           n == Len(r)
<1> HIDE DEF s, m, n
<1>3. \A i \in 1 .. m + n :
          \/ i \in 1 .. m /\ s[i] = q[i] /\ q[i] \in Els(q)
          \/ i - m \in 1 .. n /\ s[i] = r[i - m] /\ r[i - m] \in Els(r)
    <2> SUFFICES ASSUME NEW i \in 1 .. m + n
                 PROVE  \/ i \in 1 .. m /\ s[i] = q[i] /\ q[i] \in Els(q)
                        \/ i - m \in 1 .. n /\ s[i] = r[i - m] /\ r[i - m] \in Els(r)
        OBVIOUS
    <2>1. CASE i <= m
        BY <1>2, <2>1 DEF s, m, n, Els
    <2>2. CASE i > m
        <3>1. i - m \in 1 .. n /\ m + (i - m) = i
            BY <1>2, <2>2 DEF m, n
        <3> QED BY <1>2, <3>1 DEF s, m, n, Els
    <2> QED BY <1>2, <2>1, <2>2 DEF m, n
<1>4. Tidy(s)
    <2> SUFFICES ASSUME NEW i \in 1 .. m + n, NEW j \in 1 .. m + n, s[i] = s[j]
                 PROVE  i = j
        BY <1>2 DEF Tidy, s, m, n
    <2>1. \/ i \in 1 .. m /\ j \in 1 .. m /\ q[i] = q[j]
          \/ i - m \in 1 .. n /\ j - m \in 1 .. n /\ r[i - m] = r[j - m]
        BY <1>3
    <2>2. CASE i \in 1 .. m /\ j \in 1 .. m /\ q[i] = q[j]
        BY <1>2, <2>2 DEF Tidy, m
    <2>3. CASE i - m \in 1 .. n /\ j - m \in 1 .. n /\ r[i - m] = r[j - m]
        <3>1. i - m = j - m
            BY <1>2, <2>3 DEF Tidy, n
        <3> QED BY <3>1, <1>2 DEF m, n
    <2> QED BY <2>1, <2>2, <2>3
<1>5. Els(s) = Els(q) \cup Els(r)
    <2>1. \A e \in Els(s) : e \in Els(q) \cup Els(r)
        BY <1>2, <1>3 DEF Els, s, m, n
    <2>2. \A e \in Els(q) : e \in Els(s)
        <3> SUFFICES ASSUME NEW i \in 1 .. m PROVE q[i] \in Els(s)
            BY <1>2 DEF Els, m
        <3>1. s[i] = q[i] /\ i \in 1 .. m + n
            BY <1>2 DEF s, m, n
        <3> QED BY <3>1, <1>2 DEF Els, s, m, n
    <2>3. \A e \in Els(r) : e \in Els(s)
        <3> SUFFICES ASSUME NEW i \in 1 .. n PROVE r[i] \in Els(s)
            BY <1>2 DEF Els, n
        <3>1. s[m + i] = r[i] /\ m + i \in 1 .. m + n
            BY <1>2 DEF s, m, n
        <3> QED BY <3>1, <1>2 DEF Els, s, m, n
    <2> QED BY <2>1, <2>2, <2>3
<1>6. ASSUME InOrder(q), InOrder(r),
             \A b \in Buf : ~(<<"uncharge", b>> \in Els(q) /\ <<"free", b>> \in Els(r))
      PROVE  InOrder(s)
    <2> SUFFICES ASSUME NEW b \in Buf, NEW i \in 1 .. m + n, NEW j \in 1 .. m + n, i < j,
                        s[i] = <<"uncharge", b>>, s[j] = <<"free", b>>
                 PROVE  FALSE
        BY <1>2 DEF InOrder, s, m, n
    <2>1. m \in Nat /\ n \in Nat
        BY <1>2 DEF m, n
    <2>2. CASE i \in 1 .. m /\ j \in 1 .. m
        <3>1. s[i] = q[i] /\ s[j] = q[j]
            BY <1>2, <2>2 DEF s, m
        <3> QED BY <1>2, <1>6, <2>2, <3>1 DEF InOrder, m
    <2>3. CASE i - m \in 1 .. n /\ j - m \in 1 .. n
        <3>1. s[i] = r[i - m] /\ s[j] = r[j - m] /\ i - m < j - m
            BY <1>3, <2>1, <2>3
        <3> QED BY <1>2, <1>6, <2>3, <3>1 DEF InOrder, n
    <2>4. CASE i \in 1 .. m /\ j - m \in 1 .. n
        <3>1. s[i] \in Els(q) /\ s[j] \in Els(r)
            BY <1>3, <2>1, <2>4
        <3> QED BY <1>6, <3>1
    <2> QED BY <1>3, <2>1, <2>2, <2>3, <2>4
<1> QED BY <1>4, <1>5, <1>6 DEF s

LEMMA Singleton ==
    ASSUME NEW e \in Destructor
    PROVE  Tidy(<<e>>) /\ Els(<<e>>) = {e} /\ InOrder(<<e>>)
BY DEF Tidy, Els, InOrder

LEMMA Empty == Tidy(<<>>) /\ Els(<<>>) = {} /\ InOrder(<<>>)
BY DEF Tidy, Els, InOrder

LEMMA AfterFirst ==
    ASSUME NEW q, Tidy(q), q # <<>>
    PROVE  /\ Head(q) \in Destructor /\ Head(q) \in Els(q)
           /\ Tidy(Tail(q)) /\ Els(Tail(q)) = Els(q) \ {Head(q)}
           /\ InOrder(q) => InOrder(Tail(q))
<1>1. /\ q \in Seq(Destructor) /\ Len(q) \in Nat /\ Len(q) > 0 /\ DOMAIN q = 1 .. Len(q)
      /\ Head(q) = q[1] /\ Tail(q) \in Seq(Destructor)
      /\ DOMAIN Tail(q) = 1 .. Len(q) - 1
      /\ \A i \in 1 .. Len(q) - 1 : Tail(q)[i] = q[i + 1]
    BY DEF Tidy
<1> DEFINE n == Len(q)
           t == Tail(q)
<1> HIDE DEF n, t
<1>2. \A i \in 1 .. n : q[i] = Head(q) <=> i = 1
    BY <1>1 DEF Tidy, n
<1>3. \A i \in 2 .. n : i - 1 \in 1 .. n - 1 /\ q[i] = t[i - 1]
    <2> SUFFICES ASSUME NEW i \in 2 .. n PROVE i - 1 \in 1 .. n - 1 /\ q[i] = t[i - 1]
        OBVIOUS
    <2>1. n \in Nat /\ i - 1 \in 1 .. n - 1 /\ (i - 1) + 1 = i
        BY <1>1 DEF n
    <2> QED BY <1>1, <2>1 DEF n, t
<1>4. Els(t) = Els(q) \ {Head(q)}
    <2>1. \A e \in Els(t) : e \in Els(q) /\ e # Head(q)
        <3> SUFFICES ASSUME NEW i \in 1 .. n - 1 PROVE t[i] \in Els(q) /\ t[i] # Head(q)
            BY <1>1 DEF Els, n, t
        <3>1. t[i] = q[i + 1] /\ i + 1 \in 1 .. n /\ i + 1 # 1
            BY <1>1 DEF n, t
        <3> QED BY <1>1, <1>2, <3>1 DEF Els, n
    <2>2. \A e \in Els(q) : e # Head(q) => e \in Els(t)
        <3> SUFFICES ASSUME NEW i \in 1 .. n, i # 1 PROVE q[i] \in Els(t)
            BY <1>1, <1>2 DEF Els, n
        <3>1. i \in 2 .. n
            BY <1>1 DEF n
        <3> QED BY <1>1, <1>3, <3>1 DEF Els, n, t
    <2> QED BY <2>1, <2>2
<1>5. /\ Tidy(t)
      /\ InOrder(q) => InOrder(t)
    <2>1. \A i \in 1 .. n - 1 : t[i] = q[i + 1] /\ i + 1 \in 1 .. n
        BY <1>1 DEF n, t
    <2>2. \A i, j \in 1 .. n - 1 : t[i] = t[j] => i = j
        <3> SUFFICES ASSUME NEW i \in 1 .. n - 1, NEW j \in 1 .. n - 1, t[i] = t[j]
                     PROVE  i = j
            OBVIOUS
        <3>1. i + 1 = j + 1
            BY <1>1, <2>1 DEF Tidy, n
        <3> QED BY <3>1, <1>1 DEF n
    <2>3. ASSUME InOrder(q) PROVE InOrder(t)
        <3> SUFFICES ASSUME NEW b \in Buf, NEW i \in 1 .. n - 1, NEW j \in 1 .. n - 1, i < j
                     PROVE  ~(t[i] = <<"uncharge", b>> /\ t[j] = <<"free", b>>)
            BY <1>1 DEF InOrder, n, t
        <3>1. i + 1 < j + 1 /\ i + 1 \in DOMAIN q /\ j + 1 \in DOMAIN q
            BY <1>1, <2>1 DEF n
        <3> QED BY <2>1, <2>3, <3>1 DEF InOrder
    <2> QED BY <1>1, <2>2, <2>3 DEF Tidy, n, t
<1>6. Head(q) \in Destructor /\ Head(q) \in Els(q)
    BY <1>1 DEF Els
<1> QED BY <1>4, <1>5, <1>6 DEF t

(* What the lists of Session run.                                          *)
LEMMA DropOfList ==
    ASSUME NEW b \in Buf
    PROVE  /\ Tidy(DropOf(b)) /\ InOrder(DropOf(b))
           /\ Els(DropOf(b)) = {<<"free", b>>, <<"uncharge", b>>}
<1>1. DropOf(b) \in Seq(Destructor) /\ DOMAIN DropOf(b) = 1 .. 2
      /\ DropOf(b)[1] = <<"free", b>> /\ DropOf(b)[2] = <<"uncharge", b>>
    BY DEF DropOf, Destructor
<1>2. <<"free", b>> # <<"uncharge", b>>
    OBVIOUS
<1>3. \A i \in 1 .. 2 : i = 1 \/ i = 2
    OBVIOUS
<1>4. Tidy(DropOf(b)) /\ Els(DropOf(b)) = {<<"free", b>>, <<"uncharge", b>>}
    BY <1>1, <1>2, <1>3 DEF Tidy, Els
<1>5. InOrder(DropOf(b))
    BY <1>1, <1>2, <1>3 DEF InOrder
<1> QED BY <1>4, <1>5

LEMMA UnadmitList ==
    /\ Tidy(Unadmit) /\ InOrder(Unadmit) /\ Els(Unadmit) = {<<"unadmit", NoBuf>>}
<1>1. <<"unadmit", NoBuf>> \in Destructor
    BY DEF Destructor
<1> QED BY <1>1, Singleton DEF Unadmit

LEMMA UnchargeList ==
    ASSUME NEW b \in Buf
    PROVE  /\ Tidy(<<<<"uncharge", b>>>>) /\ InOrder(<<<<"uncharge", b>>>>)
           /\ Els(<<<<"uncharge", b>>>>) = {<<"uncharge", b>>}
<1>1. <<"uncharge", b>> \in Destructor
    BY DEF Destructor
<1> QED BY <1>1, Singleton

LEMMA FreeList ==
    ASSUME NEW b \in Buf
    PROVE  /\ Tidy(<<<<"free", b>>>>) /\ InOrder(<<<<"free", b>>>>)
           /\ Els(<<<<"free", b>>>>) = {<<"free", b>>}
<1>1. <<"free", b>> \in Destructor
    BY DEF Destructor
<1> QED BY <1>1, Singleton

(* The whole of one buffer, with the admission before or after.            *)
LEMMA AdmissionThenBuffer ==
    ASSUME NEW b \in Buf
    PROVE  /\ Tidy(Unadmit \o DropOf(b)) /\ InOrder(Unadmit \o DropOf(b))
           /\ Els(Unadmit \o DropOf(b)) =
                  {<<"unadmit", NoBuf>>, <<"free", b>>, <<"uncharge", b>>}
<1>1. Els(Unadmit) \cap Els(DropOf(b)) = {}
    BY UnadmitList, DropOfList
<1>2. \A d \in Buf : <<"uncharge", d>> \notin Els(Unadmit)
    BY UnadmitList
<1> QED BY <1>1, <1>2, UnadmitList, DropOfList, Concat

LEMMA BufferThenAdmission ==
    ASSUME NEW b \in Buf
    PROVE  /\ Tidy(DropOf(b) \o Unadmit) /\ InOrder(DropOf(b) \o Unadmit)
           /\ Els(DropOf(b) \o Unadmit) =
                  {<<"unadmit", NoBuf>>, <<"free", b>>, <<"uncharge", b>>}
<1>1. Els(DropOf(b)) \cap Els(Unadmit) = {}
    BY UnadmitList, DropOfList
<1>2. \A d \in Buf : <<"free", d>> \notin Els(Unadmit)
    BY UnadmitList
<1> QED BY <1>1, <1>2, UnadmitList, DropOfList, Concat

(* An upload whose storage was never made, and one that failed.            *)
LEMMA AdmissionThenCharge ==
    ASSUME NEW b \in Buf
    PROVE  LET q == Unadmit \o <<<<"uncharge", b>>>> IN
           /\ Tidy(q) /\ InOrder(q)
           /\ Els(q) = {<<"unadmit", NoBuf>>, <<"uncharge", b>>}
<1>1. Els(Unadmit) \cap Els(<<<<"uncharge", b>>>>) = {}
    BY UnadmitList, UnchargeList
<1>2. \A d \in Buf : <<"uncharge", d>> \notin Els(Unadmit)
    BY UnadmitList
<1> QED BY <1>1, <1>2, UnadmitList, UnchargeList, Concat

LEMMA FailedUpload ==
    ASSUME NEW b \in Buf, NEW stored \in BOOLEAN
    PROVE  LET q == (IF stored THEN <<<<"free", b>>>> ELSE <<>>)
                        \o Unadmit \o <<<<"uncharge", b>>>> IN
           /\ Tidy(q) /\ InOrder(q)
           /\ \A e : e \in Els(q) <=> \/ e = <<"unadmit", NoBuf>>
                                     \/ e = <<"uncharge", b>>
                                     \/ (stored /\ e = <<"free", b>>)
<1> DEFINE p == IF stored THEN <<<<"free", b>>>> ELSE <<>>
           r == p \o Unadmit
           u == <<<<"uncharge", b>>>>
<1>1. /\ Tidy(p) /\ InOrder(p)
      /\ \A e : e \in Els(p) <=> (stored /\ e = <<"free", b>>)
    <2>1. CASE stored
        BY <2>1, FreeList
    <2>2. CASE ~stored
        BY <2>2, Empty
    <2> QED BY <2>1, <2>2
<1> HIDE DEF p
<1>2. /\ Tidy(r) /\ InOrder(r)
      /\ \A e : e \in Els(r) <=> e = <<"unadmit", NoBuf>> \/ (stored /\ e = <<"free", b>>)
    <2>1. Els(p) \cap Els(Unadmit) = {}
        BY <1>1, UnadmitList
    <2>2. \A d \in Buf : <<"free", d>> \notin Els(Unadmit)
        BY UnadmitList
    <2>3. Tidy(r) /\ InOrder(r) /\ Els(r) = Els(p) \cup Els(Unadmit)
        BY <1>1, <2>1, <2>2, UnadmitList, Concat
    <2> QED BY <1>1, <2>3, UnadmitList
<1>3. Tidy(u) /\ InOrder(u) /\ Els(u) = {<<"uncharge", b>>}
    BY UnchargeList
<1> HIDE DEF r, u
<1>4. Els(r) \cap Els(u) = {} /\ \A d \in Buf : <<"free", d>> \notin Els(u)
    BY <1>2, <1>3
<1>5. Tidy(r \o u) /\ InOrder(r \o u) /\ Els(r \o u) = Els(r) \cup Els(u)
    BY <1>2, <1>3, <1>4, Concat
<1>6. \A e : e \in Els(r \o u) <=> \/ e = <<"unadmit", NoBuf>>
                                  \/ e = <<"uncharge", b>>
                                  \/ (stored /\ e = <<"free", b>>)
    BY <1>2, <1>3, <1>5
<1> QED BY <1>5, <1>6 DEF p, r, u

(* into_host, when its bind has failed: the charge, then the storage.      *)
LEMMA ChargeThenStorage ==
    ASSUME NEW b \in Buf
    PROVE  LET q == <<<<"uncharge", b>>, <<"free", b>>>> \o Unadmit IN
           /\ Tidy(q)
           /\ Els(q) = {<<"unadmit", NoBuf>>, <<"free", b>>, <<"uncharge", b>>}
<1> DEFINE p == <<<<"uncharge", b>>, <<"free", b>>>>
<1>1. Tidy(p) /\ Els(p) = {<<"free", b>>, <<"uncharge", b>>}
    <2>1. p \in Seq(Destructor) /\ DOMAIN p = 1 .. 2
          /\ p[1] = <<"uncharge", b>> /\ p[2] = <<"free", b>>
        BY DEF Destructor
    <2>2. <<"free", b>> # <<"uncharge", b>> /\ \A i \in 1 .. 2 : i = 1 \/ i = 2
        OBVIOUS
    <2> HIDE DEF p
    <2> QED BY <2>1, <2>2 DEF Tidy, Els
<1> HIDE DEF p
<1>2. Els(p) \cap Els(Unadmit) = {}
    BY <1>1, UnadmitList
<1>3. Tidy(p \o Unadmit) /\ Els(p \o Unadmit) = Els(p) \cup Els(Unadmit)
    BY <1>1, <1>2, UnadmitList, Concat
<1> QED BY <1>1, <1>3, UnadmitList DEF p

(* Three buffers, as the frame of the future drops them.                   *)
LEMMA ThreeBuffers ==
    ASSUME NEW a \in Buf, NEW b \in Buf, NEW d \in Buf, a # b, a # d, b # d
    PROVE  LET q == DropOf(a) \o DropOf(b) \o DropOf(d) IN
           /\ Tidy(q) /\ InOrder(q)
           /\ Els(q) = {"free", "uncharge"} \X {a, b, d}
<1> DEFINE r == DropOf(a) \o DropOf(b)
<1>1. Els(DropOf(a)) \cap Els(DropOf(b)) = {}
    BY DropOfList
<1>2. \A x \in Buf : ~(<<"uncharge", x>> \in Els(DropOf(a)) /\ <<"free", x>> \in Els(DropOf(b)))
    BY DropOfList
<1>3. Tidy(r) /\ InOrder(r)
      /\ Els(r) = {<<"free", a>>, <<"uncharge", a>>, <<"free", b>>, <<"uncharge", b>>}
    BY <1>1, <1>2, DropOfList, Concat
<1> HIDE DEF r
<1>4. Els(r) \cap Els(DropOf(d)) = {}
    BY <1>3, DropOfList
<1>5. \A x \in Buf : ~(<<"uncharge", x>> \in Els(r) /\ <<"free", x>> \in Els(DropOf(d)))
    BY <1>3, DropOfList
<1>6. /\ Tidy(r \o DropOf(d)) /\ InOrder(r \o DropOf(d))
      /\ Els(r \o DropOf(d)) = Els(r) \cup Els(DropOf(d))
    BY <1>3, <1>4, <1>5, DropOfList, Concat
<1>7. Els(r \o DropOf(d)) = {"free", "uncharge"} \X {a, b, d}
    BY <1>3, <1>6, DropOfList
<1> QED BY <1>6, <1>7 DEF r

(* The frame of the future, its admission first.                           *)
LEMMA FutureFrame ==
    ASSUME NEW a \in Buf, NEW b \in Buf, NEW d \in Buf, a # b, a # d, b # d
    PROVE  LET q == Unadmit \o DropOf(a) \o DropOf(b) \o DropOf(d) IN
           /\ Tidy(q) /\ InOrder(q)
           /\ Els(q) = {<<"unadmit", NoBuf>>} \cup ({"free", "uncharge"} \X {a, b, d})
<1> DEFINE p == Unadmit \o DropOf(a)
           r == p \o DropOf(b)
<1>1. /\ Tidy(p) /\ InOrder(p)
      /\ Els(p) = {<<"unadmit", NoBuf>>, <<"free", a>>, <<"uncharge", a>>}
    BY AdmissionThenBuffer
<1> HIDE DEF p
<1>2. Els(p) \cap Els(DropOf(b)) = {}
    BY <1>1, DropOfList
<1>3. \A x \in Buf : ~(<<"uncharge", x>> \in Els(p) /\ <<"free", x>> \in Els(DropOf(b)))
    BY <1>1, DropOfList
<1>4. /\ Tidy(r) /\ InOrder(r) /\ Els(r) = Els(p) \cup Els(DropOf(b))
    BY <1>1, <1>2, <1>3, DropOfList, Concat
<1> HIDE DEF r
<1>5. Els(r) \cap Els(DropOf(d)) = {}
    BY <1>1, <1>4, DropOfList
<1>6. \A x \in Buf : ~(<<"uncharge", x>> \in Els(r) /\ <<"free", x>> \in Els(DropOf(d)))
    BY <1>1, <1>4, DropOfList
<1>7. /\ Tidy(r \o DropOf(d)) /\ InOrder(r \o DropOf(d))
      /\ Els(r \o DropOf(d)) = Els(r) \cup Els(DropOf(d))
    BY <1>4, <1>5, <1>6, DropOfList, Concat
<1>8. Els(r \o DropOf(d)) =
          {<<"unadmit", NoBuf>>} \cup ({"free", "uncharge"} \X {a, b, d})
    BY <1>1, <1>4, <1>7, DropOfList
<1> QED BY <1>7, <1>8 DEF p, r

-----------------------------------------------------------------------------
(* Frames and the buffers they hold.                                       *)
LEMMA ArgsHeld ==
    ASSUME NEW f \in Frame, FrameOK(f)
    PROVE  /\ Owned(f) \subseteq FrameArgs(f) /\ Borrow(f) \subseteq FrameArgs(f)
           /\ FrameArgs(f) \subseteq Buf
           /\ Live(f) => FrameArgs(f) \subseteq Hold(f)
           /\ Live(f) /\ f.op \in Steps \cup Uploads => f.out \in Hold(f)
           /\ f.op \in Uploads => f.out \in Owned(f)
           /\ f.op = "into_host" => f.src \in Owned(f)
<1>1. FrameArgs(f) \subseteq Buf
    BY DEF FrameArgs, Frame
<1>2. Owned(f) \subseteq FrameArgs(f) /\ Borrow(f) \subseteq FrameArgs(f)
    BY SessionAssumption DEF FrameArgs, Owned, Borrow
<1>3. /\ f.op \in Uploads => f.out \in Owned(f)
      /\ f.op = "into_host" => f.src \in Owned(f)
    BY DEF Owned, FrameOK, Uploads
<1>4. ASSUME Live(f) PROVE FrameArgs(f) \subseteq Owned(f) \cup Borrow(f)
    <2>1. f.op \in {"upload", "step", "step_into", "laplacian_into", "async", "into_host"}
        BY <1>4 DEF Live, FrameOK, Frame
    <2>2. f.op \in {"upload", "async", "into_host"} => FrameArgs(f) \subseteq Owned(f)
        BY <1>1 DEF FrameArgs, FrameOK, Owned, Uploads
    <2>3. f.op = "step" => FrameArgs(f) \subseteq Owned(f) \cup Borrow(f)
        BY <1>1 DEF FrameArgs, FrameOK, Owned, Borrow, Uploads
    <2>4. f.op \in Steps => FrameArgs(f) \subseteq Owned(f) \cup Borrow(f)
        BY <1>1 DEF FrameArgs, FrameOK, Owned, Borrow, Lends, Steps
    <2> QED BY <2>1, <2>2, <2>3, <2>4 DEF Steps
<1>5. ASSUME Live(f), f.op \in Steps \cup Uploads PROVE f.out \in FrameArgs(f)
    BY <1>5, SessionAssumption DEF FrameArgs, FrameOK, Steps, Uploads
<1> QED BY <1>1, <1>2, <1>3, <1>4, <1>5 DEF Hold, Keep

(* What frames see of a buffer; its content they do not.                   *)
Alike(x, y) ==
    /\ x.owner = y.owner /\ x.shape = y.shape /\ x.home = y.home
    /\ x.uncertain = y.uncertain /\ x.stored = y.stored /\ x.charged = y.charged

(* A frame is untouched by what happens to buffers it does not hold.       *)
LEMMA FrameStable ==
    ASSUME NEW f \in Frame, NEW bf, NEW bg, FrameInv(f, bf),
           \A b \in Hold(f) : Alike(bf[b], bg[b])
    PROVE  FrameInv(f, bg)
<1>1. FrameOK(f)
    BY DEF FrameInv
<1>2. \A b \in Keep(f) \cup Borrow(f) : Alike(bf[b], bg[b])
    BY DEF Hold
<1>3. ASSUME Live(f) PROVE LiveInv(f, bg)
    <2>1. LiveInv(f, bf)
        BY <1>3 DEF FrameInv
    <2>2. \A b \in FrameArgs(f) : Alike(bf[b], bg[b])
        BY <1>1, <1>3, ArgsHeld
    <2>3. Owned(f) \subseteq FrameArgs(f)
        BY <1>1, ArgsHeld
    <2>4. \A b, d \in FrameArgs(f) : bg[b].home = "own" /\ bg[b].shape = bg[d].shape
        BY <2>1, <2>2 DEF LiveInv, Alike
    <2>5. \A b \in Owned(f) : bg[b].charged /\ (f.op \notin Uploads => bg[b].stored)
        BY <2>1, <2>2, <2>3 DEF LiveInv, Alike
    <2>6. f.op \in Steps \cup Uploads => Alike(bf[f.out], bg[f.out])
        BY <1>1, <1>3, ArgsHeld
    <2>7. f.op = "into_host" => Alike(bf[f.src], bg[f.src])
        BY <1>1, <2>2, <2>3, ArgsHeld
    <2> QED BY <2>1, <2>4, <2>5, <2>6, <2>7 DEF LiveInv, Alike
<1>4. ASSUME f.pc = "dropping" PROVE DropInv(f, bg)
    <2>1. DropInv(f, bf)
        BY <1>4 DEF FrameInv
    <2>2. CASE Live(f)
        <3>1. Dropped(f) = {} /\ f.gives = {}
            BY <1>4, <2>2 DEF FrameInv, LiveInv
        <3> QED BY <2>1, <3>1 DEF DropInv
    <2>3. CASE ~Live(f)
        <3>1. Keep(f) = Dropped(f) \cup f.gives
            BY <2>3 DEF Keep
        <3> QED BY <1>2, <2>1, <3>1 DEF DropInv, Alike
    <2> QED BY <2>2, <2>3
<1> QED BY <1>1, <1>2, <1>3, <1>4 DEF FrameInv, Alike

(* What one caller keeps or has borrowed mutably, no other one holds; nor  *)
(* does any hold what is free or what the program may move or borrow       *)
(* mutably.                                                                *)
LEMMA HeldByOne ==
    ASSUME Types, CallsInv, Apart, NEW c \in Caller, NEW d \in Caller, c # d,
           NEW b \in Buf, \/ b \in Keep(call[c])
                          \/ b \in Borrow(call[c]) /\ Lends(call[c]) /\ b = call[c].out
    PROVE  b \notin Hold(call[d])
<1>1. call[d] \in Frame /\ FrameInv(call[c], buf) /\ FrameInv(call[d], buf)
      /\ ApartFrom(call[c], call[d])
    BY DEF Types, CallsInv, Apart
<1>2. CASE b \in Keep(call[c])
    <2>1. b \notin Keep(call[d])
        BY <1>1, <1>2 DEF ApartFrom
    <2>2. b \notin Borrow(call[d])
        BY <1>1, <1>2 DEF FrameInv
    <2> QED BY <2>1, <2>2 DEF Hold
<1>3. CASE b \in Borrow(call[c]) /\ Lends(call[c]) /\ b = call[c].out
    <2>1. b \notin Keep(call[d])
        BY <1>1, <1>3 DEF FrameInv
    <2>2. b \notin Borrow(call[d])
        <3>1. b \notin FrameArgs(call[d])
            BY <1>1, <1>3 DEF ApartFrom
        <3> QED BY <1>1, <3>1, ArgsHeld DEF FrameInv
    <2> QED BY <2>1, <2>2 DEF Hold
<1> QED BY <1>2, <1>3

LEMMA FreeUnheld ==
    ASSUME Types, CallsInv, NEW d \in Caller, NEW b \in Buf, buf[b].owner = "none"
    PROVE  b \notin Hold(call[d])
BY DEF CallsInv, FrameInv, Hold

LEMMA TakenUnheld ==
    ASSUME Types, CallsInv, NEW d \in Caller, NEW b \in Buf, MayTake(b)
    PROVE  b \notin Hold(call[d]) /\ b \notin FrameArgs(call[d])
<1>1. buf[b].owner = "user" /\ b \notin FrameArgs(call[d])
    BY DEF MayTake, Args, FrameArgs
<1>2. call[d] \in Frame /\ FrameInv(call[d], buf)
    BY DEF Types, CallsInv
<1>3. b \notin Borrow(call[d])
    BY <1>1, <1>2, ArgsHeld DEF FrameInv
<1>4. b \notin Keep(call[d])
    BY <1>1, <1>2 DEF FrameInv
<1> QED BY <1>1, <1>3, <1>4 DEF Hold

(* A caller that is not active, or has nothing left to wait for, has no    *)
(* work in the stream.                                                     *)
LEMMA NothingSubmitted ==
    ASSUME Types, StreamInv, NEW c \in Caller,
           \/ call[c].pc \notin Active
           \/ call[c].wait = 0 /\ call[c].pc # "forgotten",
           NEW i \in DOMAIN stream
    PROVE  stream[i].by # c
<1> SUFFICES ASSUME stream[i].by = c PROVE FALSE
    OBVIOUS
<1>1. OnStream(c)
    BY DEF StreamInv
<1>2. call[c].pc \in Active /\ (call[c].pc = "forgotten" \/ call[c].wait >= i)
    BY <1>1 DEF OnStream
<1>3. i \in Nat /\ i > 0
    BY DEF Types
<1> QED BY <1>2, <1>3

-----------------------------------------------------------------------------
LEMMA Appended ==
    ASSUME NEW q \in Seq(WorkItem), NEW w \in WorkItem, NEW r, r = Append(q, w)
    PROVE  /\ DOMAIN r = 1 .. Len(r) /\ r # <<>>
           /\ q # <<>> => Head(r) = Head(q)
           /\ \A i \in DOMAIN q : i \in DOMAIN r /\ r[i] = q[i]
           /\ \A i \in DOMAIN r : i \in DOMAIN q \/ i = Len(q) + 1
           /\ r[Len(q) + 1] = w
<1> DEFINE n == Len(q)
<1>1. /\ DOMAIN r = 1 .. n + 1 /\ DOMAIN q = 1 .. n
      /\ n \in Nat /\ Len(r) = n + 1
      /\ r[n + 1] = w
      /\ \A i \in 1 .. n : r[i] = q[i]
      /\ r \in Seq(WorkItem)
    OBVIOUS
<1>2. ASSUME q # <<>> PROVE Head(r) = Head(q)
    <2>1. n > 0 /\ Head(q) = q[1]
        BY <1>2
    <2>2. r # <<>> /\ Head(r) = r[1]
        BY <1>1
    <2> HIDE DEF n
    <2> QED BY <1>1, <2>1, <2>2
<1>3. r # <<>>
    BY <1>1
<1> HIDE DEF n
<1>4. \A i \in DOMAIN q : i \in DOMAIN r /\ r[i] = q[i]
    BY <1>1
<1>5. \A i \in DOMAIN r : i \in DOMAIN q \/ i = n + 1
    BY <1>1
<1> QED BY <1>1, <1>2, <1>3, <1>4, <1>5 DEF n

(* A step of one caller: the stream stays or gets one item of work by it,  *)
(* and no other caller holds what changes.                                 *)
LEMMA CallerStep ==
    ASSUME Types, Ownership, NEW c \in Caller, NEW f \in Frame,
           call' = [call EXCEPT ![c] = f], buf' \in [Buf -> Buffer], running' = running,
           FrameInv(f, buf'),
           \A d \in Caller \ {c} : ApartFrom(f, call[d]),
           \A d \in Caller \ {c} : \A b \in Hold(call[d]) : buf'[b] = buf[b],
           OnStream(c)',
           \A b \in Buf : buf'[b] = buf[b] /\ GoesLate(call[c], b) => GoesLate(f, b),
           \A b \in Buf : buf'[b] # buf[b] => BufferInv(b)',
           f.op \in Steps /\ Live(f) /\ buf'[f.out].content = "torn" => Writing(f.out),
           \/ stream' = stream
           \/ \E w \in WorkItem :
                 /\ stream' = Append(stream, w) /\ w.by = c
                 /\ \A i \in DOMAIN stream : stream[i].by # c
                 /\ \A b \in Touches(w) : buf'[b].stored
    PROVE  Ownership'
<1>1. /\ \A d \in Caller \ {c} : call'[d] = call[d] /\ call'[d] \in Frame
      /\ call'[c] = f
      /\ stream \in Seq(WorkItem)
      /\ DOMAIN stream = 1 .. Len(stream) /\ Len(stream) \in Nat
    BY DEF Types
<1>2. /\ \A i \in DOMAIN stream : i \in DOMAIN stream' /\ stream'[i] = stream[i]
      /\ \A i \in DOMAIN stream' : \/ i \in DOMAIN stream
                                   \/ /\ stream'[i].by = c
                                      /\ \A b \in Touches(stream'[i]) : buf'[b].stored
                                      /\ \A j \in DOMAIN stream : stream[j].by # c
                                      /\ \A j \in DOMAIN stream' : j \in DOMAIN stream \/ j = i
      /\ stream # <<>> => stream' # <<>> /\ Head(stream') = Head(stream)
      /\ DOMAIN stream' = 1 .. Len(stream')
    <2>1. CASE stream' = stream
        BY <1>1, <2>1
    <2>2. ASSUME NEW w \in WorkItem,
                 stream' = Append(stream, w), w.by = c,
                 \A i \in DOMAIN stream : stream[i].by # c,
                 \A b \in Touches(w) : buf'[b].stored
          PROVE  <1>2
        <3> DEFINE r == Append(stream, w)
        <3>1. stream \in Seq(WorkItem) /\ r = stream'
            BY <1>1, <2>2
        <3>2. /\ DOMAIN r = 1 .. Len(r) /\ r # <<>>
              /\ stream # <<>> => Head(r) = Head(stream)
              /\ \A i \in DOMAIN stream : i \in DOMAIN r /\ r[i] = stream[i]
              /\ \A i \in DOMAIN r : i \in DOMAIN stream \/ i = Len(stream) + 1
              /\ r[Len(stream) + 1] = w
            BY <3>1, Appended, Zenon
        <3> HIDE DEF r
        <3> QED BY <2>2, <3>1, <3>2
    <2> QED BY <2>1, <2>2
<1>3. \A b \in Buf : running => (Writing(b)' <=> Writing(b))
    BY <1>2 DEF Ownership, StreamInv, Writing
<1>4. CallsInv'
    <2> SUFFICES ASSUME NEW d \in Caller PROVE FrameInv(call'[d], buf')
        BY DEF CallsInv
    <2>1. CASE d = c
        BY <1>1, <2>1
    <2>2. CASE d # c
        <3>1. \A b \in Hold(call[d]) : Alike(buf[b], buf'[b])
            BY <2>2 DEF Alike
        <3> QED BY <1>1, <2>2, <3>1, FrameStable DEF Ownership, CallsInv
    <2> QED BY <2>1, <2>2
<1>5. Apart'
    <2> SUFFICES ASSUME NEW d \in Caller, NEW e \in Caller, d # e
                 PROVE  ApartFrom(call'[d], call'[e])
        BY DEF Apart
    <2>1. CASE d # c /\ e # c
        BY <1>1, <2>1 DEF Ownership, Apart
    <2>2. CASE d = c
        BY <1>1, <2>2
    <2>3. CASE e = c
        BY <1>1, <2>3 DEF ApartFrom
    <2> QED BY <2>1, <2>2, <2>3
<1>6. StreamInv'
    <2>1. running' => stream' # <<>>
        BY <1>2 DEF Ownership, StreamInv
    <2>2. ASSUME NEW d \in Caller PROVE OnStream(d)'
        <3>1. CASE d # c
            <4> SUFFICES ASSUME NEW i \in DOMAIN stream', stream'[i].by = d
                         PROVE  /\ call'[d].pc \in Active
                                /\ stream'[i] = Work(d)'
                                /\ call'[d].pc = "forgotten" \/ call'[d].wait >= i
                BY DEF OnStream
            <4>1. i \in DOMAIN stream /\ stream'[i] = stream[i]
                BY <1>2, <3>1
            <4>2. Work(d)' = Work(d)
                BY <1>1, <3>1 DEF Work
            <4> QED BY <1>1, <3>1, <4>1, <4>2 DEF Ownership, StreamInv, OnStream
        <3> QED BY <3>1
    <2>3. \A i, j \in DOMAIN stream' : stream'[i].by = stream'[j].by => i = j
        <3>1. \A i, j \in DOMAIN stream : stream[i].by = stream[j].by => i = j
            BY DEF Ownership, StreamInv
        <3> SUFFICES ASSUME NEW i \in DOMAIN stream', NEW j \in DOMAIN stream',
                            stream'[i].by = stream'[j].by
                     PROVE  i = j
            OBVIOUS
        <3>2. CASE i \in DOMAIN stream /\ j \in DOMAIN stream
            BY <1>2, <3>1, <3>2
        <3>3. CASE i \notin DOMAIN stream \/ j \notin DOMAIN stream
            <4>1. ASSUME NEW k \in DOMAIN stream', NEW l \in DOMAIN stream',
                         k \notin DOMAIN stream, stream'[k].by = stream'[l].by
                  PROVE  k = l
                <5>1. /\ stream'[k].by = c
                      /\ \A m \in DOMAIN stream : stream[m].by # c
                      /\ l \in DOMAIN stream \/ l = k
                    BY <1>2, <4>1
                <5>2. l \in DOMAIN stream => stream'[l] = stream[l]
                    BY <1>2
                <5> QED BY <4>1, <5>1, <5>2
            <4> QED BY <3>3, <4>1
        <3> QED BY <3>2, <3>3
    <2> QED BY <2>1, <2>2, <2>3 DEF StreamInv
<1>7. BufInv'
    <2> SUFFICES ASSUME NEW b \in Buf, buf'[b] = buf[b] PROVE BufferInv(b)'
        BY DEF BufInv
    <2>1. BufferInv(b)
        BY DEF Ownership, BufInv
    <2>2. Working(b)' => buf'[b].stored
        <3> SUFFICES ASSUME NEW i \in DOMAIN stream', b \in Touches(stream'[i])
                     PROVE  buf'[b].stored
            BY <1>2 DEF Working
        <3>1. CASE i \in DOMAIN stream
            BY <1>1, <1>2, <2>1, <3>1 DEF BufferInv, Working
        <3> QED BY <1>2, <3>1
    <2>3. buf'[b].stored /\ ~buf'[b].charged => \E d \in Caller : GoesLate(call'[d], b)
        <3> SUFFICES ASSUME NEW d \in Caller, GoesLate(call[d], b)
                     PROVE  GoesLate(call'[d], b)
            BY <2>1 DEF BufferInv
        <3> QED BY <1>1
    <2>4. Writing(b) => Writing(b)'
        BY <1>3 DEF Writing
    <2> QED BY <2>1, <2>2, <2>3, <2>4 DEF BufferInv
<1>8. OutputInv'
    <2>1. \A b \in Buf : Writing(b) => Writing(b)'
        BY <1>3 DEF Writing
    <2> SUFFICES ASSUME NEW d \in Caller, call'[d].op \in Steps, Live(call'[d]),
                        buf'[call'[d].out].content = "torn"
                 PROVE  Writing(call[d].out)'
        BY DEF OutputInv, OutputWhole
    <2>2. Writing(call'[d].out) /\ call'[d].out \in Buf
        <3>1. FrameOK(call'[d])
            BY <1>4 DEF CallsInv, FrameInv
        <3>2. call'[d].out \in Buf
            BY <3>1 DEF FrameOK, Steps
        <3>3. CASE d = c
            BY <1>1, <3>2, <3>3
        <3>4. CASE d # c
            <4>1. call[d].out \in Hold(call[d]) /\ OutputWhole(call[d])
                BY <1>1, <3>1, <3>4, ArgsHeld DEF Ownership, OutputInv
            <4> QED BY <1>1, <3>2, <3>4, <4>1 DEF OutputWhole
        <3> QED BY <3>3, <3>4
    <2>3. Writing(call'[d].out) => Writing(call[d].out)'
        BY <2>1, <2>2 DEF Writing
    <2> QED BY <2>2, <2>3
<1> QED BY <1>4, <1>5, <1>6, <1>7, <1>8 DEF Ownership

(* Two live frames of one operation hold the same.                         *)
LEMMA LiveFrame ==
    ASSUME NEW e \in Frame, NEW f \in Frame, Live(e), Live(f), f.op = e.op,
           f.src = e.src, f.rhs = e.rhs, f.out = e.out, f.owned = e.owned
    PROVE  /\ Keep(f) = Keep(e) /\ Borrow(f) = Borrow(e) /\ Hold(f) = Hold(e)
           /\ FrameArgs(f) = FrameArgs(e) /\ Owned(f) = Owned(e) /\ (Lends(f) <=> Lends(e))
BY DEF Keep, Owned, Borrow, Lends, Hold, FrameArgs

(* A frame that keeps no more stays apart.                                 *)
LEMMA StaysApart ==
    ASSUME Apart, NEW c \in Caller, NEW f, Keep(f) \subseteq Keep(call[c]),
           Lends(f) => Lends(call[c]), f.out = call[c].out,
           FrameArgs(f) \subseteq FrameArgs(call[c])
    PROVE  \A d \in Caller \ {c} : ApartFrom(f, call[d])
BY DEF Apart, ApartFrom

(* Work in the stream touches what its caller holds.                       *)
LEMMA WorkHeld ==
    ASSUME Types, Ownership, NEW b \in Buf, NEW i \in DOMAIN stream,
           b \in Touches(stream[i])
    PROVE  LET d == stream[i].by IN
           /\ d \in Caller /\ call[d].pc \in Active /\ b \in Hold(call[d])
           /\ b \in FrameArgs(call[d]) /\ stream[i] = Work(d)
<1> DEFINE d == stream[i].by
<1>1. d \in Caller
    <2>1. stream[i] \in WorkItem
        BY DEF Types
    <2> QED BY <2>1 DEF WorkItem
<1>2. call[d] \in Frame /\ FrameOK(call[d]) /\ OnStream(d)
    BY <1>1 DEF Types, Ownership, CallsInv, FrameInv, StreamInv
<1>3. call[d].pc \in Active /\ stream[i] = Work(d)
    BY <1>2 DEF OnStream
<1>4. Live(call[d])
    BY <1>3 DEF Live, Active
<1> HIDE DEF d
<1>5. b \in FrameArgs(call[d])
    BY <1>3, SessionAssumption DEF Touches, Work, FrameArgs
<1>6. b \in Hold(call[d])
    BY <1>2, <1>4, <1>5, ArgsHeld
<1> QED BY <1>1, <1>3, <1>5, <1>6 DEF d

(* The frame e begins to return as f: its destructors and what it gives    *)
(* back are buffers it owned, with one destructor for each thing of them   *)
(* that is left.                                                           *)
Unwinds(e, f, bf) ==
    /\ e.pc \notin {"idle", "dropping", "forgotten"} /\ f.pc = "dropping"
    /\ f.op = e.op /\ f.src = e.src /\ f.rhs = e.rhs /\ f.out = e.out /\ f.owned = e.owned
    /\ ~(e.op = "step" /\ f.ok)
    /\ Tidy(f.drops) /\ (e.op # "into_host" \/ f.ok => InOrder(f.drops))
    /\ Dropped(f) \subseteq Owned(e) /\ f.gives \subseteq Owned(e) \ Dropped(f)
    /\ \A b \in Dropped(f) : /\ bf[b].stored <=> <<"free", b>> \in Els(f.drops)
                             /\ bf[b].charged <=> <<"uncharge", b>> \in Els(f.drops)
    /\ \A b \in f.gives : bf[b].stored /\ bf[b].charged

LEMMA FrameUnwound ==
    ASSUME NEW e \in Frame, NEW bf, NEW bg, NEW f \in Frame, FrameInv(e, bf),
           Unwinds(e, f, bg), \A b \in Hold(e) : bg[b].owner = bf[b].owner
    PROVE  /\ FrameInv(f, bg) /\ ~Live(f)
           /\ Keep(f) \subseteq Keep(e) /\ Hold(f) \subseteq Hold(e)
           /\ (Lends(f) <=> Lends(e)) /\ FrameArgs(f) = FrameArgs(e) /\ f.out = e.out
<1>1. /\ f.op = e.op /\ f.src = e.src /\ f.rhs = e.rhs /\ f.out = e.out
      /\ f.owned = e.owned /\ f.pc = "dropping" /\ Tidy(f.drops)
      /\ ~(e.op = "step" /\ f.ok) /\ e.pc \notin {"idle", "dropping", "forgotten"}
      /\ Dropped(f) \subseteq Owned(e) /\ f.gives \subseteq Owned(e)
    BY DEF Unwinds
<1>2. Live(e) /\ ~Live(f)
    BY <1>1 DEF Live
<1>3. Keep(f) \subseteq Keep(e)
    BY <1>1, <1>2 DEF Keep
<1>4. Borrow(f) = Borrow(e) /\ (Lends(f) <=> Lends(e)) /\ FrameArgs(f) = FrameArgs(e)
    BY <1>1 DEF Borrow, Lends, FrameArgs
<1>5. FrameOK(f)
    <2>1. FrameOK(e)
        BY DEF FrameInv
    <2> QED BY <1>1, <2>1 DEF FrameOK
<1>6. DropInv(f, bg)
    <2>1. e.op = "into_host" => Owned(e) \subseteq {e.src}
        BY DEF FrameInv, FrameOK, Owned, Uploads
    <2> QED BY <1>1, <2>1 DEF DropInv, Unwinds
<1>7. \A b \in Keep(e) : bg[b].owner = "call"
    BY <1>1 DEF FrameInv, Hold
<1>8. \A b \in Borrow(e) : bg[b].owner = "user"
    BY DEF FrameInv, Hold
<1>9. FrameInv(f, bg)
    BY <1>1, <1>2, <1>3, <1>4, <1>5, <1>6, <1>7, <1>8 DEF FrameInv
<1> QED BY <1>1, <1>2, <1>3, <1>4, <1>9 DEF Hold

(* A caller with no work in the stream begins to return; only a step has   *)
(* settled its output before.                                              *)
LEMMA CallUnwound ==
    ASSUME Types, Ownership, NEW c \in Caller,
           \A i \in DOMAIN stream : stream[i].by # c,
           UNCHANGED <<stream, running, device, aborted>>,
           NEW f \in Frame, call' = [call EXCEPT ![c] = f], Unwinds(call[c], f, buf),
           buf' = Settled(c) \/ buf' = buf
    PROVE  Types' /\ Ownership'
<1> DEFINE e == call[c]
<1>1. /\ e \in Frame /\ FrameInv(e, buf) /\ FrameOK(e) /\ OutputWhole(e) /\ Live(e)
      /\ e.pc \notin {"idle", "dropping", "forgotten"} /\ ~(e.op = "step" /\ f.ok)
      /\ f.pc = "dropping" /\ f.op = e.op
    BY DEF Types, Ownership, CallsInv, OutputInv, FrameInv, Live, Frame, Unwinds
<1>2. /\ buf' \in [Buf -> Buffer]
      /\ \A b \in Buf : buf'[b] # buf[b] =>
            /\ e.op \in Steps /\ b = e.out
            /\ buf'[b].owner = buf[b].owner /\ buf'[b].stored = buf[b].stored
            /\ buf'[b].charged = buf[b].charged
            /\ buf'[b].content = "torn" => buf'[b].uncertain \/ Writing(b)
    <2>1. CASE buf' = buf
        BY <2>1 DEF Types
    <2>2. CASE buf' # buf
        <3>1. e.op \in Steps /\ buf' = Settled(c)
            BY <2>2 DEF Settled
        <3>2. e.out \in Buf /\ buf[e.out] \in Buffer /\ buf \in [Buf -> Buffer]
            BY <1>1, <3>1 DEF FrameOK, Steps, Types
        <3>3. CASE e.ok
            <4>1. buf' = [buf EXCEPT ![e.out].uncertain = FALSE]
                BY <3>1, <3>3 DEF Settled
            <4>2. buf'[e.out].content = "torn" => Writing(e.out)
                BY <1>1, <3>1, <3>2, <4>1 DEF OutputWhole, Buffer
            <4>3. \A b \in Buf : b # e.out => buf'[b] = buf[b]
                BY <3>2, <4>1
            <4>4. buf'[e.out] = [buf[e.out] EXCEPT !.uncertain = FALSE]
                BY <3>2, <4>1
            <4>5. buf' \in [Buf -> Buffer]
                BY <3>2, <4>1 DEF Buffer
            <4> HIDE DEF e
            <4> QED BY <3>1, <3>2, <4>2, <4>3, <4>4, <4>5 DEF Buffer
        <3>4. CASE ~e.ok
            <4>1. buf' = [buf EXCEPT ![e.out].content = "torn"]
                BY <3>1, <3>4 DEF Settled
            <4>2. buf[e.out].uncertain
                <5>1. LiveInv(e, buf)
                    BY <1>1 DEF FrameInv
                <5>2. e.pc = "submitted"
                    BY <1>1, <3>1, <3>4 DEF FrameOK, Frame, Steps
                <5> QED BY <3>1, <5>1, <5>2 DEF LiveInv
            <4>3. \A b \in Buf : b # e.out => buf'[b] = buf[b]
                BY <3>2, <4>1
            <4>4. buf'[e.out] = [buf[e.out] EXCEPT !.content = "torn"]
                BY <3>2, <4>1
            <4>5. buf' \in [Buf -> Buffer]
                BY <3>2, <4>1 DEF Buffer
            <4> HIDE DEF e
            <4> QED BY <3>1, <3>2, <4>2, <4>3, <4>4, <4>5 DEF Buffer
        <3> QED BY <3>3, <3>4
    <2> QED BY <2>1, <2>2
<1>3. Owned(e) \subseteq Buf
    BY DEF Owned
<1>4. \A b \in Buf : /\ buf'[b].owner = buf[b].owner /\ buf'[b].stored = buf[b].stored
                     /\ buf'[b].charged = buf[b].charged
    BY <1>2
<1>5. Hold(e) \subseteq Buf
    BY <1>1, <1>3 DEF Hold, Keep, Borrow
<1>6. /\ FrameInv(f, buf') /\ ~Live(f)
      /\ Keep(f) \subseteq Keep(e) /\ Hold(f) \subseteq Hold(e)
      /\ (Lends(f) <=> Lends(e)) /\ FrameArgs(f) = FrameArgs(e) /\ f.out = e.out
    <2>1. Dropped(f) \subseteq Buf /\ f.gives \subseteq Buf
        BY DEF Dropped, Frame
    <2>2. Unwinds(call[c], f, buf')
        BY <1>4, <2>1 DEF Unwinds
    <2>3. \A b \in Hold(call[c]) : buf'[b].owner = buf[b].owner
        BY <1>4, <1>5
    <2> QED BY <1>1, <2>2, <2>3, FrameUnwound
<1>7. \A d \in Caller \ {c} : ApartFrom(f, call[d])
    BY <1>6, StaysApart DEF Ownership
<1>8. \A d \in Caller \ {c} : \A b \in Hold(call[d]) : buf'[b] = buf[b]
    <2> SUFFICES ASSUME NEW d \in Caller \ {c}, NEW b \in Hold(call[d]), buf'[b] # buf[b]
                 PROVE  FALSE
        OBVIOUS
    <2>1. b \in Buf /\ e.op \in Steps /\ b = e.out
        <3>1. Hold(call[d]) \subseteq Buf
            BY DEF Hold, Keep, Borrow, Owned, Dropped, Types, Frame
        <3> QED BY <1>2, <3>1
    <2>2. b \in Keep(e) \/ (b \in Borrow(e) /\ Lends(e))
        BY <1>1, <2>1 DEF Keep, Owned, Borrow, Lends
    <2> QED BY <2>1, <2>2, HeldByOne DEF Ownership
<1>9. OnStream(c)'
    BY DEF OnStream
<1>10. \A b \in Buf : buf'[b] # buf[b] => BufferInv(b)'
    <2> SUFFICES ASSUME NEW b \in Buf, buf'[b] # buf[b] PROVE BufferInv(b)'
        OBVIOUS
    <2>1. BufferInv(b) /\ (Working(b)' <=> Working(b)) /\ (Writing(b)' <=> Writing(b))
        BY DEF Ownership, BufInv, Working, Writing
    <2>2. buf'[b].stored => buf'[b].charged
        <3>1. \A d \in Caller : GoesLate(call[d], b) => b \in Hold(call[d])
            BY DEF GoesLate, Hold, Keep, Dropped, Live
        <3>2. \A d \in Caller \ {c} : ~GoesLate(call[d], b)
            BY <1>8, <3>1
        <3>3. ~GoesLate(e, b)
            BY <1>1 DEF GoesLate
        <3> QED BY <1>4, <2>1, <3>2, <3>3 DEF BufferInv
    <2> QED BY <1>2, <1>4, <2>1, <2>2 DEF BufferInv
<1>11. Types'
    BY <1>2 DEF Types
<1>12. \A b \in Buf : ~GoesLate(e, b)
    BY <1>1 DEF GoesLate
<1>13. Ownership'
    BY <1>2, <1>6, <1>7, <1>8, <1>9, <1>10, <1>12, CallerStep
<1> QED BY <1>11, <1>13

-----------------------------------------------------------------------------
(* The lists a call leaves with: each runs one destructor for every thing  *)
(* that is left of buffers the frame owns.                                 *)
Releases(e, q, bf) ==
    /\ Tidy(q)
    /\ \A b \in Buf :
          <<"free", b>> \in Els(q) \/ <<"uncharge", b>> \in Els(q) =>
              /\ b \in Owned(e)
              /\ bf[b].stored <=> <<"free", b>> \in Els(q)
              /\ bf[b].charged <=> <<"uncharge", b>> \in Els(q)

LEMMA Typed ==
    ASSUME NEW q, Tidy(q)
    PROVE  q \in Seq({"free", "uncharge", "unadmit"} \X (Buf \cup {NoBuf}))
<1>1. Destructor \subseteq {"free", "uncharge", "unadmit"} \X (Buf \cup {NoBuf})
    BY DEF Destructor
<1> QED BY <1>1 DEF Tidy

LEMMA UnadmitOnly ==
    ASSUME NEW e, NEW bf
    PROVE  /\ Releases(e, Unadmit, bf) /\ Releases(e, Unadmit \o <<>>, bf)
           /\ InOrder(Unadmit) /\ InOrder(Unadmit \o <<>>)
           /\ Els(Unadmit \o <<>>) = Els(Unadmit)
<1>1. /\ Tidy(Unadmit \o <<>>) /\ InOrder(Unadmit \o <<>>)
      /\ Els(Unadmit \o <<>>) = Els(Unadmit)
    <2>1. Els(Unadmit) \cap Els(<<>>) = {} /\ \A b \in Buf : <<"free", b>> \notin Els(<<>>)
        BY Empty
    <2>2. Els(Unadmit) \cup Els(<<>>) = Els(Unadmit)
        BY Empty
    <2> QED BY <2>1, <2>2, Empty, UnadmitList, Concat
<1> QED BY <1>1, UnadmitList DEF Releases

(* A live frame owns buffers with their charge, and but for an upload with *)
(* their storage.                                                          *)
LEMMA OwnedWhole ==
    ASSUME NEW e \in Frame, NEW bf, FrameInv(e, bf), Live(e)
    PROVE  /\ \A b \in Owned(e) : bf[b].charged /\ (e.op \notin Uploads => bf[b].stored)
           /\ e.op \in Uploads => e.out \in Buf /\ e.out \in Owned(e)
           /\ e.op \in Steps /\ e.owned => e.out \in Buf /\ e.out \in Owned(e)
           /\ e.op = "into_host" => e.src \in Buf /\ e.src \in Owned(e)
           /\ e.op = "async" => /\ Owned(e) = {e.src, e.rhs, e.out}
                                /\ {e.src, e.rhs, e.out} \subseteq Buf
                                /\ e.src # e.rhs /\ e.src # e.out /\ e.rhs # e.out
<1>1. FrameOK(e) /\ LiveInv(e, bf)
    BY DEF FrameInv
<1>2. /\ e.op \in Uploads => e.out \in Buf /\ e.out \in Owned(e)
      /\ e.op \in Steps /\ e.owned => e.out \in Buf /\ e.out \in Owned(e)
      /\ e.op = "into_host" => e.src \in Buf /\ e.src \in Owned(e)
    BY <1>1 DEF FrameOK, Owned, Uploads, Steps
<1>3. ASSUME e.op = "async"
      PROVE  /\ Owned(e) = {e.src, e.rhs, e.out}
             /\ {e.src, e.rhs, e.out} \subseteq Buf
             /\ e.src # e.rhs /\ e.src # e.out /\ e.rhs # e.out
    BY <1>1, <1>3 DEF FrameOK, Owned, Uploads
<1> QED BY <1>1, <1>2, <1>3 DEF LiveInv

LEMMA DropFrameReleases ==
    ASSUME NEW c \in Caller, call[c] \in Frame, FrameInv(call[c], buf), Live(call[c]),
           call[c].op = "async"
    PROVE  /\ Releases(call[c], DropFrame(c), buf) /\ InOrder(DropFrame(c))
           /\ <<"unadmit", NoBuf>> \in Els(DropFrame(c))
<1> DEFINE q == DropFrame(c)
<1>1. /\ Tidy(q) /\ InOrder(q)
      /\ Els(q) = {<<"unadmit", NoBuf>>}
             \cup ({"free", "uncharge"} \X {call[c].src, call[c].out, call[c].rhs})
    BY OwnedWhole, FutureFrame DEF DropFrame
<1> HIDE DEF q
<1>2. \A b \in Owned(call[c]) : buf[b].stored /\ buf[b].charged
    BY OwnedWhole DEF Uploads
<1>3. Owned(call[c]) = {call[c].src, call[c].rhs, call[c].out}
    BY OwnedWhole
<1>4. Releases(call[c], q, buf)
    BY <1>1, <1>2, <1>3 DEF Releases
<1> QED BY <1>1, <1>4 DEF q

LEMMA DropsAtBindReleases ==
    ASSUME NEW c \in Caller, call[c] \in Frame, FrameInv(call[c], buf),
           call[c].pc \in {"admitted", "unpolled"}
    PROVE  /\ Releases(call[c], DropsAtBind(c), buf)
           /\ call[c].op # "into_host" => InOrder(DropsAtBind(c))
           /\ <<"unadmit", NoBuf>> \in Els(DropsAtBind(c))
<1> DEFINE e == call[c]
           q == DropsAtBind(c)
<1>1. Live(e) /\ FrameOK(e) /\ LiveInv(e, buf) /\ e.op \in Uploads \cup Steps \cup {"into_host", "async"}
    BY DEF Live, FrameInv, FrameOK
<1>2. CASE e.op \in Uploads
    <2> DEFINE r == Unadmit \o <<<<"uncharge", e.out>>>>
    <2>1. q = r
        BY <1>2 DEF DropsAtBind, Steps, Uploads
    <2>2. e.out \in Buf /\ e.out \in Owned(e) /\ buf[e.out].charged /\ ~buf[e.out].stored
        BY <1>1, <1>2, OwnedWhole DEF LiveInv, FrameOK, Uploads
    <2>3. Tidy(r) /\ InOrder(r) /\ Els(r) = {<<"unadmit", NoBuf>>, <<"uncharge", e.out>>}
        BY <2>2, AdmissionThenCharge
    <2> HIDE DEF r, e
    <2> QED BY <2>1, <2>2, <2>3 DEF Releases, e
<1>3. CASE e.op \in Steps /\ e.owned
    <2> DEFINE r == Unadmit \o DropOf(e.out)
    <2>1. q = r
        BY <1>3 DEF DropsAtBind, Steps, Uploads
    <2>2. e.out \in Buf /\ e.out \in Owned(e) /\ buf[e.out].charged /\ buf[e.out].stored
        BY <1>1, <1>3, OwnedWhole DEF Steps, Uploads
    <2>3. /\ Tidy(r) /\ InOrder(r)
          /\ Els(r) = {<<"unadmit", NoBuf>>, <<"free", e.out>>, <<"uncharge", e.out>>}
        BY <2>2, AdmissionThenBuffer
    <2> HIDE DEF r, e
    <2> QED BY <2>1, <2>2, <2>3 DEF Releases, e
<1>4. CASE e.op \in Steps /\ ~e.owned
    <2>1. q = Unadmit \o <<>>
        BY <1>4 DEF DropsAtBind, Steps, Uploads
    <2> HIDE DEF q
    <2> QED BY <2>1, UnadmitOnly, UnadmitList DEF q
<1>5. CASE e.op = "into_host"
    <2> DEFINE r == <<<<"uncharge", e.src>>, <<"free", e.src>>>> \o Unadmit
    <2>1. q = r
        BY <1>5 DEF DropsAtBind, Steps, Uploads
    <2>2. e.src \in Buf /\ e.src \in Owned(e) /\ buf[e.src].charged /\ buf[e.src].stored
        BY <1>1, <1>5, OwnedWhole DEF Uploads
    <2>3. /\ Tidy(r)
          /\ Els(r) = {<<"unadmit", NoBuf>>, <<"free", e.src>>, <<"uncharge", e.src>>}
        BY <2>2, ChargeThenStorage
    <2> HIDE DEF r, e
    <2> QED BY <1>5, <2>1, <2>2, <2>3 DEF Releases, e
<1>6. CASE e.op = "async"
    <2>1. q = DropFrame(c)
        BY <1>6 DEF DropsAtBind, Steps, Uploads
    <2> QED BY <1>1, <1>6, <2>1, DropFrameReleases
<1> QED BY <1>1, <1>2, <1>3, <1>4, <1>5, <1>6

LEMMA DropsAtReturnReleases ==
    ASSUME NEW c \in Caller, call[c] \in Frame, buf \in [Buf -> Buffer],
           FrameInv(call[c], buf), call[c].pc \in {"submitted", "pending"}
    PROVE  /\ Releases(call[c], DropsAtReturn(c), buf) /\ InOrder(DropsAtReturn(c))
           /\ <<"unadmit", NoBuf>> \in Els(DropsAtReturn(c))
           /\ Gives(c) \subseteq Owned(call[c])
           /\ \A b \in Gives(c) : /\ buf[b].stored /\ buf[b].charged
                                  /\ <<"free", b>> \notin Els(DropsAtReturn(c))
                                  /\ <<"uncharge", b>> \notin Els(DropsAtReturn(c))
           /\ call[c].op = "step" /\ call[c].ok => DropsAtReturn(c) = Unadmit /\ Gives(c) = {}
<1> DEFINE e == call[c]
           q == DropsAtReturn(c)
<1>1. Live(e) /\ FrameOK(e) /\ LiveInv(e, buf) /\ e.op \in Uploads \cup Steps \cup {"into_host", "async"}
    BY DEF Live, FrameInv, FrameOK, Frame, Uploads, Steps
<1>2. CASE e.op \in Uploads /\ e.ok
    <2>1. q = Unadmit
        BY <1>2 DEF DropsAtReturn, Steps, Uploads
    <2>2. e.out \in Buf /\ e.out \in Owned(e) /\ buf[e.out].charged /\ buf[e.out].stored
        BY <1>1, <1>2, OwnedWhole DEF LiveInv, FrameOK, Frame, Uploads
    <2>3. Gives(c) = IF e.op = "upload" THEN {e.out} ELSE {}
        BY <1>1, <1>2 DEF Gives, Uploads, FrameOK
    <2> HIDE DEF q, e
    <2>4. /\ Releases(e, q, buf) /\ InOrder(q)
          /\ Els(q) = {<<"unadmit", NoBuf>>}
        BY <2>1, UnadmitOnly, UnadmitList
    <2> QED BY <2>1, <2>2, <2>3, <2>4 DEF q, e
<1>3. CASE e.op \in Uploads /\ ~e.ok
    <2> DEFINE r == (IF buf[e.out].stored THEN <<<<"free", e.out>>>> ELSE <<>>)
                        \o Unadmit \o <<<<"uncharge", e.out>>>>
    <2>1. q = r
        BY <1>3 DEF DropsAtReturn, Steps, Uploads
    <2>2. e.out \in Buf /\ e.out \in Owned(e) /\ buf[e.out].charged
        BY <1>1, <1>3, OwnedWhole
    <2>3. buf[e.out].stored \in BOOLEAN
        BY <2>2 DEF Buffer
    <2>4. Gives(c) = {}
        BY <1>3 DEF Gives
    <2>5. /\ Tidy(r) /\ InOrder(r)
          /\ \A x : x \in Els(r) <=> \/ x = <<"unadmit", NoBuf>>
                                    \/ x = <<"uncharge", e.out>>
                                    \/ (buf[e.out].stored /\ x = <<"free", e.out>>)
        BY <2>2, <2>3, FailedUpload
    <2> HIDE DEF r, e
    <2> QED BY <1>3, <2>1, <2>2, <2>4, <2>5 DEF Releases, e
<1>4. CASE e.op \in Steps /\ e.owned /\ ~e.ok
    <2> DEFINE r == Unadmit \o DropOf(e.out)
    <2>1. q = r /\ Gives(c) = {}
        BY <1>4 DEF DropsAtReturn, Gives, Steps, Uploads
    <2>2. e.out \in Buf /\ e.out \in Owned(e) /\ buf[e.out].charged /\ buf[e.out].stored
        BY <1>1, <1>4, OwnedWhole DEF Steps, Uploads
    <2>3. /\ Tidy(r) /\ InOrder(r)
          /\ Els(r) = {<<"unadmit", NoBuf>>, <<"free", e.out>>, <<"uncharge", e.out>>}
        BY <2>2, AdmissionThenBuffer
    <2> HIDE DEF r, e
    <2> QED BY <1>4, <2>1, <2>2, <2>3 DEF Releases, e
<1>5. CASE e.op \in Steps /\ ~(e.owned /\ ~e.ok)
    <2>1. q = Unadmit \o <<>>
        BY <1>5 DEF DropsAtReturn, Steps, Uploads
    <2>2. Gives(c) = IF e.ok /\ e.owned THEN {e.out} ELSE {}
        BY <1>5 DEF Gives, Steps
    <2>3. e.owned => e.out \in Buf /\ e.out \in Owned(e)
                     /\ buf[e.out].charged /\ buf[e.out].stored
        BY <1>1, <1>5, OwnedWhole DEF Steps, Uploads
    <2> HIDE DEF q, e
    <2>4. /\ Releases(e, q, buf) /\ InOrder(q)
          /\ Els(q) = {<<"unadmit", NoBuf>>}
        BY <2>1, UnadmitOnly, UnadmitList
    <2> QED BY <1>5, <2>1, <2>2, <2>3, <2>4 DEF q, e, Steps
<1>6. CASE e.op = "into_host"
    <2> DEFINE r == DropOf(e.src) \o Unadmit
    <2>1. q = r /\ Gives(c) = {}
        BY <1>6 DEF DropsAtReturn, Gives, Steps, Uploads, FrameOK, FrameInv
    <2>2. e.src \in Buf /\ e.src \in Owned(e) /\ buf[e.src].charged /\ buf[e.src].stored
        BY <1>1, <1>6, OwnedWhole DEF Uploads
    <2>3. /\ Tidy(r) /\ InOrder(r)
          /\ Els(r) = {<<"unadmit", NoBuf>>, <<"free", e.src>>, <<"uncharge", e.src>>}
        BY <2>2, BufferThenAdmission
    <2> HIDE DEF r, e
    <2> QED BY <1>6, <2>1, <2>2, <2>3 DEF Releases, e
<1>7. CASE e.op = "async" /\ ~e.ok
    <2>1. q = DropFrame(c) /\ Gives(c) = {}
        BY <1>7 DEF DropsAtReturn, Gives, Steps, Uploads
    <2> QED BY <1>1, <1>7, <2>1, DropFrameReleases
<1>8. CASE e.op = "async" /\ e.ok
    <2>1. q = Unadmit
        BY <1>8 DEF DropsAtReturn, Steps, Uploads
    <2>2. Gives(c) \subseteq {e.src, e.rhs, e.out}
        BY <1>1, <1>8 DEF Gives, Args, FrameOK
    <2>3. Owned(e) = {e.src, e.rhs, e.out}
          /\ \A b \in Owned(e) : buf[b].charged /\ buf[b].stored
        BY <1>1, <1>8, OwnedWhole DEF Uploads
    <2> HIDE DEF q, e
    <2>4. /\ Releases(e, q, buf) /\ InOrder(q)
          /\ Els(q) = {<<"unadmit", NoBuf>>}
        BY <2>1, UnadmitOnly, UnadmitList
    <2> QED BY <1>8, <2>1, <2>2, <2>3, <2>4 DEF q, e
<1> QED BY <1>1, <1>2, <1>3, <1>4, <1>5, <1>6, <1>7, <1>8

-----------------------------------------------------------------------------
(* A call that ends with such a list.                                      *)
Leaves(e, q, k, g) == [e EXCEPT !.pc = "dropping", !.drops = q, !.ok = k, !.gives = g]

MayLeave(e, q, k, g, bf) ==
    /\ e.pc \notin {"idle", "dropping", "forgotten"}
    /\ ~(e.op = "step" /\ k) /\ k \in BOOLEAN /\ g \subseteq Owned(e)
    /\ Releases(e, q, bf) /\ (e.op # "into_host" \/ k => InOrder(q))
    /\ \A b \in g : /\ bf[b].stored /\ bf[b].charged
                    /\ <<"free", b>> \notin Els(q) /\ <<"uncharge", b>> \notin Els(q)

LEMMA LeavesUnwinds ==
    ASSUME NEW e \in Frame, NEW q, NEW k, NEW g, NEW bf, MayLeave(e, q, k, g, bf)
    PROVE  Leaves(e, q, k, g) \in Frame /\ Unwinds(e, Leaves(e, q, k, g), bf)
<1> DEFINE f == Leaves(e, q, k, g)
<1>1. /\ e.pc \notin {"idle", "dropping", "forgotten"}
      /\ ~(e.op = "step" /\ k) /\ k \in BOOLEAN /\ g \subseteq Owned(e)
      /\ Releases(e, q, bf) /\ (e.op # "into_host" \/ k => InOrder(q))
      /\ \A b \in g : /\ bf[b].stored /\ bf[b].charged
                      /\ <<"free", b>> \notin Els(q) /\ <<"uncharge", b>> \notin Els(q)
    BY DEF MayLeave
<1>2. g \subseteq Buf /\ q \in Seq({"free", "uncharge", "unadmit"} \X (Buf \cup {NoBuf}))
    BY <1>1, Typed DEF Owned, Releases
<1>3. /\ f \in Frame /\ f.pc = "dropping" /\ f.drops = q /\ f.ok = k /\ f.gives = g
      /\ f.op = e.op /\ f.src = e.src /\ f.rhs = e.rhs /\ f.out = e.out /\ f.owned = e.owned
    BY <1>1, <1>2 DEF Leaves, Frame
<1> HIDE DEF f
<1>4. \A b \in Dropped(f) : /\ b \in Owned(e) /\ b \notin g
                            /\ bf[b].stored <=> <<"free", b>> \in Els(q)
                            /\ bf[b].charged <=> <<"uncharge", b>> \in Els(q)
    BY <1>1, <1>3 DEF Dropped, Releases
<1>5. Unwinds(e, f, bf)
    BY <1>1, <1>3, <1>4 DEF Unwinds, Releases
<1> QED BY <1>3, <1>5 DEF f

LEMMA CallLeaves ==
    ASSUME Types, Ownership, NEW c \in Caller,
           \A i \in DOMAIN stream : stream[i].by # c,
           UNCHANGED <<stream, running, device, aborted>>,
           NEW q, NEW k, NEW g, MayLeave(call[c], q, k, g, buf),
           call' = [call EXCEPT ![c] = Leaves(call[c], q, k, g)],
           buf' = Settled(c) \/ buf' = buf
    PROVE  Types' /\ Ownership'
<1>1. call[c] \in Frame
    BY DEF Types
<1>2. Leaves(call[c], q, k, g) \in Frame /\ Unwinds(call[c], Leaves(call[c], q, k, g), buf)
    BY <1>1, LeavesUnwinds
<1>3. call[c].pc \notin {"idle", "dropping", "forgotten"}
    BY DEF MayLeave
<1> QED BY <1>2, <1>3, CallUnwound

(* Session::bind fails.                                                    *)
LEMMA BindFailsKeeps ==
    ASSUME Types, Ownership, NEW c \in Caller, BindFails(c)
    PROVE  Types' /\ Ownership'
<1> DEFINE q == DropsAtBind(c)
<1>1. /\ call[c] \in Frame /\ FrameInv(call[c], buf) /\ call[c].pc \in {"admitted", "unpolled"}
      /\ call[c].gives = {}
    BY DEF Types, Ownership, CallsInv, BindFails, FrameInv, FrameOK
<1>2. /\ Releases(call[c], q, buf) /\ (call[c].op # "into_host" => InOrder(q))
    BY <1>1, DropsAtBindReleases
<1>3. \A i \in DOMAIN stream : stream[i].by # c
    BY <1>1, NothingSubmitted DEF Active, Ownership
<1> HIDE DEF q
<1>4. MayLeave(call[c], q, FALSE, {}, buf)
    BY <1>1, <1>2 DEF MayLeave
<1>5. call' = [call EXCEPT ![c] = Leaves(call[c], q, FALSE, {})] /\ buf' = buf
      /\ UNCHANGED <<stream, running, device, aborted>>
    BY <1>1 DEF BindFails, Fail, Unwind, Leaves, q, Frame
<1> QED BY <1>3, <1>4, <1>5, CallLeaves

(* The future dropped before its first poll, or after its drain.           *)
LEMMA FutureLeavesKeeps ==
    ASSUME Types, Ownership, NEW c \in Caller,
           \/ call[c].pc = "unpolled" /\ DropFuture(c)
           \/ Drained(c)
    PROVE  Types' /\ Ownership'
<1> DEFINE q == DropFrame(c)
<1>1. /\ call[c] \in Frame /\ FrameInv(call[c], buf) /\ FrameOK(call[c])
      /\ call[c].pc = "unpolled" \/ (call[c].pc = "draining" /\ call[c].wait = 0)
      /\ call' = [call EXCEPT ![c] = Fail(c, q)] /\ UNCHANGED <<buf, stream, running, device, aborted>>
    BY DEF Types, Ownership, CallsInv, DropFuture, Drained, FrameInv
<1>2. call[c].op = "async" /\ call[c].gives = {} /\ Live(call[c])
    BY <1>1 DEF FrameOK, Live
<1>3. /\ Releases(call[c], q, buf) /\ InOrder(q)
    BY <1>1, <1>2, DropFrameReleases
<1>4. \A i \in DOMAIN stream : stream[i].by # c
    BY <1>1, NothingSubmitted DEF Active, Ownership
<1> HIDE DEF q
<1>5. MayLeave(call[c], q, FALSE, {}, buf)
    BY <1>1, <1>2, <1>3 DEF MayLeave
<1>6. call' = [call EXCEPT ![c] = Leaves(call[c], q, FALSE, {})]
    BY <1>1, <1>2 DEF Fail, Unwind, Leaves, Frame
<1> QED BY <1>1, <1>4, <1>5, <1>6, CallLeaves

(* A rejected operation: an upload gives back its reservation, a step that *)
(* owns its output drops it.                                               *)
LEMMA RejectedKeeps ==
    ASSUME Types, Ownership, NEW c \in Caller, AdmitUpload(c) \/ AdmitStep(c),
           ~AdmitsOperation(usage)
    PROVE  Types' /\ Ownership'
<1> DEFINE e == call[c]
           q == IF e.pc = "reserved" THEN <<<<"uncharge", e.out>>>>
                ELSE IF e.owned THEN DropOf(e.out) ELSE <<>>
<1>1. /\ e \in Frame /\ FrameInv(e, buf) /\ FrameOK(e) /\ LiveInv(e, buf) /\ Live(e)
      /\ e.pc \in {"reserved", "checked"}
      /\ call' = [call EXCEPT ![c] = Fail(c, q)] /\ UNCHANGED <<buf, stream, running, device, aborted>>
    BY DEF Types, Ownership, CallsInv, AdmitUpload, AdmitStep, FrameInv, Live
<1>2. /\ e.gives = {} /\ (e.pc = "reserved" => e.op \in Uploads)
      /\ (e.pc = "checked" => e.op \in Steps)
    BY <1>1 DEF FrameOK
<1>3. \A i \in DOMAIN stream : stream[i].by # c
    BY <1>1, NothingSubmitted DEF Active, Ownership
<1>4. Releases(e, q, buf) /\ InOrder(q)
    <2>1. CASE e.pc = "reserved"
        <3> DEFINE r == <<<<"uncharge", e.out>>>>
        <3>1. e.out \in Buf /\ e.out \in Owned(e) /\ buf[e.out].charged /\ ~buf[e.out].stored
            BY <1>1, <1>2, <2>1, OwnedWhole DEF LiveInv
        <3>2. Tidy(r) /\ InOrder(r) /\ Els(r) = {<<"uncharge", e.out>>}
            BY <3>1, UnchargeList
        <3>3. q = r
            BY <2>1
        <3> HIDE DEF r, e, q
        <3> QED BY <3>1, <3>2, <3>3 DEF Releases
    <2>2. CASE e.pc = "checked" /\ e.owned
        <3> DEFINE r == DropOf(e.out)
        <3>1. e.out \in Buf /\ e.out \in Owned(e) /\ buf[e.out].charged /\ buf[e.out].stored
            BY <1>1, <1>2, <2>2, OwnedWhole DEF Steps, Uploads
        <3>2. Tidy(r) /\ InOrder(r) /\ Els(r) = {<<"free", e.out>>, <<"uncharge", e.out>>}
            BY <3>1, DropOfList
        <3>3. q = r
            BY <2>2
        <3> HIDE DEF r, e, q
        <3> QED BY <3>1, <3>2, <3>3 DEF Releases
    <2>3. CASE e.pc = "checked" /\ ~e.owned
        <3>1. q = <<>>
            BY <2>3
        <3> HIDE DEF e, q
        <3> QED BY <3>1, Empty DEF Releases
    <2> QED BY <1>1, <2>1, <2>2, <2>3
<1> HIDE DEF q
<1>5. MayLeave(call[c], q, FALSE, {}, buf)
    BY <1>1, <1>2, <1>4 DEF MayLeave
<1>6. call' = [call EXCEPT ![c] = Leaves(call[c], q, FALSE, {})]
    BY <1>1, <1>2 DEF Fail, Unwind, Leaves, Frame
<1> QED BY <1>1, <1>3, <1>5, <1>6, CallLeaves

(* The terminal returns, and nothing is left to do on the device: the call *)
(* leaves, or the upload of a step goes on.                                *)
LEMMA CompleteKeeps ==
    ASSUME Types, Ownership, NEW c \in Caller, Complete(c)
    PROVE  Types' /\ Ownership'
<1> DEFINE e == call[c]
           q == DropsAtReturn(c)
           g == Gives(c)
<1>1. /\ e \in Frame /\ FrameInv(e, buf) /\ FrameOK(e) /\ LiveInv(e, buf) /\ Live(e)
      /\ e.pc \in {"submitted", "pending"} /\ e.wait = 0
      /\ call' = [call EXCEPT ![c] = [Unwind(c, q) EXCEPT !.gives = g]]
      /\ buf' = Settled(c) /\ UNCHANGED <<stream, running, device, aborted>>
    BY DEF Types, Ownership, CallsInv, Complete, FrameInv, Live
<1>2. \A i \in DOMAIN stream : stream[i].by # c
    BY <1>1, NothingSubmitted DEF Ownership
<1>3. /\ Releases(e, q, buf) /\ InOrder(q) /\ g \subseteq Owned(e)
      /\ \A b \in g : /\ buf[b].stored /\ buf[b].charged
                      /\ <<"free", b>> \notin Els(q) /\ <<"uncharge", b>> \notin Els(q)
      /\ e.op = "step" /\ e.ok => q = Unadmit /\ g = {}
    BY <1>1, DropsAtReturnReleases DEF Types
<1>4. call' = [call EXCEPT ![c] = Leaves(e, q, e.ok, g)]
    BY <1>1 DEF Unwind, Leaves, Frame
<1> HIDE DEF q, g
<1>5. CASE ~(e.op = "step" /\ e.ok)
    <2>1. MayLeave(call[c], q, call[c].ok, g, buf)
        BY <1>1, <1>3, <1>5 DEF MayLeave, Frame
    <2> QED BY <1>1, <1>2, <1>4, <2>1, CallLeaves
<1>6. CASE e.op = "step" /\ e.ok
    <2> DEFINE f == Leaves(e, q, e.ok, g)
    <2>1. q = Unadmit /\ g = {} /\ Tidy(q) /\ InOrder(q) /\ Els(q) = {<<"unadmit", NoBuf>>}
        BY <1>3, <1>6, UnadmitList
    <2>2. /\ f \in Frame /\ f.pc = "dropping" /\ f.drops = q /\ f.ok = TRUE /\ f.gives = {}
          /\ f.op = e.op /\ f.src = e.src /\ f.rhs = e.rhs /\ f.out = e.out /\ f.owned = e.owned
        <3>1. q \in Seq({"free", "uncharge", "unadmit"} \X (Buf \cup {NoBuf}))
            BY <2>1, Typed
        <3> QED BY <1>1, <1>6, <2>1, <3>1 DEF Leaves, Frame
    <2>3. buf' = buf
        BY <1>1, <1>6 DEF Settled, Steps
    <2> HIDE DEF f
    <2>4. Live(f)
        BY <1>6, <2>2 DEF Live
    <2>5. /\ Keep(f) = Keep(e) /\ Borrow(f) = Borrow(e) /\ Hold(f) = Hold(e)
          /\ FrameArgs(f) = FrameArgs(e) /\ Owned(f) = Owned(e) /\ (Lends(f) <=> Lends(e))
        BY <1>1, <2>2, <2>4, LiveFrame
    <2>6. Dropped(f) = {}
        BY <2>1, <2>2 DEF Dropped
    <2>7. FrameOK(f)
        BY <1>1, <2>1, <2>2 DEF FrameOK
    <2>8. LiveInv(f, buf) /\ DropInv(f, buf)
        <3>1. e.pc = "submitted"
            BY <1>1, <1>6 DEF FrameOK
        <3>2. LiveInv(f, buf)
            BY <1>1, <1>6, <2>2, <2>5, <2>6, <3>1 DEF LiveInv, Steps, Uploads
        <3>3. DropInv(f, buf)
            BY <1>6, <2>1, <2>2, <2>6 DEF DropInv
        <3> QED BY <3>2, <3>3
    <2>9. FrameInv(f, buf')
        <3>1. e.pc # "forgotten" /\ f.pc # "forgotten"
            BY <1>1, <2>2
        <3> QED BY <1>1, <2>3, <2>5, <2>7, <2>8, <3>1 DEF FrameInv
    <2>10. \A d \in Caller \ {c} : ApartFrom(f, call[d])
        BY <2>2, <2>5, StaysApart DEF Ownership
    <2>11. OnStream(c)'
        BY <1>1, <1>2 DEF OnStream
    <2>12. call' = [call EXCEPT ![c] = f] /\ buf' \in [Buf -> Buffer]
        BY <1>4, <2>3 DEF f, Types
    <2>13. f.op \notin Steps
        BY <1>6, <2>2 DEF Steps
    <2>14. \A b \in Buf : ~GoesLate(call[c], b)
        BY <1>1 DEF GoesLate
    <2>15. Ownership'
        BY <1>1, <2>2, <2>3, <2>9, <2>10, <2>11, <2>12, <2>13, <2>14, CallerStep
    <2>16. Types'
        BY <1>1, <2>2, <2>12 DEF Types
    <2> QED BY <2>15, <2>16
<1> QED BY <1>5, <1>6

-----------------------------------------------------------------------------
(* A live call goes on with the same arguments, all buffers unchanged.     *)
LEMMA CallGoesOn ==
    ASSUME Types, Ownership, NEW c \in Caller, NEW f \in Frame,
           call' = [call EXCEPT ![c] = f],
           UNCHANGED <<buf, stream, running, device, aborted>>,
           call[c].pc # "dropping", Live(call[c]), Live(f), f.op = call[c].op,
           f.src = call[c].src, f.rhs = call[c].rhs, f.out = call[c].out,
           f.owned = call[c].owned, FrameInv(f, buf), OnStream(c)'
    PROVE  Types' /\ Ownership'
<1>1. call[c] \in Frame /\ FrameOK(call[c]) /\ OutputWhole(call[c])
    BY DEF Types, Ownership, CallsInv, FrameInv, OutputInv
<1>2. /\ Keep(f) = Keep(call[c]) /\ FrameArgs(f) = FrameArgs(call[c])
      /\ (Lends(f) <=> Lends(call[c]))
    BY <1>1, LiveFrame
<1>3. \A d \in Caller \ {c} : ApartFrom(f, call[d])
    BY <1>2, StaysApart DEF Ownership
<1>4. f.op \in Steps /\ Live(f) /\ buf'[f.out].content = "torn" => Writing(f.out)
    BY <1>1 DEF OutputWhole
<1>5. \A b \in Buf : ~GoesLate(call[c], b)
    BY DEF GoesLate
<1>6. FrameInv(f, buf') /\ buf' \in [Buf -> Buffer]
    BY DEF Types
<1>7. Ownership'
    BY <1>3, <1>4, <1>5, <1>6, CallerStep
<1>8. Types'
    BY DEF Types
<1> QED BY <1>7, <1>8

LEMMA AdmittedKeeps ==
    ASSUME Types, Ownership, NEW c \in Caller, AdmitUpload(c) \/ AdmitStep(c),
           AdmitsOperation(usage)
    PROVE  Types' /\ Ownership'
<1> DEFINE e == call[c]
           f == [e EXCEPT !.pc = "admitted"]
<1>1. /\ e \in Frame /\ FrameInv(e, buf) /\ FrameOK(e) /\ LiveInv(e, buf) /\ Live(e)
      /\ e.pc \in {"reserved", "checked"}
      /\ call' = [call EXCEPT ![c] = f] /\ UNCHANGED <<buf, stream, running, device, aborted>>
    BY DEF Types, Ownership, CallsInv, AdmitUpload, AdmitStep, FrameInv, Live
<1>2. /\ f \in Frame /\ f.pc = "admitted" /\ f.drops = e.drops /\ f.ok = e.ok
      /\ f.gives = e.gives
      /\ f.op = e.op /\ f.src = e.src /\ f.rhs = e.rhs /\ f.out = e.out /\ f.owned = e.owned
    BY <1>1 DEF Frame
<1>3. \A i \in DOMAIN stream : stream[i].by # c
    BY <1>1, NothingSubmitted DEF Active, Ownership
<1> HIDE DEF e, f
<1>4. Live(f)
    BY <1>2 DEF Live
<1>5. /\ Keep(f) = Keep(e) /\ Borrow(f) = Borrow(e) /\ FrameArgs(f) = FrameArgs(e)
      /\ Owned(f) = Owned(e)
    BY <1>1, <1>2, <1>4, LiveFrame
<1>6. FrameOK(f)
    BY <1>1, <1>2 DEF FrameOK
<1>7. LiveInv(f, buf)
    BY <1>1, <1>2, <1>5 DEF LiveInv, FrameOK, Uploads, Steps
<1>8. FrameInv(f, buf)
    BY <1>1, <1>2, <1>5, <1>6, <1>7 DEF FrameInv
<1>9. OnStream(c)'
    BY <1>1, <1>3 DEF OnStream
<1> QED BY <1>1, <1>2, <1>4, <1>8, <1>9, CallGoesOn DEF e

(* Dropping a pending future begins its drain, of all the stream holds.    *)
LEMMA DrainKeeps ==
    ASSUME Types, Ownership, NEW c \in Caller, DropFuture(c), call[c].pc = "pending"
    PROVE  Types' /\ Ownership'
<1> DEFINE e == call[c]
           f == [e EXCEPT !.pc = "draining", !.wait = Len(stream)]
<1>1. /\ e \in Frame /\ FrameInv(e, buf) /\ FrameOK(e) /\ LiveInv(e, buf) /\ Live(e)
      /\ e.pc = "pending" /\ OnStream(c) /\ Len(stream) \in Nat /\ DOMAIN stream = 1 .. Len(stream)
      /\ call' = [call EXCEPT ![c] = f] /\ UNCHANGED <<buf, stream, running, device, aborted>>
    BY DEF Types, Ownership, CallsInv, DropFuture, FrameInv, Live, StreamInv
<1>2. /\ f \in Frame /\ f.pc = "draining" /\ f.drops = e.drops /\ f.ok = e.ok
      /\ f.gives = e.gives /\ f.wait = Len(stream)
      /\ f.op = e.op /\ f.src = e.src /\ f.rhs = e.rhs /\ f.out = e.out /\ f.owned = e.owned
    BY <1>1 DEF Frame
<1>3. call'[c] = f
    BY <1>1 DEF Types
<1>4. OnStream(c)'
    <2> SUFFICES ASSUME NEW i \in DOMAIN stream, stream[i].by = c
                 PROVE  /\ call'[c].pc \in Active /\ stream[i] = Work(c)'
                        /\ call'[c].pc = "forgotten" \/ call'[c].wait >= i
        BY <1>1 DEF OnStream
    <2>1. Work(c)' = Work(c)
        BY <1>2, <1>3 DEF Work
    <2>2. stream[i] = Work(c)
        BY <1>1 DEF OnStream
    <2> HIDE DEF e, f
    <2> QED BY <1>1, <1>2, <1>3, <2>1, <2>2 DEF Active
<1> HIDE DEF e, f
<1>5. Live(f)
    BY <1>2 DEF Live
<1>6. /\ Keep(f) = Keep(e) /\ Borrow(f) = Borrow(e) /\ FrameArgs(f) = FrameArgs(e)
      /\ Owned(f) = Owned(e)
    BY <1>1, <1>2, <1>5, LiveFrame
<1>7. FrameOK(f)
    BY <1>1, <1>2 DEF FrameOK
<1>8. LiveInv(f, buf)
    BY <1>1, <1>2, <1>6 DEF LiveInv, FrameOK, Uploads, Steps
<1>9. FrameInv(f, buf)
    BY <1>1, <1>2, <1>6, <1>7, <1>8 DEF FrameInv
<1> QED BY <1>1, <1>2, <1>4, <1>5, <1>9, CallGoesOn DEF e

(* A forgotten future keeps its buffers for ever, out of reach.            *)
LEMMA ForgetFutureKeeps ==
    ASSUME Types, Ownership, NEW c \in Caller, ForgetFuture(c)
    PROVE  Types' /\ Ownership'
<1> DEFINE e == call[c]
           f == [e EXCEPT !.pc = "forgotten"]
<1>1. /\ e \in Frame /\ FrameInv(e, buf) /\ FrameOK(e) /\ LiveInv(e, buf) /\ Live(e)
      /\ e.pc \in {"unpolled", "pending"} /\ OnStream(c)
      /\ call' = [call EXCEPT ![c] = f] /\ UNCHANGED <<stream, running, device, aborted>>
      /\ buf \in [Buf -> Buffer]
    BY DEF Types, Ownership, CallsInv, ForgetFuture, FrameInv, Live, StreamInv
<1>2. /\ f \in Frame /\ f.pc = "forgotten" /\ f.drops = e.drops /\ f.ok = e.ok
      /\ f.gives = e.gives
      /\ f.op = e.op /\ f.src = e.src /\ f.rhs = e.rhs /\ f.out = e.out /\ f.owned = e.owned
    BY <1>1 DEF Frame
<1>3. call'[c] = f
    BY <1>1 DEF Types
<1>4. OnStream(c)'
    <2> SUFFICES ASSUME NEW i \in DOMAIN stream, stream[i].by = c
                 PROVE  call'[c].pc = "forgotten" /\ stream[i] = Work(c)'
        BY <1>1 DEF OnStream, Active
    <2>1. Work(c)' = Work(c)
        BY <1>2, <1>3 DEF Work
    <2> HIDE DEF e, f
    <2> QED BY <1>1, <1>2, <1>3, <2>1 DEF OnStream
<1>5. e.op = "async" /\ Args(c) = Owned(e) /\ Owned(e) = {e.src, e.rhs, e.out}
      /\ \A b \in Owned(e) : b \in Buf /\ buf[b].stored /\ buf[b].charged
    <2>1. e.op = "async"
        BY <1>1 DEF FrameOK
    <2>2. /\ Owned(e) = {e.src, e.rhs, e.out} /\ {e.src, e.rhs, e.out} \subseteq Buf
          /\ \A b \in Owned(e) : buf[b].stored /\ buf[b].charged
        BY <1>1, <2>1, OwnedWhole DEF Uploads
    <2> QED BY <2>1, <2>2, SessionAssumption DEF Args
<1>6. /\ buf' \in [Buf -> Buffer]
      /\ \A b \in Buf : b \notin Owned(e) => buf'[b] = buf[b]
      /\ \A b \in Owned(e) : buf'[b] = [buf[b] EXCEPT !.owner = "leaked"]
    <2>1. buf' = [b \in Buf |-> IF b \in Owned(e)
                             THEN [buf[b] EXCEPT !.owner = "leaked"] ELSE buf[b]]
        BY <1>5 DEF ForgetFuture
    <2> HIDE DEF e
    <2>2. \A b \in Buf : buf[b] \in Buffer /\ [buf[b] EXCEPT !.owner = "leaked"] \in Buffer
        BY <1>1 DEF Buffer
    <2> QED BY <1>5, <2>1, <2>2
<1> HIDE DEF e, f
<1>7. \A b \in Owned(e) : /\ buf'[b].owner = "leaked" /\ buf'[b].shape = buf[b].shape
                          /\ buf'[b].home = buf[b].home /\ buf'[b].uncertain = buf[b].uncertain
                          /\ buf'[b].stored = buf[b].stored /\ buf'[b].charged = buf[b].charged
                          /\ buf'[b].content = buf[b].content
    BY <1>1, <1>5, <1>6 DEF Buffer
<1>8. Live(f)
    BY <1>2 DEF Live
<1>9. /\ Keep(f) = Keep(e) /\ Borrow(f) = Borrow(e) /\ FrameArgs(f) = FrameArgs(e)
      /\ Owned(f) = Owned(e) /\ (Lends(f) <=> Lends(e))
    BY <1>1, <1>2, <1>8, LiveFrame
<1>10. FrameOK(f)
    BY <1>1, <1>2, <1>5 DEF FrameOK
<1>11. FrameInv(f, buf')
    <2>1. Borrow(f) = {} /\ Keep(f) = Owned(e) /\ FrameArgs(f) \subseteq Owned(e)
        BY <1>2, <1>5, <1>8, <1>9 DEF Borrow, Keep, Lends, Steps, FrameArgs
    <2>2. LiveInv(f, buf')
        <3>1. \A b, d \in FrameArgs(f) : buf'[b].home = "own" /\ buf'[b].shape = buf'[d].shape
            BY <1>1, <1>7, <1>9, <2>1 DEF LiveInv
        <3> QED BY <1>2, <1>5, <1>7, <1>9, <3>1 DEF LiveInv, Uploads, Steps
    <2> QED BY <1>2, <1>7, <1>10, <2>1, <2>2 DEF FrameInv
<1>12. \A d \in Caller \ {c} : ApartFrom(f, call[d])
    BY <1>2, <1>9, StaysApart DEF Ownership, e
<1>13. \A d \in Caller \ {c} : \A b \in Hold(call[d]) : buf'[b] = buf[b]
    <2>1. Owned(e) = Keep(e)
        BY <1>1 DEF Keep
    <2>2. \A d \in Caller \ {c} : Hold(call[d]) \subseteq Buf
        BY DEF Hold, Keep, Borrow, Owned, Dropped, Types, Frame
    <2>3. \A d \in Caller \ {c} : \A b \in Owned(e) : b \notin Hold(call[d])
        BY <1>5, <2>1, HeldByOne DEF Ownership, e
    <2> QED BY <1>6, <2>2, <2>3
<1>14. \A b \in Buf : buf'[b] # buf[b] => BufferInv(b)'
    <2> SUFFICES ASSUME NEW b \in Buf, buf'[b] # buf[b] PROVE BufferInv(b)'
        OBVIOUS
    <2>1. BufferInv(b) /\ (Working(b)' <=> Working(b)) /\ (Writing(b)' <=> Writing(b))
        BY <1>1 DEF Ownership, BufInv, Working, Writing
    <2>2. b \in Owned(e)
        BY <1>6
    <2> QED BY <1>5, <1>7, <2>1, <2>2 DEF BufferInv
<1>15. \A b \in Buf : ~GoesLate(call[c], b)
    BY <1>1 DEF GoesLate, e
<1>16. f.op \notin Steps
    BY <1>2, <1>5 DEF Steps
<1>17. Ownership'
    BY <1>1, <1>2, <1>4, <1>6, <1>11, <1>12, <1>13, <1>14, <1>15, <1>16, CallerStep
<1>18. Types'
    BY <1>1, <1>2, <1>6 DEF Types
<1> QED BY <1>17, <1>18

(* The terminal submits its work, or fails before or after it did.         *)
LEMMA ExecuteKeeps ==
    ASSUME Types, Ownership, NEW c \in Caller, NEW ok \in BOOLEAN, NEW submitted \in BOOLEAN,
           Execute(c, ok, submitted)
    PROVE  Types' /\ Ownership'
<1> DEFINE e == call[c]
           n == Len(stream')
           p == IF e.op = "async" /\ ok THEN "pending" ELSE "submitted"
           f == [e EXCEPT !.pc = p, !.ok = ok, !.wait = n]
<1>1. /\ e \in Frame /\ FrameInv(e, buf) /\ FrameOK(e) /\ LiveInv(e, buf) /\ Live(e)
      /\ OutputWhole(e) /\ e.pc \in {"admitted", "unpolled"} /\ (ok => submitted)
      /\ call' = [call EXCEPT ![c] = f] /\ UNCHANGED <<running, device, aborted>>
      /\ buf \in [Buf -> Buffer] /\ stream \in Seq(WorkItem)
    BY DEF Types, Ownership, CallsInv, OutputInv, Execute, FrameInv, Live
<1>2. \A i \in DOMAIN stream : stream[i].by # c
    BY <1>1, NothingSubmitted DEF Active, Ownership
<1>3. Work(c) \in WorkItem /\ Work(c).by = c
      /\ \A b \in Touches(Work(c)) : b \in FrameArgs(e)
    <2>1. FrameArgs(e) \subseteq Buf
        BY <1>1, ArgsHeld
    <2>2. e.op \in Uploads => e.out \in Buf
        BY <1>1 DEF FrameOK, Uploads
    <2> QED BY <2>1, <2>2, SessionAssumption DEF Work, WorkItem, Touches, FrameArgs
<1>4. /\ stream' \in Seq(WorkItem) /\ n \in Nat /\ DOMAIN stream' = 1 .. n
      /\ IF submitted THEN stream' = Append(stream, Work(c)) ELSE stream' = stream
    <2>1. stream' = IF submitted THEN Append(stream, Work(c)) ELSE stream
        BY DEF Execute
    <2>2. CASE submitted
        BY <1>1, <1>3, <2>1, <2>2
    <2>3. CASE ~submitted
        BY <1>1, <2>1, <2>3
    <2> QED BY <2>2, <2>3
<1>5. /\ f \in Frame /\ f.pc = p /\ f.drops = e.drops /\ f.ok = ok
      /\ f.gives = e.gives /\ f.wait = n
      /\ f.op = e.op /\ f.src = e.src /\ f.rhs = e.rhs /\ f.out = e.out /\ f.owned = e.owned
    <2>1. p \in {"submitted", "pending"}
        OBVIOUS
    <2> HIDE DEF n, p, e
    <2> QED BY <1>1, <1>4, <2>1 DEF Frame
<1>6. call'[c] = f
    BY <1>1 DEF Types
<1>7. p \in {"submitted", "pending"} /\ (p = "pending" <=> e.op = "async" /\ ok)
    OBVIOUS
<1> HIDE DEF n, p, f
<1>8. OnStream(c)'
    <2> SUFFICES ASSUME NEW i \in DOMAIN stream', stream'[i].by = c
                 PROVE  /\ call'[c].pc \in Active /\ stream'[i] = Work(c)'
                        /\ call'[c].wait >= i
        BY DEF OnStream
    <2>1. Work(c)' = Work(c)
        BY <1>5, <1>6 DEF Work
    <2>2. CASE submitted
        <3>1. stream'[i] = Work(c)
            <4>1. stream' = Append(stream, Work(c))
                BY <1>4, <2>2
            <4>2. \A j \in DOMAIN stream : stream'[j] = stream[j]
                BY <1>1, <1>3, <4>1, Appended
            <4>3. i \in DOMAIN stream \/ i = Len(stream) + 1
                BY <1>1, <1>3, <4>1, Appended
            <4>4. stream'[Len(stream) + 1] = Work(c)
                BY <1>1, <1>3, <4>1, Appended
            <4> QED BY <1>2, <4>2, <4>3, <4>4
        <3> QED BY <1>4, <1>5, <1>6, <1>7, <2>1, <3>1 DEF Active
    <2>3. CASE ~submitted
        BY <1>2, <1>4, <2>3
    <2> QED BY <2>2, <2>3
<1>9. /\ buf' \in [Buf -> Buffer]
      /\ \A b \in Buf : /\ buf'[b].owner = buf[b].owner /\ buf'[b].shape = buf[b].shape
                        /\ buf'[b].home = buf[b].home /\ buf'[b].charged = buf[b].charged
                        /\ buf'[b].content = buf[b].content
      /\ \A b \in Buf : buf'[b] # buf[b] => e.op \in Uploads \cup Steps /\ b = e.out
      /\ e.op \in Uploads => /\ buf'[e.out].stored = submitted
                             /\ buf'[e.out].uncertain = buf[e.out].uncertain
      /\ e.op \in Steps => /\ buf'[e.out].stored = buf[e.out].stored
                           /\ buf'[e.out].uncertain
    <2>1. CASE e.op \in Uploads
        <3>1. buf' = [buf EXCEPT ![e.out].stored = submitted]
            BY <2>1 DEF Execute, Uploads, Steps
        <3>2. e.out \in Buf /\ buf[e.out] \in Buffer /\ e.op \notin Steps
            BY <1>1, <2>1 DEF FrameOK, Uploads, Steps
        <3>3. [buf[e.out] EXCEPT !.stored = submitted] \in Buffer
            BY <3>2 DEF Buffer
        <3> HIDE DEF e
        <3>4. /\ buf' \in [Buf -> Buffer]
              /\ \A b \in Buf : b # e.out => buf'[b] = buf[b]
              /\ buf'[e.out] = [buf[e.out] EXCEPT !.stored = submitted]
            BY <1>1, <3>1, <3>2, <3>3
        <3> QED BY <2>1, <3>2, <3>4 DEF Buffer
    <2>2. CASE e.op \in Steps
        <3>1. buf' = [buf EXCEPT ![e.out].uncertain = TRUE]
            BY <2>2 DEF Execute, Uploads, Steps
        <3>2. e.out \in Buf /\ buf[e.out] \in Buffer /\ e.op \notin Uploads
            BY <1>1, <2>2 DEF FrameOK, Uploads, Steps
        <3>3. [buf[e.out] EXCEPT !.uncertain = TRUE] \in Buffer
            BY <3>2 DEF Buffer
        <3> HIDE DEF e
        <3>4. /\ buf' \in [Buf -> Buffer]
              /\ \A b \in Buf : b # e.out => buf'[b] = buf[b]
              /\ buf'[e.out] = [buf[e.out] EXCEPT !.uncertain = TRUE]
            BY <1>1, <3>1, <3>2, <3>3
        <3>5. \A b \in Buf : b # e.out =>
                  /\ buf'[b].owner = buf[b].owner /\ buf'[b].shape = buf[b].shape
                  /\ buf'[b].home = buf[b].home /\ buf'[b].charged = buf[b].charged
                  /\ buf'[b].content = buf[b].content
            BY <3>4
        <3>6. /\ buf'[e.out].owner = buf[e.out].owner
              /\ buf'[e.out].shape = buf[e.out].shape
              /\ buf'[e.out].home = buf[e.out].home
              /\ buf'[e.out].charged = buf[e.out].charged
              /\ buf'[e.out].content = buf[e.out].content
              /\ buf'[e.out].stored = buf[e.out].stored /\ buf'[e.out].uncertain
            BY <3>2, <3>4 DEF Buffer
        <3> QED BY <2>2, <3>2, <3>4, <3>5, <3>6
    <2>3. CASE e.op \notin Uploads \cup Steps
        BY <1>1, <2>3 DEF Execute
    <2> QED BY <2>1, <2>2, <2>3
<1> HIDE DEF e
<1>10. Live(f)
    BY <1>5, <1>7 DEF Live
<1>11. /\ Keep(f) = Keep(e) /\ Borrow(f) = Borrow(e) /\ FrameArgs(f) = FrameArgs(e)
       /\ Owned(f) = Owned(e) /\ (Lends(f) <=> Lends(e)) /\ Keep(e) = Owned(e)
       /\ FrameArgs(e) \subseteq Buf /\ FrameArgs(e) \subseteq Hold(e)
       /\ Owned(e) \subseteq FrameArgs(e) /\ Borrow(e) \subseteq FrameArgs(e)
    BY <1>1, <1>5, <1>10, LiveFrame, ArgsHeld DEF Keep
<1>12. FrameOK(f)
    BY <1>1, <1>5, <1>7 DEF FrameOK
<1>13. FrameInv(f, buf')
    <2>1. \A b, d \in FrameArgs(f) : buf'[b].home = "own" /\ buf'[b].shape = buf'[d].shape
        BY <1>1, <1>9, <1>11 DEF LiveInv
    <2>2. \A b \in Owned(f) : buf'[b].charged /\ (f.op \notin Uploads => buf'[b].stored)
        BY <1>1, <1>5, <1>9, <1>11 DEF LiveInv
    <2>3. f.op \in Uploads => f.out \in Buf /\ ~buf'[f.out].uncertain /\ (f.ok => buf'[f.out].stored)
        BY <1>1, <1>5, <1>9 DEF LiveInv, FrameOK, Uploads
    <2>4. f.op = "into_host" => ~buf'[f.src].uncertain
        <3>1. f.op = "into_host" => f.src \in Buf /\ f.op \notin Uploads \cup Steps
            BY <1>12 DEF FrameOK, Uploads, Steps
        <3> QED BY <1>1, <1>5, <1>9, <3>1 DEF LiveInv
    <2>5. f.op \in Steps => buf'[f.out].uncertain /\ f.pc = "submitted"
        BY <1>5, <1>7, <1>9 DEF Steps
    <2>6. LiveInv(f, buf')
        BY <1>5, <1>7, <2>1, <2>2, <2>3, <2>4, <2>5 DEF LiveInv
    <2>7. \A b \in Keep(f) : buf'[b].owner = "call"
        BY <1>1, <1>9, <1>11 DEF FrameInv
    <2>8. \A b \in Borrow(f) : buf'[b].owner = "user"
        BY <1>1, <1>9, <1>11 DEF FrameInv
    <2> QED BY <1>5, <1>7, <1>12, <2>6, <2>7, <2>8 DEF FrameInv
<1>14. \A d \in Caller \ {c} : ApartFrom(f, call[d])
    BY <1>5, <1>11, StaysApart DEF Ownership, e
<1>15. \A b \in Buf : buf'[b] # buf[b] =>
           \A d \in Caller \ {c} : b \notin Hold(call[d])
    <2> SUFFICES ASSUME NEW b \in Buf, buf'[b] # buf[b], NEW d \in Caller \ {c}
                 PROVE  b \notin Hold(call[d])
        OBVIOUS
    <2>1. e.op \in Uploads \cup Steps /\ b = e.out
        BY <1>9
    <2>2. b \in Keep(e) \/ (b \in Borrow(e) /\ Lends(e))
        BY <1>11, <2>1 DEF Owned, Borrow, Lends
    <2> QED BY <2>1, <2>2, HeldByOne DEF Ownership, e
<1>16. \A d \in Caller \ {c} : \A b \in Hold(call[d]) : buf'[b] = buf[b]
    <2>1. \A d \in Caller \ {c} : Hold(call[d]) \subseteq Buf
        BY DEF Hold, Keep, Borrow, Owned, Dropped, Types, Frame
    <2> QED BY <1>15, <2>1
<1>17. submitted => \A b \in Touches(Work(c)) : buf'[b].stored
    <2> SUFFICES ASSUME submitted, NEW b \in Touches(Work(c)) PROVE buf'[b].stored
        OBVIOUS
    <2>1. b \in FrameArgs(e) /\ b \in Buf /\ (b \in Owned(e) \/ b \in Borrow(e))
        BY <1>3, <1>11 DEF Hold
    <2>2. CASE e.op \in Uploads
        <3>1. b = e.out
            BY <2>2 DEF Touches, Work, e
        <3> QED BY <1>9, <2>2, <3>1
    <2>3. CASE e.op \notin Uploads
        <3>1. buf[b].stored
            <4>1. b \in Borrow(e) => buf[b].owner = "user"
                BY <1>1 DEF FrameInv
            <4>2. buf[b].owner = "user" => buf[b].stored
                BY <2>1 DEF Ownership, BufInv, BufferInv
            <4> QED BY <1>1, <2>1, <2>3, <4>1, <4>2 DEF LiveInv
        <3> QED BY <1>9, <2>1, <2>3, <3>1
    <2> QED BY <2>2, <2>3
<1>18. \A b \in Buf : buf'[b] # buf[b] => BufferInv(b)'
    <2> SUFFICES ASSUME NEW b \in Buf, buf'[b] # buf[b] PROVE BufferInv(b)'
        OBVIOUS
    <2>1. e.op \in Uploads \cup Steps /\ b = e.out /\ BufferInv(b)
        BY <1>9 DEF Ownership, BufInv
    <2>2. ~Working(b)
        <3> SUFFICES ASSUME NEW i \in DOMAIN stream, b \in Touches(stream[i]) PROVE FALSE
            BY <1>1 DEF Working
        <3>1. stream[i].by \in Caller \ {c} /\ b \in Hold(call[stream[i].by])
            BY <1>2, WorkHeld
        <3> QED BY <1>15, <3>1
    <2>3. Working(b)' => buf'[b].stored
        <3> SUFFICES ASSUME NEW i \in DOMAIN stream', b \in Touches(stream'[i])
                     PROVE  buf'[b].stored
            BY <1>4 DEF Working
        <3>1. CASE submitted
            <4>1. stream' = Append(stream, Work(c))
                BY <1>4, <3>1
            <4>2. /\ \A j \in DOMAIN stream : stream'[j] = stream[j]
                  /\ i \in DOMAIN stream \/ i = Len(stream) + 1
                  /\ stream'[Len(stream) + 1] = Work(c)
                BY <1>1, <1>3, <4>1, Appended
            <4>3. i \notin DOMAIN stream
                BY <1>1, <2>2, <4>2 DEF Working
            <4> QED BY <1>17, <3>1, <4>2, <4>3
        <3>2. CASE ~submitted
            BY <1>1, <1>4, <2>2, <3>2 DEF Working
        <3> QED BY <3>1, <3>2
    <2>4. Writing(b) => Writing(b)'
        <3> SUFFICES ASSUME Writing(b) PROVE Writing(b)'
            OBVIOUS
        <3>1. stream # <<>>
            BY DEF Writing, Ownership, StreamInv
        <3>2. Head(stream') = Head(stream)
            <4>1. CASE submitted
                <5>1. stream' = Append(stream, Work(c))
                    BY <1>4, <4>1
                <5> QED BY <1>1, <1>3, <3>1, <5>1, Appended
            <4>2. CASE ~submitted
                BY <1>4, <4>2
            <4> QED BY <4>1, <4>2
        <3> QED BY <1>1, <3>2 DEF Writing
    <2>6. e.op \in Uploads => buf'[b].charged /\ buf'[b].owner = "call"
        <3> SUFFICES ASSUME e.op \in Uploads PROVE b \in Owned(e)
            BY <1>1, <1>9, <1>11 DEF LiveInv, FrameInv
        <3> QED BY <2>1 DEF Owned
    <2>7. e.op \in Steps =>
              /\ buf'[b].stored = buf[b].stored /\ buf'[b].charged = buf[b].charged
              /\ buf'[b].owner = buf[b].owner /\ buf'[b].uncertain
        BY <1>9, <2>1
    <2>8. e.op \in Uploads => buf'[b].uncertain = buf[b].uncertain
        BY <1>9, <2>1
    <2>9. ~(buf'[b].stored /\ ~buf'[b].charged)
        <3>1. CASE e.op \in Uploads
            BY <2>6, <3>1
        <3>2. CASE e.op \in Steps
            <4>1. \A d \in Caller : GoesLate(call[d], b) => b \in Hold(call[d])
                BY DEF GoesLate, Hold, Keep, Dropped, Live
            <4>2. \A d \in Caller \ {c} : ~GoesLate(call[d], b)
                BY <1>15, <4>1
            <4>3. ~GoesLate(call[c], b)
                BY <1>1 DEF GoesLate, e
            <4> QED BY <2>1, <2>7, <3>2, <4>2, <4>3 DEF BufferInv
        <3> QED BY <2>1, <3>1, <3>2
    <2>10. buf'[b].content = "torn" => buf'[b].uncertain \/ Writing(b)'
        BY <1>9, <2>1, <2>4, <2>7, <2>8 DEF BufferInv
    <2>11. CASE e.op \in Uploads
        BY <2>3, <2>6, <2>9, <2>10, <2>11 DEF BufferInv
    <2>12. CASE e.op \in Steps
        BY <2>1, <2>3, <2>7, <2>9, <2>10, <2>12 DEF BufferInv
    <2> QED BY <2>1, <2>11, <2>12
<1>19. f.op \in Steps /\ Live(f) /\ buf'[f.out].content = "torn" => Writing(f.out)
    <2>1. f.op \in Steps => f.out \in Buf
        BY <1>12 DEF FrameOK, Steps
    <2> QED BY <1>1, <1>5, <1>9, <2>1 DEF OutputWhole
<1>20. \A b \in Buf : ~GoesLate(call[c], b)
    BY <1>1 DEF GoesLate, e
<1>21. \/ stream' = stream
       \/ \E w \in WorkItem :
             /\ stream' = Append(stream, w) /\ w.by = c
             /\ \A i \in DOMAIN stream : stream[i].by # c
             /\ \A b \in Touches(w) : buf'[b].stored
    BY <1>2, <1>3, <1>4, <1>17
<1>22. call' = [call EXCEPT ![c] = f] /\ running' = running
    BY <1>1
<1>23. Ownership'
    BY <1>5, <1>8, <1>9, <1>13, <1>14, <1>16, <1>18, <1>19, <1>20, <1>21, <1>22, CallerStep
<1>24. Types'
    BY <1>1, <1>4, <1>5, <1>9 DEF Types
<1> QED BY <1>23, <1>24

-----------------------------------------------------------------------------
LEMMA FirstInOrder ==
    ASSUME NEW q, Tidy(q), q # <<>>, InOrder(q), NEW b \in Buf, Head(q) = <<"uncharge", b>>
    PROVE  <<"free", b>> \notin Els(q)
<1>1. q \in Seq(Destructor) /\ DOMAIN q = 1 .. Len(q) /\ Len(q) > 0 /\ Head(q) = q[1]
      /\ Len(q) \in Nat
    BY DEF Tidy
<1>2. 1 \in DOMAIN q /\ \A j \in DOMAIN q : j = 1 \/ 1 < j
    BY <1>1
<1>3. \A j \in DOMAIN q : q[j] # <<"free", b>>
    BY <1>1, <1>2 DEF InOrder
<1> QED BY <1>3 DEF Els

(* The next destructor of a call that returns.                             *)
LEMMA DropNextKeeps ==
    ASSUME Types, Ownership, NEW c \in Caller, DropNext(c)
    PROVE  Types' /\ Ownership'
<1> DEFINE e == call[c]
           what == Head(e.drops)[1]
           b == Head(e.drops)[2]
           f == [e EXCEPT !.drops = Tail(@)]
<1>1. /\ e \in Frame /\ FrameInv(e, buf) /\ FrameOK(e) /\ DropInv(e, buf) /\ OutputWhole(e)
      /\ e.pc = "dropping" /\ e.drops # <<>> /\ Tidy(e.drops)
      /\ call' = [call EXCEPT ![c] = f] /\ UNCHANGED <<stream, running, device, aborted>>
      /\ buf \in [Buf -> Buffer]
    BY DEF Types, Ownership, CallsInv, OutputInv, DropNext, FrameInv, FrameOK
<1>2. /\ Head(e.drops) \in Destructor /\ Head(e.drops) \in Els(e.drops)
      /\ Tidy(Tail(e.drops)) /\ Els(Tail(e.drops)) = Els(e.drops) \ {Head(e.drops)}
      /\ InOrder(e.drops) => InOrder(Tail(e.drops))
    BY <1>1, AfterFirst
<1>3. /\ f \in Frame /\ f.pc = "dropping" /\ f.drops = Tail(e.drops) /\ f.ok = e.ok
      /\ f.gives = e.gives
      /\ f.op = e.op /\ f.src = e.src /\ f.rhs = e.rhs /\ f.out = e.out /\ f.owned = e.owned
    <2>1. Tail(e.drops) \in Seq({"free", "uncharge", "unadmit"} \X (Buf \cup {NoBuf}))
        BY <1>2, Typed
    <2> HIDE DEF e
    <2> QED BY <1>1, <2>1 DEF Frame
<1>4. /\ Head(e.drops) = <<what, b>>
      /\ \/ what \in {"free", "uncharge"} /\ b \in Buf
         \/ what = "unadmit" /\ b = NoBuf
    BY <1>2 DEF Destructor
<1>5. /\ what = "free" => buf' = [buf EXCEPT ![b] = AfterFree(b)]
      /\ what = "uncharge" => buf' = [buf EXCEPT ![b] = AfterUncharge(b)]
      /\ what = "unadmit" => buf' = buf
    BY DEF DropNext
<1> HIDE DEF e, what, b, f
<1>6. Live(f) <=> Live(e)
    BY <1>1, <1>3 DEF Live
<1>7. /\ Borrow(f) = Borrow(e) /\ FrameArgs(f) = FrameArgs(e) /\ (Lends(f) <=> Lends(e))
      /\ Owned(f) = Owned(e)
    BY <1>3 DEF Borrow, FrameArgs, Lends, Owned
<1>8. Dropped(f) \subseteq Dropped(e)
    BY <1>2, <1>3 DEF Dropped
<1>9. Keep(f) \subseteq Keep(e)
    BY <1>3, <1>6, <1>7, <1>8 DEF Keep
<1>10. FrameOK(f)
    BY <1>1, <1>2, <1>3 DEF FrameOK
<1>11. \A d \in Caller \ {c} : ApartFrom(f, call[d])
    BY <1>3, <1>7, <1>9, StaysApart DEF Ownership, e
<1>12. OnStream(c)'
    <2>1. \A i \in DOMAIN stream : stream[i].by # c
        BY <1>1, NothingSubmitted DEF Active, Ownership, e
    <2> QED BY <1>1, <2>1 DEF OnStream
<1>13. CASE what = "unadmit"
    <2>1. buf' = buf
        BY <1>5, <1>13
    <2>2. \A x \in Buf, w \in {"free", "uncharge"} :
              <<w, x>> \in Els(f.drops) <=> <<w, x>> \in Els(e.drops)
        BY <1>2, <1>3, <1>4, <1>13
    <2>3. Dropped(f) = Dropped(e)
        BY <2>2 DEF Dropped
    <2>4. Keep(f) = Keep(e)
        BY <1>3, <1>6, <1>7, <2>3 DEF Keep
    <2>5. Live(f) => LiveInv(f, buf)
        BY <1>1, <1>3, <1>6, <1>7, <2>3 DEF FrameInv, LiveInv
    <2>6. DropInv(f, buf)
        <3>1. Dropped(e) \subseteq Buf
            BY DEF Dropped
        <3> QED BY <1>1, <1>2, <1>3, <2>2, <2>3, <3>1 DEF DropInv
    <2>7. FrameInv(f, buf')
        BY <1>1, <1>3, <1>7, <1>10, <2>1, <2>4, <2>5, <2>6 DEF FrameInv
    <2>8. f.op \in Steps /\ Live(f) /\ buf'[f.out].content = "torn" => Writing(f.out)
        BY <1>1, <1>3, <1>6, <2>1 DEF OutputWhole
    <2>9. \A x \in Buf : GoesLate(e, x) => GoesLate(f, x)
        BY <1>3, <2>2 DEF GoesLate
    <2>10. Ownership'
        BY <1>1, <1>3, <1>11, <1>12, <2>1, <2>7, <2>8, <2>9, CallerStep DEF e
    <2>11. Types'
        BY <1>1, <1>3, <2>1 DEF Types
    <2> QED BY <2>10, <2>11
<1>14. CASE what \in {"free", "uncharge"}
    <2>1. b \in Buf /\ b \in Dropped(e)
        BY <1>2, <1>4, <1>14 DEF Dropped
    <2>2. ~Live(e)
        BY <1>1, <2>1 DEF FrameInv, LiveInv
    <2>3. b \in Keep(e) /\ buf[b].owner = "call"
        BY <1>1, <2>1, <2>2 DEF Keep, FrameInv
    <2>4. /\ buf[b].stored <=> <<"free", b>> \in Els(e.drops)
          /\ buf[b].charged <=> <<"uncharge", b>> \in Els(e.drops)
        BY <1>1, <2>1 DEF DropInv
    <2>5. /\ what = "free" => buf[b].stored
          /\ what = "uncharge" => buf[b].charged
        BY <1>2, <1>4, <2>4
    (* What is left: nothing, or the charge, or, late, the storage. *)
    <2>6. /\ buf' = [buf EXCEPT ![b] = buf'[b]] /\ buf'[b] \in Buffer
          /\ \/ /\ buf'[b] = NoBuffer
                /\ what = "free" => ~buf[b].charged
                /\ what = "uncharge" => ~buf[b].stored
             \/ /\ what = "free" /\ buf[b].charged
                /\ buf'[b] = [buf[b] EXCEPT !.stored = FALSE]
             \/ /\ what = "uncharge" /\ buf[b].stored
                /\ buf'[b] = [buf[b] EXCEPT !.charged = FALSE]
        <3>1. NoBuffer \in Buffer
            BY SessionAssumption DEF NoBuffer, Buffer
        <3>2. CASE what = "free"
            <4>1. buf'[b] = AfterFree(b) /\ buf' = [buf EXCEPT ![b] = AfterFree(b)]
                BY <1>1, <1>5, <2>1, <3>2
            <4>2. buf[b] \in Buffer /\ [buf[b] EXCEPT !.stored = FALSE] \in Buffer
                <5>1. PICK r \in Buffer : r = buf[b]
                    BY <1>1, <2>1
                <5>2. [r EXCEPT !.stored = FALSE] \in Buffer
                    BY DEF Buffer
                <5> QED BY <5>1, <5>2
            <4>3. AfterFree(b) = IF buf[b].charged THEN [buf[b] EXCEPT !.stored = FALSE]
                                 ELSE NoBuffer
                BY DEF AfterFree
            <4>4. buf' = [buf EXCEPT ![b] = buf'[b]]
                BY <4>1, Zenon
            <4>5. CASE buf[b].charged
                BY <3>2, <4>1, <4>2, <4>3, <4>4, <4>5, Zenon
            <4>6. CASE ~buf[b].charged
                BY <3>1, <3>2, <4>1, <4>3, <4>4, <4>6, Zenon
            <4> QED BY <4>5, <4>6
        <3>3. CASE what = "uncharge"
            <4>1. buf'[b] = AfterUncharge(b) /\ buf' = [buf EXCEPT ![b] = AfterUncharge(b)]
                BY <1>1, <1>5, <2>1, <3>3
            <4>2. buf[b] \in Buffer /\ [buf[b] EXCEPT !.charged = FALSE] \in Buffer
                <5>1. PICK r \in Buffer : r = buf[b]
                    BY <1>1, <2>1
                <5>2. [r EXCEPT !.charged = FALSE] \in Buffer
                    BY DEF Buffer
                <5> QED BY <5>1, <5>2
            <4>3. AfterUncharge(b) = IF buf[b].stored THEN [buf[b] EXCEPT !.charged = FALSE]
                                     ELSE NoBuffer
                BY DEF AfterUncharge
            <4>4. buf' = [buf EXCEPT ![b] = buf'[b]]
                BY <4>1, Zenon
            <4>5. CASE buf[b].stored
                BY <3>3, <4>1, <4>2, <4>3, <4>4, <4>5, Zenon
            <4>6. CASE ~buf[b].stored
                BY <3>1, <3>3, <4>1, <4>3, <4>4, <4>6, Zenon
            <4> QED BY <4>5, <4>6
        <3> QED BY <1>14, <3>2, <3>3
    <2>7. /\ \A x \in Buf : x # b => buf'[x] = buf[x]
          /\ buf' \in [Buf -> Buffer]
        BY <1>1, <2>1, <2>6
    <2>8. /\ \A x \in Buf, w \in {"free", "uncharge"} :
                 <<w, x>> \in Els(f.drops) <=>
                     <<w, x>> \in Els(e.drops) /\ ~(w = what /\ x = b)
          /\ Dropped(f) \subseteq Buf /\ Dropped(e) \subseteq Buf
        BY <1>2, <1>3, <1>4 DEF Dropped
    <2>9. b \in Dropped(f) => \/ what = "free" /\ buf[b].charged
                              \/ what = "uncharge" /\ buf[b].stored
        BY <1>14, <2>1, <2>4, <2>8 DEF Dropped
    <2>10. b \in Dropped(f) => /\ buf'[b].owner = "call"
                               /\ buf'[b].stored <=> <<"free", b>> \in Els(f.drops)
                               /\ buf'[b].charged <=> <<"uncharge", b>> \in Els(f.drops)
        <3>1. CASE what = "free" /\ buf[b].charged
            <4>1. buf'[b] = [buf[b] EXCEPT !.stored = FALSE]
                BY <2>6, <3>1
            <4>2. buf[b] \in Buffer
                BY <1>1, <2>1
            <4>3. /\ ~buf'[b].stored /\ buf'[b].charged /\ buf'[b].owner = "call"
                BY <2>3, <3>1, <4>1, <4>2 DEF Buffer
            <4>4. <<"free", b>> \notin Els(f.drops) /\ <<"uncharge", b>> \in Els(f.drops)
                BY <2>1, <2>4, <2>8, <3>1
            <4> QED BY <4>3, <4>4
        <3>2. CASE what = "uncharge" /\ buf[b].stored
            <4>1. buf'[b] = [buf[b] EXCEPT !.charged = FALSE]
                BY <2>6, <3>2
            <4>2. buf[b] \in Buffer
                BY <1>1, <2>1
            <4>3. /\ buf'[b].stored /\ ~buf'[b].charged /\ buf'[b].owner = "call"
                BY <2>3, <3>2, <4>1, <4>2 DEF Buffer
            <4>4. <<"free", b>> \in Els(f.drops) /\ <<"uncharge", b>> \notin Els(f.drops)
                BY <2>1, <2>4, <2>8, <3>2
            <4> QED BY <4>3, <4>4
        <3> QED BY <2>9, <3>1, <3>2
    <2>11. b \notin e.gives /\ b \notin Borrow(f)
        BY <1>1, <1>7, <2>1, <2>3 DEF DropInv, FrameInv
    <2>12. ~Live(f) /\ Keep(f) = Dropped(f) \cup e.gives /\ Keep(e) = Dropped(e) \cup e.gives
        BY <1>3, <1>6, <2>2 DEF Keep
    <2>13. DropInv(f, buf')
        <3>1. \A x \in Dropped(f) : /\ buf'[x].stored <=> <<"free", x>> \in Els(f.drops)
                                    /\ buf'[x].charged <=> <<"uncharge", x>> \in Els(f.drops)
            <4> SUFFICES ASSUME NEW x \in Dropped(f), x # b
                         PROVE  /\ buf'[x].stored <=> <<"free", x>> \in Els(f.drops)
                                /\ buf'[x].charged <=> <<"uncharge", x>> \in Els(f.drops)
                BY <2>10
            <4> QED BY <1>1, <1>8, <2>7, <2>8 DEF DropInv
        <3>2. \A x \in f.gives : x \notin Dropped(f) /\ buf'[x].stored /\ buf'[x].charged
            <4>1. e.gives \subseteq Buf
                BY <1>1 DEF Frame
            <4> QED BY <1>1, <1>3, <1>8, <2>7, <2>11, <4>1 DEF DropInv
        <3> QED BY <1>1, <1>2, <1>3, <1>8, <3>1, <3>2 DEF DropInv
    <2>14. FrameInv(f, buf')
        <3>1. \A x \in Keep(f) : buf'[x].owner = "call"
            <4>1. \A x \in Keep(f) : x \in Buf /\ (x # b \/ x \in Dropped(f))
                BY <1>1, <2>8, <2>11, <2>12 DEF Frame
            <4> QED BY <1>1, <1>9, <2>7, <2>10, <4>1 DEF FrameInv
        <3>2. \A x \in Borrow(f) : buf'[x].owner = "user"
            <4>1. \A x \in Borrow(f) : x \in Buf /\ x # b
                BY <2>11 DEF Borrow
            <4> QED BY <1>1, <1>7, <2>7, <4>1 DEF FrameInv
        <3> QED BY <1>3, <1>10, <2>12, <2>13, <3>1, <3>2 DEF FrameInv
    <2>15. \A d \in Caller \ {c} : b \notin Hold(call[d])
        BY <2>1, <2>3, HeldByOne DEF Ownership, e
    <2>16. \A d \in Caller \ {c} : \A x \in Hold(call[d]) : buf'[x] = buf[x]
        <3>1. \A d \in Caller \ {c} : Hold(call[d]) \subseteq Buf
            BY DEF Hold, Keep, Borrow, Owned, Dropped, Types, Frame
        <3> QED BY <2>7, <2>15, <3>1
    <2>17. ~Working(b)
        <3> SUFFICES ASSUME NEW i \in DOMAIN stream, b \in Touches(stream[i]) PROVE FALSE
            <4>1. DOMAIN stream = 1 .. Len(stream)
                BY DEF Types
            <4> QED BY <4>1 DEF Working
        <3>1. /\ stream[i].by \in Caller /\ b \in Hold(call[stream[i].by])
              /\ call[stream[i].by].pc \in Active
            BY <2>1, WorkHeld
        <3>2. stream[i].by # c
            BY <1>1, <3>1 DEF Active, e
        <3> QED BY <2>15, <3>1, <3>2
    <2>18. buf'[b].stored /\ ~buf'[b].charged => GoesLate(f, b)
        <3> SUFFICES ASSUME buf'[b].stored, ~buf'[b].charged PROVE GoesLate(f, b)
            OBVIOUS
        <3>1. what = "uncharge" /\ buf[b].stored
            BY <1>1, <2>1, <2>5, <2>6 DEF NoBuffer, Buffer
        <3>2. <<"free", b>> \in Els(e.drops) /\ <<"free", b>> \in Els(f.drops)
            BY <2>1, <2>4, <2>8, <3>1
        <3>3. ~InOrder(e.drops)
            BY <1>1, <1>4, <2>1, <3>1, <3>2, FirstInOrder
        <3>4. e.op = "into_host" /\ ~e.ok /\ e.src = b
            BY <1>1, <2>1, <3>3 DEF DropInv
        <3> QED BY <1>3, <3>2, <3>4 DEF GoesLate
    <2>19. \A x \in Buf : buf'[x] # buf[x] => BufferInv(x)'
        <3> SUFFICES ASSUME NEW x \in Buf, x = b PROVE BufferInv(x)'
            BY <2>7
        <3>1. BufferInv(x) /\ (Working(x)' <=> Working(x)) /\ (Writing(x)' <=> Writing(x))
            BY <1>1 DEF Ownership, BufInv, Working, Writing
        <3>2. buf[x] \in Buffer /\ ~Working(x)
            BY <1>1, <2>17
        <3>3. buf'[x].stored /\ ~buf'[x].charged => \E d \in Caller : GoesLate(call'[d], x)
            <4>1. call'[c] = f
                BY <1>1 DEF Types
            <4> QED BY <2>18, <4>1
        <3>4. CASE buf'[x] = NoBuffer
            BY <3>1, <3>2, <3>3, <3>4 DEF BufferInv, NoBuffer
        <3>5. CASE buf'[x] = [buf[x] EXCEPT !.stored = FALSE]
            <4>1. /\ buf'[x].owner = "call" /\ buf'[x].content = buf[x].content
                  /\ buf'[x].uncertain = buf[x].uncertain
                BY <2>3, <3>2, <3>5 DEF Buffer
            <4> QED BY <3>1, <3>2, <3>3, <4>1 DEF BufferInv
        <3>6. CASE buf'[x] = [buf[x] EXCEPT !.charged = FALSE]
            <4>1. /\ buf'[x].owner = "call" /\ buf'[x].content = buf[x].content
                  /\ buf'[x].uncertain = buf[x].uncertain
                BY <2>3, <3>2, <3>6 DEF Buffer
            <4> QED BY <3>1, <3>2, <3>3, <4>1 DEF BufferInv
        <3> QED BY <2>6, <3>4, <3>5, <3>6
    <2>20. \A x \in Buf : buf'[x] = buf[x] /\ GoesLate(e, x) => GoesLate(f, x)
        <3> SUFFICES ASSUME NEW x \in Buf, buf'[x] = buf[x], GoesLate(e, x)
                     PROVE  <<"free", x>> \in Els(f.drops)
            BY <1>3 DEF GoesLate
        <3>1. <<"free", x>> \in Els(e.drops)
            BY DEF GoesLate
        <3>2. ~(what = "free" /\ x = b)
            BY <1>1, <2>1, <2>5, <2>6 DEF NoBuffer, Buffer
        <3> QED BY <2>8, <3>1, <3>2
    <2>21. Ownership'
        BY <1>1, <1>3, <1>11, <1>12, <2>7, <2>12, <2>14, <2>16, <2>19, <2>20, CallerStep DEF e
    <2>22. Types'
        BY <1>1, <1>3, <2>7 DEF Types
    <2> QED BY <2>21, <2>22
<1> QED BY <1>4, <1>13, <1>14

-----------------------------------------------------------------------------
(* A caller with nothing left to destroy returns, or begins a call.        *)
LEMMA CallTurns ==
    ASSUME Types, Ownership, NEW c \in Caller, NEW f \in Frame,
           call[c].pc \in {"idle", "dropping"}, call[c].drops = <<>>,
           call' = [call EXCEPT ![c] = f], buf' \in [Buf -> Buffer],
           UNCHANGED <<stream, running, device, aborted>>,
           FrameInv(f, buf'),
           \A d \in Caller \ {c} : ApartFrom(f, call[d]),
           \A d \in Caller \ {c} : \A b \in Hold(call[d]) : buf'[b] = buf[b],
           \A b \in Buf : buf'[b] # buf[b] => BufferInv(b)',
           f.op \in Steps /\ Live(f) /\ buf'[f.out].content = "torn" => Writing(f.out)
    PROVE  Types' /\ Ownership'
<1>1. \A i \in DOMAIN stream : stream[i].by # c
    BY NothingSubmitted DEF Active, Ownership
<1>2. OnStream(c)'
    BY <1>1 DEF OnStream
<1>3. \A b \in Buf : ~GoesLate(call[c], b)
    BY Empty DEF GoesLate
<1>4. Ownership'
    BY <1>2, <1>3, CallerStep
<1> QED BY <1>4 DEF Types

(* Buffers change hands.                                                   *)
HandedOver(S, owner) ==
    [b \in Buf |-> IF b \in S THEN [buf[b] EXCEPT !.owner = owner] ELSE buf[b]]

LEMMA Handed ==
    ASSUME buf \in [Buf -> Buffer], NEW S,
           NEW o \in {"none", "user", "call", "leaked"}, buf' = HandedOver(S, o)
    PROVE  /\ buf' \in [Buf -> Buffer]
           /\ \A b \in Buf : b \notin S => buf'[b] = buf[b]
           /\ \A b \in Buf : b \in S =>
                 /\ buf'[b].owner = o /\ buf'[b].shape = buf[b].shape
                 /\ buf'[b].kind = buf[b].kind
                 /\ buf'[b].home = buf[b].home /\ buf'[b].uncertain = buf[b].uncertain
                 /\ buf'[b].stored = buf[b].stored /\ buf'[b].charged = buf[b].charged
                 /\ buf'[b].content = buf[b].content
<1>1. \A b \in Buf : buf[b] \in Buffer /\ [buf[b] EXCEPT !.owner = o] \in Buffer
    BY DEF Buffer
<1>2. \A b \in Buf : b \in S => buf'[b] = [buf[b] EXCEPT !.owner = o]
    BY DEF HandedOver
<1>3. /\ buf' \in [Buf -> Buffer]
      /\ \A b \in Buf : b \notin S => buf'[b] = buf[b]
    BY <1>1 DEF HandedOver
<1> QED BY <1>1, <1>2, <1>3 DEF Buffer

(* A whole buffer stays whole in whatever hands.                           *)
LEMMA HandedWhole ==
    ASSUME Types, Ownership, running' = running, stream' = stream,
           NEW b \in Buf, buf[b].stored, buf[b].charged,
           buf'[b].owner # "none", buf'[b].uncertain = buf[b].uncertain,
           buf'[b].stored = buf[b].stored, buf'[b].charged = buf[b].charged,
           buf'[b].content = buf[b].content
    PROVE  BufferInv(b)'
<1>1. BufferInv(b) /\ (Working(b)' <=> Working(b)) /\ (Writing(b)' <=> Writing(b))
    BY DEF Ownership, BufInv, Working, Writing
<1> QED BY <1>1 DEF BufferInv

LEMMA IdleFields ==
    /\ Idle.op = "none" /\ Idle.pc = "idle" /\ Idle.src = NoBuf /\ Idle.rhs = NoBuf
    /\ Idle.out = NoBuf /\ Idle.owned = FALSE /\ Idle.ok = TRUE /\ Idle.wait = 0
    /\ Idle.drops = <<>> /\ Idle.gives = {} /\ Idle \in Frame
BY DEF Idle, Frame

LEMMA IdleFrame ==
    /\ Keep(Idle) = {} /\ Borrow(Idle) = {} /\ ~Live(Idle)
    /\ ~Lends(Idle) /\ FrameArgs(Idle) = {}
    /\ \A bf : FrameInv(Idle, bf)
<1>1. /\ Idle.op = "none" /\ Idle.pc = "idle" /\ Idle.src = NoBuf /\ Idle.rhs = NoBuf
      /\ Idle.out = NoBuf /\ Idle.owned = FALSE /\ Idle.ok = TRUE
      /\ Idle.drops = <<>> /\ Idle.gives = {} /\ Idle \in Frame
    BY IdleFields
<1>2. ~Live(Idle)
    BY <1>1 DEF Live
<1>3. Dropped(Idle) = {}
    BY <1>1, Empty DEF Dropped
<1>4. Keep(Idle) = {}
    BY <1>1, <1>2, <1>3 DEF Keep
<1>5. Borrow(Idle) = {} /\ ~Lends(Idle) /\ FrameArgs(Idle) = {}
    BY <1>1 DEF Borrow, Lends, Steps, FrameArgs
<1>6. FrameOK(Idle)
    BY <1>1, Empty DEF FrameOK
<1>7. \A bf : FrameInv(Idle, bf)
    BY <1>1, <1>2, <1>4, <1>5, <1>6 DEF FrameInv
<1> QED BY <1>1, <1>2, <1>4, <1>5, <1>6, <1>7

LEMMA ReturnKeeps ==
    ASSUME Types, Ownership, NEW c \in Caller, Return(c)
    PROVE  Types' /\ Ownership'
<1> DEFINE e == call[c]
           f == [e EXCEPT !.op = "step_into", !.pc = "checked", !.owned = TRUE]
<1>1. /\ e \in Frame /\ FrameInv(e, buf) /\ FrameOK(e) /\ DropInv(e, buf)
      /\ e.pc = "dropping" /\ e.drops = <<>> /\ buf \in [Buf -> Buffer]
      /\ UNCHANGED <<stream, running, device, aborted>>
      /\ buf' = HandedOver(e.gives, "user") /\ e.gives \subseteq Buf
    BY DEF Types, Ownership, CallsInv, Return, FrameInv, HandedOver, Frame
<1>2. CASE e.op = "step" /\ e.ok
    <2>1. call' = [call EXCEPT ![c] = f]
        BY <1>2 DEF Return
    <2>2. /\ f \in Frame /\ f.pc = "checked" /\ f.drops = e.drops /\ f.ok = e.ok
          /\ f.gives = e.gives /\ f.owned
          /\ f.op = "step_into" /\ f.src = e.src /\ f.rhs = e.rhs /\ f.out = e.out
        BY <1>1 DEF Frame
    <2> HIDE DEF e, f
    <2>3. Live(e) /\ Live(f) /\ LiveInv(e, buf)
        BY <1>1, <1>2, <2>2 DEF Live, FrameInv
    <2>4. e.gives = {}
        BY <1>1, <2>3 DEF LiveInv
    <2>5. \A b \in Buf : buf'[b] = buf[b]
        BY <1>1, <2>4 DEF HandedOver
    <2>6. buf' = buf
        BY <1>1, <2>5 DEF HandedOver
    <2>7. e.src \in Buf /\ e.rhs \in Buf /\ e.out \in Buf /\ ~e.owned
        BY <1>1, <1>2 DEF FrameOK
    <2>8. /\ Owned(f) = {e.out} /\ Owned(e) = {e.out} /\ FrameArgs(f) = FrameArgs(e)
          /\ Keep(f) = {e.out} /\ Keep(e) = {e.out} /\ ~Lends(f)
          /\ Borrow(f) = {e.src, e.rhs} /\ Borrow(e) = {e.src, e.rhs}
        BY <1>2, <2>2, <2>3, <2>7
           DEF Owned, FrameArgs, Keep, Lends, Borrow, Uploads, Steps
    <2>9. FrameOK(f)
        BY <1>1, <1>2, <2>2, <2>4, <2>7, Empty DEF FrameOK, Steps
    <2>10. LiveInv(f, buf)
        <3>1. buf[e.out].stored /\ buf[e.out].charged /\ ~buf[e.out].uncertain
            BY <1>1, <1>2, <2>3, <2>8 DEF LiveInv, Uploads
        <3>2. \A b, d \in FrameArgs(f) : buf[b].home = "own" /\ buf[b].shape = buf[d].shape
            BY <2>3, <2>8 DEF LiveInv
        <3> QED BY <2>2, <2>8, <3>1, <3>2 DEF LiveInv, Uploads, Steps
    <2>11. FrameInv(f, buf')
        BY <1>1, <2>2, <2>6, <2>8, <2>9, <2>10 DEF FrameInv
    <2>12. \A d \in Caller \ {c} : ApartFrom(f, call[d])
        BY <2>2, <2>8, StaysApart DEF Ownership, e
    <2>13. buf[f.out].content = "torn" => Writing(f.out)
        <3>1. BufferInv(e.out) /\ ~buf[e.out].uncertain
            BY <1>2, <2>3, <2>7 DEF Ownership, BufInv, LiveInv, Uploads
        <3> QED BY <2>2, <3>1 DEF BufferInv
    <2> QED BY <1>1, <2>1, <2>2, <2>6, <2>11, <2>12, <2>13, CallTurns DEF e
<1>3. CASE ~(e.op = "step" /\ e.ok)
    <2>1. call' = [call EXCEPT ![c] = Idle]
        BY <1>3 DEF Return
    <2> HIDE DEF e
    <2>2. ~Live(e) /\ e.gives \subseteq Keep(e)
        BY <1>1, <1>3 DEF Live, Keep
    <2>3. \A b \in e.gives : buf[b].stored /\ buf[b].charged
        BY <1>1 DEF DropInv
    <2>4. /\ buf' \in [Buf -> Buffer]
          /\ \A b \in Buf : b \notin e.gives => buf'[b] = buf[b]
        BY <1>1, Handed
    <2>5. \A d \in Caller \ {c} : ApartFrom(Idle, call[d])
        BY IdleFrame DEF ApartFrom
    <2>6. \A d \in Caller \ {c} : \A b \in Hold(call[d]) : buf'[b] = buf[b]
        <3>1. \A d \in Caller \ {c} : Hold(call[d]) \subseteq Buf
            BY DEF Hold, Keep, Borrow, Owned, Dropped, Types, Frame
        <3>2. \A d \in Caller \ {c} : \A b \in e.gives : b \notin Hold(call[d])
            BY <1>1, <2>2, HeldByOne DEF Ownership, e
        <3> QED BY <2>4, <3>1, <3>2
    <2>7. \A b \in Buf : buf'[b] # buf[b] => BufferInv(b)'
        <3> SUFFICES ASSUME NEW b \in Buf, b \in e.gives PROVE BufferInv(b)'
            BY <2>4
        <3>1. /\ buf'[b].owner = "user" /\ buf'[b].uncertain = buf[b].uncertain
              /\ buf'[b].stored = buf[b].stored /\ buf'[b].charged = buf[b].charged
              /\ buf'[b].content = buf[b].content
            BY <1>1, Handed
        <3> QED BY <1>1, <2>3, <3>1, HandedWhole
    <2> QED BY <1>1, <2>1, <2>4, <2>5, <2>6, <2>7, IdleFields, IdleFrame, CallTurns DEF e
<1> QED BY <1>2, <1>3

-----------------------------------------------------------------------------
(* A call begins: what it takes nobody holds, what it borrows nobody has   *)
(* borrowed mutably.                                                       *)
LEMMA StartsApart ==
    ASSUME Types, CallsInv, NEW c \in Caller, NEW f \in Frame, FrameOK(f),
           \A b \in Keep(f) : \A d \in Caller \ {c} : b \notin Hold(call[d]),
           \A b \in FrameArgs(f) : \A d \in Caller \ {c} :
               call[d].out # b \/ b \notin Hold(call[d]),
           Lends(f) => \A d \in Caller \ {c} : f.out \notin FrameArgs(call[d])
    PROVE  \A d \in Caller \ {c} : ApartFrom(f, call[d])
<1> SUFFICES ASSUME NEW d \in Caller \ {c} PROVE ApartFrom(f, call[d])
    OBVIOUS
<1>1. Keep(f) \cap Keep(call[d]) = {}
    BY DEF Hold
<1>2. ASSUME Lends(call[d]), call[d].out \in FrameArgs(f) PROVE FALSE
    <2>1. call[d].out \in Buf
        BY <1>2, ArgsHeld
    <2>2. call[d].out \in Hold(call[d])
        BY <1>2, <2>1 DEF Hold, Borrow
    <2> QED BY <1>2, <2>2
<1> QED BY <1>1, <1>2 DEF ApartFrom

(* upload_halo, upload_field and step reserve a buffer that did not exist. *)
LEMMA ReserveKeeps ==
    ASSUME Types, Ownership, NEW c \in Caller, call[c].pc = "idle",
           NEW b \in Buf, NEW kind \in {"halo", "field"}, NEW shape \in Shape,
           NEW frame \in Frame, Reserve(c, b, kind, shape, frame),
           frame.op \in Uploads, frame.ok, ~frame.owned, frame.drops = <<>>, frame.gives = {},
           frame.op = "upload" => frame.src = NoBuf /\ frame.rhs = NoBuf,
           frame.op = "step" => frame.src \in Buf /\ frame.rhs \in Buf,
           \A x \in {frame.src, frame.rhs} \ {NoBuf} :
               MayShare(x) /\ buf[x].home = "own" /\ buf[x].shape = shape
    PROVE  Types' /\ Ownership'
<1> DEFINE f == [frame EXCEPT !.pc = "reserved", !.out = b]
           fresh == [NoBuffer EXCEPT !.owner = "call", !.kind = kind, !.shape = shape,
                                     !.charged = TRUE]
<1>1. /\ call[c] \in Frame /\ FrameOK(call[c]) /\ call[c].drops = <<>>
      /\ buf[b].owner = "none" /\ buf' = [buf EXCEPT ![b] = fresh]
      /\ call' = [call EXCEPT ![c] = f] /\ UNCHANGED <<stream, running, device, aborted>>
    BY DEF Types, Ownership, CallsInv, FrameInv, FrameOK, Reserve
<1>2. /\ f \in Frame /\ f.pc = "reserved" /\ f.drops = <<>> /\ f.ok /\ f.gives = {}
      /\ f.op = frame.op /\ f.src = frame.src /\ f.rhs = frame.rhs /\ f.out = b /\ ~f.owned
    BY DEF Frame
<1>3. /\ fresh \in Buffer /\ fresh.owner = "call" /\ fresh.charged /\ ~fresh.stored
      /\ ~fresh.uncertain /\ fresh.content = "whole" /\ fresh.home = "own"
      /\ fresh.shape = shape
    <2>1. NoBuffer \in Buffer
        BY SessionAssumption DEF NoBuffer, Buffer
    <2>2. fresh \in Buffer
        BY <2>1 DEF Buffer
    <2>3. /\ NoBuffer.content = "whole" /\ NoBuffer.home = "own" /\ NoBuffer.uncertain = FALSE
          /\ NoBuffer.stored = FALSE
        BY DEF NoBuffer
    <2> QED BY <2>1, <2>2, <2>3 DEF Buffer
<1> HIDE DEF f, fresh
<1>4. /\ buf' \in [Buf -> Buffer] /\ buf'[b] = fresh
      /\ \A x \in Buf : x # b => buf'[x] = buf[x]
    BY <1>1, <1>3 DEF Types
<1>5. /\ FrameArgs(f) \subseteq Buf /\ Live(f) /\ Owned(f) = {b} /\ Keep(f) = {b} /\ ~Lends(f)
      /\ \A x \in Borrow(f) : x # b /\ buf[x].owner = "user"
      /\ \A x \in FrameArgs(f) : x = b \/ (x # b /\ x \in {frame.src, frame.rhs} \ {NoBuf})
    <2>1. FrameArgs(f) \subseteq Buf /\ Live(f)
        BY <1>2 DEF FrameArgs, Frame, Live
    <2>2. Owned(f) = {b}
        BY <1>2 DEF Owned, Uploads
    <2>3. Keep(f) = {b}
        BY <2>1, <2>2 DEF Keep
    <2>4. ~Lends(f)
        BY <1>2 DEF Lends, Uploads, Steps
    <2>5. \A x \in {frame.src, frame.rhs} \ {NoBuf} : x # b /\ buf[x].owner = "user"
        BY <1>1 DEF MayShare
    <2>6. \A x \in Borrow(f) : x \in {frame.src, frame.rhs} \ {NoBuf}
        BY <1>2, <2>4, SessionAssumption DEF Borrow
    <2>7. \A x \in FrameArgs(f) : x = b \/ (x # b /\ x \in {frame.src, frame.rhs} \ {NoBuf})
        BY <1>2 DEF FrameArgs
    <2> QED BY <2>1, <2>2, <2>3, <2>4, <2>5, <2>6, <2>7
<1>6. FrameOK(f)
    BY <1>2, Empty DEF FrameOK, Uploads
<1>7. LiveInv(f, buf')
    <2>1. \A x \in FrameArgs(f) : buf'[x].home = "own" /\ buf'[x].shape = shape
        BY <1>3, <1>4, <1>5
    <2> QED BY <1>2, <1>3, <1>4, <1>5, <2>1 DEF LiveInv, Uploads, Steps
<1>8. FrameInv(f, buf')
    <2>1. \A x \in Borrow(f) : x \in Buf
        BY DEF Borrow
    <2> QED BY <1>2, <1>3, <1>4, <1>5, <1>6, <1>7, <2>1 DEF FrameInv
<1>9. \A d \in Caller \ {c} : b \notin Hold(call[d])
    BY <1>1, FreeUnheld DEF Ownership
<1>10. \A d \in Caller \ {c} : ApartFrom(f, call[d])
    <2>1. \A x \in FrameArgs(f) : \A d \in Caller \ {c} :
              call[d].out # x \/ x \notin Hold(call[d])
        BY <1>5, <1>9 DEF MayShare
    <2> QED BY <1>2, <1>5, <1>6, <1>9, <2>1, StartsApart DEF Ownership
<1>11. \A d \in Caller \ {c} : \A x \in Hold(call[d]) : buf'[x] = buf[x]
    <2>1. \A d \in Caller \ {c} : Hold(call[d]) \subseteq Buf
        BY DEF Hold, Keep, Borrow, Owned, Dropped, Types, Frame
    <2> QED BY <1>4, <1>9, <2>1
<1>12. \A x \in Buf : buf'[x] # buf[x] => BufferInv(x)'
    <2> SUFFICES ASSUME NEW x \in Buf, x = b PROVE BufferInv(x)'
        BY <1>4
    <2>1. ~Working(x) /\ (Working(x)' <=> Working(x))
        BY <1>1 DEF Ownership, BufInv, BufferInv, Working
    <2> QED BY <1>3, <1>4, <2>1 DEF BufferInv
<1>13. f.op \notin Steps
    BY <1>2 DEF Uploads, Steps
<1> QED BY <1>1, <1>2, <1>4, <1>8, <1>10, <1>11, <1>12, <1>13, CallTurns

LEMMA UploadKeeps ==
    ASSUME Types, Ownership, NEW c \in Caller, NEW b \in Buf,
           NEW kind \in {"halo", "field"}, NEW shape \in Shape, Upload(c, b, kind, shape)
    PROVE  Types' /\ Ownership'
<1> DEFINE frame == [Idle EXCEPT !.op = "upload"]
<1>1. call[c].pc = "idle" /\ Reserve(c, b, kind, shape, frame)
    BY DEF Upload
<1>2. /\ frame \in Frame /\ frame.op = "upload" /\ frame.ok /\ ~frame.owned
      /\ frame.drops = <<>> /\ frame.gives = {} /\ frame.src = NoBuf /\ frame.rhs = NoBuf
    BY IdleFields DEF Frame
<1> HIDE DEF frame
<1> QED BY <1>1, <1>2, ReserveKeeps DEF Uploads

LEMMA StepKeeps ==
    ASSUME Types, Ownership, NEW c \in Caller, NEW src \in Buf, NEW rhs \in Buf,
           NEW out \in Buf, Step(c, src, rhs, out)
    PROVE  Types' /\ Ownership'
<1> DEFINE frame == [Idle EXCEPT !.op = "step", !.src = src, !.rhs = rhs]
<1>1. call[c].pc = "idle" /\ Reserve(c, out, "field", buf[src].shape, frame)
    BY DEF Step
<1>2. /\ frame \in Frame /\ frame.op = "step" /\ frame.ok /\ ~frame.owned
      /\ frame.drops = <<>> /\ frame.gives = {} /\ frame.src = src /\ frame.rhs = rhs
    BY IdleFields DEF Frame
<1>3. buf[src].shape \in Shape
    BY DEF Types, Buffer
<1>4. \A x \in {src, rhs} : /\ MayShare(x) /\ buf[x].home = "own"
                            /\ buf[x].shape = buf[src].shape
    BY SessionAssumption DEF Step, Valid
<1> HIDE DEF frame
<1> QED BY <1>1, <1>2, <1>3, <1>4, ReserveKeeps DEF Uploads

(* step_into and laplacian_into borrow what they validated.                *)
LEMMA StepIntoKeeps ==
    ASSUME Types, Ownership, NEW c \in Caller, NEW op \in Steps, NEW src \in Buf,
           NEW rhs \in Buf \cup {NoBuf}, NEW out \in Buf, StepInto(c, op, src, rhs, out)
    PROVE  Types' /\ Ownership'
<1> DEFINE f == [Idle EXCEPT !.op = op, !.pc = "checked", !.src = src, !.rhs = rhs,
                             !.out = out]
<1>1. /\ call[c] \in Frame /\ FrameOK(call[c]) /\ call[c].pc = "idle" /\ call[c].drops = <<>>
      /\ call' = [call EXCEPT ![c] = f]
      /\ UNCHANGED <<buf, stream, running, device, aborted>>
      /\ (op = "laplacian_into") <=> (rhs = NoBuf)
      /\ rhs # NoBuf => MayShare(rhs)
      /\ MayShare(src) /\ MayTake(out) /\ Valid(src, rhs, out)
    BY DEF Types, Ownership, CallsInv, FrameInv, FrameOK, StepInto
<1>2. /\ f \in Frame /\ f.pc = "checked" /\ f.drops = <<>> /\ f.ok /\ f.gives = {}
      /\ f.op = op /\ f.src = src /\ f.rhs = rhs /\ f.out = out /\ ~f.owned
    BY IdleFields DEF Frame, Steps
<1> HIDE DEF f
<1>3. /\ Live(f) /\ Owned(f) = {} /\ Keep(f) = {} /\ Lends(f)
      /\ FrameArgs(f) = {src, rhs, out} \ {NoBuf}
      /\ FrameArgs(f) \subseteq Buf /\ Borrow(f) \subseteq FrameArgs(f)
    <2>1. Live(f) /\ Owned(f) = {}
        BY <1>2 DEF Live, Owned, Uploads, Steps
    <2>2. Keep(f) = {} /\ Lends(f) /\ FrameArgs(f) = {src, rhs, out} \ {NoBuf}
        BY <1>2, <2>1 DEF Keep, Lends, FrameArgs
    <2>3. \A x \in Borrow(f) : x \in FrameArgs(f)
        BY <1>2, <2>2, SessionAssumption DEF Borrow
    <2> QED BY <2>1, <2>2, <2>3
<1>4. FrameOK(f)
    BY <1>1, <1>2, Empty DEF FrameOK, Steps
<1>5. \A x \in FrameArgs(f) : /\ buf[x].owner = "user" /\ buf[x].home = "own"
                              /\ buf[x].shape = buf[src].shape /\ ~buf[x].uncertain
    BY <1>1, <1>3 DEF MayShare, MayTake, Valid
<1>6. LiveInv(f, buf)
    <2>1. ~buf[out].uncertain
        BY <1>3, <1>5, SessionAssumption
    <2> QED BY <1>2, <1>3, <1>5, <2>1 DEF LiveInv, Uploads, Steps
<1>7. FrameInv(f, buf)
    BY <1>2, <1>3, <1>4, <1>5, <1>6 DEF FrameInv
<1>8. \A d \in Caller \ {c} : out \notin FrameArgs(call[d]) /\ out \notin Hold(call[d])
    BY <1>1, TakenUnheld DEF Ownership
<1>9. \A d \in Caller \ {c} : ApartFrom(f, call[d])
    <2>1. \A x \in FrameArgs(f) : \A d \in Caller \ {c} :
              call[d].out # x \/ x \notin Hold(call[d])
        BY <1>1, <1>3, <1>8 DEF MayShare
    <2> QED BY <1>2, <1>3, <1>4, <1>8, <2>1, StartsApart DEF Ownership
<1>10. buf[f.out].content = "torn" => Writing(f.out)
    <2>1. BufferInv(out) /\ ~buf[out].uncertain
        BY <1>3, <1>5, SessionAssumption DEF Ownership, BufInv
    <2> QED BY <1>2, <2>1 DEF BufferInv
<1>11. buf' \in [Buf -> Buffer] /\ FrameInv(f, buf')
    BY <1>1, <1>7 DEF Types
<1> QED BY <1>1, <1>2, <1>9, <1>10, <1>11, CallTurns

(* A call takes its arguments by value.                                    *)
LEMMA TakesOver ==
    ASSUME Types, Ownership, NEW c \in Caller, call[c].pc = "idle",
           NEW S \in SUBSET Buf, \A b \in S : MayTake(b),
           buf' = HandedOver(S, "call"), NEW f \in Frame, call' = [call EXCEPT ![c] = f],
           UNCHANGED <<stream, running, device, aborted>>,
           FrameOK(f), Keep(f) = S, Borrow(f) = {}, FrameArgs(f) = S,
           f.pc # "forgotten", f.op \notin Steps,
           Live(f) => LiveInv(f, buf'), f.pc = "dropping" => DropInv(f, buf')
    PROVE  Types' /\ Ownership'
<1>1. call[c].drops = <<>> /\ buf \in [Buf -> Buffer]
    BY DEF Types, Ownership, CallsInv, FrameInv, FrameOK
<1>2. /\ buf' \in [Buf -> Buffer]
      /\ \A b \in Buf : b \notin S => buf'[b] = buf[b]
      /\ \A b \in S : /\ buf'[b].owner = "call" /\ buf'[b].uncertain = buf[b].uncertain
                      /\ buf'[b].stored = buf[b].stored /\ buf'[b].charged = buf[b].charged
                      /\ buf'[b].content = buf[b].content
    BY <1>1, Handed
<1>3. \A b \in S : buf[b].stored /\ buf[b].charged
    BY DEF MayTake, Ownership, BufInv, BufferInv
<1>4. FrameInv(f, buf')
    BY <1>2 DEF FrameInv
<1>5. \A d \in Caller \ {c} : \A b \in S : b \notin Hold(call[d])
    BY TakenUnheld DEF Ownership
<1>6. \A d \in Caller \ {c} : ApartFrom(f, call[d])
    <2>1. ~Lends(f)
        BY DEF Lends
    <2> QED BY <1>5, <2>1, StartsApart DEF Ownership
<1>7. \A d \in Caller \ {c} : \A b \in Hold(call[d]) : buf'[b] = buf[b]
    <2>1. \A d \in Caller \ {c} : Hold(call[d]) \subseteq Buf
        BY DEF Hold, Keep, Borrow, Owned, Dropped, Types, Frame
    <2> QED BY <1>2, <1>5, <2>1
<1>8. \A b \in Buf : buf'[b] # buf[b] => BufferInv(b)'
    <2> SUFFICES ASSUME NEW b \in S PROVE BufferInv(b)'
        BY <1>2
    <2> QED BY <1>2, <1>3, HandedWhole
<1> QED BY <1>1, <1>2, <1>4, <1>6, <1>7, <1>8, CallTurns

(* ... to drop them at once ...                                            *)
LEMMA TakesToDrop ==
    ASSUME Types, Ownership, NEW c \in Caller, call[c].pc = "idle",
           NEW S \in SUBSET Buf, \A b \in S : MayTake(b),
           buf' = HandedOver(S, "call"), NEW f \in Frame, call' = [call EXCEPT ![c] = f],
           UNCHANGED <<stream, running, device, aborted>>,
           f.pc = "dropping", f.op \in {"async", "into_host", "drop"}, f.gives = {}, ~f.owned,
           f.op \in {"into_host", "drop"} => f.rhs = NoBuf /\ f.out = NoBuf,
           f.op = "async" => f.src # f.rhs /\ f.src # f.out /\ f.rhs # f.out
                             /\ f.rhs \in Buf /\ f.out \in Buf,
           f.src \in Buf, FrameArgs(f) = S,
           Tidy(f.drops), InOrder(f.drops),
           \A b \in Buf : /\ <<"free", b>> \in Els(f.drops) <=> b \in S
                          /\ <<"uncharge", b>> \in Els(f.drops) <=> b \in S
    PROVE  Types' /\ Ownership'
<1>1. /\ Dropped(f) = S /\ ~Live(f) /\ Borrow(f) = {} /\ f.op \notin Steps
    BY DEF Dropped, Live, Borrow, Lends, Steps
<1>2. Keep(f) = S
    BY <1>1 DEF Keep
<1>3. FrameOK(f)
    BY DEF FrameOK
<1>4. DropInv(f, buf')
    <2>1. \A b \in S : buf[b].stored /\ buf[b].charged
        BY DEF MayTake, Ownership, BufInv, BufferInv
    <2>2. \A b \in S : buf'[b].stored = buf[b].stored /\ buf'[b].charged = buf[b].charged
        BY Handed DEF Types
    <2>3. f.op = "into_host" => S \subseteq {f.src}
        BY DEF FrameArgs
    <2> QED BY <1>1, <2>1, <2>2, <2>3 DEF DropInv
<1> QED BY <1>1, <1>2, <1>3, <1>4, TakesOver

LEMMA DropBufferKeeps ==
    ASSUME Types, Ownership, NEW c \in Caller, NEW b \in Buf, DropBuffer(c, b)
    PROVE  Types' /\ Ownership'
<1> DEFINE f == [Idle EXCEPT !.op = "drop", !.src = b, !.pc = "dropping", !.drops = DropOf(b)]
<1>1. /\ call[c].pc = "idle" /\ MayTake(b) /\ call' = [call EXCEPT ![c] = f]
      /\ UNCHANGED <<stream, running, device, aborted>>
      /\ buf' = HandedOver({b}, "call")
    BY DEF DropBuffer, HandedOver, Types
<1>2. /\ f \in Frame /\ f.pc = "dropping" /\ f.drops = DropOf(b) /\ f.gives = {}
      /\ f.op = "drop" /\ f.src = b /\ f.rhs = NoBuf /\ f.out = NoBuf /\ ~f.owned
    <2>1. DropOf(b) \in Seq({"free", "uncharge", "unadmit"} \X (Buf \cup {NoBuf}))
        BY DropOfList, Typed
    <2> QED BY <2>1, IdleFields DEF Frame
<1> HIDE DEF f
<1>3. FrameArgs(f) = {b}
    BY <1>2, SessionAssumption DEF FrameArgs
<1>4. \A x \in Buf : /\ <<"free", x>> \in Els(f.drops) <=> x \in {b}
                     /\ <<"uncharge", x>> \in Els(f.drops) <=> x \in {b}
    BY <1>2, DropOfList
<1>5. Tidy(f.drops) /\ InOrder(f.drops) /\ {b} \in SUBSET Buf /\ \A x \in {b} : MayTake(x)
    BY <1>1, <1>2, DropOfList
<1> QED BY <1>1, <1>2, <1>3, <1>4, <1>5, TakesToDrop

LEMMA IntoHostKeeps ==
    ASSUME Types, Ownership, NEW c \in Caller, NEW b \in Buf, IntoHost(c, b)
    PROVE  Types' /\ Ownership'
<1> DEFINE frame == [Idle EXCEPT !.op = "into_host", !.src = b]
           f == [frame EXCEPT !.pc = "admitted"]
           g == [frame EXCEPT !.pc = "dropping", !.ok = FALSE, !.drops = DropOf(b)]
<1>1. /\ call[c].pc = "idle" /\ MayTake(b) /\ buf[b].home = "own"
      /\ UNCHANGED <<stream, running, device, aborted>>
      /\ buf' = HandedOver({b}, "call")
      /\ \/ ~buf[b].uncertain /\ call' = [call EXCEPT ![c] = f]
         \/ call' = [call EXCEPT ![c] = g]
    BY DEF IntoHost, HandedOver, Types
<1>2. /\ f \in Frame /\ f.pc = "admitted" /\ f.drops = <<>> /\ f.gives = {} /\ f.ok
      /\ f.op = "into_host" /\ f.src = b /\ f.rhs = NoBuf /\ f.out = NoBuf /\ ~f.owned
    BY IdleFields DEF Frame
<1>3. /\ g \in Frame /\ g.pc = "dropping" /\ g.drops = DropOf(b) /\ g.gives = {}
      /\ g.op = "into_host" /\ g.src = b /\ g.rhs = NoBuf /\ g.out = NoBuf /\ ~g.owned
    <2>1. DropOf(b) \in Seq({"free", "uncharge", "unadmit"} \X (Buf \cup {NoBuf}))
        BY DropOfList, Typed
    <2> QED BY <2>1, IdleFields DEF Frame
<1> HIDE DEF f, g
<1>4. FrameArgs(f) = {b} /\ FrameArgs(g) = {b}
    BY <1>2, <1>3, SessionAssumption DEF FrameArgs
<1>5. CASE ~buf[b].uncertain /\ call' = [call EXCEPT ![c] = f]
    <2>1. Live(f) /\ Owned(f) = {b} /\ Borrow(f) = {}
        BY <1>2 DEF Live, Owned, Borrow, Lends, Steps, Uploads
    <2>2. Keep(f) = {b}
        BY <2>1 DEF Keep
    <2>3. FrameOK(f)
        BY <1>2, Empty DEF FrameOK
    <2>4. /\ buf'[b].stored /\ buf'[b].charged /\ ~buf'[b].uncertain /\ buf'[b].home = "own"
        <3>1. buf[b].stored /\ buf[b].charged
            BY <1>1 DEF MayTake, Ownership, BufInv, BufferInv
        <3>2. /\ buf'[b].stored = buf[b].stored /\ buf'[b].charged = buf[b].charged
              /\ buf'[b].uncertain = buf[b].uncertain /\ buf'[b].home = buf[b].home
            <4> DEFINE S == {b}
            <4>1. b \in S /\ buf' = HandedOver(S, "call") /\ buf \in [Buf -> Buffer]
                BY <1>1 DEF Types
            <4> HIDE DEF S
            <4> QED BY <4>1, Handed
        <3> QED BY <1>1, <1>5, <3>1, <3>2
    <2>5. LiveInv(f, buf')
        BY <1>2, <1>4, <2>1, <2>4 DEF LiveInv, Uploads, Steps
    <2> QED BY <1>1, <1>2, <1>4, <1>5, <2>1, <2>2, <2>3, <2>5, TakesOver DEF Steps
<1>6. CASE call' = [call EXCEPT ![c] = g]
    <2>1. \A x \in Buf : /\ <<"free", x>> \in Els(g.drops) <=> x \in {b}
                         /\ <<"uncharge", x>> \in Els(g.drops) <=> x \in {b}
        BY <1>3, DropOfList
    <2>2. Tidy(g.drops) /\ InOrder(g.drops) /\ {b} \in SUBSET Buf /\ \A x \in {b} : MayTake(x)
        BY <1>1, <1>3, DropOfList
    <2> QED BY <1>1, <1>3, <1>4, <1>6, <2>1, <2>2, TakesToDrop
<1> QED BY <1>1, <1>5, <1>6

LEMMA StepIntoAsyncKeeps ==
    ASSUME Types, Ownership, NEW c \in Caller, NEW src \in Buf, NEW rhs \in Buf,
           NEW out \in Buf, StepIntoAsync(c, src, rhs, out)
    PROVE  Types' /\ Ownership'
<1> DEFINE S == {src, rhs, out}
           q == DropOf(out) \o DropOf(rhs) \o DropOf(src)
           frame == [Idle EXCEPT !.op = "async", !.src = src, !.rhs = rhs, !.out = out]
           f == [frame EXCEPT !.pc = "unpolled"]
           g == [frame EXCEPT !.pc = "dropping", !.ok = FALSE, !.drops = q]
<1>1. /\ call[c].pc = "idle" /\ \A b \in S : MayTake(b)
      /\ UNCHANGED <<stream, running, device, aborted>>
      /\ buf' = HandedOver(S, "call") /\ S \in SUBSET Buf
      /\ \/ Valid(src, rhs, out) /\ call' = [call EXCEPT ![c] = f]
         \/ call' = [call EXCEPT ![c] = g]
    BY DEF StepIntoAsync, HandedOver
<1>2. src # rhs /\ src # out /\ rhs # out
    BY DEF StepIntoAsync
<1>3. /\ Tidy(q) /\ InOrder(q)
      /\ \A x \in Buf : /\ <<"free", x>> \in Els(q) <=> x \in S
                        /\ <<"uncharge", x>> \in Els(q) <=> x \in S
    BY <1>2, ThreeBuffers
<1> HIDE DEF q
<1>4. /\ f \in Frame /\ f.pc = "unpolled" /\ f.drops = <<>> /\ f.gives = {} /\ f.ok
      /\ f.op = "async" /\ f.src = src /\ f.rhs = rhs /\ f.out = out /\ ~f.owned
    BY IdleFields DEF Frame
<1>5. /\ g \in Frame /\ g.pc = "dropping" /\ g.drops = q /\ g.gives = {}
      /\ g.op = "async" /\ g.src = src /\ g.rhs = rhs /\ g.out = out /\ ~g.owned
    <2>1. q \in Seq({"free", "uncharge", "unadmit"} \X (Buf \cup {NoBuf}))
        BY <1>3, Typed
    <2> QED BY <2>1, IdleFields DEF Frame
<1> HIDE DEF f, g
<1>6. FrameArgs(f) = S /\ FrameArgs(g) = S
    BY <1>4, <1>5, SessionAssumption DEF FrameArgs
<1>7. CASE Valid(src, rhs, out) /\ call' = [call EXCEPT ![c] = f]
    <2>1. Live(f) /\ Owned(f) = S /\ Borrow(f) = {}
        BY <1>4 DEF Live, Owned, Borrow, Lends, Steps, Uploads
    <2>2. Keep(f) = S
        BY <2>1 DEF Keep
    <2>3. FrameOK(f)
        BY <1>2, <1>4, Empty DEF FrameOK
    <2>4. \A b \in S : /\ buf'[b].stored /\ buf'[b].charged /\ buf'[b].home = "own"
                       /\ buf'[b].shape = buf[src].shape
        <3>1. \A b \in S : buf[b].stored /\ buf[b].charged
            BY <1>1 DEF MayTake, Ownership, BufInv, BufferInv
        <3>2. \A b \in S : buf[b].home = "own" /\ buf[b].shape = buf[src].shape
            BY <1>7, SessionAssumption DEF Valid
        <3> HIDE DEF S
        <3> QED BY <1>1, <3>1, <3>2, Handed DEF Types
    <2>5. LiveInv(f, buf')
        BY <1>4, <1>6, <2>1, <2>4 DEF LiveInv, Uploads, Steps
    <2> HIDE DEF S
    <2> QED BY <1>1, <1>4, <1>6, <1>7, <2>1, <2>2, <2>3, <2>5, TakesOver DEF Steps
<1>8. CASE call' = [call EXCEPT ![c] = g]
    <2> HIDE DEF S
    <2>1. /\ Tidy(g.drops) /\ InOrder(g.drops)
          /\ \A x \in Buf : /\ <<"free", x>> \in Els(g.drops) <=> x \in S
                            /\ <<"uncharge", x>> \in Els(g.drops) <=> x \in S
        BY <1>3, <1>5
    <2> QED BY <1>1, <1>2, <1>5, <1>6, <1>8, <2>1, TakesToDrop
<1> QED BY <1>1, <1>7, <1>8

-----------------------------------------------------------------------------
(* The program forgets a buffer, or obtains one of another session.        *)
LEMMA BufferTurns ==
    ASSUME Types, Ownership, NEW b \in Buf, UNCHANGED <<call, stream, running, device, aborted>>,
           buf' \in [Buf -> Buffer], \A x \in Buf : x # b => buf'[x] = buf[x],
           \A d \in Caller : b \notin Hold(call[d]), BufferInv(b)'
    PROVE  Types' /\ Ownership'
<1>1. \A d \in Caller : call[d] \in Frame /\ FrameInv(call[d], buf)
    BY DEF Types, Ownership, CallsInv
<1>2. \A d \in Caller : \A x \in Hold(call[d]) : x \in Buf /\ buf'[x] = buf[x]
    <2>1. \A d \in Caller : Hold(call[d]) \subseteq Buf
        BY <1>1 DEF Hold, Keep, Borrow, Owned, Dropped, Frame
    <2> QED BY <2>1
<1>3. CallsInv'
    <2> SUFFICES ASSUME NEW d \in Caller PROVE FrameInv(call[d], buf')
        BY DEF CallsInv
    <2> QED BY <1>1, <1>2, FrameStable DEF Alike
<1>4. Apart' /\ StreamInv'
    BY DEF Ownership, Apart, StreamInv, OnStream, Work
<1>5. BufInv'
    <2> SUFFICES ASSUME NEW x \in Buf, x # b PROVE BufferInv(x)'
        BY DEF BufInv
    <2> QED BY DEF Ownership, BufInv, BufferInv, Working, Writing
<1>6. OutputInv'
    <2> SUFFICES ASSUME NEW d \in Caller PROVE OutputWhole(call[d])'
        BY DEF OutputInv
    <2>1. OutputWhole(call[d])
        BY DEF Ownership, OutputInv
    <2>2. call[d].op \in Steps /\ Live(call[d]) => buf'[call[d].out] = buf[call[d].out]
        BY <1>1, <1>2, ArgsHeld DEF FrameInv
    <2> QED BY <2>1, <2>2 DEF OutputWhole, Writing
<1> QED BY <1>3, <1>4, <1>5, <1>6 DEF Ownership, Types

LEMMA ForgetBufferKeeps ==
    ASSUME Types, Ownership, NEW b \in Buf, ForgetBuffer(b)
    PROVE  Types' /\ Ownership'
<1>1. /\ MayTake(b) /\ buf \in [Buf -> Buffer]
      /\ UNCHANGED <<call, stream, running, device, aborted>>
    BY DEF ForgetBuffer, Types
<1> DEFINE S == {b}
<1>2. buf' = HandedOver(S, "leaked") /\ \A x \in Buf : x \in S <=> x = b
    BY <1>1 DEF ForgetBuffer, HandedOver
<1> HIDE DEF S
<1>3. /\ buf' \in [Buf -> Buffer] /\ \A x \in Buf : x # b => buf'[x] = buf[x]
      /\ buf'[b].owner = "leaked" /\ buf'[b].uncertain = buf[b].uncertain
      /\ buf'[b].stored = buf[b].stored /\ buf'[b].charged = buf[b].charged
      /\ buf'[b].content = buf[b].content
    BY <1>1, <1>2, Handed
<1>4. buf[b].stored /\ buf[b].charged
    BY <1>1 DEF MayTake, Ownership, BufInv, BufferInv
<1>5. BufferInv(b)'
    BY <1>1, <1>3, <1>4, HandedWhole
<1>6. \A d \in Caller : b \notin Hold(call[d])
    BY <1>1, TakenUnheld DEF Ownership
<1> QED BY <1>1, <1>3, <1>5, <1>6, BufferTurns

LEMMA ForeignBufferKeeps ==
    ASSUME Types, Ownership, NEW b \in Buf, NEW kind \in {"halo", "field"},
           NEW shape \in Shape, ForeignBuffer(b, kind, shape)
    PROVE  Types' /\ Ownership'
<1> DEFINE field == [NoBuffer EXCEPT !.owner = "user", !.kind = kind, !.shape = shape,
                          !.home = "other", !.charged = TRUE, !.stored = TRUE]
<1>1. /\ buf[b].owner = "none" /\ buf' = [buf EXCEPT ![b] = field]
      /\ UNCHANGED <<call, stream, running, device, aborted>>
    BY DEF ForeignBuffer
<1>2. /\ field \in Buffer /\ field.owner = "user" /\ field.charged /\ field.stored
      /\ field.content = "whole"
    <2>1. NoBuffer \in Buffer /\ NoBuffer.content = "whole"
        BY SessionAssumption DEF NoBuffer, Buffer
    <2> QED BY <2>1 DEF Buffer
<1> HIDE DEF field
<1>3. /\ buf' \in [Buf -> Buffer] /\ buf'[b] = field
      /\ \A x \in Buf : x # b => buf'[x] = buf[x]
    BY <1>1, <1>2 DEF Types
<1>4. \A d \in Caller : b \notin Hold(call[d])
    BY <1>1, FreeUnheld DEF Ownership
<1>5. BufferInv(b)'
    BY <1>2, <1>3 DEF BufferInv
<1> QED BY <1>1, <1>3, <1>4, <1>5, BufferTurns

-----------------------------------------------------------------------------
(* The device works the stream off.                                        *)
LEMMA Marked ==
    ASSUME buf \in [Buf -> Buffer], NEW S, NEW content \in {"whole", "torn"},
           buf' = SetContent(S, content)
    PROVE  /\ buf' \in [Buf -> Buffer]
           /\ \A b \in Buf : /\ buf'[b].content = IF b \in S THEN content ELSE buf[b].content
                             /\ Alike(buf[b], buf'[b])
<1>1. \A b \in Buf : buf[b] \in Buffer /\ [buf[b] EXCEPT !.content = content] \in Buffer
    BY DEF Buffer
<1>2. \A b \in Buf : b \in S => buf'[b] = [buf[b] EXCEPT !.content = content]
    BY DEF SetContent
<1>3. /\ buf' \in [Buf -> Buffer]
      /\ \A b \in Buf : b \notin S => buf'[b] = buf[b]
    BY <1>1 DEF SetContent
<1> QED BY <1>1, <1>2, <1>3 DEF Buffer, Alike

LEMMA BeginKeeps ==
    ASSUME Types, Ownership, DeviceBegin
    PROVE  Types' /\ Ownership'
<1> DEFINE S == Head(stream).writes
<1>1. /\ running' /\ stream # <<>> /\ ~running /\ buf' = SetContent(S, "torn")
      /\ UNCHANGED <<usage, call, stream, device, aborted>> /\ buf \in [Buf -> Buffer]
      /\ running' \in BOOLEAN
    BY DEF DeviceBegin, Types
<1>2. /\ buf' \in [Buf -> Buffer]
      /\ \A b \in Buf : /\ buf'[b].content = IF b \in S THEN "torn" ELSE buf[b].content
                        /\ Alike(buf[b], buf'[b])
    BY <1>1, Marked
<1>3. \A b \in Buf : Writing(b)' <=> b \in S
    BY <1>1 DEF Writing
<1> HIDE DEF S
<1>4. \A d \in Caller : call[d] \in Frame /\ FrameInv(call[d], buf) /\ Hold(call[d]) \subseteq Buf
    BY DEF Types, Ownership, CallsInv, Hold, Keep, Borrow, Owned, Dropped, Frame
<1>5. CallsInv'
    <2> SUFFICES ASSUME NEW d \in Caller PROVE FrameInv(call[d], buf')
        BY <1>1 DEF CallsInv
    <2> QED BY <1>2, <1>4, FrameStable
<1>6. Apart' /\ StreamInv'
    BY <1>1 DEF Ownership, Apart, StreamInv, OnStream, Work
<1>7. BufInv'
    <2> SUFFICES ASSUME NEW b \in Buf PROVE BufferInv(b)'
        BY DEF BufInv
    <2>1. BufferInv(b) /\ (Working(b)' <=> Working(b)) /\ ~Writing(b)
        BY <1>1 DEF Ownership, BufInv, Working, Writing
    <2> QED BY <1>1, <1>2, <1>3, <2>1 DEF BufferInv, Alike
<1>8. OutputInv'
    <2> SUFFICES ASSUME NEW d \in Caller PROVE OutputWhole(call[d])'
        BY DEF OutputInv
    <2>1. OutputWhole(call[d]) /\ ~Writing(call[d].out)
        BY <1>1 DEF Ownership, OutputInv, Writing
    <2>2. call[d].op \in Steps /\ Live(call[d]) => call[d].out \in Buf
        BY <1>4, ArgsHeld DEF FrameInv
    <2>3. ASSUME call[d].op \in Steps, Live(call[d]), buf'[call[d].out].content = "torn"
          PROVE  running' /\ call[d].out \in Head(stream).writes
        BY <1>1, <1>2, <2>1, <2>2, <2>3 DEF OutputWhole, S
    <2> QED BY <1>1, <2>3 DEF OutputWhole, Writing
<1> QED BY <1>1, <1>2, <1>5, <1>6, <1>7, <1>8 DEF Ownership, Types

(* Two frames that differ in nothing but what they wait for.               *)
Waits(e, f) ==
    /\ f.op = e.op /\ f.pc = e.pc /\ f.src = e.src /\ f.rhs = e.rhs /\ f.out = e.out
    /\ f.owned = e.owned /\ f.ok = e.ok /\ f.drops = e.drops /\ f.gives = e.gives

LEMMA WaitsAlike ==
    ASSUME NEW e, NEW f, Waits(e, f)
    PROVE  /\ (Live(f) <=> Live(e)) /\ Keep(f) = Keep(e) /\ Borrow(f) = Borrow(e)
           /\ FrameArgs(f) = FrameArgs(e) /\ (Lends(f) <=> Lends(e)) /\ Hold(f) = Hold(e)
           /\ \A bf : FrameInv(e, bf) => FrameInv(f, bf)
           /\ \A b : GoesLate(e, b) => GoesLate(f, b)
<1>1. /\ (Live(f) <=> Live(e)) /\ Owned(f) = Owned(e) /\ Dropped(f) = Dropped(e)
      /\ Borrow(f) = Borrow(e) /\ FrameArgs(f) = FrameArgs(e) /\ (Lends(f) <=> Lends(e))
    BY DEF Waits, Live, Owned, Dropped, Borrow, FrameArgs, Lends
<1>2. Keep(f) = Keep(e) /\ Hold(f) = Hold(e)
    BY <1>1 DEF Waits, Keep, Hold
<1>3. FrameOK(e) => FrameOK(f)
    BY DEF Waits, FrameOK
<1>4. \A bf : LiveInv(e, bf) => LiveInv(f, bf)
    BY <1>1 DEF Waits, LiveInv
<1>5. \A bf : DropInv(e, bf) => DropInv(f, bf)
    BY <1>1 DEF Waits, DropInv
<1>6. \A bf : FrameInv(e, bf) => FrameInv(f, bf)
    BY <1>1, <1>2, <1>3, <1>4, <1>5 DEF Waits, FrameInv
<1>7. \A b : GoesLate(e, b) => GoesLate(f, b)
    BY DEF Waits, GoesLate
<1> QED BY <1>1, <1>2, <1>6, <1>7

LEMMA FinishKeeps ==
    ASSUME Types, Ownership, DeviceFinish
    PROVE  Types' /\ Ownership'
<1> DEFINE S == Head(stream).writes
           n == Len(stream)
<1>1. /\ running /\ running' = FALSE /\ buf' = SetContent(S, "whole") /\ stream' = Tail(stream)
      /\ UNCHANGED <<device, aborted>> /\ buf \in [Buf -> Buffer]
      /\ stream \in Seq(WorkItem) /\ stream # <<>>
      /\ call' = [c \in Caller |->
             IF call[c].wait > 0 THEN [call[c] EXCEPT !.wait = @ - 1] ELSE call[c]]
    BY DEF DeviceFinish, Types, Ownership, StreamInv
<1>2. /\ n \in Nat /\ n > 0 /\ DOMAIN stream = 1 .. n /\ stream' \in Seq(WorkItem)
      /\ DOMAIN stream' = 1 .. n - 1 /\ Len(stream') = n - 1
      /\ \A i \in 1 .. n - 1 : stream'[i] = stream[i + 1]
    BY <1>1
<1>3. /\ buf' \in [Buf -> Buffer]
      /\ \A b \in Buf : /\ buf'[b].content = IF b \in S THEN "whole" ELSE buf[b].content
                        /\ Alike(buf[b], buf'[b])
    BY <1>1, Marked
<1>4. \A b \in Buf : /\ ~Writing(b)'
                     /\ Writing(b) <=> b \in S
                     /\ Working(b)' => Working(b)
    <2> SUFFICES ASSUME NEW b \in Buf PROVE Working(b)' => Working(b)
        BY <1>1 DEF Writing
    <2> SUFFICES ASSUME NEW i \in 1 .. n - 1, b \in Touches(stream'[i]) PROVE Working(b)
        BY <1>2 DEF Working
    <2>1. i + 1 \in 1 .. n /\ stream'[i] = stream[i + 1]
        BY <1>2
    <2> QED BY <2>1 DEF Working
<1> HIDE DEF S, n
<1>5. \A c \in Caller : /\ call'[c] \in Frame /\ Waits(call[c], call'[c])
                        /\ call[c].wait > 0 => call'[c].wait = call[c].wait - 1
    <2> SUFFICES ASSUME NEW c \in Caller
                 PROVE  /\ call'[c] \in Frame /\ Waits(call[c], call'[c])
                        /\ call[c].wait > 0 => call'[c].wait = call[c].wait - 1
        OBVIOUS
    <2>1. call[c] \in Frame
        BY DEF Types
    <2>2. CASE call[c].wait > 0
        <3>1. call'[c] = [call[c] EXCEPT !.wait = @ - 1]
            BY <1>1, <2>2
        <3>2. call[c].wait \in Nat /\ call[c].wait - 1 \in Nat
            BY <2>1, <2>2 DEF Frame
        <3> QED BY <2>1, <3>1, <3>2 DEF Frame, Waits
    <2>3. CASE ~(call[c].wait > 0)
        BY <1>1, <2>1, <2>3 DEF Waits
    <2> QED BY <2>2, <2>3
<1>6. \A c \in Caller : /\ call[c] \in Frame /\ FrameInv(call[c], buf)
                        /\ FrameInv(call'[c], buf) /\ Hold(call'[c]) \subseteq Buf
    <2>1. \A c \in Caller : call[c] \in Frame /\ FrameInv(call[c], buf)
        BY DEF Types, Ownership, CallsInv
    <2>2. \A c \in Caller : Hold(call'[c]) \subseteq Buf
        BY <1>5 DEF Hold, Keep, Borrow, Owned, Dropped, Frame
    <2> QED BY <1>5, <2>1, <2>2, WaitsAlike
<1>7. CallsInv'
    <2> SUFFICES ASSUME NEW c \in Caller PROVE FrameInv(call'[c], buf')
        BY DEF CallsInv
    <2> QED BY <1>3, <1>5, <1>6, FrameStable
<1>8. Apart'
    <2> SUFFICES ASSUME NEW c \in Caller, NEW d \in Caller, c # d
                 PROVE  ApartFrom(call'[c], call'[d])
        BY DEF Apart
    <2>1. ApartFrom(call[c], call[d])
        BY DEF Ownership, Apart
    <2>2. Waits(call[c], call'[c]) /\ Waits(call[d], call'[d])
        BY <1>5
    <2>3. /\ Keep(call'[c]) = Keep(call[c]) /\ FrameArgs(call'[c]) = FrameArgs(call[c])
          /\ (Lends(call'[c]) <=> Lends(call[c])) /\ call'[c].out = call[c].out
          /\ Keep(call'[d]) = Keep(call[d]) /\ FrameArgs(call'[d]) = FrameArgs(call[d])
          /\ (Lends(call'[d]) <=> Lends(call[d])) /\ call'[d].out = call[d].out
        BY <2>2, WaitsAlike DEF Waits
    <2> QED BY <2>1, <2>3 DEF ApartFrom
<1>9. StreamInv'
    <2>1. \A c \in Caller : OnStream(c)'
        <3> SUFFICES ASSUME NEW c \in Caller, NEW i \in 1 .. n - 1, stream'[i].by = c
                     PROVE  /\ call'[c].pc \in Active
                            /\ stream'[i] = Work(c)'
                            /\ call'[c].pc = "forgotten" \/ call'[c].wait >= i
            BY <1>2 DEF OnStream
        <3>1. i + 1 \in 1 .. n /\ stream'[i] = stream[i + 1] /\ OnStream(c) /\ i \in Nat /\ i > 0
            BY <1>2 DEF Ownership, StreamInv
        <3>2. /\ call[c].pc \in Active /\ stream[i + 1] = Work(c)
              /\ call[c].pc = "forgotten" \/ call[c].wait >= i + 1
            BY <1>2, <3>1 DEF OnStream
        <3>3. Work(c)' = Work(c) /\ call'[c].pc = call[c].pc
            BY <1>5 DEF Waits, Work
        <3>4. call[c].wait \in Nat
            BY <1>6 DEF Frame
        <3> QED BY <1>5, <3>1, <3>2, <3>3, <3>4
    <2>2. \A i, j \in DOMAIN stream' : stream'[i].by = stream'[j].by => i = j
        <3> SUFFICES ASSUME NEW i \in 1 .. n - 1, NEW j \in 1 .. n - 1,
                            stream'[i].by = stream'[j].by
                     PROVE  i = j
            BY <1>2
        <3>1. i + 1 \in 1 .. n /\ j + 1 \in 1 .. n
            BY <1>2
        <3>2. \A k, l \in 1 .. n : stream[k].by = stream[l].by => k = l
            BY <1>2 DEF Ownership, StreamInv
        <3>3. stream[i + 1].by = stream[j + 1].by
            BY <1>2
        <3>4. i + 1 = j + 1
            BY <3>1, <3>2, <3>3
        <3> QED BY <1>2, <3>4
    <2> QED BY <1>1, <2>1, <2>2 DEF StreamInv
<1>10. BufInv'
    <2> SUFFICES ASSUME NEW b \in Buf PROVE BufferInv(b)'
        BY DEF BufInv
    <2>1. BufferInv(b)
        BY DEF Ownership, BufInv
    <2>2. buf'[b].content = "torn" => buf'[b].uncertain
        BY <1>3, <1>4, <2>1 DEF BufferInv, Alike
    <2>3. buf'[b].stored /\ ~buf'[b].charged => \E c \in Caller : GoesLate(call'[c], b)
        BY <1>3, <1>5, <2>1, WaitsAlike DEF BufferInv, Alike
    <2> QED BY <1>3, <1>4, <2>1, <2>2, <2>3 DEF BufferInv, Alike
<1>11. OutputInv'
    <2> SUFFICES ASSUME NEW c \in Caller PROVE OutputWhole(call[c])'
        BY DEF OutputInv
    <2>1. OutputWhole(call[c]) /\ Waits(call[c], call'[c])
        BY <1>5 DEF Ownership, OutputInv
    <2>2. (Live(call'[c]) <=> Live(call[c])) /\ call'[c].out = call[c].out
          /\ call'[c].op = call[c].op
        BY <2>1, WaitsAlike DEF Waits
    <2>3. call[c].op \in Steps /\ Live(call[c]) => call[c].out \in Buf
        BY <1>6 DEF FrameInv, FrameOK, Steps
    <2>4. ASSUME call[c].op \in Steps, Live(call[c]), buf'[call[c].out].content = "torn"
          PROVE  FALSE
        BY <1>3, <1>4, <2>1, <2>3, <2>4 DEF OutputWhole
    <2> QED BY <2>2, <2>4 DEF OutputWhole
<1>12. Types'
    <2>1. call' \in [Caller -> Frame]
        BY <1>1, <1>5
    <2> QED BY <1>1, <1>2, <1>3, <2>1 DEF Types
<1> QED BY <1>7, <1>8, <1>9, <1>10, <1>11, <1>12 DEF Ownership

(* Nothing but the device and the process changes.                         *)
LEMMA FaultKeeps ==
    ASSUME Types, Ownership, \/ DeviceFault
                             \/ \E c \in Caller : FailStop(c)
                             \/ UNCHANGED vars
    PROVE  Types' /\ Ownership'
<1>1. /\ UNCHANGED <<buf, call, stream, running>> /\ device' \in {"ok", "faulted"}
      /\ aborted' \in BOOLEAN
    BY DEF Types, DeviceFault, FailStop, vars
<1>2. BufInv' /\ OutputInv'
    BY <1>1 DEF Ownership, BufInv, BufferInv, Working, Writing, OutputInv, OutputWhole
<1>3. CallsInv' /\ Apart' /\ StreamInv'
    BY <1>1 DEF Ownership, CallsInv, Apart, StreamInv, OnStream, Work
<1> QED BY <1>1, <1>2, <1>3 DEF Types, Ownership

LEMMA InitOwnership == Init => Types /\ Ownership
<1> SUFFICES ASSUME Init PROVE Types /\ Ownership
    OBVIOUS
<1>1. /\ NoBuffer \in Buffer /\ NoBuffer.owner = "none" /\ ~NoBuffer.stored
      /\ ~NoBuffer.charged /\ NoBuffer.content = "whole"
    BY SessionAssumption DEF NoBuffer, Buffer
<1>2. Types
    <2>1. [b \in Buf |-> NoBuffer] \in [Buf -> Buffer]
        BY <1>1
    <2>2. [c \in Caller |-> Idle] \in [Caller -> Frame]
        BY IdleFields
    <2>3. <<>> \in Seq(WorkItem)
        OBVIOUS
    <2> QED BY <2>1, <2>2, <2>3 DEF Init, Types
<1>3. /\ \A b \in Buf : buf[b] = NoBuffer
      /\ \A c \in Caller : call[c] = Idle
      /\ stream = <<>> /\ Len(stream) = 0 /\ DOMAIN stream = {} /\ ~running
    BY DEF Init
<1>4. CallsInv
    BY <1>3, IdleFrame DEF CallsInv
<1>5. Apart
    BY <1>3, IdleFrame DEF Apart, ApartFrom
<1>6. StreamInv
    BY <1>3 DEF StreamInv, OnStream
<1>7. BufInv
    BY <1>1, <1>3 DEF BufInv, BufferInv, Working
<1>8. OutputInv
    BY <1>3, IdleFrame DEF OutputInv, OutputWhole
<1> QED BY <1>2, <1>4, <1>5, <1>6, <1>7, <1>8 DEF Ownership

-----------------------------------------------------------------------------
LEMMA OwnershipInductive ==
    ASSUME Types, Ownership, [Next]_vars
    PROVE  Types' /\ Ownership'
<1>1. ASSUME NEW c \in Caller, Start(c) PROVE Types' /\ Ownership'
    <2>1. CASE \E b \in Buf, shape \in Shape :
                   Upload(c, b, "halo", shape) \/ Upload(c, b, "field", shape)
        BY <2>1, UploadKeeps
    <2>2. CASE \E src, rhs, out \in Buf : Step(c, src, rhs, out)
        BY <2>2, StepKeeps
    <2>3. CASE \E src, rhs, out \in Buf : StepInto(c, "step_into", src, rhs, out)
        BY <2>3, StepIntoKeeps DEF Steps
    <2>4. CASE \E src, out \in Buf : StepInto(c, "laplacian_into", src, NoBuf, out)
        BY <2>4, StepIntoKeeps DEF Steps
    <2>5. CASE \E src, rhs, out \in Buf : StepIntoAsync(c, src, rhs, out)
        BY <2>5, StepIntoAsyncKeeps
    <2>6. CASE \E b \in Buf : IntoHost(c, b)
        BY <2>6, IntoHostKeeps
    <2>7. CASE \E b \in Buf : DropBuffer(c, b)
        BY <2>7, DropBufferKeeps
    <2> QED BY <1>1, <2>1, <2>2, <2>3, <2>4, <2>5, <2>6, <2>7 DEF Start, StartOn
<1>2. ASSUME NEW c \in Caller, Proceed(c) \/ FuturePolled(c) PROVE Types' /\ Ownership'
    <2>1. CASE AdmitUpload(c) \/ AdmitStep(c)
        BY <2>1, RejectedKeeps, AdmittedKeeps
    <2>2. CASE BindFails(c)
        BY <2>2, BindFailsKeeps
    <2>3. CASE Poll(c)
        BY <2>3, ExecuteKeeps DEF Poll
    <2>4. CASE Complete(c)
        BY <2>4, CompleteKeeps
    <2>5. CASE Drained(c)
        BY <2>5, FutureLeavesKeeps
    <2>6. CASE FailStop(c)
        BY <2>6, FaultKeeps
    <2>7. CASE DropNext(c)
        BY <2>7, DropNextKeeps
    <2>8. CASE Return(c)
        BY <2>8, ReturnKeeps
    <2> QED BY <1>2, <2>1, <2>2, <2>3, <2>4, <2>5, <2>6, <2>7, <2>8
            DEF Proceed, FuturePolled
<1>3. CASE Environment
    <2>1. CASE \E c \in Caller : DropFuture(c) \/ ForgetFuture(c)
        <3> SUFFICES ASSUME NEW c \in Caller, DropFuture(c) \/ ForgetFuture(c)
                     PROVE  Types' /\ Ownership'
            BY <2>1
        <3>1. DropFuture(c) => call[c].pc \in {"unpolled", "pending"}
            BY DEF DropFuture
        <3> QED BY <3>1, FutureLeavesKeeps, DrainKeeps, ForgetFutureKeeps
    <2>2. CASE \E b \in Buf : ForgetBuffer(b)
        BY <2>2, ForgetBufferKeeps
    <2>3. CASE \E b \in Buf, kind \in {"halo", "field"}, shape \in Shape :
                   ForeignBuffer(b, kind, shape)
        BY <2>3, ForeignBufferKeeps
    <2> QED BY <1>3, <2>1, <2>2, <2>3 DEF Environment
<1>4. CASE Device
    BY <1>4, BeginKeeps, FinishKeeps DEF Device
<1>5. CASE DeviceFault \/ UNCHANGED vars
    BY <1>5, FaultKeeps
<1> QED BY <1>1, <1>2, <1>3, <1>4, <1>5 DEF Next

-----------------------------------------------------------------------------
(* The charges of a session as guards of the abstract budget, read off the *)
(* buffer and the frame that answer for them.                              *)
Admits(f) ==
    \/ f.pc \in {"admitted", "unpolled", "submitted", "pending", "draining", "forgotten"}
    \/ <<"unadmit", NoBuf>> \in Els(f.drops)

Held(buffer, bytes) == [state |-> "held", buffer |-> buffer, bytes |-> bytes]
None == [state |-> "absent", buffer |-> FALSE, bytes |-> 0]

BufferGuard(x) ==
    IF x.charged /\ x.home = "own"
    THEN [state |-> IF x.owner = "leaked" THEN "forgotten" ELSE "held",
          buffer |-> TRUE, bytes |-> Bytes(x.kind, x.shape)]
    ELSE None

CallGuard(f) ==
    [state |-> IF f.pc = "forgotten" THEN "forgotten"
               ELSE IF Admits(f) THEN "held" ELSE "absent",
     buffer |-> FALSE, bytes |-> 0]

Ledger ==
    [g \in Buf \cup Caller |-> IF g \in Buf THEN BufferGuard(buf[g]) ELSE CallGuard(call[g])]

Sizes == {HaloSize[s] : s \in Shape} \cup {FieldSize[s] : s \in Shape}

(* What one step does to them: nothing, or what one step of the budget     *)
(* does.                                                                   *)
Reserves(b, bytes) ==
    /\ Ledger[b].state = "absent" /\ AdmitsBuffer(usage, bytes)
    /\ usage' = ChargeBuffer(usage, bytes)
    /\ Ledger' = [Ledger EXCEPT ![b] = Held(TRUE, bytes)]

Operates(c) ==
    /\ Ledger[c].state = "absent" /\ AdmitsOperation(usage)
    /\ usage' = ChargeOperation(usage)
    /\ Ledger' = [Ledger EXCEPT ![c] = Held(FALSE, 0)]

Uncharges(b) ==
    /\ Ledger[b].state = "held" /\ Ledger[b].buffer
    /\ usage' = ReleaseBuffer(usage, Ledger[b].bytes)
    /\ Ledger' = [Ledger EXCEPT ![b] = None]

Unadmits(c) ==
    /\ Ledger[c].state = "held"
    /\ usage' = ReleaseOperation(usage)
    /\ Ledger' = [Ledger EXCEPT ![c] = None]

Retains(gs) ==
    /\ \A g \in gs : Ledger[g].state = "held"
    /\ usage' = usage
    /\ Ledger' = [g \in Buf \cup Caller |-> IF g \in gs
                      THEN [Ledger[g] EXCEPT !.state = "forgotten"] ELSE Ledger[g]]

LedgerStep ==
    \/ UNCHANGED <<usage, Ledger>>
    \/ \E b \in Buf, bytes \in Sizes : Reserves(b, bytes)
    \/ \E c \in Caller : Operates(c)
    \/ \E b \in Buf : Uncharges(b)
    \/ \E c \in Caller : Unadmits(c)
    \/ \E gs \in SUBSET (Buf \cup Caller) : Retains(gs)

LEMMA LedgerOf ==
    /\ \A b \in Buf : Ledger[b] = BufferGuard(buf[b]) /\ Ledger'[b] = BufferGuard(buf'[b])
    /\ \A c \in Caller : Ledger[c] = CallGuard(call[c]) /\ Ledger'[c] = CallGuard(call'[c])
    /\ Ledger = [g \in Buf \cup Caller |-> Ledger[g]]
    /\ Ledger' = [g \in Buf \cup Caller |-> Ledger'[g]]
BY SessionAssumption DEF Ledger

(* The caller of a step, at most: no other frame changes its guard.        *)
OneCall(c) == \A d \in Caller : d # c => call'[d] = call[d]

LEMMA LedgerSame ==
    ASSUME \A b \in Buf : BufferGuard(buf'[b]) = BufferGuard(buf[b]),
           \A c \in Caller : CallGuard(call'[c]) = CallGuard(call[c])
    PROVE  Ledger' = Ledger
BY LedgerOf DEF Ledger

LEMMA LedgerOfBuffer ==
    ASSUME NEW b \in Buf, NEW v,
           BufferGuard(buf'[b]) = v,
           \A x \in Buf \ {b} : BufferGuard(buf'[x]) = BufferGuard(buf[x]),
           \A c \in Caller : CallGuard(call'[c]) = CallGuard(call[c])
    PROVE  Ledger' = [Ledger EXCEPT ![b] = v]
<1>1. \A g \in Buf \cup Caller : Ledger'[g] = IF g = b THEN v ELSE Ledger[g]
    BY LedgerOf, SessionAssumption
<1>2. [Ledger EXCEPT ![b] = v] = [g \in Buf \cup Caller |-> IF g = b THEN v ELSE Ledger[g]]
    BY LedgerOf
<1>3. Ledger' = [g \in Buf \cup Caller |-> Ledger'[g]]
    BY LedgerOf
<1> QED BY <1>1, <1>2, <1>3

LEMMA LedgerOfCall ==
    ASSUME NEW c \in Caller, NEW v,
           CallGuard(call'[c]) = v, OneCall(c),
           \A x \in Buf : BufferGuard(buf'[x]) = BufferGuard(buf[x])
    PROVE  Ledger' = [Ledger EXCEPT ![c] = v]
<1>1. \A g \in Buf \cup Caller : Ledger'[g] = IF g = c THEN v ELSE Ledger[g]
    BY LedgerOf, SessionAssumption DEF OneCall
<1>2. [Ledger EXCEPT ![c] = v] = [g \in Buf \cup Caller |-> IF g = c THEN v ELSE Ledger[g]]
    BY LedgerOf
<1>3. Ledger' = [g \in Buf \cup Caller |-> Ledger'[g]]
    BY LedgerOf
<1> QED BY <1>1, <1>2, <1>3

(* Buffers that keep what their charge depends on.                         *)
SameCharge(x, y) ==
    /\ y.charged = x.charged /\ y.home = x.home
    /\ y.kind = x.kind /\ y.shape = x.shape
    /\ (y.owner = "leaked") <=> (x.owner = "leaked")

LEMMA ChargeKept ==
    ASSUME NEW x, NEW y, SameCharge(x, y)
    PROVE  BufferGuard(y) = BufferGuard(x)
BY DEF SameCharge, BufferGuard

(* A call that keeps its admission, or the lack of it, charges nothing.    *)
LEMMA QuietCall ==
    ASSUME NEW c \in Caller, OneCall(c), usage' = usage,
           (Admits(call'[c]) <=> Admits(call[c])),
           call[c].pc # "forgotten", call'[c].pc # "forgotten",
           \A b \in Buf : SameCharge(buf[b], buf'[b])
    PROVE  LedgerStep
<1>1. \A b \in Buf : BufferGuard(buf'[b]) = BufferGuard(buf[b])
    BY ChargeKept
<1>2. \A d \in Caller : CallGuard(call'[d]) = CallGuard(call[d])
    <2>1. CallGuard(call'[c]) = CallGuard(call[c])
        BY DEF CallGuard
    <2> QED BY <2>1 DEF OneCall
<1> QED BY <1>1, <1>2, LedgerSame DEF LedgerStep

-----------------------------------------------------------------------------
(* What each action charges or releases.                                   *)
LEMMA NoDrops ==
    ASSUME NEW f, f.drops = <<>>
    PROVE  Admits(f) <=> f.pc \in {"admitted", "unpolled", "submitted", "pending",
                                   "draining", "forgotten"}
BY Empty DEF Admits

LEMMA SameBuffers ==
    ASSUME buf' = buf
    PROVE  \A b \in Buf : SameCharge(buf[b], buf'[b])
BY DEF SameCharge

LEMMA BindFailsLedger ==
    ASSUME Types, Ownership, NEW c \in Caller, BindFails(c)
    PROVE  LedgerStep
<1>1. /\ call[c] \in Frame /\ FrameInv(call[c], buf) /\ call[c].pc \in {"admitted", "unpolled"}
      /\ call' = [call EXCEPT ![c] = Fail(c, DropsAtBind(c))] /\ buf' = buf /\ usage' = usage
    BY DEF Types, Ownership, CallsInv, BindFails
<1>2. <<"unadmit", NoBuf>> \in Els(DropsAtBind(c))
    BY <1>1, DropsAtBindReleases
<1>3. call'[c].pc = "dropping" /\ call'[c].drops = DropsAtBind(c) /\ OneCall(c)
    BY <1>1 DEF Types, Fail, Unwind, OneCall, Frame
<1>4. Admits(call'[c]) /\ Admits(call[c])
    BY <1>1, <1>2, <1>3 DEF Admits
<1> QED BY <1>1, <1>3, <1>4, SameBuffers, QuietCall

LEMMA FutureLeavesLedger ==
    ASSUME Types, Ownership, NEW c \in Caller,
           \/ call[c].pc = "unpolled" /\ DropFuture(c)
           \/ Drained(c)
    PROVE  LedgerStep
<1>1. /\ call[c] \in Frame /\ FrameInv(call[c], buf) /\ call[c].pc \in {"unpolled", "draining"}
      /\ call' = [call EXCEPT ![c] = Fail(c, DropFrame(c))] /\ buf' = buf /\ usage' = usage
    BY DEF Types, Ownership, CallsInv, DropFuture, Drained
<1>2. <<"unadmit", NoBuf>> \in Els(DropFrame(c))
    BY <1>1, DropFrameReleases DEF Live, FrameInv, FrameOK
<1>3. call'[c].pc = "dropping" /\ call'[c].drops = DropFrame(c) /\ OneCall(c)
    BY <1>1 DEF Types, Fail, Unwind, OneCall, Frame
<1>4. Admits(call'[c]) /\ Admits(call[c])
    BY <1>1, <1>2, <1>3 DEF Admits
<1> QED BY <1>1, <1>3, <1>4, SameBuffers, QuietCall

LEMMA DrainLedger ==
    ASSUME Types, Ownership, NEW c \in Caller, DropFuture(c), call[c].pc = "pending"
    PROVE  LedgerStep
<1>1. /\ call[c] \in Frame /\ buf' = buf /\ usage' = usage
      /\ call' = [call EXCEPT ![c] = [@ EXCEPT !.pc = "draining", !.wait = Len(stream)]]
    BY DEF Types, DropFuture
<1>2. call'[c].pc = "draining" /\ OneCall(c)
    BY <1>1 DEF Types, OneCall, Frame
<1>3. Admits(call'[c]) /\ Admits(call[c])
    BY <1>2 DEF Admits
<1> QED BY <1>1, <1>2, <1>3, SameBuffers, QuietCall

(* Budget::operation, at its three places.                                 *)
LEMMA Charged ==
    ASSUME Types, NEW c \in Caller, ~Admits(call[c]), call[c].pc # "forgotten",
           AdmitsOperation(usage), usage' = ChargeOperation(usage),
           OneCall(c), call'[c].pc \in {"admitted", "unpolled"},
           \A b \in Buf : SameCharge(buf[b], buf'[b])
    PROVE  LedgerStep
<1>1. CallGuard(call'[c]) = Held(FALSE, 0)
    BY DEF CallGuard, Admits, Held
<1>2. Ledger[c].state = "absent"
    BY LedgerOf DEF CallGuard
<1>3. \A b \in Buf : BufferGuard(buf'[b]) = BufferGuard(buf[b])
    BY ChargeKept
<1>4. Ledger' = [Ledger EXCEPT ![c] = Held(FALSE, 0)]
    BY <1>1, <1>3, LedgerOfCall
<1> QED BY <1>2, <1>4 DEF Operates, LedgerStep

LEMMA AdmitLedger ==
    ASSUME Types, Ownership, NEW c \in Caller, AdmitUpload(c) \/ AdmitStep(c)
    PROVE  LedgerStep
<1>1. /\ call[c] \in Frame /\ FrameOK(call[c]) /\ FrameInv(call[c], buf) /\ buf' = buf
      /\ call[c].pc \in {"reserved", "checked"}
    BY DEF Types, Ownership, CallsInv, FrameInv, AdmitUpload, AdmitStep
<1>2. ~Admits(call[c])
    BY <1>1, NoDrops DEF FrameOK
<1>3. CASE AdmitsOperation(usage)
    <2>1. usage' = ChargeOperation(usage) /\ call' = [call EXCEPT ![c].pc = "admitted"]
        BY <1>3 DEF AdmitUpload, AdmitStep
    <2>2. OneCall(c) /\ call'[c].pc = "admitted"
        BY <1>1, <2>1 DEF Types, OneCall, Frame
    <2> QED BY <1>1, <1>2, <1>3, <2>1, <2>2, SameBuffers, Charged
<1>4. CASE ~AdmitsOperation(usage)
    <2> DEFINE q == IF call[c].pc = "reserved" THEN <<<<"uncharge", call[c].out>>>>
                    ELSE IF call[c].owned THEN DropOf(call[c].out) ELSE <<>>
    <2>1. /\ call' = [call EXCEPT ![c] = Fail(c, q)] /\ usage' = usage
        BY <1>1, <1>4 DEF AdmitUpload, AdmitStep
    <2>2. call[c].out \in Buf
        BY <1>1 DEF FrameOK, Uploads, Steps
    <2>3. <<"unadmit", NoBuf>> \notin Els(q)
        BY <2>2, UnchargeList, DropOfList, Empty
    <2> HIDE DEF q
    <2>4. OneCall(c) /\ call'[c].pc = "dropping" /\ call'[c].drops = q
        BY <1>1, <2>1 DEF Types, OneCall, Frame, Fail, Unwind
    <2>5. ~Admits(call'[c])
        BY <2>3, <2>4 DEF Admits
    <2> QED BY <1>1, <1>2, <2>1, <2>4, <2>5, SameBuffers, QuietCall
<1> QED BY <1>3, <1>4

LEMMA CompleteLedger ==
    ASSUME Types, Ownership, NEW c \in Caller, Complete(c)
    PROVE  LedgerStep
<1>1. /\ call[c] \in Frame /\ FrameInv(call[c], buf) /\ FrameOK(call[c])
      /\ call[c].pc \in {"submitted", "pending"}
      /\ call' = [call EXCEPT ![c] =
                      [Unwind(c, DropsAtReturn(c)) EXCEPT !.gives = Gives(c)]]
      /\ buf' = Settled(c) /\ usage' = usage /\ buf \in [Buf -> Buffer]
    BY DEF Types, Ownership, CallsInv, Complete, FrameInv
<1>2. <<"unadmit", NoBuf>> \in Els(DropsAtReturn(c))
    BY <1>1, DropsAtReturnReleases
<1>3. call'[c].pc = "dropping" /\ call'[c].drops = DropsAtReturn(c) /\ OneCall(c)
    BY <1>1 DEF Types, Unwind, OneCall, Frame
<1>4. Admits(call'[c]) /\ Admits(call[c])
    BY <1>1, <1>2, <1>3 DEF Admits
<1>5. \A b \in Buf : SameCharge(buf[b], buf'[b])
    <2>1. CASE call[c].op \notin Steps
        BY <1>1, <2>1, SameBuffers DEF Settled
    <2>2. CASE call[c].op \in Steps
        <3>1. \/ buf' = [buf EXCEPT ![call[c].out].uncertain = FALSE]
              \/ buf' = [buf EXCEPT ![call[c].out].content = "torn"]
            BY <1>1, <2>2 DEF Settled
        <3> QED BY <1>1, <3>1 DEF SameCharge, Buffer
    <2> QED BY <2>1, <2>2
<1> QED BY <1>1, <1>3, <1>4, <1>5, QuietCall

LEMMA ExecuteLedger ==
    ASSUME Types, Ownership, NEW c \in Caller, NEW ok \in BOOLEAN, NEW submitted \in BOOLEAN,
           Execute(c, ok, submitted)
    PROVE  LedgerStep
<1>1. /\ call[c] \in Frame /\ call[c].pc \in {"admitted", "unpolled"} /\ usage' = usage
      /\ buf \in [Buf -> Buffer] /\ FrameOK(call[c])
    BY DEF Types, Execute, Ownership, CallsInv, FrameInv
<1>2. OneCall(c) /\ call'[c].pc \in {"pending", "submitted"}
    BY <1>1 DEF Types, Execute, OneCall, Frame
<1>3. Admits(call'[c]) /\ Admits(call[c])
    BY <1>1, <1>2 DEF Admits
<1>4. \A b \in Buf : SameCharge(buf[b], buf'[b])
    <2>1. \/ buf' = [buf EXCEPT ![call[c].out].stored = submitted]
          \/ buf' = [buf EXCEPT ![call[c].out].uncertain = TRUE]
          \/ buf' = buf
        BY DEF Execute, Uploads, Steps
    <2> QED BY <1>1, <2>1 DEF SameCharge, Buffer
<1> QED BY <1>1, <1>2, <1>3, <1>4, QuietCall

LEMMA ReturnLedger ==
    ASSUME Types, Ownership, NEW c \in Caller, Return(c)
    PROVE  LedgerStep
<1>1. /\ call[c] \in Frame /\ FrameInv(call[c], buf) /\ call[c].pc = "dropping"
      /\ call[c].drops = <<>> /\ usage' = usage /\ buf \in [Buf -> Buffer]
      /\ buf' = HandedOver(call[c].gives, "user") /\ call[c].gives \subseteq Buf
    BY DEF Types, Ownership, CallsInv, Return, HandedOver, Frame
<1>2. OneCall(c) /\ call'[c].pc \in {"idle", "checked"} /\ call'[c].drops = <<>>
    <2>1. CASE call[c].op = "step" /\ call[c].ok
        BY <1>1, <2>1 DEF Types, Return, OneCall, Frame
    <2>2. CASE ~(call[c].op = "step" /\ call[c].ok)
        BY <1>1, <2>2, IdleFields DEF Types, Return, OneCall
    <2> QED BY <2>1, <2>2
<1>3. ~Admits(call'[c]) /\ ~Admits(call[c])
    BY <1>1, <1>2, NoDrops
<1>4. \A b \in call[c].gives : buf[b].owner = "call"
    <2>1. CASE Live(call[c])
        BY <1>1, <2>1 DEF FrameInv, LiveInv
    <2>2. CASE ~Live(call[c])
        BY <1>1, <2>2 DEF FrameInv, Keep
    <2> QED BY <2>1, <2>2
<1>5. \A b \in Buf : SameCharge(buf[b], buf'[b])
    <2>1. \A b \in Buf : b \notin call[c].gives => buf'[b] = buf[b]
        BY <1>1, Handed
    <2>2. \A b \in call[c].gives : /\ buf'[b].owner = "user" /\ buf'[b].shape = buf[b].shape
                                   /\ buf'[b].kind = buf[b].kind
                                   /\ buf'[b].home = buf[b].home
                                   /\ buf'[b].charged = buf[b].charged
        BY <1>1, Handed
    <2> QED BY <1>4, <2>1, <2>2 DEF SameCharge
<1> QED BY <1>1, <1>2, <1>3, <1>5, QuietCall

Entry(state, buffer, bytes) == [state |-> state, buffer |-> buffer, bytes |-> bytes]

LEMMA Forgotten ==
    ASSUME NEW buffer, NEW n
    PROVE  /\ Entry("held", buffer, n).state = "held"
           /\ Entry("forgotten", buffer, n)
                  = [Entry("held", buffer, n) EXCEPT !.state = "forgotten"]
<1> DEFINE fields == {"state", "buffer", "bytes"}
           r == Entry("held", buffer, n)
           s == Entry("forgotten", buffer, n)
<1>1. DOMAIN r = fields /\ DOMAIN s = fields
    BY DEF Entry
<1>2. /\ r["state"] = "held" /\ r["buffer"] = buffer /\ r["bytes"] = n
      /\ s["state"] = "forgotten" /\ s["buffer"] = buffer /\ s["bytes"] = n
    BY DEF Entry
<1>3. s = [x \in fields |-> s[x]]
    BY DEF Entry
<1> HIDE DEF r, s
<1>4. [r EXCEPT !.state = "forgotten"]
          = [x \in fields |-> IF x = "state" THEN "forgotten" ELSE r[x]]
    BY <1>1
<1>5. \A x \in fields : s[x] = IF x = "state" THEN "forgotten" ELSE r[x]
    BY <1>2
<1>6. s = [r EXCEPT !.state = "forgotten"]
    BY <1>3, <1>4, <1>5
<1> QED BY <1>2, <1>6 DEF r, s

LEMMA GuardLeaks ==
    ASSUME NEW x, NEW y, x.charged, x.home = "own", x.owner # "leaked",
           y.charged = x.charged, y.home = x.home, y.kind = x.kind, y.shape = x.shape,
           y.owner = "leaked"
    PROVE  /\ BufferGuard(x).state = "held"
           /\ BufferGuard(y) = [BufferGuard(x) EXCEPT !.state = "forgotten"]
<1> DEFINE n == Bytes(x.kind, x.shape)
           r == BufferGuard(x)
           s == BufferGuard(y)
<1>1. r = Entry("held", TRUE, n) /\ s = Entry("forgotten", TRUE, n)
    BY DEF BufferGuard, Entry
<1> HIDE DEF n, r, s
<1>2. r.state = "held"
    BY <1>1 DEF Entry
<1>3. s = [r EXCEPT !.state = "forgotten"]
    BY <1>1, Forgotten, ZenonT(40)
<1> QED BY <1>2, <1>3 DEF r, s

(* mem::forget of a future retains its buffers' charges and its admission. *)
LEMMA ForgetFutureLedger ==
    ASSUME Types, Ownership, NEW c \in Caller, ForgetFuture(c)
    PROVE  LedgerStep
<1> DEFINE e == call[c]
           gs == Owned(e) \cup {c}
<1>1. /\ e \in Frame /\ FrameInv(e, buf) /\ FrameOK(e) /\ LiveInv(e, buf) /\ Live(e)
      /\ e.pc \in {"unpolled", "pending"} /\ e.op = "async"
      /\ call' = [call EXCEPT ![c].pc = "forgotten"] /\ usage' = usage
      /\ buf \in [Buf -> Buffer]
    BY DEF Types, Ownership, CallsInv, ForgetFuture, FrameInv, Live, FrameOK
<1>2. Owned(e) = {e.src, e.rhs, e.out} /\ {e.src, e.rhs, e.out} \subseteq Buf
    BY <1>1, OwnedWhole
<1>3. Args(c) = Owned(e)
    BY <1>2, SessionAssumption DEF Args
<1>4. buf' = HandedOver(Owned(e), "leaked")
    BY <1>3 DEF ForgetFuture, HandedOver
<1>5. OneCall(c) /\ call'[c].pc = "forgotten"
    BY <1>1 DEF Types, OneCall, Frame
<1> HIDE DEF e
<1>6. \A b \in Owned(e) : /\ b \in Buf /\ buf[b].owner = "call" /\ buf[b].home = "own"
                          /\ buf[b].charged /\ b \in FrameArgs(e)
    <2>1. Owned(e) \subseteq FrameArgs(e) /\ Owned(e) = Keep(e) /\ Owned(e) \subseteq Buf
        BY <1>1, ArgsHeld DEF Keep, Owned
    <2>2. \A b \in Owned(e) : buf[b].owner = "call"
        BY <1>1, <2>1 DEF FrameInv
    <2>3. \A b \in Owned(e) : buf[b].home = "own" /\ buf[b].charged
        BY <1>1, <2>1 DEF LiveInv
    <2> QED BY <2>1, <2>2, <2>3
<1>7. \A b \in Buf :
          IF b \in gs THEN /\ BufferGuard(buf[b]).state = "held"
                           /\ BufferGuard(buf'[b]) =
                                  [BufferGuard(buf[b]) EXCEPT !.state = "forgotten"]
          ELSE BufferGuard(buf'[b]) = BufferGuard(buf[b])
    <2> SUFFICES ASSUME NEW b \in Buf
                 PROVE  IF b \in Owned(e)
                        THEN /\ BufferGuard(buf[b]).state = "held"
                             /\ BufferGuard(buf'[b]) =
                                    [BufferGuard(buf[b]) EXCEPT !.state = "forgotten"]
                        ELSE BufferGuard(buf'[b]) = BufferGuard(buf[b])
        BY SessionAssumption
    <2>1. CASE b \in Owned(e)
        <3>1. /\ buf'[b].owner = "leaked" /\ buf'[b].shape = buf[b].shape
              /\ buf'[b].kind = buf[b].kind /\ buf'[b].home = buf[b].home
              /\ buf'[b].charged = buf[b].charged
            BY <1>1, <1>4, <2>1, Handed
        <3>2. buf[b].owner = "call" /\ buf[b].charged /\ buf[b].home = "own"
            BY <1>6, <2>1
        <3>3. /\ BufferGuard(buf[b]).state = "held"
              /\ BufferGuard(buf'[b]) = [BufferGuard(buf[b]) EXCEPT !.state = "forgotten"]
            BY <3>1, <3>2, GuardLeaks
        <3> QED BY <2>1, <3>3
    <2>2. CASE b \notin Owned(e)
        BY <1>1, <1>4, <2>2, Handed
    <2> QED BY <2>1, <2>2
<1>8. \A d \in Caller :
          IF d \in gs THEN /\ CallGuard(call[d]).state = "held"
                           /\ CallGuard(call'[d]) =
                                  [CallGuard(call[d]) EXCEPT !.state = "forgotten"]
          ELSE CallGuard(call'[d]) = CallGuard(call[d])
    <2>1. \A d \in Caller : d \in gs <=> d = c
        BY <1>6, SessionAssumption
    <2>2. Admits(e) /\ e.pc # "forgotten"
        BY <1>1 DEF Admits
    <2>3. /\ CallGuard(call[c]).state = "held"
          /\ CallGuard(call'[c]) = [CallGuard(call[c]) EXCEPT !.state = "forgotten"]
        <3> DEFINE r == CallGuard(call[c])
                   s == CallGuard(call'[c])
        <3>1. r = Entry("held", FALSE, 0) /\ s = Entry("forgotten", FALSE, 0)
            BY <1>5, <2>2 DEF CallGuard, Entry, e
        <3> HIDE DEF r, s
        <3>2. r.state = "held"
            BY <3>1, Forgotten
        <3>3. s = [r EXCEPT !.state = "forgotten"]
            BY <3>1, Forgotten
        <3> QED BY <3>2, <3>3 DEF r, s
    <2> QED BY <1>5, <2>1, <2>3 DEF OneCall
<1>9. gs \in SUBSET (Buf \cup Caller)
    BY <1>6
<1> HIDE DEF gs
<1>10. \A g \in gs : Ledger[g].state = "held"
    BY <1>7, <1>8, <1>9, LedgerOf
<1>11. \A g \in Buf \cup Caller : Ledger'[g] =
           IF g \in gs THEN [Ledger[g] EXCEPT !.state = "forgotten"] ELSE Ledger[g]
    BY <1>7, <1>8, LedgerOf
<1>12. Retains(gs)
    <2>1. Ledger' = [g \in Buf \cup Caller |-> Ledger'[g]]
        BY LedgerOf
    <2> QED BY <1>1, <1>10, <1>11, <2>1 DEF Retains
<1> QED BY <1>9, <1>12 DEF LedgerStep

(* The next destructor releases a charge, an admission, or storage only.   *)
LEMMA DropNextLedger ==
    ASSUME Types, Ownership, NEW c \in Caller, DropNext(c)
    PROVE  LedgerStep
<1> DEFINE e == call[c]
           what == Head(e.drops)[1]
           b == Head(e.drops)[2]
<1>1. /\ e \in Frame /\ FrameInv(e, buf) /\ FrameOK(e) /\ DropInv(e, buf)
      /\ e.pc = "dropping" /\ e.drops # <<>> /\ Tidy(e.drops)
      /\ call' = [call EXCEPT ![c].drops = Tail(@)] /\ buf \in [Buf -> Buffer]
    BY DEF Types, Ownership, CallsInv, DropNext, FrameInv, FrameOK
<1>2. /\ Head(e.drops) \in Destructor /\ Head(e.drops) \in Els(e.drops)
      /\ Els(Tail(e.drops)) = Els(e.drops) \ {Head(e.drops)}
    BY <1>1, AfterFirst
<1>3. /\ Head(e.drops) = <<what, b>>
      /\ \/ what \in {"free", "uncharge"} /\ b \in Buf
         \/ what = "unadmit" /\ b = NoBuf
    BY <1>2 DEF Destructor
<1>4. /\ what = "free" => buf' = [buf EXCEPT ![b] = AfterFree(b)] /\ usage' = usage
      /\ what = "uncharge" => buf' = [buf EXCEPT ![b] = AfterUncharge(b)]
      /\ what = "uncharge" /\ buf[b].home # "own" => usage' = usage
      /\ what = "uncharge" /\ buf[b].home = "own" => usage' = ReleaseBuffer(usage, SizeOf(b))
      /\ what = "unadmit" => buf' = buf /\ usage' = ReleaseOperation(usage)
    BY DEF DropNext
<1>5. OneCall(c) /\ call'[c].pc = "dropping" /\ call'[c].drops = Tail(e.drops)
    BY <1>1 DEF Types, OneCall, Frame
<1> HIDE DEF e, what, b
<1>6. CASE what = "unadmit"
    <2>1. CallGuard(e).state = "held" /\ CallGuard(call'[c]) = None
        BY <1>1, <1>2, <1>3, <1>5, <1>6 DEF CallGuard, Admits, None
    <2>2. buf' = buf /\ usage' = ReleaseOperation(usage)
        BY <1>4, <1>6
    <2>3. Ledger[c].state = "held"
        BY <2>1, LedgerOf DEF e
    <2>4. Ledger' = [Ledger EXCEPT ![c] = None]
        BY <1>5, <2>1, <2>2, LedgerOfCall
    <2>5. Unadmits(c)
        BY <2>2, <2>3, <2>4 DEF Unadmits
    <2> QED BY <2>5 DEF LedgerStep
<1>7. CASE what \in {"free", "uncharge"}
    <2>1. b \in Buf /\ b \in Dropped(e)
        BY <1>2, <1>3, <1>7 DEF Dropped
    <2>2. \A d \in Caller : CallGuard(call'[d]) = CallGuard(call[d])
        <3>1. Admits(call'[c]) <=> Admits(call[c])
            BY <1>1, <1>2, <1>3, <1>5, <1>7 DEF Admits, e
        <3> QED BY <1>1, <1>5, <3>1 DEF CallGuard, OneCall, e
    <2>3. \A x \in Buf \ {b} : BufferGuard(buf'[x]) = BufferGuard(buf[x])
        BY <1>1, <1>4, <1>7, <2>1
    <2>4. ~Live(e) /\ buf[b].owner = "call"
        <3>1. ~Live(e)
            BY <1>1, <2>1 DEF FrameInv, LiveInv
        <3> QED BY <1>1, <2>1, <3>1 DEF FrameInv, Keep
    <2>5. /\ buf[b] \in Buffer /\ BufferGuard(NoBuffer) = None
          /\ what = "free" => buf'[b] = AfterFree(b)
          /\ what = "uncharge" => buf'[b] = AfterUncharge(b)
        BY <1>1, <1>4, <2>1 DEF BufferGuard, NoBuffer
    <2>6. CASE what = "free"
        <3>1. BufferGuard(buf'[b]) = BufferGuard(buf[b])
            <4>1. CASE buf[b].charged
                <5>1. buf'[b] = [buf[b] EXCEPT !.stored = FALSE]
                    BY <2>5, <2>6, <4>1 DEF AfterFree
                <5> QED BY <2>5, <5>1 DEF BufferGuard, Buffer
            <4>2. CASE ~buf[b].charged
                BY <2>5, <2>6, <4>2 DEF AfterFree, BufferGuard
            <4> QED BY <4>1, <4>2
        <3> QED BY <1>4, <2>2, <2>3, <2>6, <3>1, LedgerSame DEF LedgerStep
    <2>7. CASE what = "uncharge"
        <3>1. BufferGuard(buf'[b]) = None
            <4>1. CASE buf[b].stored
                <5>1. buf'[b] = [buf[b] EXCEPT !.charged = FALSE]
                    BY <2>5, <2>7, <4>1 DEF AfterUncharge
                <5> QED BY <2>5, <5>1 DEF BufferGuard, Buffer
            <4>2. CASE ~buf[b].stored
                BY <2>5, <2>7, <4>2 DEF AfterUncharge
            <4> QED BY <4>1, <4>2
        <3>2. buf[b].charged
            BY <1>1, <1>2, <1>3, <2>1, <2>7 DEF DropInv
        <3>3. CASE buf[b].home = "own"
            <4>1. /\ BufferGuard(buf[b]).state = "held" /\ BufferGuard(buf[b]).buffer
                  /\ BufferGuard(buf[b]).bytes = SizeOf(b)
                BY <2>4, <3>2, <3>3 DEF BufferGuard, SizeOf
            <4>2. Ledger' = [Ledger EXCEPT ![b] = None]
                <5> DEFINE v == None
                <5>1. \A x \in Buf : x = b => Ledger' = [Ledger EXCEPT ![x] = v]
                    BY <2>2, <2>3, <3>1, LedgerOfBuffer
                <5> QED BY <2>1, <5>1
            <4>3. Uncharges(b)
                BY <1>4, <2>1, <2>7, <3>3, <4>1, <4>2, LedgerOf DEF Uncharges
            <4> QED BY <2>1, <4>3 DEF LedgerStep
        <3>4. CASE buf[b].home # "own"
            <4>1. BufferGuard(buf[b]) = None
                BY <3>4 DEF BufferGuard
            <4> QED BY <1>4, <2>2, <2>3, <2>7, <3>1, <3>4, <4>1, LedgerSame DEF LedgerStep
        <3> QED BY <3>3, <3>4
    <2> QED BY <1>7, <2>6, <2>7
<1> QED BY <1>3, <1>6, <1>7

(* Budget::buffer for a buffer that did not exist.                         *)
LEMMA ReserveLedger ==
    ASSUME Types, Ownership, NEW c \in Caller, call[c].pc = "idle",
           NEW b \in Buf, NEW kind \in {"halo", "field"}, NEW shape \in Shape,
           NEW frame \in Frame, frame.drops = <<>>, Reserve(c, b, kind, shape, frame)
    PROVE  LedgerStep
<1> DEFINE fresh == [NoBuffer EXCEPT !.owner = "call", !.kind = kind, !.shape = shape,
                                     !.charged = TRUE]
           bytes == Bytes(kind, shape)
<1>1. /\ call[c] \in Frame /\ FrameOK(call[c]) /\ call[c].drops = <<>> /\ buf \in [Buf -> Buffer]
      /\ buf[b].owner = "none" /\ buf' = [buf EXCEPT ![b] = fresh]
      /\ call' = [call EXCEPT ![c] = [frame EXCEPT !.pc = "reserved", !.out = b]]
      /\ AdmitsBuffer(usage, bytes) /\ usage' = ChargeBuffer(usage, bytes)
    BY DEF Types, Ownership, CallsInv, FrameInv, FrameOK, Reserve
<1>2. ~buf[b].charged
    BY <1>1 DEF Ownership, BufInv, BufferInv
<1>3. /\ fresh.owner = "call" /\ fresh.charged /\ fresh.home = "own" /\ fresh.shape = shape
      /\ fresh.kind = kind
    BY SessionAssumption DEF NoBuffer
<1>4. OneCall(c) /\ call'[c].pc = "reserved" /\ call'[c].drops = <<>>
    BY <1>1 DEF Types, OneCall, Frame
<1>5. \A d \in Caller : CallGuard(call'[d]) = CallGuard(call[d])
    <2>1. ~Admits(call'[c]) /\ ~Admits(call[c])
        BY <1>1, <1>4, NoDrops
    <2> QED BY <1>4, <2>1 DEF CallGuard, OneCall
<1>6. BufferGuard(fresh) = Held(TRUE, bytes)
    BY <1>3 DEF BufferGuard, Held
<1>7. BufferGuard(buf[b]).state = "absent"
    BY <1>2 DEF BufferGuard, None
<1>8. bytes \in Sizes
    BY DEF Sizes, Bytes
<1> HIDE DEF fresh, bytes
<1>9. /\ BufferGuard(buf'[b]) = Held(TRUE, bytes)
      /\ \A x \in Buf \ {b} : BufferGuard(buf'[x]) = BufferGuard(buf[x])
    BY <1>1, <1>6
<1>10. Ledger' = [Ledger EXCEPT ![b] = Held(TRUE, bytes)]
    BY <1>5, <1>9, LedgerOfBuffer
<1>11. Reserves(b, bytes)
    BY <1>1, <1>7, <1>10, LedgerOf DEF Reserves
<1> QED BY <1>8, <1>11 DEF LedgerStep

(* Handing a buffer that is not leaked to the call charges nothing.        *)
LEMMA TakenCharge ==
    ASSUME Types, NEW S \in SUBSET Buf, \A b \in S : MayTake(b), buf' = HandedOver(S, "call")
    PROVE  \A b \in Buf : SameCharge(buf[b], buf'[b])
<1> SUFFICES ASSUME NEW b \in Buf PROVE SameCharge(buf[b], buf'[b])
    OBVIOUS
<1>1. CASE b \in S
    <2>1. buf[b].owner = "user"
        BY <1>1 DEF MayTake
    <2>2. /\ buf'[b].owner = "call" /\ buf'[b].shape = buf[b].shape
          /\ buf'[b].kind = buf[b].kind /\ buf'[b].home = buf[b].home
          /\ buf'[b].charged = buf[b].charged
        BY <1>1, Handed DEF Types
    <2> QED BY <2>1, <2>2 DEF SameCharge
<1>2. CASE b \notin S
    <2>1. buf'[b] = buf[b]
        BY <1>2, Handed DEF Types
    <2> QED BY <2>1 DEF SameCharge
<1> QED BY <1>1, <1>2

LEMMA StartLedger ==
    ASSUME Types, Ownership, NEW c \in Caller, Start(c)
    PROVE  LedgerStep
<1>1. call[c].pc = "idle" => ~Admits(call[c])
    BY NoDrops DEF Types, Ownership, CallsInv, FrameInv, FrameOK
<1>2. ASSUME NEW b \in Buf, NEW kind \in {"halo", "field"}, NEW shape \in Shape,
             Upload(c, b, kind, shape)
      PROVE  LedgerStep
    <2> DEFINE frame == [Idle EXCEPT !.op = "upload"]
    <2>1. call[c].pc = "idle" /\ Reserve(c, b, kind, shape, frame)
        BY <1>2 DEF Upload
    <2>2. frame \in Frame /\ frame.drops = <<>>
        BY IdleFields DEF Frame
    <2> HIDE DEF frame
    <2> QED BY <2>1, <2>2, ReserveLedger
<1>3. ASSUME NEW src \in Buf, NEW rhs \in Buf, NEW out \in Buf, Step(c, src, rhs, out)
      PROVE  LedgerStep
    <2> DEFINE frame == [Idle EXCEPT !.op = "step", !.src = src, !.rhs = rhs]
    <2>1. call[c].pc = "idle" /\ Reserve(c, out, "field", buf[src].shape, frame)
        BY <1>3 DEF Step
    <2>2. frame \in Frame /\ frame.drops = <<>> /\ buf[src].shape \in Shape
        BY IdleFields DEF Frame, Types, Buffer
    <2> HIDE DEF frame
    <2> QED BY <2>1, <2>2, ReserveLedger
<1>4. ASSUME NEW op \in Steps, NEW src \in Buf, NEW rhs \in Buf \cup {NoBuf}, NEW out \in Buf,
             StepInto(c, op, src, rhs, out)
      PROVE  LedgerStep
    <2> DEFINE f == [Idle EXCEPT !.op = op, !.pc = "checked", !.src = src, !.rhs = rhs,
                                 !.out = out]
    <2>1. call[c].pc = "idle" /\ call' = [call EXCEPT ![c] = f] /\ buf' = buf /\ usage' = usage
        BY <1>4 DEF StepInto
    <2>2. f.pc = "checked" /\ f.drops = <<>>
        BY IdleFields DEF Frame
    <2> HIDE DEF f
    <2>3. OneCall(c) /\ call'[c] = f
        BY <2>1 DEF OneCall, Types
    <2>4. ~Admits(call'[c]) /\ ~Admits(call[c])
        BY <1>1, <2>1, <2>2, <2>3, NoDrops
    <2> QED BY <2>1, <2>2, <2>3, <2>4, SameBuffers, QuietCall
<1>5. ASSUME NEW S \in SUBSET Buf, \A b \in S : MayTake(b), buf' = HandedOver(S, "call"),
             call[c].pc = "idle", NEW f, call' = [call EXCEPT ![c] = f],
             \/ /\ AdmitsOperation(usage) /\ usage' = ChargeOperation(usage)
                /\ f.pc \in {"admitted", "unpolled"}
             \/ /\ usage' = usage
                /\ f.pc = "dropping" /\ <<"unadmit", NoBuf>> \notin Els(f.drops)
      PROVE  LedgerStep
    <2>1. OneCall(c) /\ call'[c] = f
        BY <1>5 DEF OneCall, Types
    <2>2. \A b \in Buf : SameCharge(buf[b], buf'[b])
        BY <1>5, TakenCharge
    <2>3. f.pc = "dropping" /\ <<"unadmit", NoBuf>> \notin Els(f.drops) => ~Admits(f)
        BY DEF Admits
    <2> QED BY <1>1, <1>5, <2>1, <2>2, <2>3, Charged, QuietCall
<1>6. ASSUME NEW b \in Buf, IntoHost(c, b) PROVE LedgerStep
    <2> DEFINE S == {b}
               frame == [Idle EXCEPT !.op = "into_host", !.src = b]
               f == [frame EXCEPT !.pc = "admitted"]
               g == [frame EXCEPT !.pc = "dropping", !.ok = FALSE, !.drops = DropOf(b)]
    <2>1. /\ call[c].pc = "idle" /\ S \in SUBSET Buf /\ \A x \in S : MayTake(x)
          /\ buf' = HandedOver(S, "call")
          /\ \/ /\ AdmitsOperation(usage) /\ usage' = ChargeOperation(usage)
                /\ call' = [call EXCEPT ![c] = f]
             \/ usage' = usage /\ call' = [call EXCEPT ![c] = g]
        BY <1>6 DEF IntoHost, HandedOver, Types
    <2>2. f.pc = "admitted" /\ g.pc = "dropping" /\ g.drops = DropOf(b)
        BY IdleFields DEF Frame
    <2>3. <<"unadmit", NoBuf>> \notin Els(DropOf(b))
        BY DropOfList
    <2> HIDE DEF S, f, g
    <2> QED BY <1>5, <2>1, <2>2, <2>3
<1>7. ASSUME NEW src \in Buf, NEW rhs \in Buf, NEW out \in Buf,
             StepIntoAsync(c, src, rhs, out)
      PROVE  LedgerStep
    <2> DEFINE S == {src, rhs, out}
               q == DropOf(out) \o DropOf(rhs) \o DropOf(src)
               frame == [Idle EXCEPT !.op = "async", !.src = src, !.rhs = rhs, !.out = out]
               f == [frame EXCEPT !.pc = "unpolled"]
               g == [frame EXCEPT !.pc = "dropping", !.ok = FALSE, !.drops = q]
    <2>1. /\ call[c].pc = "idle" /\ S \in SUBSET Buf /\ \A x \in S : MayTake(x)
          /\ buf' = HandedOver(S, "call")
          /\ \/ /\ AdmitsOperation(usage) /\ usage' = ChargeOperation(usage)
                /\ call' = [call EXCEPT ![c] = f]
             \/ usage' = usage /\ call' = [call EXCEPT ![c] = g]
        BY <1>7 DEF StepIntoAsync, HandedOver, Types
    <2>2. src # rhs /\ src # out /\ rhs # out
        BY <1>7 DEF StepIntoAsync
    <2>3. <<"unadmit", NoBuf>> \notin Els(q)
        BY <2>2, ThreeBuffers
    <2> HIDE DEF q
    <2>4. f.pc = "unpolled" /\ g.pc = "dropping" /\ g.drops = q
        BY IdleFields DEF Frame
    <2> HIDE DEF S, f, g
    <2> QED BY <1>5, <2>1, <2>3, <2>4
<1>8. ASSUME NEW b \in Buf, DropBuffer(c, b) PROVE LedgerStep
    <2> DEFINE S == {b}
               f == [Idle EXCEPT !.op = "drop", !.src = b, !.pc = "dropping",
                                 !.drops = DropOf(b)]
    <2>1. /\ call[c].pc = "idle" /\ S \in SUBSET Buf /\ \A x \in S : MayTake(x)
          /\ buf' = HandedOver(S, "call")
          /\ usage' = usage /\ call' = [call EXCEPT ![c] = f]
        BY <1>8 DEF DropBuffer, HandedOver, Types
    <2>2. f.pc = "dropping" /\ f.drops = DropOf(b)
        BY IdleFields DEF Frame
    <2>3. <<"unadmit", NoBuf>> \notin Els(DropOf(b))
        BY DropOfList
    <2> HIDE DEF S, f
    <2> QED BY <1>5, <2>1, <2>2, <2>3
<1> QED BY <1>2, <1>3, <1>4, <1>6, <1>7, <1>8 DEF Start, StartOn, Steps

LEMMA ForgetBufferLedger ==
    ASSUME Types, Ownership, NEW b \in Buf, ForgetBuffer(b)
    PROVE  LedgerStep
<1> DEFINE S == {b}
<1>1. /\ MayTake(b) /\ buf \in [Buf -> Buffer] /\ call' = call /\ usage' = usage
      /\ buf' = HandedOver(S, "leaked") /\ \A x \in Buf : x \in S <=> x = b
    BY DEF ForgetBuffer, HandedOver, Types
<1> HIDE DEF S
<1>2. /\ \A x \in Buf : x # b => buf'[x] = buf[x]
      /\ buf'[b].owner = "leaked" /\ buf'[b].shape = buf[b].shape
      /\ buf'[b].kind = buf[b].kind /\ buf'[b].home = buf[b].home
      /\ buf'[b].charged = buf[b].charged
    BY <1>1, Handed
<1>3. buf[b].owner = "user" /\ buf[b].charged
    BY <1>1 DEF MayTake, Ownership, BufInv, BufferInv
<1>4. CASE buf[b].home = "own"
    <2> DEFINE gs == {b}
    <2>1. gs \in SUBSET (Buf \cup Caller) /\ \A g \in Buf \cup Caller : g \in gs <=> g = b
        OBVIOUS
    <2> HIDE DEF gs
    <2>2. /\ BufferGuard(buf[b]).state = "held"
          /\ BufferGuard(buf'[b]) = [BufferGuard(buf[b]) EXCEPT !.state = "forgotten"]
        BY <1>2, <1>3, <1>4, GuardLeaks
    <2>3. \A g \in gs : Ledger[g].state = "held"
        BY <2>1, <2>2, LedgerOf
    <2>4. \A g \in Buf \cup Caller : Ledger'[g] =
              IF g \in gs THEN [Ledger[g] EXCEPT !.state = "forgotten"] ELSE Ledger[g]
        BY <1>1, <1>2, <2>1, <2>2, LedgerOf
    <2>5. Retains(gs)
        <3>1. Ledger' = [g \in Buf \cup Caller |-> Ledger'[g]]
            BY LedgerOf
        <3> QED BY <1>1, <2>3, <2>4, <3>1 DEF Retains
    <2> QED BY <2>1, <2>5 DEF LedgerStep
<1>5. CASE buf[b].home # "own"
    <2>1. \A x \in Buf : BufferGuard(buf'[x]) = BufferGuard(buf[x])
        BY <1>2, <1>5 DEF BufferGuard
    <2> QED BY <1>1, <2>1, LedgerSame DEF LedgerStep
<1> QED BY <1>4, <1>5

LEMMA ForeignBufferLedger ==
    ASSUME Types, Ownership, NEW b \in Buf, NEW kind \in {"halo", "field"},
           NEW shape \in Shape, ForeignBuffer(b, kind, shape)
    PROVE  LedgerStep
<1> DEFINE field == [NoBuffer EXCEPT !.owner = "user", !.kind = kind, !.shape = shape,
                          !.home = "other", !.charged = TRUE, !.stored = TRUE]
<1>1. /\ buf[b].owner = "none" /\ buf' = [buf EXCEPT ![b] = field]
      /\ call' = call /\ usage' = usage /\ buf \in [Buf -> Buffer]
    BY DEF ForeignBuffer, Types
<1>2. ~buf[b].charged
    BY <1>1 DEF Ownership, BufInv, BufferInv
<1>3. field.home = "other"
    BY DEF NoBuffer
<1> HIDE DEF field
<1>4. \A x \in Buf : BufferGuard(buf'[x]) = BufferGuard(buf[x])
    <2>1. BufferGuard(field) = None /\ BufferGuard(buf[b]) = None
        BY <1>2, <1>3 DEF BufferGuard
    <2> QED BY <1>1, <2>1
<1> QED BY <1>1, <1>4, LedgerSame DEF LedgerStep

LEMMA DeviceLedger ==
    ASSUME Types, Ownership, Device \/ DeviceFault \/ UNCHANGED vars
                             \/ \E c \in Caller : FailStop(c)
    PROVE  LedgerStep
<1>1. CASE DeviceFault \/ UNCHANGED vars \/ \E c \in Caller : FailStop(c)
    <2>1. UNCHANGED <<usage, buf, call>>
        BY <1>1 DEF DeviceFault, vars, FailStop
    <2> QED BY <2>1, LedgerSame DEF LedgerStep
<1>2. CASE Device
    <2>1. /\ usage' = usage
          /\ \/ buf' = SetContent(Head(stream).writes, "torn")
             \/ buf' = SetContent(Head(stream).writes, "whole")
        BY <1>2 DEF Device, DeviceBegin, DeviceFinish
    <2>2. \A b \in Buf : BufferGuard(buf'[b]) = BufferGuard(buf[b])
        <3> SUFFICES ASSUME NEW b \in Buf PROVE SameCharge(buf[b], buf'[b])
            BY ChargeKept
        <3>1. buf[b] \in Buffer
            BY DEF Types
        <3>2. \/ buf'[b] = [buf[b] EXCEPT !.content = "torn"]
              \/ buf'[b] = [buf[b] EXCEPT !.content = "whole"]
              \/ buf'[b] = buf[b]
            BY <2>1 DEF SetContent
        <3> QED BY <3>1, <3>2 DEF SameCharge, Buffer
    <2>3. \A c \in Caller : CallGuard(call'[c]) = CallGuard(call[c])
        <3> SUFFICES ASSUME NEW c \in Caller PROVE CallGuard(call'[c]) = CallGuard(call[c])
            OBVIOUS
        <3>1. call[c] \in Frame
            BY DEF Types
        <3>2. call'[c].pc = call[c].pc /\ call'[c].drops = call[c].drops
            BY <1>2, <3>1 DEF Device, DeviceBegin, DeviceFinish, Frame
        <3> QED BY <3>2 DEF CallGuard, Admits
    <2> QED BY <2>1, <2>2, <2>3, LedgerSame DEF LedgerStep
<1> QED BY <1>1, <1>2

LEMMA NextLedger ==
    ASSUME Types, Ownership, [Next]_vars
    PROVE  LedgerStep
<1>1. ASSUME NEW c \in Caller, Proceed(c) \/ FuturePolled(c) PROVE LedgerStep
    <2>1. CASE AdmitUpload(c) \/ AdmitStep(c)
        BY <2>1, AdmitLedger
    <2>2. CASE BindFails(c)
        BY <2>2, BindFailsLedger
    <2>3. CASE Poll(c)
        BY <2>3, ExecuteLedger DEF Poll
    <2>4. CASE Complete(c)
        BY <2>4, CompleteLedger
    <2>5. CASE Drained(c)
        BY <2>5, FutureLeavesLedger
    <2>6. CASE FailStop(c)
        BY <2>6, DeviceLedger
    <2>7. CASE DropNext(c)
        BY <2>7, DropNextLedger
    <2>8. CASE Return(c)
        BY <2>8, ReturnLedger
    <2> QED BY <1>1, <2>1, <2>2, <2>3, <2>4, <2>5, <2>6, <2>7, <2>8
            DEF Proceed, FuturePolled
<1>2. CASE Environment
    <2>1. CASE \E c \in Caller : DropFuture(c) \/ ForgetFuture(c)
        <3> SUFFICES ASSUME NEW c \in Caller, DropFuture(c) \/ ForgetFuture(c)
                     PROVE  LedgerStep
            BY <2>1
        <3>1. DropFuture(c) => call[c].pc \in {"unpolled", "pending"}
            BY DEF DropFuture
        <3> QED BY <3>1, FutureLeavesLedger, DrainLedger, ForgetFutureLedger
    <2>2. CASE \E b \in Buf : ForgetBuffer(b)
        BY <2>2, ForgetBufferLedger
    <2>3. CASE \E b \in Buf, kind \in {"halo", "field"}, shape \in Shape :
                   ForeignBuffer(b, kind, shape)
        BY <2>3, ForeignBufferLedger
    <2> QED BY <1>2, <2>1, <2>2, <2>3 DEF Environment
<1>3. ASSUME NEW c \in Caller, Start(c) PROVE LedgerStep
    BY <1>3, StartLedger
<1>4. CASE Device \/ DeviceFault \/ UNCHANGED vars
    BY <1>4, DeviceLedger
<1> QED BY <1>1, <1>2, <1>3, <1>4 DEF Next

-----------------------------------------------------------------------------
(* The operations charged are those admitted.                              *)
LEMMA UnadmitInDrops ==
    ASSUME NEW f, FrameOK(f)
    PROVE  (\E i \in 1..Len(f.drops) : f.drops[i][1] = "unadmit")
               <=> <<"unadmit", NoBuf>> \in Els(f.drops)
<1>1. f.drops \in Seq(Destructor)
    BY DEF FrameOK, Tidy
<1>2. /\ DOMAIN f.drops = 1..Len(f.drops)
      /\ \A i \in 1..Len(f.drops) : f.drops[i] \in Destructor
    BY <1>1
<1>3. \A x \in Destructor : x[1] = "unadmit" <=> x = <<"unadmit", NoBuf>>
    BY DEF Destructor
<1> QED BY <1>2, <1>3 DEF Els

LEMMA AdmittedIsLedger ==
    ASSUME CallsInv
    PROVE  \A c \in Caller : Admitted(c) <=> Ledger[c].state # "absent"
<1> SUFFICES ASSUME NEW c \in Caller PROVE Admitted(c) <=> CallGuard(call[c]).state # "absent"
    BY LedgerOf
<1>1. Admitted(c) <=> Admits(call[c])
    BY UnadmitInDrops DEF CallsInv, FrameInv, Admitted, Admits
<1> QED BY <1>1 DEF CallGuard, Admits

LEMMA AdmittedNext ==
    ASSUME CallsInv'
    PROVE  \A c \in Caller : Admitted(c)' <=> Ledger'[c].state # "absent"
<1> SUFFICES ASSUME NEW c \in Caller PROVE Admitted(c)' <=> CallGuard(call'[c]).state # "absent"
    BY LedgerOf
<1>1. FrameOK(call'[c])
    BY DEF CallsInv, FrameInv
<1>2. Admitted(c)' <=> Admits(call'[c])
    BY <1>1, UnadmitInDrops DEF Admitted, Admits
<1> QED BY <1>2 DEF CallGuard, Admits

LEMMA WrapsBack ==
    ASSUME NEW n \in Int
    PROVE  /\ n % (MaxUsize + 1) \in Usize
           /\ n \in Usize => n % (MaxUsize + 1) = n
BY LimitsAssumption DEF Usize

LEMMA UsageKept ==
    ASSUME Types, Ownership, UsageInv, CallsInv', LedgerStep
    PROVE  UsageInv'
<1> DEFINE A == Admissions
           B == {c \in Caller : Ledger'[c].state # "absent"}
<1>1. A = {c \in Caller : Ledger[c].state # "absent"}
    BY AdmittedIsLedger DEF Ownership, Admissions
<1>2. Admissions' = B
    BY AdmittedNext DEF Admissions
<1>3. /\ usage \in Usage /\ IsFiniteSet(A) /\ usage.operations = Cardinality(A)
      /\ usage.operations <= Operations /\ usage.operations \in Usize
      /\ usage.bytes \in Usize /\ usage.buffers \in Usize
    BY DEF UsageInv, Usage
<1>4. ASSUME usage' \in Usage, usage'.operations = usage.operations, B = A
      PROVE  UsageInv'
    BY <1>2, <1>3, <1>4 DEF UsageInv
<1> HIDE DEF A
<1>5. CASE UNCHANGED <<usage, Ledger>>
    BY <1>1, <1>3, <1>4, <1>5
<1>6. ASSUME NEW b \in Buf, NEW bytes \in Sizes, Reserves(b, bytes) PROVE UsageInv'
    <2>1. bytes \in Usize
        BY SessionAssumption DEF Sizes
    <2>2. usage' = [usage EXCEPT !.bytes = usage.bytes + bytes, !.buffers = usage.buffers + 1]
        BY <1>6 DEF Reserves, ChargeBuffer
    <2>3. usage.bytes + bytes \in Usize /\ usage.buffers + 1 \in Usize
        BY <1>3, <1>6, <2>1, LimitsAssumption DEF Reserves, AdmitsBuffer, Usize
    <2>4. usage' \in Usage /\ usage'.operations = usage.operations
        BY <1>3, <2>2, <2>3 DEF Usage
    <2>5. \A c \in Caller : Ledger'[c] = Ledger[c]
        BY <1>6, LedgerOf, SessionAssumption DEF Reserves
    <2> QED BY <1>1, <1>4, <2>4, <2>5
<1>7. ASSUME NEW c \in Caller, Operates(c) PROVE UsageInv'
    <2>1. usage' = [usage EXCEPT !.operations = usage.operations + 1]
        BY <1>7 DEF Operates, ChargeOperation
    <2>2. /\ usage.operations < Operations /\ usage.operations + 1 \in Usize
        BY <1>3, <1>7, LimitsAssumption DEF Operates, AdmitsOperation, Usize
    <2>3. usage' \in Usage /\ usage'.operations = usage.operations + 1
        BY <1>3, <2>1, <2>2 DEF Usage
    <2>4. B = A \cup {c} /\ c \notin A
        <3>1. Ledger[c].state = "absent" /\ Ledger' = [Ledger EXCEPT ![c] = Held(FALSE, 0)]
            BY <1>7 DEF Operates
        <3>2. \A d \in Caller : Ledger'[d] = IF d = c THEN Held(FALSE, 0) ELSE Ledger[d]
            BY <3>1, LedgerOf
        <3> QED BY <1>1, <3>1, <3>2 DEF Held
    <2> HIDE DEF B
    <2>5. IsFiniteSet(B) /\ Cardinality(B) = Cardinality(A) + 1
        <3>1. IsFiniteSet(A)
            BY <1>3
        <3> QED BY <3>1, <2>4, FS_AddElement
    <2>6. usage'.operations <= Operations
        BY <1>3, <2>2, <2>3, LimitsAssumption DEF Usize
    <2> QED BY <1>2, <1>3, <2>3, <2>5, <2>6 DEF UsageInv
<1>8. ASSUME NEW b \in Buf, Uncharges(b) PROVE UsageInv'
    <2> DEFINE m == (usage.bytes - Ledger[b].bytes) % (MaxUsize + 1)
               n == (usage.buffers - 1) % (MaxUsize + 1)
    <2>1. usage' = [usage EXCEPT !.bytes = m, !.buffers = n]
        BY <1>8 DEF Uncharges, ReleaseBuffer
    <2>2. Ledger[b].bytes \in Int
        <3>1. buf[b].kind \in {"halo", "field"} /\ buf[b].shape \in Shape
            BY DEF Types, Buffer
        <3>2. Bytes(buf[b].kind, buf[b].shape) \in Int
            BY <3>1, SessionAssumption, LimitsAssumption DEF Bytes, Usize
        <3> QED BY <3>2, LedgerOf DEF BufferGuard, None
    <2>3. m \in Usize /\ n \in Usize
        <3>1. usage.bytes - Ledger[b].bytes \in Int /\ usage.buffers - 1 \in Int
            BY <1>3, <2>2, LimitsAssumption DEF Usize
        <3> QED BY <3>1, WrapsBack
    <2> HIDE DEF m, n
    <2>4. usage' \in Usage /\ usage'.operations = usage.operations
        BY <1>3, <2>1, <2>3 DEF Usage
    <2>5. \A c \in Caller : Ledger'[c] = Ledger[c]
        BY <1>8, LedgerOf, SessionAssumption DEF Uncharges
    <2> QED BY <1>1, <1>4, <2>4, <2>5
<1>9. ASSUME NEW c \in Caller, Unadmits(c) PROVE UsageInv'
    <2>1. B = A \ {c} /\ c \in A
        <3>1. Ledger[c].state = "held" /\ Ledger' = [Ledger EXCEPT ![c] = None]
            BY <1>9 DEF Unadmits
        <3>2. \A d \in Caller : Ledger'[d] = IF d = c THEN None ELSE Ledger[d]
            BY <3>1, LedgerOf
        <3> QED BY <1>1, <3>1, <3>2 DEF None
    <2> HIDE DEF B
    <2>2. IsFiniteSet(B) /\ Cardinality(B) = Cardinality(A) - 1
        <3>1. IsFiniteSet(A)
            BY <1>3
        <3> QED BY <3>1, <2>1, FS_RemoveElement
    <2>3. Cardinality(B) \in Nat
        BY <2>2, FS_CardinalityType
    <2>4. usage.operations - 1 \in Usize /\ usage.operations - 1 <= Operations
        BY <1>3, <2>2, <2>3, LimitsAssumption DEF Usize
    <2>5. (usage.operations - 1) % (MaxUsize + 1) = usage.operations - 1
        BY <1>3, <2>4, WrapsBack, LimitsAssumption DEF Usize
    <2>6. usage' = [usage EXCEPT !.operations = usage.operations - 1]
        BY <1>9, <2>5 DEF Unadmits, ReleaseOperation
    <2>7. usage' \in Usage /\ usage'.operations = usage.operations - 1
        BY <1>3, <2>4, <2>6 DEF Usage
    <2> QED BY <1>2, <1>3, <2>2, <2>4, <2>7 DEF UsageInv
<1>10. ASSUME NEW gs \in SUBSET (Buf \cup Caller), Retains(gs) PROVE UsageInv'
    <2>1. usage' = usage
        BY <1>10 DEF Retains
    <2>2. \A c \in Caller : (Ledger'[c].state # "absent") <=> (Ledger[c].state # "absent")
        <3> SUFFICES ASSUME NEW c \in Caller
                     PROVE  (Ledger'[c].state # "absent") <=> (Ledger[c].state # "absent")
            OBVIOUS
        <3>1. CASE c \in gs
            <4>1. Ledger[c].state = "held"
                  /\ Ledger'[c] = [Ledger[c] EXCEPT !.state = "forgotten"]
                BY <1>10, <3>1 DEF Retains
            <4>2. Ledger[c] = CallGuard(call[c])
                BY LedgerOf
            <4>3. DOMAIN Ledger[c] = {"state", "buffer", "bytes"}
                BY <4>2 DEF CallGuard
            <4> QED BY <4>1, <4>3
        <3>2. CASE c \notin gs
            BY <1>10, <3>2 DEF Retains
        <3> QED BY <3>1, <3>2
    <2> QED BY <1>1, <1>3, <1>4, <2>1, <2>2
<1> QED BY <1>5, <1>6, <1>7, <1>8, <1>9, <1>10 DEF LedgerStep

LEMMA InitUsage == Init => UsageInv
<1> SUFFICES ASSUME Init PROVE UsageInv
    OBVIOUS
<1>1. \A c \in Caller : ~Admitted(c)
    BY IdleFields DEF Init, Admitted
<1>2. Admissions = {}
    BY <1>1 DEF Admissions
<1>3. NoUsage \in Usage /\ NoUsage.operations = 0 /\ 0 <= Operations
    BY LimitsAssumption DEF NoUsage, Usage, Usize
<1> QED BY <1>2, <1>3, FS_EmptySet DEF UsageInv, Init

-----------------------------------------------------------------------------
LEMMA InitIInv == Init => IInv
BY InitOwnership, InitUsage DEF IInv

LEMMA NextIInv == IInv /\ [Next]_vars => IInv'
<1> SUFFICES ASSUME IInv, [Next]_vars PROVE IInv'
    OBVIOUS
<1>1. Types /\ Ownership /\ UsageInv
    BY DEF IInv
<1>2. Types' /\ Ownership'
    BY <1>1, OwnershipInductive
<1>3. CallsInv'
    BY <1>2 DEF Ownership
<1>4. UsageInv'
    BY <1>1, <1>3, NextLedger, UsageKept
<1> QED BY <1>2, <1>4 DEF IInv

(* The invariant of every execution of the session.                        *)
THEOREM SessionInvariant == Spec => []IInv
BY InitIInv, NextIInv, PTL DEF Spec

-----------------------------------------------------------------------------
(* Every part of the state keeps its type: Usage stays within usize,       *)
(* buffers and frames within the values the Rust types admit.              *)
THEOREM SessionTypes == Spec => []TypeOK
<1>1. IInv => TypeOK
    BY DEF IInv, Types, UsageInv, TypeOK, WorkItem
<1> QED BY <1>1, SessionInvariant, PTL

(* Storage that submitted work touches is not freed, whichever way a call  *)
(* ends: `sync_on` and the drain of a dropped future come before the drop. *)
THEOREM SessionNoUseAfterFree == Spec => []NoUseAfterFree
<1>1. IInv => NoUseAfterFree
    BY DEF IInv, Ownership, BufInv, BufferInv, NoUseAfterFree
<1> QED BY <1>1, SessionInvariant, PTL

LEMMA Submitted ==
    ASSUME Types, NEW i \in DOMAIN stream
    PROVE  /\ stream[i] \in WorkItem /\ stream[i].by \in Caller
           /\ Touches(stream[i]) \subseteq Buf
<1>1. stream[i] \in WorkItem
    BY DEF Types
<1> QED BY <1>1 DEF WorkItem, Touches

(* What work writes, its caller owns or has borrowed mutably.              *)
LEMMA WritesAlone ==
    ASSUME Types, Ownership, NEW i \in DOMAIN stream, NEW b \in stream[i].writes
    PROVE  LET c == stream[i].by IN
           \/ b \in Keep(call[c])
           \/ b \in Borrow(call[c]) /\ Lends(call[c]) /\ b = call[c].out
<1>1. b \in Touches(stream[i]) /\ b \in Buf
    BY Submitted DEF Touches
<1> DEFINE c == stream[i].by
           f == call[c]
<1>2. c \in Caller /\ f.pc \in Active /\ stream[i] = Work(c)
    BY <1>1, WorkHeld
<1>3. f \in Frame /\ FrameOK(f)
    BY <1>2 DEF Types, Ownership, CallsInv, FrameInv
<1>4. b = f.out
    BY <1>2 DEF Work
<1>5. Live(f)
    BY <1>2 DEF Live, Active
<1>6. f.op \in Uploads \cup Steps \cup {"async"}
    BY <1>1, <1>2, <1>3, <1>4, SessionAssumption DEF FrameOK, Frame, Active, Uploads, Steps
<1> HIDE DEF f, c
<1>7. b \in Owned(f) \/ (Lends(f) /\ b \in Borrow(f))
    BY <1>1, <1>4, <1>6 DEF Owned, Lends, Borrow
<1> QED BY <1>4, <1>5, <1>7 DEF Keep, c, f

(* Two items of the stream never conflict, because `&mut` and owned        *)
(* outputs stay with one call until its work is done.                      *)
THEOREM SessionNoConflict == Spec => []NoConflict
<1>1. ASSUME IInv PROVE NoConflict
    <2>1. Types /\ Ownership /\ CallsInv /\ Apart /\ StreamInv
        BY <1>1 DEF IInv, Ownership
    <2>2. DOMAIN stream = 1..Len(stream)
        BY <2>1 DEF Types
    <2> SUFFICES ASSUME NEW i \in DOMAIN stream, NEW j \in DOMAIN stream, i # j,
                        NEW b \in stream[i].writes, b \in Touches(stream[j])
                 PROVE  FALSE
        BY <2>2 DEF NoConflict
    <2> DEFINE c == stream[i].by
               d == stream[j].by
    <2>3. c # d
        BY <2>1 DEF StreamInv
    <2>4. b \in Buf /\ b \in Touches(stream[i])
        BY <2>1, Submitted DEF Touches
    <2>5. c \in Caller /\ d \in Caller /\ b \in Hold(call[d])
        BY <2>1, <2>4, WorkHeld
    <2>6. \/ b \in Keep(call[c])
          \/ b \in Borrow(call[c]) /\ Lends(call[c]) /\ b = call[c].out
        BY <2>1, WritesAlone
    <2> HIDE DEF c, d
    <2> QED BY <2>1, <2>3, <2>4, <2>5, <2>6, HeldByOne
<1> QED BY <1>1, SessionInvariant, PTL

(* A buffer the session would accept as ready holds the whole result of    *)
(* the last operation on it, and into_host never copies a torn field.      *)
THEOREM SessionReadyIsWhole == Spec => []ReadyIsWhole
<1>1. ASSUME IInv PROVE ReadyIsWhole
    <2>1. Types /\ Ownership /\ CallsInv /\ StreamInv /\ BufInv
        BY <1>1 DEF IInv, Ownership
    <2>2. \A b \in Buf : buf[b].content \in {"whole", "torn"}
        BY <2>1 DEF Types, Buffer
    <2>3. running => 1 \in DOMAIN stream /\ Head(stream) = stream[1]
        BY <2>1 DEF Types, StreamInv
    <2>4. \A b \in Buf : Writing(b) => running /\ b \in stream[1].writes
        BY <2>3 DEF Writing
    <2>5. ASSUME NEW b \in Buf, MayTake(b), ~buf[b].uncertain
          PROVE  buf[b].content = "whole"
        <3> SUFFICES ASSUME Writing(b) PROVE FALSE
            BY <2>1, <2>2, <2>5 DEF BufInv, BufferInv
        <3>1. 1 \in DOMAIN stream /\ b \in Touches(stream[1])
            BY <2>3, <2>4 DEF Touches
        <3>2. stream[1].by \in Caller /\ b \in FrameArgs(call[stream[1].by])
            BY <2>1, <3>1, WorkHeld
        <3> QED BY <2>1, <2>5, <3>2, TakenUnheld
    <2>6. ASSUME running, call[Head(stream).by].op = "into_host",
                 NEW b \in Head(stream).reads
          PROVE  buf[b].content = "whole"
        <3> DEFINE d == stream[1].by
        <3>1. 1 \in DOMAIN stream /\ b \in Touches(stream[1]) /\ b \in Buf
            BY <2>1, <2>3, <2>6, Submitted DEF Touches
        <3>2. d \in Caller /\ call[d].pc \in Active /\ stream[1] = Work(d)
            BY <2>1, <3>1, WorkHeld
        <3>3. call[d].op = "into_host" /\ b \in stream[1].reads
            BY <2>3, <2>6
        <3>4. FrameInv(call[d], buf) /\ Live(call[d])
            BY <2>1, <3>2 DEF CallsInv, Live, Active
        <3> HIDE DEF d
        <3>5. b = call[d].src /\ stream[1].writes = {}
            BY <3>2, <3>3, <3>4 DEF Work, Uploads, FrameInv, FrameOK
        <3>6. ~buf[b].uncertain
            BY <3>3, <3>4, <3>5 DEF FrameInv, LiveInv
        <3>7. ~Writing(b)
            BY <2>4, <3>1, <3>5
        <3> QED BY <2>1, <2>2, <3>1, <3>6, <3>7 DEF BufInv, BufferInv
    <2> QED BY <2>5, <2>6 DEF ReadyIsWhole
<1> QED BY <1>1, SessionInvariant, PTL

(* Work only touches buffers of this session and of one shape until the    *)
(* device is done with it, as validate_fields found when it was checked.   *)
THEOREM SessionArguments == Spec => []ArgumentsOfOneSession
<1>1. ASSUME IInv PROVE ArgumentsOfOneSession
    <2>1. Types /\ Ownership /\ CallsInv
        BY <1>1 DEF IInv, Ownership
    <2>2. DOMAIN stream = 1..Len(stream)
        BY <2>1 DEF Types
    <2> SUFFICES ASSUME NEW i \in DOMAIN stream,
                        NEW b \in Touches(stream[i]), NEW x \in Touches(stream[i])
                 PROVE  buf[b].home = "own" /\ buf[b].shape = buf[x].shape
        BY <2>2 DEF ArgumentsOfOneSession
    <2> DEFINE d == stream[i].by
    <2>3. b \in Buf /\ x \in Buf
        BY <2>1, Submitted DEF Touches
    <2>4. /\ d \in Caller /\ call[d].pc \in Active
          /\ b \in FrameArgs(call[d]) /\ x \in FrameArgs(call[d])
        BY <2>1, <2>3, WorkHeld
    <2>5. FrameInv(call[d], buf) /\ Live(call[d])
        BY <2>1, <2>4 DEF CallsInv, Live, Active
    <2> HIDE DEF d
    <2> QED BY <2>4, <2>5 DEF FrameInv, LiveInv
<1> QED BY <1>1, SessionInvariant, PTL

(* The charge of storage is released first only by an into_host whose bind *)
(* failed; everywhere else the storage goes before its Reservation.        *)
THEOREM SessionCharges == Spec => []ChargeOutlivesStorageElsewhere
<1>1. IInv => ChargeOutlivesStorageElsewhere
    BY DEF IInv, Ownership, BufInv, BufferInv, GoesLate, ChargeOutlivesStorageElsewhere
<1> QED BY <1>1, SessionInvariant, PTL

(* The work in flight never exceeds the operations still charged, and      *)
(* these never exceed ResourceLimits.operations: each item is that of a    *)
(* caller, or a forgotten future, that still holds its reservation.        *)
THEOREM SessionStream == Spec => []StreamWithinAdmission
<1>1. ASSUME IInv PROVE StreamWithinAdmission
    <2>1. Types /\ Ownership /\ StreamInv
        BY <1>1 DEF IInv, Ownership
    <2>2. /\ IsFiniteSet(Admissions) /\ usage.operations = Cardinality(Admissions)
          /\ usage.operations <= Operations
        BY <1>1 DEF IInv, UsageInv
    <2> DEFINE n == Len(stream)
               who == [i \in 1..n |-> stream[i].by]
    <2>3. n \in Nat /\ DOMAIN stream = 1..n
        BY <2>1 DEF Types
    <2>4. \A i \in 1..n : stream[i].by \in Admissions
        <3> SUFFICES ASSUME NEW i \in DOMAIN stream PROVE stream[i].by \in Admissions
            BY <2>3
        <3>1. stream[i].by \in Caller /\ OnStream(stream[i].by)
            BY <2>1, Submitted DEF StreamInv
        <3> QED BY <3>1 DEF OnStream, Active, Admissions, Admitted
    <2>5. \A i, j \in 1..n : stream[i].by = stream[j].by => i = j
        BY <2>1, <2>3 DEF StreamInv
    <2> HIDE DEF n
    <2>6. who \in Injection(1..n, Admissions)
        BY <2>4, <2>5 DEF Injection, IsInjective
    <2>7. Cardinality(1..n) <= Cardinality(Admissions)
        BY <2>2, <2>6, FS_Injection
    <2>8. Cardinality(1..n) = n
        <3>1. Cardinality(1..n) = IF 1 > n THEN 0 ELSE n - 1 + 1
            BY <2>3, FS_Interval
        <3> QED BY <2>3, <3>1
    <2>9. n <= usage.operations
        BY <2>2, <2>7, <2>8
    <2> QED BY <2>2, <2>9 DEF n, StreamWithinAdmission
<1> QED BY <1>1, SessionInvariant, PTL

-----------------------------------------------------------------------------
(* A step keeps the mark of b, a buffer no frame holds, if the buffer      *)
(* survives, and hands b to no call that goes on.                          *)
MarkKept(b) ==
    /\ buf'[b].owner # "none" => buf'[b].uncertain
    /\ \A c \in Caller : b \in Args(c)' => call'[c].pc = "dropping"

LEMMA MarkSpared ==
    ASSUME NEW b \in Buf, buf[b].uncertain,
           buf'[b].uncertain = buf[b].uncertain,
           \A c \in Caller : b \notin FrameArgs(call[c]),
           \A c \in Caller : \/ FrameArgs(call'[c]) \subseteq FrameArgs(call[c])
                             \/ b \notin FrameArgs(call'[c])
                             \/ call'[c].pc = "dropping"
    PROVE  MarkKept(b)
BY DEF MarkKept, Args, FrameArgs

LEMMA InvalidStep ==
    ASSUME IInv, Next, NEW b \in Buf, buf[b].uncertain, MayTake(b)
    PROVE  MarkKept(b)
<1>1. Types /\ Ownership /\ CallsInv
    BY DEF IInv, Ownership
<1>2. \A c \in Caller : b \notin Hold(call[c]) /\ b \notin FrameArgs(call[c])
    BY <1>1, TakenUnheld
<1>3. buf[b].owner = "user" /\ b # NoBuf
    BY SessionAssumption DEF MayTake
<1>4. /\ call \in [Caller -> Frame] /\ buf \in [Buf -> Buffer]
      /\ \A c \in Caller : FrameOK(call[c])
    BY <1>1 DEF Types, CallsInv, FrameInv
<1>5. ASSUME buf'[b].uncertain = buf[b].uncertain,
             \A c \in Caller : \/ call'[c] = call[c]
                               \/ FrameArgs(call'[c]) \subseteq FrameArgs(call[c])
                               \/ b \notin FrameArgs(call'[c])
                               \/ call'[c].pc = "dropping"
      PROVE  MarkKept(b)
    <2>1. \A c \in Caller : \/ FrameArgs(call'[c]) \subseteq FrameArgs(call[c])
                            \/ b \notin FrameArgs(call'[c])
                            \/ call'[c].pc = "dropping"
        BY <1>5
    <2> QED BY <1>2, <1>5, <2>1, MarkSpared, Zenon
<1>6. ASSUME NEW c \in Caller, NEW x \in Buf, NEW kind, NEW shape, NEW f,
             Reserve(c, x, kind, shape, f), b # f.src, b # f.rhs, f \in Frame
      PROVE  MarkKept(b)
    <2>1. x # b
        BY <1>3, <1>6 DEF Reserve
    <2>2. buf'[b] = buf[b]
        BY <1>4, <1>6, <2>1 DEF Reserve
    <2>3. call' = [call EXCEPT ![c] = [f EXCEPT !.pc = "reserved", !.out = x]]
        BY <1>6 DEF Reserve
    <2>4. b \notin FrameArgs(call'[c])
        BY <1>4, <1>6, <2>1, <2>3 DEF FrameArgs, Frame
    <2>5. \A d \in Caller : d # c => call'[d] = call[d]
        BY <1>4, <2>3
    <2> QED BY <1>5, <2>2, <2>4, <2>5
<1>7. ASSUME NEW c \in Caller, NEW f, call' = [call EXCEPT ![c] = f],
             buf'[b].uncertain = buf[b].uncertain,
             \/ FrameArgs(f) \subseteq FrameArgs(call[c])
             \/ b \notin FrameArgs(f)
             \/ f.pc = "dropping"
      PROVE  MarkKept(b)
    <2>1. call'[c] = f /\ \A d \in Caller : d # c => call'[d] = call[d]
        BY <1>4, <1>7
    <2> QED BY <1>5, <1>7, <2>1
<1>13. ASSUME NEW S, NEW o, buf' = [y \in Buf |-> IF y \in S
                                THEN [buf[y] EXCEPT !.owner = o] ELSE buf[y]]
       PROVE  buf'[b].uncertain = buf[b].uncertain
    <2>1. buf[b] \in Buffer
        BY <1>4
    <2> QED BY <1>13, <2>1 DEF Buffer
<1>14. ASSUME NEW x, NEW o, buf' = [buf EXCEPT ![x].owner = o]
       PROVE  buf'[b].uncertain = buf[b].uncertain
    <2>1. buf[b] \in Buffer /\ buf'[b] \in {buf[b], [buf[b] EXCEPT !.owner = o]}
        BY <1>4, <1>14
    <2> QED BY <2>1 DEF Buffer
<1>8. ASSUME NEW c \in Caller, Start(c) PROVE MarkKept(b)
    <2>1. ASSUME NEW kind \in {"halo", "field"},
                 \E x \in Buf, shape \in Shape : Upload(c, x, kind, shape)
          PROVE  MarkKept(b)
        <3> SUFFICES ASSUME NEW x \in Buf, NEW shape \in Shape, Upload(c, x, kind, shape)
                     PROVE  MarkKept(b)
            BY <2>1
        <3> DEFINE f == [Idle EXCEPT !.op = "upload"]
        <3>1. f \in Frame /\ b # f.src /\ b # f.rhs
            BY <1>3, IdleFields DEF Frame
        <3>2. Reserve(c, x, kind, shape, f)
            BY DEF Upload
        <3> HIDE DEF f
        <3> QED BY <1>6, <3>1, <3>2
    <2>2. CASE \E src, rhs, out \in Buf : Step(c, src, rhs, out)
        <3> SUFFICES ASSUME NEW src \in Buf, NEW rhs \in Buf, NEW out \in Buf,
                            Step(c, src, rhs, out)
                     PROVE  MarkKept(b)
            BY <2>2
        <3> DEFINE f == [Idle EXCEPT !.op = "step", !.src = src, !.rhs = rhs]
        <3>1. f \in Frame /\ src = f.src /\ rhs = f.rhs
            BY IdleFields DEF Frame
        <3>2. b # src /\ b # rhs
            BY SessionAssumption DEF Step, Valid
        <3>3. Reserve(c, out, "field", buf[src].shape, f)
            BY DEF Step
        <3> HIDE DEF f
        <3> QED BY <1>6, <3>1, <3>2, <3>3
    <2>3. ASSUME NEW op, NEW src \in Buf, NEW rhs \in Buf \cup {NoBuf}, NEW out \in Buf,
                 StepInto(c, op, src, rhs, out)
          PROVE  MarkKept(b)
        <3> DEFINE f == [Idle EXCEPT !.op = op, !.pc = "checked",
                             !.src = src, !.rhs = rhs, !.out = out]
        <3>1. src = f.src /\ rhs = f.rhs /\ out = f.out
            BY IdleFields
        <3>2. b # src /\ b # rhs /\ b # out
            BY <1>3, <2>3, SessionAssumption DEF StepInto, Valid
        <3>3. call' = [call EXCEPT ![c] = f] /\ buf' = buf
            BY <2>3 DEF StepInto
        <3> HIDE DEF f
        <3>4. b \notin FrameArgs(f)
            BY <3>1, <3>2 DEF FrameArgs
        <3> QED BY <1>7, <3>3, <3>4
    <2>4. CASE \E src, rhs, out \in Buf : StepIntoAsync(c, src, rhs, out)
        <3> SUFFICES ASSUME NEW src \in Buf, NEW rhs \in Buf, NEW out \in Buf,
                            StepIntoAsync(c, src, rhs, out)
                     PROVE  MarkKept(b)
            BY <2>4
        <3> DEFINE frame == [Idle EXCEPT !.op = "async", !.src = src, !.rhs = rhs,
                                         !.out = out]
                   go == [frame EXCEPT !.pc = "unpolled"]
                   drops == DropOf(out) \o DropOf(rhs) \o DropOf(src)
                   stop == [frame EXCEPT !.pc = "dropping", !.ok = FALSE, !.drops = drops]
        <3>1. buf'[b].uncertain = buf[b].uncertain
            <4>1. buf' = [y \in Buf |-> IF y \in {src, rhs, out}
                              THEN [buf[y] EXCEPT !.owner = "call"] ELSE buf[y]]
                BY DEF StepIntoAsync
            <4> HIDE DEF go, stop
            <4> QED BY <1>13, <4>1
        <3>2. CASE Valid(src, rhs, out) /\ AdmitsOperation(usage)
            <4>1. src = go.src /\ rhs = go.rhs /\ out = go.out
                BY IdleFields
            <4>2. b # src /\ b # rhs /\ b # out
                BY <3>2, SessionAssumption DEF Valid
            <4>3. call' = [call EXCEPT ![c] = go]
                BY <3>2 DEF StepIntoAsync
            <4> HIDE DEF go
            <4>4. b \notin FrameArgs(go)
                BY <4>1, <4>2 DEF FrameArgs
            <4> QED BY <1>7, <3>1, <4>3, <4>4
        <3>3. CASE ~(Valid(src, rhs, out) /\ AdmitsOperation(usage))
            <4>1. call' = [call EXCEPT ![c] = stop]
                BY <3>3 DEF StepIntoAsync
            <4>2. stop.pc = "dropping"
                BY IdleFields
            <4> HIDE DEF stop
            <4> QED BY <1>7, <3>1, <4>1, <4>2
        <3> QED BY <3>2, <3>3
    <2>5. CASE \E x \in Buf : IntoHost(c, x)
        <3> SUFFICES ASSUME NEW x \in Buf, IntoHost(c, x) PROVE MarkKept(b)
            BY <2>5
        <3> DEFINE frame == [Idle EXCEPT !.op = "into_host", !.src = x]
                   go == [frame EXCEPT !.pc = "admitted"]
                   stop == [frame EXCEPT !.pc = "dropping", !.ok = FALSE, !.drops = DropOf(x)]
        <3>1. buf'[b].uncertain = buf[b].uncertain
            BY <1>14 DEF IntoHost
        <3>2. CASE ~buf[x].uncertain /\ AdmitsOperation(usage)
            <4>1. x = go.src /\ go.rhs = NoBuf /\ go.out = NoBuf
                BY IdleFields
            <4>2. call' = [call EXCEPT ![c] = go]
                BY <3>2 DEF IntoHost
            <4> HIDE DEF go
            <4>3. b \notin FrameArgs(go)
                BY <1>3, <3>2, <4>1 DEF FrameArgs
            <4> QED BY <1>7, <3>1, <4>2, <4>3
        <3>3. CASE ~(~buf[x].uncertain /\ AdmitsOperation(usage))
            <4>1. call' = [call EXCEPT ![c] = stop]
                BY <3>3 DEF IntoHost
            <4>2. stop.pc = "dropping"
                BY IdleFields
            <4> HIDE DEF stop
            <4> QED BY <1>7, <3>1, <4>1, <4>2
        <3> QED BY <3>2, <3>3
    <2>6. CASE \E x \in Buf : DropBuffer(c, x)
        <3> SUFFICES ASSUME NEW x \in Buf, DropBuffer(c, x) PROVE MarkKept(b)
            BY <2>6
        <3> DEFINE f == [Idle EXCEPT !.op = "drop", !.src = x, !.pc = "dropping",
                                     !.drops = DropOf(x)]
        <3>1. buf'[b].uncertain = buf[b].uncertain
            BY <1>14 DEF DropBuffer
        <3>2. call' = [call EXCEPT ![c] = f]
            BY DEF DropBuffer
        <3>3. f.pc = "dropping"
            BY IdleFields
        <3> HIDE DEF f
        <3> QED BY <1>7, <3>1, <3>2, <3>3
    <2> QED BY <1>8, <2>1, <2>2, <2>3, <2>4, <2>5, <2>6 DEF Start, StartOn

<1>9. ASSUME NEW c \in Caller, Proceed(c) \/ FuturePolled(c) PROVE MarkKept(b)
    <2> DEFINE Same(f) == f.src = call[c].src /\ f.rhs = call[c].rhs /\ f.out = call[c].out
    <2>1. ASSUME NEW f, Same(f), call' = [call EXCEPT ![c] = f],
                 buf'[b].uncertain = buf[b].uncertain
          PROVE  MarkKept(b)
        <3>1. FrameArgs(f) \subseteq FrameArgs(call[c])
            BY <2>1 DEF FrameArgs
        <3> QED BY <1>7, <2>1, <3>1
    <2>2. call[c] \in Frame
        BY <1>4
    <2>3. \A drops : Same(Unwind(c, drops)) /\ Same(Fail(c, drops))
        BY <2>2 DEF Unwind, Fail, Frame
    <2>4. CASE AdmitUpload(c)
        <3>1. PICK f : /\ call' = [call EXCEPT ![c] = f]
                       /\ \/ f = [call[c] EXCEPT !.pc = "admitted"]
                          \/ f = Fail(c, <<<<"uncharge", call[c].out>>>>)
            BY <2>4 DEF AdmitUpload
        <3>2. Same(f)
            BY <2>2, <2>3, <3>1 DEF Frame
        <3>3. buf' = buf
            BY <2>4 DEF AdmitUpload
        <3> HIDE DEF Same
        <3> QED BY <2>1, <3>1, <3>2, <3>3
    <2>5. CASE AdmitStep(c)
        <3>1. PICK f : /\ call' = [call EXCEPT ![c] = f]
                       /\ \/ f = [call[c] EXCEPT !.pc = "admitted"]
                          \/ \E drops : f = Fail(c, drops)
            BY <2>5 DEF AdmitStep
        <3>2. Same(f)
            BY <2>2, <2>3, <3>1 DEF Frame
        <3>3. buf' = buf
            BY <2>5 DEF AdmitStep
        <3> HIDE DEF Same
        <3> QED BY <2>1, <3>1, <3>2, <3>3
    <2>6. CASE BindFails(c)
        BY <2>1, <2>3, <2>6 DEF BindFails
    <2>7. CASE Poll(c)
        <3> SUFFICES ASSUME NEW ok \in BOOLEAN, NEW submitted \in BOOLEAN,
                            Execute(c, ok, submitted)
                     PROVE  MarkKept(b)
            BY <2>7 DEF Poll
        <3> DEFINE f == [call[c] EXCEPT
                            !.pc = IF call[c].op = "async" /\ ok THEN "pending" ELSE "submitted",
                            !.ok = ok, !.wait = Len(stream')]
        <3>1. call' = [call EXCEPT ![c] = f]
            BY DEF Execute
        <3>2. Same(f)
            BY <2>2 DEF Frame
        <3>3. b # call[c].out
            BY <1>2, <1>3 DEF FrameArgs
        <3>4. buf'[b].uncertain = buf[b].uncertain
            BY <1>4, <3>3 DEF Execute, Uploads, Steps
        <3> HIDE DEF f, Same
        <3> QED BY <2>1, <3>1, <3>2, <3>4
    <2>8. CASE Complete(c)
        <3> DEFINE f == [Unwind(c, DropsAtReturn(c)) EXCEPT !.gives = Gives(c)]
        <3>1. call' = [call EXCEPT ![c] = f] /\ buf' = Settled(c)
            BY <2>8 DEF Complete
        <3>2. Same(f)
            BY <2>2 DEF Unwind, Frame
        <3>3. b # call[c].out
            BY <1>2, <1>3 DEF FrameArgs
        <3>4. buf'[b].uncertain = buf[b].uncertain
            BY <1>4, <3>1, <3>3 DEF Settled
        <3> HIDE DEF f, Same
        <3> QED BY <2>1, <3>1, <3>2, <3>4
    <2>9. CASE Drained(c)
        BY <2>1, <2>3, <2>9 DEF Drained
    <2>10. CASE FailStop(c)
        BY <1>5, <2>10 DEF FailStop
    <2>11. CASE DropNext(c)
        <3> DEFINE f == [call[c] EXCEPT !.drops = Tail(call[c].drops)]
                   e == Head(call[c].drops)
        <3>1. call' = [call EXCEPT ![c] = f]
            BY <2>11 DEF DropNext
        <3>2. Same(f)
            BY <2>2 DEF Frame
        <3>3. e \in Destructor /\ e \in Els(call[c].drops)
            BY <1>4, <2>11, AfterFirst DEF FrameOK, DropNext
        <3>4. ~Live(call[c]) \/ Dropped(call[c]) = {}
            BY <1>1, <2>11 DEF CallsInv, FrameInv, LiveInv, DropNext
        <3>5. e # <<"free", b>> /\ e # <<"uncharge", b>>
            BY <1>2, <3>3, <3>4 DEF Dropped, Hold, Keep
        <3>6. CASE e = <<"unadmit", NoBuf>>
            <4>1. buf' = buf
                BY <2>11, <3>6 DEF DropNext
            <4> HIDE DEF f, Same
            <4> QED BY <2>1, <3>1, <3>2, <4>1
        <3>7. CASE e \in {"free", "uncharge"} \X Buf
            <4>1. PICK x \in Buf : e \in {<<"free", x>>, <<"uncharge", x>>}
                BY <3>7
            <4>2. x # b
                BY <3>5, <4>1
            <4>3. buf'[b] = buf[b]
                BY <1>4, <2>11, <4>1, <4>2 DEF DropNext
            <4> HIDE DEF f, Same
            <4> QED BY <2>1, <3>1, <3>2, <4>3
        <3> QED BY <3>3, <3>6, <3>7 DEF Destructor
    <2>12. CASE Return(c)
        <3> DEFINE go == [call[c] EXCEPT !.op = "step_into", !.pc = "checked", !.owned = TRUE]
                   f == IF call[c].op = "step" /\ call[c].ok THEN go ELSE Idle
        <3>1. call' = [call EXCEPT ![c] = f]
            BY <2>12 DEF Return
        <3>2. FrameArgs(f) \subseteq FrameArgs(call[c])
            <4>1. FrameArgs(Idle) = {}
                BY IdleFields DEF FrameArgs
            <4>2. FrameArgs(go) = FrameArgs(call[c])
                BY <2>2 DEF FrameArgs, Frame
            <4> HIDE DEF go
            <4> QED BY <4>1, <4>2
        <3>3. buf'[b].uncertain = buf[b].uncertain
            <4>1. buf' = [y \in Buf |-> IF y \in call[c].gives
                              THEN [buf[y] EXCEPT !.owner = "user"] ELSE buf[y]]
                BY <2>12 DEF Return
            <4> HIDE DEF f, go
            <4> QED BY <1>13, <4>1
        <3> HIDE DEF f
        <3> QED BY <1>7, <3>1, <3>2, <3>3
    <2> HIDE DEF Same
    <2> QED BY <1>9, <2>4, <2>5, <2>6, <2>7, <2>8, <2>9, <2>10, <2>11, <2>12
            DEF Proceed, FuturePolled
<1>10. CASE Environment
    <2>1. ASSUME NEW c \in Caller, DropFuture(c) \/ ForgetFuture(c) PROVE MarkKept(b)
        <3>1. PICK f : /\ call' = [call EXCEPT ![c] = f]
                       /\ \/ f = Fail(c, DropFrame(c))
                          \/ f = [call[c] EXCEPT !.pc = "draining", !.wait = Len(stream)]
                          \/ f = [call[c] EXCEPT !.pc = "forgotten"]
            BY <2>1 DEF DropFuture, ForgetFuture
        <3>2. FrameArgs(f) = FrameArgs(call[c])
            <4>1. call[c] \in Frame
                BY <1>4
            <4> QED BY <3>1, <4>1 DEF Fail, Unwind, FrameArgs, Frame
        <3>3. buf'[b].uncertain = buf[b].uncertain
            <4>1. CASE DropFuture(c)
                BY <4>1 DEF DropFuture
            <4>2. CASE ForgetFuture(c)
                BY <1>13, <4>2 DEF ForgetFuture
            <4> QED BY <2>1, <4>1, <4>2
        <3> QED BY <1>7, <3>1, <3>2, <3>3
    <2>2. ASSUME NEW x \in Buf, ForgetBuffer(x) PROVE MarkKept(b)
        <3>1. call' = call /\ buf'[b].uncertain = buf[b].uncertain
            BY <1>14, <2>2 DEF ForgetBuffer
        <3> QED BY <1>5, <3>1
    <2>3. ASSUME NEW x \in Buf, NEW kind \in {"halo", "field"}, NEW shape \in Shape,
                 ForeignBuffer(x, kind, shape)
          PROVE  MarkKept(b)
        <3>1. x # b
            BY <1>3, <2>3 DEF ForeignBuffer
        <3>2. call' = call /\ buf'[b] = buf[b]
            BY <1>4, <2>3, <3>1 DEF ForeignBuffer
        <3> QED BY <1>5, <3>2
    <2> QED BY <1>10, <2>1, <2>2, <2>3 DEF Environment
<1>11. CASE Device
    <2>1. buf'[b].uncertain = buf[b].uncertain
        <3>1. PICK v : buf' = SetContent(Head(stream).writes, v)
            BY <1>11 DEF Device, DeviceBegin, DeviceFinish
        <3>2. buf[b] \in Buffer /\ buf'[b] \in {buf[b], [buf[b] EXCEPT !.content = v]}
            BY <1>4, <3>1 DEF SetContent
        <3> QED BY <3>2 DEF Buffer
    <2>2. \A c \in Caller : FrameArgs(call'[c]) = FrameArgs(call[c])
        <3> SUFFICES ASSUME NEW c \in Caller PROVE FrameArgs(call'[c]) = FrameArgs(call[c])
            OBVIOUS
        <3>1. call[c] \in Frame
            BY <1>4
        <3>2. call'[c] = call[c] \/ call'[c] = [call[c] EXCEPT !.wait = call[c].wait - 1]
            BY <1>11 DEF Device, DeviceBegin, DeviceFinish
        <3> QED BY <3>1, <3>2 DEF FrameArgs, Frame
    <2> QED BY <1>5, <2>1, <2>2
<1>12. CASE DeviceFault
    BY <1>5, <1>12 DEF DeviceFault
<1> QED BY <1>8, <1>9, <1>10, <1>11, <1>12 DEF Next

(* The output of a failed step stays invalid for the rest of its life, and *)
(* is handed to no call but one that drops it: Completion::run never       *)
(* clears it without success, and validate_fields and into_host look at it *)
(* before anything is submitted.                                           *)
THEOREM SessionInvalidated == Spec => InvalidatedForGood
<1>1. ASSUME IInv, [Next]_vars
      PROVE  [\A b \in Buf : buf[b].uncertain /\ MayTake(b) =>
                 /\ buf'[b].owner # "none" => buf'[b].uncertain
                 /\ \A c \in Caller : b \in Args(c)' => call'[c].pc = "dropping"]_vars
    BY <1>1, InvalidStep DEF MarkKept
<1> QED BY <1>1, SessionInvariant, PTL DEF Spec, InvalidatedForGood

-----------------------------------------------------------------------------
(* The guards that Session maps to the budget are those of the ledger.     *)
Mapped ==
    [g \in Buf \cup Caller |-> IF g \in Buf THEN GuardOfBuffer(g) ELSE GuardOfCall(g)]

MapsToLedger == Mapped = Ledger

LEMMA MappedIsLedger == CallsInv => MapsToLedger
<1> SUFFICES ASSUME CallsInv PROVE Mapped = Ledger
    BY DEF MapsToLedger
<1>1. \A b \in Buf : GuardOfBuffer(b) = BufferGuard(buf[b])
    BY DEF GuardOfBuffer, BufferGuard, SizeOf, None
<1>2. \A c \in Caller : GuardOfCall(c) = CallGuard(call[c])
    <2> SUFFICES ASSUME NEW c \in Caller PROVE GuardOfCall(c) = CallGuard(call[c])
        OBVIOUS
    <2>1. FrameOK(call[c])
        BY DEF CallsInv, FrameInv
    <2>2. Admitted(c) <=> Admits(call[c])
        BY <2>1, UnadmitInDrops DEF Admitted, Admits
    <2> QED BY <2>2 DEF GuardOfCall, CallGuard
<1> QED BY <1>1, <1>2 DEF Mapped, Ledger

LEMMA InitBudget == Init => Budget!Init
<1> SUFFICES ASSUME Init PROVE Budget!Init
    OBVIOUS
<1>1. \A b \in Buf : GuardOfBuffer(b) = None
    BY DEF Init, GuardOfBuffer, NoBuffer, None
<1>2. \A c \in Caller : GuardOfCall(c) = None
    <2> SUFFICES ASSUME NEW c \in Caller PROVE GuardOfCall(c) = None
        OBVIOUS
    <2>1. call[c].pc = "idle" /\ call[c].drops = <<>>
        BY IdleFields DEF Init
    <2>2. ~Admitted(c)
        BY <2>1 DEF Admitted
    <2> QED BY <2>1, <2>2 DEF GuardOfCall, None
<1> QED BY <1>1, <1>2
       DEF Budget!Init, Budget!Absent, Budget!NoUsage, NoUsage, None, Init

(* A step of the ledger is one critical section of the budget's mutex.     *)
LEMMA BudgetStep ==
    ASSUME MapsToLedger, MapsToLedger', LedgerStep
    PROVE  [Budget!Next]_(Budget!vars)
<1> USE DEF MapsToLedger
<1> DEFINE G == Buf \cup Caller
<1>1. ASSUME NEW b \in Buf, NEW bytes \in Sizes, Reserves(b, bytes)
      PROVE  Budget!Buffer(b, bytes)
    <2>1. /\ Mapped[b].state = "absent" /\ AdmitsBuffer(usage, bytes)
          /\ usage' = ChargeBuffer(usage, bytes)
          /\ Mapped' = [Mapped EXCEPT ![b] = [state |-> "held", buffer |-> TRUE,
                                              bytes |-> bytes]]
        BY <1>1 DEF Reserves, Held
    <2> QED BY <2>1 DEF Budget!Buffer, Mapped, Budget!AdmitsBuffer, AdmitsBuffer,
                        Budget!ChargeBuffer, ChargeBuffer
<1>2. ASSUME NEW c \in Caller, Operates(c) PROVE Budget!Operation(c)
    <2>1. /\ Mapped[c].state = "absent" /\ AdmitsOperation(usage)
          /\ usage' = ChargeOperation(usage)
          /\ Mapped' = [Mapped EXCEPT ![c] = [state |-> "held", buffer |-> FALSE,
                                              bytes |-> 0]]
        BY <1>2 DEF Operates, Held
    <2> QED BY <2>1 DEF Budget!Operation, Mapped, Budget!AdmitsOperation, AdmitsOperation,
                        Budget!ChargeOperation, ChargeOperation
<1>3. ASSUME NEW b \in Buf, Uncharges(b) PROVE Budget!Drop(b)
    <2>1. /\ Mapped[b].state = "held" /\ Mapped[b].buffer
          /\ usage' = ReleaseBuffer(usage, Mapped[b].bytes)
          /\ Mapped' = [Mapped EXCEPT ![b] = None]
        BY <1>3 DEF Uncharges
    <2> QED BY <2>1 DEF Budget!Drop, Mapped, Budget!Absent, None,
                        Budget!ReleaseBuffer, ReleaseBuffer
<1>4. ASSUME NEW c \in Caller, Unadmits(c) PROVE Budget!Drop(c)
    <2>1. Mapped[c].buffer = FALSE
        <3>1. CallGuard(call[c]).buffer = FALSE
            BY DEF CallGuard
        <3> QED BY <3>1, LedgerOf
    <2>2. /\ Mapped[c].state = "held"
          /\ usage' = ReleaseOperation(usage)
          /\ Mapped' = [Mapped EXCEPT ![c] = None]
        BY <1>4 DEF Unadmits
    <2> QED BY <2>1, <2>2 DEF Budget!Drop, Mapped, Budget!Absent, None,
                              Budget!ReleaseOperation, ReleaseOperation
<1>5. ASSUME NEW gs \in SUBSET G, Retains(gs) PROVE Budget!Forget(gs)
    <2>1. /\ \A g \in gs : Mapped[g].state = "held"
          /\ Mapped' = [g \in G |-> IF g \in gs
                            THEN [Mapped[g] EXCEPT !.state = "forgotten"] ELSE Mapped[g]]
          /\ usage' = usage
        BY <1>5 DEF Retains
    <2> QED BY <2>1 DEF Budget!Forget, Mapped
<1>6. CASE UNCHANGED <<usage, Ledger>>
    <2>1. usage' = usage /\ Mapped' = Mapped
        BY <1>6
    <2> QED BY <2>1 DEF Budget!vars, Mapped
<1> QED BY <1>1, <1>2, <1>3, <1>4, <1>5, <1>6 DEF LedgerStep, Budget!Next, Sizes

(* Whatever the calls, futures and device do, the session's charges are    *)
(* those of the abstract budget: Session implements Admission, with one    *)
(* guard for each buffer's Reservation and one for each operation's.       *)
THEOREM SessionImplementsBudget == Spec => BudgetSpec
<1>1. IInv => MapsToLedger
    BY MappedIsLedger DEF IInv, Ownership
<1>2. IInv /\ MapsToLedger /\ MapsToLedger' /\ [Next]_vars => [Budget!Next]_(Budget!vars)
    BY NextLedger, BudgetStep DEF IInv
<1> QED BY <1>1, <1>2, InitBudget, SessionInvariant, PTL DEF Spec, BudgetSpec, Budget!Spec
=============================================================================
