---------------------- MODULE DoubleGridResourceProofs ----------------------
(***************************************************************************)
(* What a double grid owns, for every shape, arithmetic, width of usize,   *)
(* set of batches and number of resident blocks: nothing is freed under    *)
(* the kernel, an owner that is handed back is whole, and one that is      *)
(* consumed, by whichever error, releases everything.                      *)
(***************************************************************************)
EXTENDS DoubleGridProofs

Destructor == {"free", "uncharge", "unadmit"} \X (Buffers \cup {"operation"})

Runs(q, what, b) == \E i \in DOMAIN q : q[i] = <<what, b>>

(* The states in which the owner has all that double_grid gave it.         *)
Owning ==
    {"ready", "admitted", "stepping", "waiting", "pending", "draining", "binding",
     "observing", "returning", "forgotten", "aborted"}

(* Construction goes on one buffer at a time.                              *)
BuildInv ==
    /\ pc = "reserving" =>
          stored = {} /\ charged \in {{}, {"first"}, {"first", "second"}}
    /\ pc = "uploading" =>
          charged = Buffers /\ stored \in {{}, {"first"}, {"first", "second"}}

(* Outside a call the owner has no admission, and no destructor but that   *)
(* of the admission runs while the owner is kept.                          *)
OwnerInv ==
    /\ pc \in Owning => stored = Buffers /\ charged = Buffers
    /\ pc \in {"reserving", "uploading", "ready"} => ~admitted
    /\ pc = "returning" => \A i \in DOMAIN drops : drops[i] = <<"unadmit", "operation">>

(* What is still owned has a destructor to run.                            *)
DropsInv ==
    /\ pc = "dropping" =>
          /\ \A b \in stored : Runs(drops, "free", b)
          /\ \A b \in charged : Runs(drops, "uncharge", b)
    /\ pc \in {"dropping", "returning"} /\ admitted => Runs(drops, "unadmit", "operation")
    /\ pc = "gone" => stored = {} /\ charged = {} /\ ~admitted

RestOfType ==
    /\ pc \in Label
    /\ call \in {"double_grid", "advance", "advance_async", "observe", "drop"}
    /\ ok \in BOOLEAN
    /\ stored \in SUBSET Buffers /\ charged \in SUBSET Buffers
    /\ admitted \in BOOLEAN
    /\ drops \in Seq(Destructor)
    /\ sample \in [at : {-1} \cup 0..MaxUsize, grid : Grid]

RInv == RestOfType /\ BuildInv /\ OwnerInv /\ DropsInv

-----------------------------------------------------------------------------
(* Sequences of destructors.                                               *)
LEMMA RunsConcat ==
    ASSUME NEW q \in Seq(Destructor), NEW r \in Seq(Destructor), NEW what, NEW b
    PROVE  /\ q \o r \in Seq(Destructor)
           /\ Runs(q \o r, what, b) <=> Runs(q, what, b) \/ Runs(r, what, b)
<1>1. /\ q \o r \in Seq(Destructor) /\ Len(q \o r) = Len(q) + Len(r)
      /\ \A i \in 1 .. Len(q) : (q \o r)[i] = q[i]
      /\ \A i \in 1 .. Len(r) : (q \o r)[Len(q) + i] = r[i]
    OBVIOUS
<1>2. ASSUME Runs(q \o r, what, b) PROVE Runs(q, what, b) \/ Runs(r, what, b)
    <2>1. PICK i \in 1 .. Len(q) + Len(r) : (q \o r)[i] = <<what, b>>
        BY <1>1, <1>2 DEF Runs
    <2>2. CASE i <= Len(q)
        <3>1. i \in DOMAIN q /\ q[i] = <<what, b>>
            BY <1>1, <2>1, <2>2
        <3> QED BY <3>1 DEF Runs
    <2>3. CASE i > Len(q)
        <3>1. i - Len(q) \in 1 .. Len(r) /\ Len(q) + (i - Len(q)) = i
            BY <2>3
        <3>2. r[i - Len(q)] = <<what, b>> /\ i - Len(q) \in DOMAIN r
            BY <1>1, <2>1, <3>1
        <3> QED BY <3>2 DEF Runs
    <2> QED BY <2>2, <2>3
<1>3. ASSUME Runs(q, what, b) PROVE Runs(q \o r, what, b)
    <2>1. PICK i \in 1 .. Len(q) : q[i] = <<what, b>>
        BY <1>3 DEF Runs
    <2> QED BY <1>1, <2>1 DEF Runs
<1>4. ASSUME Runs(r, what, b) PROVE Runs(q \o r, what, b)
    <2>1. PICK i \in 1 .. Len(r) : r[i] = <<what, b>>
        BY <1>4 DEF Runs
    <2>2. Len(q) + i \in 1 .. Len(q) + Len(r)
        OBVIOUS
    <2> QED BY <1>1, <2>1, <2>2 DEF Runs
<1> QED BY <1>1, <1>2, <1>3, <1>4

LEMMA RunsOne ==
    ASSUME NEW d \in Destructor, NEW what, NEW b
    PROVE  /\ <<d>> \in Seq(Destructor)
           /\ Runs(<<d>>, what, b) <=> d = <<what, b>>
BY DEF Runs

LEMMA RunsNone ==
    ASSUME NEW what, NEW b
    PROVE  <<>> \in Seq(Destructor) /\ ~Runs(<<>>, what, b)
BY DEF Runs

LEMMA RunsTail ==
    ASSUME NEW q \in Seq(Destructor), q # <<>>, NEW what, NEW b,
           Runs(q, what, b), Head(q) # <<what, b>>
    PROVE  Runs(Tail(q), what, b)
<1>1. PICK i \in 1 .. Len(q) : q[i] = <<what, b>>
    BY DEF Runs
<1>2. i # 1
    BY <1>1
<1>3. i - 1 \in DOMAIN Tail(q) /\ Tail(q)[i - 1] = q[i]
    BY <1>2
<1> QED BY <1>1, <1>3 DEF Runs

LEMMA DropOfRuns ==
    ASSUME NEW b \in Buffers
    PROVE  /\ DropOf(b) \in Seq(Destructor)
           /\ Runs(DropOf(b), "free", b) /\ Runs(DropOf(b), "uncharge", b)
<1>1. <<"free", b>> \in Destructor /\ <<"uncharge", b>> \in Destructor
    BY DEF Destructor
<1>2. /\ DropOf(b) = <<<<"free", b>>, <<"uncharge", b>>>>
    BY DEF DropOf
<1> QED BY <1>1, <1>2 DEF Runs

(* Each way of giving up the whole owner.                                  *)
LEMMA Everything ==
    ASSUME current \in Both
    PROVE  /\ DropGrid \in Seq(Destructor)
           /\ Unadmit \in Seq(Destructor)
           /\ Runs(Unadmit, "unadmit", "operation")
           /\ \A b \in Buffers : Runs(DropGrid, "free", b) /\ Runs(DropGrid, "uncharge", b)
<1>1. current \in Buffers /\ next \in Buffers /\ "forcing" \in Buffers
      /\ Buffers = {current, next, "forcing"}
    BY DEF Both, Buffers, next, Other
<1>2. DropOf(current) \in Seq(Destructor) /\ DropOf(next) \in Seq(Destructor)
      /\ DropOf("forcing") \in Seq(Destructor)
    BY <1>1, DropOfRuns
<1>3. DropOf(current) \o DropOf(next) \in Seq(Destructor)
    BY <1>2, RunsConcat
<1>4. ASSUME NEW what, NEW b
      PROVE  Runs(DropGrid, what, b) <=> \/ Runs(DropOf(current), what, b)
                                         \/ Runs(DropOf(next), what, b)
                                         \/ Runs(DropOf("forcing"), what, b)
    BY <1>2, <1>3, RunsConcat DEF DropGrid
<1>5. DropGrid \in Seq(Destructor)
    BY <1>2, <1>3, RunsConcat DEF DropGrid
<1>6. \A b \in Buffers : Runs(DropGrid, "free", b) /\ Runs(DropGrid, "uncharge", b)
    BY <1>1, <1>4, DropOfRuns
<1>7. Unadmit \in Seq(Destructor) /\ Runs(Unadmit, "unadmit", "operation")
    BY RunsOne DEF Unadmit, Destructor
<1> QED BY <1>5, <1>6, <1>7

(* A sequence that gives up the whole owner, and the admission.            *)
GivesUp(q) ==
    /\ q \in Seq(Destructor)
    /\ \A b \in Buffers : Runs(q, "free", b) /\ Runs(q, "uncharge", b)

LEMMA GivesUpAll ==
    ASSUME current \in Both
    PROVE  LET admittedToo(q) == GivesUp(q) /\ Runs(q, "unadmit", "operation") IN
           /\ GivesUp(DropGrid) /\ admittedToo(Unadmit \o DropGrid)
           /\ GivesUp(DropBindings \o Rest)
           /\ admittedToo(Unadmit \o DropBindings \o Rest)
           /\ admittedToo(<<<<"free", current>>>> \o Unadmit
                              \o <<<<"uncharge", current>>>> \o Rest)
<1> DEFINE f == <<<<"free", current>>>>
           u == <<<<"uncharge", current>>>>
<1>1. /\ current \in Buffers /\ next \in Buffers /\ "forcing" \in Buffers
      /\ Buffers = {current, next, "forcing"}
    BY DEF Both, Buffers, next, Other
<1>2. <<"free", current>> \in Destructor /\ <<"uncharge", current>> \in Destructor
    BY <1>1 DEF Destructor
<1>3. /\ DropBindings \in Seq(Destructor)
      /\ Runs(DropBindings, "free", current) /\ Runs(DropBindings, "uncharge", current)
    BY <1>2 DEF DropBindings, Runs
<1>4. /\ Rest \in Seq(Destructor)
      /\ \A b \in {next, "forcing"} : Runs(Rest, "free", b) /\ Runs(Rest, "uncharge", b)
    <2>1. DropOf(next) \in Seq(Destructor) /\ DropOf("forcing") \in Seq(Destructor)
        BY <1>1, DropOfRuns
    <2> QED BY <1>1, <2>1, DropOfRuns, RunsConcat DEF Rest
<1>5. GivesUp(DropGrid) /\ Unadmit \in Seq(Destructor)
      /\ Runs(Unadmit, "unadmit", "operation")
    BY Everything DEF GivesUp
<1>6. f \in Seq(Destructor) /\ Runs(f, "free", current)
      /\ u \in Seq(Destructor) /\ Runs(u, "uncharge", current)
    BY <1>2, RunsOne
<1> HIDE DEF f, u
<1>7. GivesUp(Unadmit \o DropGrid) /\ Runs(Unadmit \o DropGrid, "unadmit", "operation")
    BY <1>5, RunsConcat DEF GivesUp
<1>8. ASSUME NEW q \in Seq(Destructor), Runs(q, "free", current), Runs(q, "uncharge", current)
      PROVE  /\ GivesUp(q \o Rest)
             /\ Runs(q, "unadmit", "operation") => Runs(q \o Rest, "unadmit", "operation")
    BY <1>1, <1>4, <1>8, RunsConcat DEF GivesUp
<1>9. GivesUp(DropBindings \o Rest)
    BY <1>3, <1>8
<1>10. /\ GivesUp(Unadmit \o DropBindings \o Rest)
       /\ Runs(Unadmit \o DropBindings \o Rest, "unadmit", "operation")
    <2>1. /\ Unadmit \o DropBindings \in Seq(Destructor)
          /\ Runs(Unadmit \o DropBindings, "unadmit", "operation")
          /\ Runs(Unadmit \o DropBindings, "free", current)
          /\ Runs(Unadmit \o DropBindings, "uncharge", current)
        BY <1>3, <1>5, RunsConcat
    <2> QED BY <1>8, <2>1
<1>11. /\ GivesUp(f \o Unadmit \o u \o Rest)
       /\ Runs(f \o Unadmit \o u \o Rest, "unadmit", "operation")
    <2>1. /\ f \o Unadmit \in Seq(Destructor)
          /\ Runs(f \o Unadmit, "unadmit", "operation") /\ Runs(f \o Unadmit, "free", current)
        BY <1>5, <1>6, RunsConcat
    <2>2. /\ f \o Unadmit \o u \in Seq(Destructor)
          /\ Runs(f \o Unadmit \o u, "unadmit", "operation")
          /\ Runs(f \o Unadmit \o u, "free", current)
          /\ Runs(f \o Unadmit \o u, "uncharge", current)
        BY <1>6, <2>1, RunsConcat
    <2> QED BY <1>8, <2>2
<1> QED BY <1>5, <1>7, <1>9, <1>10, <1>11 DEF f, u

-----------------------------------------------------------------------------
LEMMA InitRInv == Init => RInv
<1> SUFFICES ASSUME Init PROVE RInv
    OBVIOUS
<1>1. Initial \in Grid
    BY DoubleGridAssumption
<1>2. <<>> \in Seq(Destructor)
    BY RunsNone
<1> QED BY <1>1, <1>2 DEF Init, RInv, RestOfType, BuildInv, OwnerInv, DropsInv, Owning, Label

(* A call gives the whole owner up.                                        *)
LEMMA ConsumeStep ==
    ASSUME RInv, NEW q, GivesUp(q), admitted => Runs(q, "unadmit", "operation"),
           Unwind(q), UNCHANGED <<owners, sample>>,
           call' \in {"double_grid", "advance", "advance_async", "observe", "drop"}
    PROVE  RInv'
<1>1. /\ pc' = "dropping" /\ drops' = q /\ ok' = FALSE /\ stored' = stored
      /\ charged' = charged /\ admitted' = admitted /\ sample' = sample
    BY DEF Unwind, owners
<1> QED BY <1>1 DEF RInv, RestOfType, BuildInv, OwnerInv, DropsInv, Owning, Label,
    GivesUp, Runs

(* A step of an owner that keeps all it has.                               *)
Keeps ==
    /\ pc \in Owning \ {"returning"}
    /\ pc' \in Owning \ {"ready", "returning"}
    /\ call' \in {"double_grid", "advance", "advance_async", "observe", "drop"}
    /\ ok' \in BOOLEAN /\ admitted' \in BOOLEAN
    /\ UNCHANGED <<stored, charged, drops, sample>>

LEMMA KeepStep == RInv /\ Keeps => RInv'
BY DEF Keeps, RInv, RestOfType, BuildInv, OwnerInv, DropsInv, Owning, Label

LEMMA ReserveStep ==
    ASSUME RInv, NEW b \in Buffers, Reserve(b)
    PROVE  RInv'
<1>1. /\ pc = "reserving" /\ b \notin charged
      /\ b = "second" => "first" \in charged
      /\ b = "forcing" => "second" \in charged
      /\ stored = {} /\ ~admitted /\ UNCHANGED <<call, stored, admitted, sample>>
    BY DEF Reserve, RInv, BuildInv, OwnerInv
<1>2. CASE /\ charged' = charged \cup {b}
           /\ pc' = IF b = "forcing" THEN "uploading" ELSE "reserving"
           /\ UNCHANGED <<ok, drops>>
    BY <1>1, <1>2 DEF RInv, RestOfType, BuildInv, OwnerInv, DropsInv, Owning, Label, Buffers
<1>3. CASE /\ Unwind(CASE b = "first" -> <<>>
                       [] b = "second" -> <<<<"uncharge", "first">>>>
                       [] OTHER -> <<<<"uncharge", "second">>, <<"uncharge", "first">>>>)
           /\ UNCHANGED charged
    <2>1. pc' = "dropping" /\ ok' = FALSE /\ charged' = charged
        BY <1>3 DEF Unwind
    <2>2. /\ <<"uncharge", "first">> \in Destructor /\ <<"uncharge", "second">> \in Destructor
        BY DEF Destructor, Buffers
    <2>3. drops' \in Seq(Destructor) /\ \A c \in charged : Runs(drops', "uncharge", c)
        <3>1. CASE b = "first"
            <4>1. drops' = <<>> /\ charged = {}
                BY <1>1, <1>3, <3>1 DEF Unwind, RInv, BuildInv
            <4> QED BY <4>1, RunsNone
        <3>2. CASE b = "second"
            <4>1. drops' = <<<<"uncharge", "first">>>> /\ charged = {"first"}
                BY <1>1, <1>3, <3>2 DEF Unwind, RInv, BuildInv
            <4> QED BY <2>2, <4>1, RunsOne
        <3>3. CASE b = "forcing"
            <4>1. /\ drops' = <<<<"uncharge", "second">>, <<"uncharge", "first">>>>
                  /\ charged = {"first", "second"}
                BY <1>1, <1>3, <3>3 DEF Unwind, RInv, BuildInv
            <4> QED BY <2>2, <4>1 DEF Runs
        <3> QED BY <3>1, <3>2, <3>3 DEF Buffers
    <2> QED BY <1>1, <2>1, <2>3 DEF RInv, RestOfType, BuildInv, OwnerInv, DropsInv,
        Owning, Label, Runs
<1> QED BY <1>2, <1>3 DEF Reserve

LEMMA UploadStep ==
    ASSUME RInv, NEW b \in Buffers, Upload(b)
    PROVE  RInv'
<1> DEFINE q1 == <<<<"uncharge", b>>>>
           q2 == IF "second" \in stored THEN DropOf("second") ELSE <<>>
           q3 == IF "first" \in stored THEN DropOf("first") ELSE <<>>
           q4 == IF b # "forcing" THEN <<<<"uncharge", "forcing">>>> ELSE <<>>
           q5 == IF b = "first" THEN <<<<"uncharge", "second">>>> ELSE <<>>
           q == q1 \o q2 \o q3 \o q4 \o q5
<1>1. /\ pc = "uploading" /\ b \notin stored
      /\ b = "second" => "first" \in stored
      /\ b = "forcing" => "second" \in stored
      /\ charged = Buffers /\ stored \in {{}, {"first"}, {"first", "second"}}
      /\ ~admitted /\ UNCHANGED <<call, charged, admitted, sample>>
    BY DEF Upload, RInv, BuildInv, OwnerInv
<1>2. CASE /\ stored' = stored \cup {b}
           /\ pc' = IF b = "forcing" THEN "ready" ELSE "uploading"
           /\ UNCHANGED <<ok, drops>>
    BY <1>1, <1>2 DEF RInv, RestOfType, BuildInv, OwnerInv, DropsInv, Owning, Label, Buffers
<1>3. CASE Unwind(q) /\ UNCHANGED stored
    <2>1. pc' = "dropping" /\ drops' = q /\ ok' = FALSE /\ stored' = stored
        BY <1>3 DEF Unwind
    <2>2. /\ q1 \in Seq(Destructor) /\ Runs(q1, "uncharge", b)
          /\ q2 \in Seq(Destructor) /\ q3 \in Seq(Destructor)
          /\ q4 \in Seq(Destructor) /\ q5 \in Seq(Destructor)
          /\ b # "forcing" => Runs(q4, "uncharge", "forcing")
          /\ b = "first" => Runs(q5, "uncharge", "second")
        <3>1. /\ <<"uncharge", b>> \in Destructor /\ <<"uncharge", "forcing">> \in Destructor
              /\ <<"uncharge", "second">> \in Destructor
            BY DEF Destructor, Buffers
        <3> QED BY <3>1, RunsOne, RunsNone, DropOfRuns DEF Buffers
    <2>3. /\ "second" \in stored => Runs(q2, "free", "second") /\ Runs(q2, "uncharge", "second")
          /\ "first" \in stored => Runs(q3, "free", "first") /\ Runs(q3, "uncharge", "first")
        BY DropOfRuns DEF Buffers
    <2> HIDE DEF q1, q2, q3, q4, q5
    <2>4. q1 \o q2 \in Seq(Destructor) /\ q1 \o q2 \o q3 \in Seq(Destructor)
          /\ q1 \o q2 \o q3 \o q4 \in Seq(Destructor) /\ q \in Seq(Destructor)
        BY <2>2
    <2>5. ASSUME NEW what, NEW c
          PROVE  Runs(q, what, c) <=> \/ Runs(q1, what, c) \/ Runs(q2, what, c)
                                      \/ Runs(q3, what, c) \/ Runs(q4, what, c)
                                      \/ Runs(q5, what, c)
        BY <2>2, <2>4, RunsConcat
    <2> HIDE DEF q
    <2>6. \A c \in stored : Runs(q, "free", c)
        BY <1>1, <2>3, <2>5
    <2>7. \A c \in Buffers : Runs(q, "uncharge", c)
        <3>1. CASE b = "first"
            BY <2>2, <2>5, <3>1 DEF Buffers
        <3>2. CASE b = "second"
            BY <1>1, <2>2, <2>3, <2>5, <3>2 DEF Buffers
        <3>3. CASE b = "forcing"
            BY <1>1, <2>2, <2>3, <2>5, <3>3 DEF Buffers
        <3> QED BY <3>1, <3>2, <3>3 DEF Buffers
    <2> QED BY <1>1, <2>1, <2>4, <2>6, <2>7 DEF RInv, RestOfType, BuildInv, OwnerInv,
        DropsInv, Owning, Label, Runs
<1> QED BY <1>2, <1>3 DEF Upload

(* The next destructor.                                                    *)
LEMMA DropNextStep ==
    ASSUME RInv, DropNext
    PROVE  RInv'
<1> DEFINE what == Head(drops)[1]
           b == Head(drops)[2]
<1>1. /\ pc \in {"dropping", "returning"} /\ drops # <<>>
      /\ stored' = IF what = "free" THEN stored \ {b} ELSE stored
      /\ charged' = IF what = "uncharge" THEN charged \ {b} ELSE charged
      /\ admitted' = (admitted /\ what # "unadmit")
      /\ drops' = Tail(drops)
      /\ UNCHANGED <<pc, call, ok, sample>>
    BY DEF DropNext
<1>2. drops \in Seq(Destructor) /\ Head(drops) \in Destructor /\ Tail(drops) \in Seq(Destructor)
    BY <1>1 DEF RInv, RestOfType
<1>3. Head(drops) = <<what, b>>
    BY <1>2 DEF Destructor
<1>4. ASSUME NEW w, NEW c, Runs(drops, w, c), w # what \/ c # b
      PROVE  Runs(drops', w, c)
    BY <1>1, <1>2, <1>3, <1>4, RunsTail
<1>5. CASE pc = "dropping"
    <2>1. RestOfType' /\ BuildInv' /\ OwnerInv'
        BY <1>1, <1>2, <1>5 DEF RInv, RestOfType, BuildInv, OwnerInv, Owning
    <2>2. (\A c \in stored' : Runs(drops', "free", c))
          /\ (\A c \in charged' : Runs(drops', "uncharge", c))
        BY <1>1, <1>4, <1>5 DEF RInv, DropsInv
    <2>3. admitted' => Runs(drops', "unadmit", "operation")
        BY <1>1, <1>4, <1>5 DEF RInv, RestOfType, DropsInv
    <2> QED BY <1>1, <1>5, <2>1, <2>2, <2>3 DEF RInv, DropsInv
<1>6. CASE pc = "returning"
    <2>1. what = "unadmit" /\ b = "operation"
        BY <1>1, <1>2, <1>6 DEF RInv, OwnerInv
    <2>2. \A i \in DOMAIN drops' : drops'[i] = <<"unadmit", "operation">>
        <3>1. \A i \in DOMAIN Tail(drops) : i + 1 \in DOMAIN drops /\ Tail(drops)[i] = drops[i + 1]
            BY <1>1, <1>2
        <3> QED BY <1>1, <1>6, <3>1 DEF RInv, OwnerInv
    <2>3. ~admitted'
        BY <1>1, <2>1
    <2> QED BY <1>1, <1>2, <1>6, <2>1, <2>2, <2>3 DEF RInv, RestOfType, BuildInv,
        OwnerInv, DropsInv, Owning
<1> QED BY <1>1, <1>5, <1>6

LEMMA ReturnStep ==
    ASSUME RInv, Return
    PROVE  RInv'
<1>1. /\ pc \in {"dropping", "returning"} /\ drops = <<>>
      /\ pc' = IF pc = "returning" THEN "ready" ELSE "gone"
      /\ UNCHANGED <<call, ok, stored, charged, admitted, drops, sample>>
    BY DEF Return, owners
<1>2. ~admitted
    BY <1>1, RunsNone DEF RInv, DropsInv, RestOfType
<1>3. pc = "dropping" => stored = {} /\ charged = {}
    BY <1>1, RunsNone DEF RInv, DropsInv
<1> QED BY <1>1, <1>2, <1>3 DEF RInv, RestOfType, BuildInv, OwnerInv, DropsInv, Owning, Label

(* The end of a call that keeps the owner.                                 *)
LEMMA KeptStep ==
    ASSUME RInv, pc \in Owning, pc' = "returning", drops' = Unadmit,
           UNCHANGED <<call, ok, owners>>,
           sample' \in [at : {-1} \cup 0..MaxUsize, grid : Grid]
    PROVE  RInv'
<1>1. /\ drops' = <<<<"unadmit", "operation">>>> /\ drops' \in Seq(Destructor)
      /\ Runs(drops', "unadmit", "operation")
    BY RunsOne DEF Unadmit, Destructor
<1>2. \A i \in DOMAIN drops' : drops'[i] = <<"unadmit", "operation">>
    BY <1>1
<1> QED BY <1>1, <1>2 DEF RInv, RestOfType, BuildInv, OwnerInv, DropsInv, Owning, Label,
    owners

LEMMA NextRInv ==
    ASSUME IInv, RInv, [Next]_vars
    PROVE  RInv'
<1>1. /\ current \in Both /\ mem[current] \in Grid /\ completed \in 0..MaxUsize
      /\ pc = "ready" => ~admitted
    BY DEF IInv, Types, RInv, OwnerInv
<1>2. CASE \E b \in Buffers : Reserve(b) \/ Upload(b)
    BY <1>2, ReserveStep, UploadStep
<1>3. CASE DropNext \/ Return
    BY <1>3, DropNextStep, ReturnStep
<1>4. CASE BindFails \/ StepFails \/ Drained
    <2>1. Unwind(Unadmit \o DropGrid) /\ UNCHANGED <<call, owners, sample>>
        BY <1>4 DEF BindFails, StepFails, Drained
    <2>2. call' \in {"double_grid", "advance", "advance_async", "observe", "drop"}
        BY <2>1 DEF RInv, RestOfType
    <2> QED BY <1>1, <2>1, <2>2, GivesUpAll, ConsumeStep
<1>5. CASE DropReady
    <2>1. pc = "ready" /\ call' = "drop" /\ Unwind(DropGrid) /\ UNCHANGED <<owners, sample>>
        BY <1>5 DEF DropReady
    <2> QED BY <1>1, <2>1, GivesUpAll, ConsumeStep
<1>6. CASE \E n \in Batch : Advance(n)
    <2>1. PICK n \in Batch : Advance(n)
        BY <1>6
    <2>2. CASE Keeps
        BY <2>2, KeepStep
    <2>3. CASE ~Keeps
        <3>1. pc = "ready" /\ call' = "advance" /\ Unwind(DropGrid) /\ UNCHANGED <<owners, sample>>
            BY <2>1, <2>3 DEF Advance, Keeps, Owning, owners, RInv, RestOfType
        <3> QED BY <1>1, <3>1, GivesUpAll, ConsumeStep
    <2> QED BY <2>2, <2>3
<1>7. CASE \/ \E good, launched \in BOOLEAN : Submit(good, launched)
           \/ SwapCompleted \/ ForgetFuture \/ FailStop
    <2>1. Keeps
        BY <1>7 DEF Submit, SwapCompleted, ForgetFuture, FailStop, Keeps, Owning, owners,
            RInv, RestOfType
    <2> QED BY <2>1, KeepStep
<1>8. CASE BatchEnds
    <2>1. /\ pc \in Owning /\ pc' = "returning" /\ drops' = Unadmit
          /\ UNCHANGED <<call, ok, owners>> /\ sample' = sample
        BY <1>8 DEF BatchEnds, Owning
    <2>2. sample' \in [at : {-1} \cup 0..MaxUsize, grid : Grid]
        BY <2>1 DEF RInv, RestOfType
    <2> QED BY <2>1, <2>2, KeptStep
<1>9. CASE DropFuture
    <2>1. CASE pc = "pending"
        <3>1. Keeps
            BY <1>9, <2>1 DEF DropFuture, Keeps, Owning, owners, RInv, RestOfType
        <3> QED BY <3>1, KeepStep
    <2>2. CASE pc # "pending"
        <3>1. Unwind(Unadmit \o DropGrid) /\ UNCHANGED <<call, owners, sample>>
            BY <1>9, <2>2 DEF DropFuture
        <3>2. call' \in {"double_grid", "advance", "advance_async", "observe", "drop"}
            BY <3>1 DEF RInv, RestOfType
        <3> QED BY <1>1, <3>1, <3>2, GivesUpAll, ConsumeStep
    <2> QED BY <2>1, <2>2
<1>10. CASE Observe
    <2>1. CASE Keeps
        BY <2>1, KeepStep
    <2>2. CASE ~Keeps
        <3>1. /\ pc = "ready" /\ call' = "observe" /\ Unwind(DropBindings \o Rest)
              /\ UNCHANGED <<owners, sample>>
            BY <1>10, <2>2 DEF Observe, Keeps, Owning, owners, RInv, RestOfType
        <3> QED BY <1>1, <3>1, GivesUpAll, ConsumeStep
    <2> QED BY <2>1, <2>2
<1>11. CASE ObserveBind
    <2>1. CASE Keeps
        BY <2>1, KeepStep
    <2>2. CASE ~Keeps
        <3>1. Unwind(Unadmit \o DropBindings \o Rest) /\ UNCHANGED <<call, owners, sample>>
            BY <1>11, <2>2 DEF ObserveBind, Keeps, Owning, owners, RInv, RestOfType
        <3>2. call' \in {"double_grid", "advance", "advance_async", "observe", "drop"}
            BY <3>1 DEF RInv, RestOfType
        <3> QED BY <1>1, <3>1, <3>2, GivesUpAll, ConsumeStep
    <2> QED BY <2>1, <2>2
<1>12. CASE Observed
    <2>1. CASE ok
        <3>1. /\ pc \in Owning /\ pc' = "returning" /\ drops' = Unadmit
              /\ UNCHANGED <<call, ok, owners>>
              /\ sample' = [at |-> completed, grid |-> mem[current]]
            BY <1>12, <2>1 DEF Observed, Owning
        <3>2. sample' \in [at : {-1} \cup 0..MaxUsize, grid : Grid]
            BY <1>1, <3>1
        <3> QED BY <3>1, <3>2, KeptStep
    <2>2. CASE ~ok
        <3>1. /\ Unwind(<<<<"free", current>>>> \o Unadmit
                            \o <<<<"uncharge", current>>>> \o Rest)
              /\ UNCHANGED <<call, owners, sample>>
            BY <1>12, <2>2 DEF Observed
        <3>2. call' \in {"double_grid", "advance", "advance_async", "observe", "drop"}
            BY <3>1 DEF RInv, RestOfType
        <3> QED BY <1>1, <3>1, <3>2, GivesUpAll, ConsumeStep
    <2> QED BY <2>1, <2>2
<1>13. CASE Device \/ UNCHANGED vars
    <2>1. UNCHANGED <<pc, call, ok, stored, charged, admitted, drops, sample>>
        BY <1>13 DEF Device, KernelEnds, BlockLoad, BlockStore, owners, vars
    <2> QED BY <2>1 DEF RInv, RestOfType, BuildInv, OwnerInv, DropsInv, Owning, Runs
<1> QED BY <1>2, <1>3, <1>4, <1>5, <1>6, <1>7, <1>8, <1>9, <1>10, <1>11, <1>12, <1>13
    DEF Next, Host, Caller

LEMMA ResourceInvariance == Spec => [](IInv /\ RInv)
<1>1. IInv /\ RInv /\ [Next]_vars => RInv'
    BY NextRInv
<1> QED BY <1>1, InitRInv, Invariance, PTL DEF Spec

(* The variables of a double grid keep their types.                        *)
THEOREM DoubleGridType == Spec => []TypeOK
<1>1. IInv /\ RInv => TypeOK
    BY DEF IInv, Types, Both, RInv, RestOfType, Destructor, TypeOK
<1> QED BY <1>1, ResourceInvariance, PTL

(* No buffer is freed while the kernel may touch it, whatever becomes of   *)
(* the call or the future that submitted it.                               *)
THEOREM DoubleGridNoUseAfterFree == Spec => []NoUseAfterFree
<1>1. IInv /\ RInv => NoUseAfterFree
    BY DEF IInv, KernelInv, RInv, OwnerInv, Owning, NoUseAfterFree
<1> QED BY <1>1, ResourceInvariance, PTL

(* An owner that is handed back is idle and whole, and not charged for an  *)
(* operation.                                                              *)
THEOREM DoubleGridReadyIsWhole == Spec => []ReadyIsWhole
<1>1. IInv /\ RInv => ReadyIsWhole
    BY DEF IInv, Types, KernelInv, RInv, OwnerInv, Owning, ReadyIsWhole
<1> QED BY <1>1, ResourceInvariance, PTL

(* An owner that is consumed, by whichever error, releases every           *)
(* allocation and charge.                                                  *)
THEOREM DoubleGridReleasesAll == Spec => []GoneReleasesAll
<1>1. IInv /\ RInv => GoneReleasesAll
    BY DEF RInv, DropsInv, GoneReleasesAll
<1> QED BY <1>1, ResourceInvariance, PTL
=============================================================================
