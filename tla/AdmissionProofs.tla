-------------------------- MODULE AdmissionProofs ---------------------------
(***************************************************************************)
(* Accounting and WithinLimits hold of every execution of Admission, for   *)
(* every set of guards and every limits.                                   *)
(***************************************************************************)
EXTENDS Admission, FiniteSetTheorems, TLAPS

USE DEF Usize

(* The bytes charged to one guard are as many as its charge says.          *)
LEMMA ChargeSize ==
    ASSUME NEW g, NEW n \in Nat
    PROVE  /\ IsFiniteSet({g} \X (1..n))
           /\ Cardinality({g} \X (1..n)) = n
<1>1. IsFiniteSet({g}) /\ Cardinality({g}) = 1
    BY FS_Singleton
<1>2. IsFiniteSet(1..n) /\ Cardinality(1..n) = n
    <2>1. 1 \in Int /\ n \in Int
        OBVIOUS
    <2>2. /\ IsFiniteSet(1..n)
          /\ Cardinality(1..n) = IF 1 > n THEN 0 ELSE n - 1 + 1
        BY <2>1, FS_Interval
    <2> QED
        BY <2>2
<1>3. /\ IsFiniteSet({g} \X (1..n))
      /\ Cardinality({g} \X (1..n)) = Cardinality({g}) * Cardinality(1..n)
    BY <1>1, <1>2, FS_Product, ZenonT(30)
<1>4. 1 * n = n
    OBVIOUS
<1> QED
    BY <1>1, <1>2, <1>3, <1>4

(* The counters agree with the guards, the guards are finitely many, and   *)
(* the counters respect the limits: the last is what a new request is      *)
(* checked against, the first carries it over to the guards themselves.    *)
Inv ==
    /\ TypeOK
    /\ IsFiniteSet(Charged)
    /\ IsFiniteSet(BufferGuards)
    /\ IsFiniteSet(OperationGuards)
    /\ Accounting
    /\ usage.bytes <= TotalBytes
    /\ usage.buffers <= Buffers
    /\ usage.operations <= Operations
    /\ \A g \in BufferGuards : guard[g].bytes <= BufferBytes

LEMMA InitInv == Init => Inv
<1> SUFFICES ASSUME Init PROVE Inv
    OBVIOUS
<1>1. BufferGuards = {} /\ OperationGuards = {} /\ Charged = {}
    BY DEF Init, BufferGuards, OperationGuards, Outstanding, Charged, Absent
<1>2. TypeOK
    BY LimitsAssumption DEF Init, TypeOK, Usage, NoUsage, Reservation, Absent
<1>3. /\ IsFiniteSet({}) /\ Cardinality({}) = 0
    BY FS_EmptySet
<1> QED
    BY <1>1, <1>2, <1>3, LimitsAssumption DEF Inv, Accounting, Init, NoUsage

(* A successful Budget::buffer keeps the invariant.                        *)
LEMMA BufferInv ==
    ASSUME Inv, NEW g \in Guard, NEW bytes \in Request, Buffer(g, bytes)
    PROVE  Inv'
<1> DEFINE new == [state |-> "held", buffer |-> TRUE, bytes |-> bytes]
<1>1. /\ bytes \in Usize /\ bytes \in Nat
      /\ usage.bytes + bytes <= TotalBytes /\ bytes <= BufferBytes
      /\ usage.buffers < Buffers
      /\ guard[g].state = "absent"
    BY RequestAssumption DEF Buffer, AdmitsBuffer
<1>2. /\ guard' = [guard EXCEPT ![g] = new]
      /\ usage' = [usage EXCEPT !.bytes = @ + bytes, !.buffers = @ + 1]
    BY DEF Buffer, ChargeBuffer
<1>3. TypeOK'
    <2>1. new \in Reservation
        BY <1>1 DEF Reservation
    <2>2. guard' \in [Guard -> Reservation]
        BY <1>2, <2>1 DEF Inv, TypeOK
    <2>3. usage.bytes + bytes \in Usize /\ usage.buffers + 1 \in Usize
        BY <1>1, LimitsAssumption DEF Inv, TypeOK, Usage
    <2>4. usage' \in Usage
        BY <1>2, <2>3 DEF Inv, TypeOK, Usage
    <2> QED
        BY <2>2, <2>4 DEF TypeOK
<1>4. g \notin BufferGuards
    BY <1>1 DEF BufferGuards, Outstanding
<1>5. BufferGuards' = BufferGuards \cup {g}
    BY <1>2 DEF Inv, TypeOK, BufferGuards, Outstanding
<1>6. OperationGuards' = OperationGuards
    BY <1>1, <1>2 DEF Inv, TypeOK, OperationGuards, Outstanding
<1>7. Charged' = Charged \cup ({g} \X (1..bytes))
    <2>1. \A h \in BufferGuards : guard'[h] = guard[h]
        BY <1>2, <1>4 DEF Inv, TypeOK, BufferGuards, Outstanding
    <2>2. guard'[g].bytes = bytes
        BY <1>2 DEF Inv, TypeOK
    <2>3. 1..bytes \subseteq 1..MaxUsize
        BY <1>1, LimitsAssumption
    <2> QED
        BY <1>1, <1>5, <2>1, <2>2, <2>3, LimitsAssumption DEF Charged
<1>8. Charged \cap ({g} \X (1..bytes)) = {}
    BY <1>4 DEF Charged
<1>9. /\ IsFiniteSet(Charged') /\ Cardinality(Charged') = usage.bytes + bytes
    <2>1. /\ IsFiniteSet({g} \X (1..bytes))
          /\ Cardinality({g} \X (1..bytes)) = bytes
        BY <1>1, ChargeSize
    <2>2. /\ IsFiniteSet(Charged')
          /\ Cardinality(Charged') = Cardinality(Charged) + bytes
                - Cardinality(Charged \cap ({g} \X (1..bytes)))
        BY <1>7, <2>1, FS_Union DEF Inv
    <2>3. Cardinality(Charged \cap ({g} \X (1..bytes))) = 0
        BY <1>8, FS_EmptySet
    <2>4. usage.bytes \in Int /\ usage.bytes = Cardinality(Charged)
        BY LimitsAssumption DEF Inv, Accounting, TypeOK, Usage
    <2> QED
        BY <1>1, <2>2, <2>3, <2>4
<1>10. /\ IsFiniteSet(BufferGuards')
       /\ Cardinality(BufferGuards') = usage.buffers + 1
    BY <1>4, <1>5, FS_AddElement DEF Inv, Accounting
<1>11. Accounting'
    BY <1>2, <1>6, <1>9, <1>10 DEF Inv, Accounting, TypeOK, Usage
<1>12. \A h \in BufferGuards' : guard'[h].bytes <= BufferBytes
    BY <1>1, <1>2, <1>5 DEF Inv, TypeOK, BufferGuards, Outstanding
<1>13. /\ usage'.bytes <= TotalBytes /\ usage'.buffers <= Buffers
       /\ usage'.operations <= Operations
    BY <1>1, <1>2, LimitsAssumption DEF Inv, TypeOK, Usage
<1> QED
    BY <1>3, <1>6, <1>9, <1>10, <1>11, <1>12, <1>13 DEF Inv

(* A successful Budget::operation keeps the invariant.                     *)
LEMMA OperationInv ==
    ASSUME Inv, NEW g \in Guard, Operation(g)
    PROVE  Inv'
<1> DEFINE new == [state |-> "held", buffer |-> FALSE, bytes |-> 0]
<1>1. usage.operations < Operations /\ guard[g].state = "absent"
    BY DEF Operation, AdmitsOperation
<1>2. /\ guard' = [guard EXCEPT ![g] = new]
      /\ usage' = [usage EXCEPT !.operations = @ + 1]
    BY DEF Operation, ChargeOperation
<1>3. TypeOK'
    BY <1>1, <1>2, LimitsAssumption DEF Inv, TypeOK, Usage, Reservation
<1>4. g \notin OperationGuards /\ g \notin BufferGuards
    BY <1>1 DEF OperationGuards, BufferGuards, Outstanding
<1>5. BufferGuards' = BufferGuards
    BY <1>1, <1>2 DEF Inv, TypeOK, BufferGuards, Outstanding
<1>6. OperationGuards' = OperationGuards \cup {g}
    BY <1>2 DEF Inv, TypeOK, OperationGuards, Outstanding
<1>7. \A h \in BufferGuards : guard'[h] = guard[h]
    BY <1>2, <1>4 DEF Inv, TypeOK, BufferGuards, Outstanding
<1>8. Charged' = Charged
    BY <1>5, <1>7 DEF Charged
<1>9. /\ IsFiniteSet(OperationGuards')
      /\ Cardinality(OperationGuards') = usage.operations + 1
    BY <1>4, <1>6, FS_AddElement DEF Inv, Accounting
<1>10. Accounting'
    BY <1>2, <1>5, <1>8, <1>9 DEF Inv, Accounting, TypeOK, Usage
<1>11. \A h \in BufferGuards' : guard'[h].bytes <= BufferBytes
    BY <1>5, <1>7 DEF Inv
<1>12. /\ usage'.bytes <= TotalBytes /\ usage'.buffers <= Buffers
       /\ usage'.operations <= Operations
    BY <1>1, <1>2, LimitsAssumption DEF Inv, TypeOK, Usage
<1> QED
    BY <1>3, <1>5, <1>8, <1>9, <1>10, <1>11, <1>12 DEF Inv

(* Dropping a buffer reservation keeps the invariant: its charge is part   *)
(* of the sum, so the subtraction does not wrap.                           *)
LEMMA DropBufferInv ==
    ASSUME Inv, NEW g \in Guard, Drop(g), guard[g].buffer
    PROVE  Inv'
<1> DEFINE bytes == guard[g].bytes
           mine == {g} \X (1..bytes)
<1>1. guard[g] \in Reservation /\ bytes \in Usize /\ g \in BufferGuards
    BY DEF Inv, TypeOK, Drop, BufferGuards, Outstanding, Reservation
<1>2. /\ guard' = [guard EXCEPT ![g] = Absent]
      /\ usage' = ReleaseBuffer(usage, bytes)
    BY DEF Drop
<1>3. BufferGuards' = BufferGuards \ {g}
    BY <1>2 DEF Inv, TypeOK, BufferGuards, Outstanding, Absent
<1>4. OperationGuards' = OperationGuards
    BY <1>2 DEF Inv, TypeOK, OperationGuards, Outstanding, Absent
<1>5. \A h \in BufferGuards' : guard'[h] = guard[h]
    BY <1>2, <1>3 DEF Inv, TypeOK, BufferGuards, Outstanding
<1>6. Charged' = Charged \ mine
    BY <1>1, <1>3, <1>5, LimitsAssumption DEF Charged
<1>7. Charged \cap mine = mine
    BY <1>1, LimitsAssumption DEF Charged
<1>8. IsFiniteSet(mine) /\ Cardinality(mine) = bytes
    <2>1. bytes \in Nat
        BY <1>1, LimitsAssumption
    <2> HIDE DEF bytes
    <2> QED
        BY <2>1, ChargeSize
<1>9. /\ IsFiniteSet(Charged')
      /\ Cardinality(Charged') = usage.bytes - bytes
    <2> HIDE DEF mine
    <2>1. /\ IsFiniteSet(Charged \ mine)
          /\ Cardinality(Charged \ mine)
                = Cardinality(Charged) - Cardinality(Charged \cap mine)
        BY FS_Difference DEF Inv
    <2> QED
        BY <1>6, <1>7, <1>8, <2>1 DEF Inv, Accounting
<1>10. Cardinality(Charged') \in Nat
    BY <1>9, FS_CardinalityType
<1>11. /\ IsFiniteSet(BufferGuards')
       /\ Cardinality(BufferGuards') = usage.buffers - 1
    BY <1>1, <1>3, FS_RemoveElement DEF Inv, Accounting
<1>12. Cardinality(BufferGuards') \in Nat
    BY <1>11, FS_CardinalityType
<1>13. /\ usage.bytes - bytes \in Usize
       /\ usage.buffers - 1 \in Usize
    BY <1>1, <1>9, <1>10, <1>11, <1>12, LimitsAssumption
       DEF Inv, TypeOK, Usage
<1>14. /\ (usage.bytes - bytes) % (MaxUsize + 1) = usage.bytes - bytes
       /\ (usage.buffers - 1) % (MaxUsize + 1) = usage.buffers - 1
    BY <1>13, LimitsAssumption
<1>15. usage' = [usage EXCEPT !.bytes = usage.bytes - bytes,
                              !.buffers = usage.buffers - 1]
    BY <1>2, <1>14 DEF ReleaseBuffer
<1>16. TypeOK'
    <2>1. usage' \in Usage
        BY <1>13, <1>15 DEF Inv, TypeOK, Usage
    <2>2. Absent \in Reservation
        BY LimitsAssumption DEF Absent, Reservation
    <2>3. guard' \in [Guard -> Reservation]
        BY <1>2, <2>2 DEF Inv, TypeOK
    <2> QED
        BY <2>1, <2>3 DEF TypeOK
<1>17. Accounting'
    BY <1>4, <1>9, <1>11, <1>15 DEF Inv, Accounting, TypeOK, Usage
<1>18. /\ usage'.bytes <= TotalBytes /\ usage'.buffers <= Buffers
       /\ usage'.operations <= Operations
    BY <1>1, <1>13, <1>15, LimitsAssumption DEF Inv, TypeOK, Usage
<1>19. \A h \in BufferGuards' : guard'[h].bytes <= BufferBytes
    BY <1>3, <1>5 DEF Inv
<1> QED
    BY <1>4, <1>9, <1>11, <1>16, <1>17, <1>18, <1>19 DEF Inv

(* Dropping an operation reservation keeps the invariant.                  *)
LEMMA DropOperationInv ==
    ASSUME Inv, NEW g \in Guard, Drop(g), ~guard[g].buffer
    PROVE  Inv'
<1>1. g \in OperationGuards /\ g \notin BufferGuards
    BY DEF Inv, TypeOK, Drop, OperationGuards, BufferGuards, Outstanding
<1>2. /\ guard' = [guard EXCEPT ![g] = Absent]
      /\ usage' = ReleaseOperation(usage)
    BY DEF Drop
<1>3. BufferGuards' = BufferGuards
    BY <1>1, <1>2 DEF Inv, TypeOK, BufferGuards, Outstanding, Absent
<1>4. OperationGuards' = OperationGuards \ {g}
    BY <1>2 DEF Inv, TypeOK, OperationGuards, Outstanding, Absent
<1>5. \A h \in BufferGuards : guard'[h] = guard[h]
    BY <1>1, <1>2 DEF Inv, TypeOK, BufferGuards, Outstanding
<1>6. Charged' = Charged
    BY <1>3, <1>5 DEF Charged
<1>7. /\ IsFiniteSet(OperationGuards')
      /\ Cardinality(OperationGuards') = usage.operations - 1
    BY <1>1, <1>4, FS_RemoveElement DEF Inv, Accounting
<1>8. Cardinality(OperationGuards') \in Nat
    BY <1>7, FS_CardinalityType
<1>9. usage.operations - 1 \in Usize
    BY <1>7, <1>8, LimitsAssumption DEF Inv, TypeOK, Usage
<1>10. (usage.operations - 1) % (MaxUsize + 1) = usage.operations - 1
    BY <1>9, LimitsAssumption
<1>11. usage' = [usage EXCEPT !.operations = usage.operations - 1]
    BY <1>2, <1>10 DEF ReleaseOperation
<1>12. TypeOK'
    <2>1. usage' \in Usage
        BY <1>9, <1>11 DEF Inv, TypeOK, Usage
    <2>2. Absent \in Reservation
        BY LimitsAssumption DEF Absent, Reservation
    <2>3. guard' \in [Guard -> Reservation]
        BY <1>2, <2>2 DEF Inv, TypeOK
    <2> QED
        BY <2>1, <2>3 DEF TypeOK
<1>13. Accounting'
    BY <1>3, <1>6, <1>7, <1>11 DEF Inv, Accounting, TypeOK, Usage
<1>14. /\ usage'.bytes <= TotalBytes /\ usage'.buffers <= Buffers
       /\ usage'.operations <= Operations
    BY <1>9, <1>11, LimitsAssumption DEF Inv, TypeOK, Usage
<1>15. \A h \in BufferGuards' : guard'[h].bytes <= BufferBytes
    BY <1>3, <1>5 DEF Inv
<1> QED
    BY <1>3, <1>6, <1>7, <1>12, <1>13, <1>14, <1>15 DEF Inv

(* Forgetting guards changes no charge.                                    *)
LEMMA ForgetInv ==
    ASSUME Inv, NEW gs \in SUBSET Guard, Forget(gs)
    PROVE  Inv'
<1>1. /\ guard' = [g \in Guard |-> IF g \in gs
                       THEN [guard[g] EXCEPT !.state = "forgotten"] ELSE guard[g]]
      /\ usage' = usage
      /\ \A g \in gs : guard[g].state = "held"
    BY DEF Forget
<1>2. TypeOK'
    <2>1. \A g \in Guard :
              [guard[g] EXCEPT !.state = "forgotten"] \in Reservation
        BY DEF Inv, TypeOK, Reservation
    <2>2. guard' \in [Guard -> Reservation]
        BY <1>1, <2>1 DEF Inv, TypeOK
    <2> QED
        BY <1>1, <2>2 DEF Inv, TypeOK
<1>3. \A h \in Guard : /\ guard'[h].bytes = guard[h].bytes
                       /\ guard'[h].buffer = guard[h].buffer
                       /\ (guard'[h].state = "absent") <=> (guard[h].state = "absent")
    BY <1>1 DEF Inv, TypeOK, Reservation
<1>4. BufferGuards' = BufferGuards /\ OperationGuards' = OperationGuards
    BY <1>3 DEF BufferGuards, OperationGuards, Outstanding
<1>5. Charged' = Charged
    BY <1>3, <1>4 DEF Charged, BufferGuards, Outstanding
<1>6. \A h \in BufferGuards' : guard'[h].bytes <= BufferBytes
    BY <1>3, <1>4 DEF Inv, BufferGuards, Outstanding
<1> QED
    BY <1>1, <1>2, <1>4, <1>5, <1>6 DEF Inv, Accounting

LEMMA NextInv == Inv /\ [Next]_vars => Inv'
<1> SUFFICES ASSUME Inv, [Next]_vars PROVE Inv'
    OBVIOUS
<1>1. CASE UNCHANGED vars
    BY <1>1 DEF vars, Inv, TypeOK, Accounting, Charged, BufferGuards,
                OperationGuards, Outstanding
<1>2. ASSUME NEW g \in Guard, NEW bytes \in Request, Buffer(g, bytes)
      PROVE  Inv'
    BY <1>2, BufferInv
<1>3. ASSUME NEW g \in Guard, Operation(g) PROVE Inv'
    BY <1>3, OperationInv
<1>4. ASSUME NEW g \in Guard, Drop(g) PROVE Inv'
    BY <1>4, DropBufferInv, DropOperationInv
<1>5. ASSUME NEW gs \in SUBSET Guard, Forget(gs) PROVE Inv'
    BY <1>5, ForgetInv
<1> QED
    BY <1>1, <1>2, <1>3, <1>4, <1>5 DEF Next

LEMMA InvImplies == Inv => TypeOK /\ Accounting /\ WithinLimits
    BY DEF Inv, Accounting, WithinLimits

(* However reservations are taken, dropped and forgotten, the counters     *)
(* equal the outstanding charges, for every set of guards and limits: no   *)
(* release is lost, doubled or wraps (Budget::buffer, ::operation, Drop).  *)
THEOREM AdmissionAccounting == Spec => []Accounting
<1>1. Spec => []Inv
    BY InitInv, NextInv, PTL DEF Spec
<1> QED
    BY <1>1, InvImplies, PTL

(* The guards that exist together never exceed the session's limits.       *)
THEOREM AdmissionWithinLimits == Spec => []WithinLimits
<1>1. Spec => []Inv
    BY InitInv, NextInv, PTL DEF Spec
<1> QED
    BY <1>1, InvImplies, PTL

(* Usage and every guard keep their types, so no counter leaves usize.     *)
THEOREM AdmissionType == Spec => []TypeOK
<1>1. Spec => []Inv
    BY InitInv, NextInv, PTL DEF Spec
<1> QED
    BY <1>1, InvImplies, PTL

-----------------------------------------------------------------------------
(* The three buffers of a step, one after the other, in a session that     *)
(* holds nothing.                                                          *)
AdmitsStep(h, w) ==
    LET source == ChargeBuffer(NoUsage, HaloedBytes(h, w))
        both == ChargeBuffer(source, InteriorBytes(h, w))
    IN /\ AdmitsBuffer(NoUsage, HaloedBytes(h, w))
       /\ AdmitsBuffer(source, InteriorBytes(h, w))
       /\ AdmitsBuffer(both, InteriorBytes(h, w))

LEMMA HaloIsLarger ==
    ASSUME NEW h \in Nat, NEW w \in Nat
    PROVE  /\ HaloedBytes(h, w) \in Nat /\ InteriorBytes(h, w) \in Nat
           /\ InteriorBytes(h, w) <= HaloedBytes(h, w)
<1>1. h * w \in Nat
    OBVIOUS
<1>2. (h + 2) * (w + 2) = h * w + 2 * h + 2 * w + 4
    OBVIOUS
<1> QED
    BY <1>1, <1>2 DEF HaloedBytes, InteriorBytes

(* ResourceLimits::check_shape accepts a shape exactly if an idle session  *)
(* admits the source and the two fields of a step: the check that is made  *)
(* before host input is allocated neither promises too much nor refuses    *)
(* what Budget::buffer would grant.                                        *)
THEOREM CheckShapeIsAdmission ==
    ASSUME NEW h \in Nat, NEW w \in Nat
    PROVE  CheckShape(h, w) <=> AdmitsStep(h, w)
<1> DEFINE H == HaloedBytes(h, w)
           I == InteriorBytes(h, w)
<1>1. H \in Nat /\ I \in Nat /\ I <= H
    BY HaloIsLarger
<1>2. CheckShape(h, w) <=>
          H <= BufferBytes /\ 2 * I + H <= TotalBytes /\ 3 <= Buffers
    BY <1>1, LimitsAssumption DEF CheckShape
<1>3. AdmitsStep(h, w) <=>
          /\ H <= BufferBytes /\ H <= TotalBytes /\ 0 < Buffers
          /\ I <= BufferBytes /\ H + I <= TotalBytes /\ 1 < Buffers
          /\ H + I + I <= TotalBytes /\ 2 < Buffers
    BY <1>1, LimitsAssumption
    DEF AdmitsStep, AdmitsBuffer, ChargeBuffer, NoUsage
<1> HIDE DEF H, I
<1> QED
    BY <1>1, <1>2, <1>3, LimitsAssumption
=============================================================================
