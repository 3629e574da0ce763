---------------------------- MODULE BillingProof -----------------------------
(***************************************************************************)
(* Theorems about Billing: for any calls, instances and dumping goroutines *)
(* and any number of failed dumps.                                         *)
(*                                                                         *)
(* BilledOnce needs MapInv: the entry of an instance is never replaced, so *)
(* that a call adds to the billingInfo the dumps swap, and a billingInfo   *)
(* is that of one instance.  It needs TakenInv, too: a dump has swapped    *)
(* out nothing that it would overwrite.  MapIsGuarded needs LockInv: the   *)
(* lock is held where the map is used.                                     *)
(***************************************************************************)
EXTENDS Billing, FiniteSetTheorems, TLAPS

(* Who looks into the map is a reader, and who writes it the writer. *)
LockInv ==
  /\ writer # None => readers = {}
  /\ waiting # None => writer = None /\ pc[waiting] = "lock"
  /\ \A c \in Calls : pc[c] = "look" => c \in readers
  /\ \A c \in Calls : pc[c] = "relook" => writer = c
  /\ \A d \in Dumpers : dpc[d] # "idle" => d \in readers

(* Which billingInfo the calls use. *)
MapInv ==
  /\ \A i \in Instances : internalMap[i] # None => InstanceOf[internalMap[i]] = i
  /\ \A c \in Calls : pc[c] \in {"count", "bytes"} =>
       ptr[c] # None /\ ptr[c] = internalMap[InstanceOf[c]]
  /\ \A b \in Calls : internalMap[InstanceOf[b]] # b => info[b] = Zero

(* What a dump visits is in the map, and what it has taken is of there. *)
TakenInv ==
  \A d \in Dumpers :
    /\ todo[d] \subseteq Keys
    /\ dpc[d] \in {"idle", "loop"} => cur[d] = None
    /\ dpc[d] \in {"count", "bytes", "set"} => cur[d] \in Keys
    /\ dpc[d] # "set" => taken[d]["bytes"] = 0
    /\ dpc[d] \notin {"bytes", "set"} => taken[d]["count"] = 0

IInv == TypeOK /\ LockInv /\ MapInv /\ TakenInv /\ BilledOnce

-----------------------------------------------------------------------------
(* What is under way. *)

Carried(i, f) == UNION {Units(d, f) : d \in {e \in Dumpers : cur[e] = i}}
(* The part of one dumper. *)
Own(d, i, f) == IF cur[d] = i THEN Units(d, f) ELSE {}

LEMMA PairsCount ==
  ASSUME NEW d, NEW n \in Nat
  PROVE  IsFiniteSet({d} \X (1..n)) /\ Cardinality({d} \X (1..n)) = n
<1>1. IsFiniteSet({d}) /\ Cardinality({d}) = 1
  BY FS_Singleton
<1>2. 1 \in Int /\ n \in Int
  OBVIOUS
<1>3. IsFiniteSet(1..n) /\ Cardinality(1..n) = IF 1 > n THEN 0 ELSE n - 1 + 1
  BY <1>2, FS_Interval, Zenon
<1>4. Cardinality(1..n) = n
  <2> DEFINE k == Cardinality(1..n)
  <2>1. k = IF 1 > n THEN 0 ELSE n - 1 + 1
    BY <1>3
  <2> HIDE DEF k
  <2>2. k = n
    BY <2>1
  <2> QED
    BY <2>2 DEF k
<1>5. /\ IsFiniteSet({d} \X (1..n))
      /\ Cardinality({d} \X (1..n)) = Cardinality({d}) * Cardinality(1..n)
  BY <1>1, <1>3, FS_Product, Zenon
<1> QED
  BY <1>1, <1>4, <1>5

LEMMA UnitsCount ==
  ASSUME TypeOK, NEW d \in Dumpers, NEW f \in Fields
  PROVE  /\ IsFiniteSet(Units(d, f)) /\ Cardinality(Units(d, f)) = taken[d][f]
         /\ taken[d][f] \in Nat
<1>1. taken[d][f] \in Nat
  BY DEF TypeOK, Counters
<1> QED
  BY <1>1, PairsCount DEF Units

LEMMA CarriedFinite ==
  ASSUME TypeOK, NEW i, NEW f \in Fields
  PROVE  IsFiniteSet(Carried(i, f)) /\ Cardinality(Carried(i, f)) \in Nat
<1> DEFINE D == {e \in Dumpers : cur[e] = i}
           U == {Units(d, f) : d \in D}
           g == [d \in D |-> Units(d, f)]
<1>1. IsFiniteSet(D)
  BY BillingAssumption, FS_Subset
<1>2. g \in Surjection(D, U)
  BY DEF Surjection
<1>3. IsFiniteSet(U)
  BY <1>1, <1>2, FS_Surjection
<1>4. \A T \in U : IsFiniteSet(T)
  BY UnitsCount
<1> QED
  BY <1>3, <1>4, FS_UNION, FS_CardinalityType DEF Carried

(* One of two disjoint parts of a set is replaced. *)
LEMMA PartReplaced ==
  ASSUME NEW R, NEW A, NEW B, IsFiniteSet(R), IsFiniteSet(A), IsFiniteSet(B),
         R \cap A = {}, R \cap B = {}
  PROVE  Cardinality(R \cup B) + Cardinality(A) = Cardinality(R \cup A) + Cardinality(B)
<1>1. /\ Cardinality(R) \in Nat /\ Cardinality(A) \in Nat /\ Cardinality(B) \in Nat
      /\ Cardinality({}) = 0
  BY FS_CardinalityType, FS_EmptySet
<1>2. Cardinality(R \cup A)
        = Cardinality(R) + Cardinality(A) - Cardinality(R \cap A)
  BY FS_Union, Zenon
<1>3. Cardinality(R \cup B)
        = Cardinality(R) + Cardinality(B) - Cardinality(R \cap B)
  BY FS_Union, Zenon
<1>4. Cardinality(R \cap A) = 0 /\ Cardinality(R \cap B) = 0
  BY <1>1, Zenon
<1> QED
  BY <1>1, <1>2, <1>3, <1>4

(* A step of dumper d changes what is under way by what d takes or sends. *)
LEMMA TransitChange ==
  ASSUME TypeOK, TypeOK', NEW d \in Dumpers, NEW i, NEW f \in Fields,
         \A e \in Dumpers \ {d} : cur'[e] = cur[e] /\ taken'[e] = taken[e]
  PROVE  /\ InTransit(i, f)' + Cardinality(Own(d, i, f))
              = InTransit(i, f) + Cardinality(Own(d, i, f)')
         /\ InTransit(i, f) \in Nat /\ InTransit(i, f)' \in Nat
<1> DEFINE R == UNION {Units(e, f) : e \in {e \in Dumpers \ {d} : cur[e] = i}}
           A == Own(d, i, f)
           B == Own(d, i, f)'
<1>1. Carried(i, f) = R \cup A
  BY DEF Carried, Own
<1>2. Carried(i, f)' = R \cup B
  BY DEF Carried, Own, Units
<1>3. R \cap A = {} /\ R \cap B = {}
  BY DEF Units, Own
<1>4. IsFiniteSet(A) /\ IsFiniteSet(B)
  <2>1. IsFiniteSet(Units(d, f)) /\ IsFiniteSet(Units(d, f)')
    <3>1. taken'[d][f] \in Nat
      BY DEF TypeOK, Counters
    <3> QED
      BY <3>1, UnitsCount, PairsCount DEF Units
  <2> QED
    BY <2>1, FS_EmptySet DEF Own
<1>5. IsFiniteSet(Carried(i, f)) /\ Cardinality(Carried(i, f)) \in Nat
  BY CarriedFinite
<1>6. IsFiniteSet(R)
  <2>1. R \in SUBSET Carried(i, f)
    BY <1>1
  <2> QED
    BY <1>5, <2>1, FS_Subset
<1>7. Cardinality(R \cup B) \in Nat
  BY <1>4, <1>6, FS_Union, FS_CardinalityType
<1> HIDE DEF R, A, B
<1>8. Cardinality(R \cup B) + Cardinality(A) = Cardinality(R \cup A) + Cardinality(B)
  BY <1>3, <1>4, <1>6, PartReplaced
<1> QED
  BY <1>1, <1>2, <1>5, <1>7, <1>8 DEF InTransit, Carried, A, B

(* A call is counted when it gets past its addition. *)
Over(f) == IF f = "count" THEN {"bytes", "unlock", "done"} ELSE {"unlock", "done"}
Makers(i, f) == {c \in Calls : InstanceOf[c] = i /\ pc[c] \in Over(f)}

LEMMA MadeFinite ==
  ASSUME NEW i, NEW f
  PROVE  /\ IsFiniteSet(Makers(i, f)) /\ Cardinality(Makers(i, f)) \in Nat
         /\ Made(i, f) = Cardinality(Makers(i, f))
<1>1. Makers(i, f) \subseteq Calls
  BY DEF Makers
<1>2. Made(i, f) = Cardinality(Makers(i, f))
  BY DEF Made, Makers, Over
<1> QED
  BY <1>1, <1>2, BillingAssumption, FS_Subset, FS_CardinalityType

LEMMA MadeKept ==
  ASSUME NEW i, NEW f, \A c \in Calls : pc'[c] \in Over(f) <=> pc[c] \in Over(f)
  PROVE  Made(i, f)' = Made(i, f)
<1>1. Makers(i, f)' = Makers(i, f)
  BY DEF Makers, Over
<1> QED
  BY <1>1 DEF Made, Makers, Over

(* The parts of the sum are numbers. *)
LEMMA BalanceParts ==
  ASSUME TypeOK, NEW i \in Instances, NEW f \in Fields
  PROVE  /\ Made(i, f) \in Nat /\ Pending(i, f) \in Nat /\ InTransit(i, f) \in Nat
         /\ doc[i][f] \in Nat /\ dropped[i][f] \in Nat
<1>1. doc[i][f] \in Nat /\ dropped[i][f] \in Nat
  BY DEF TypeOK, Counters
<1>2. Pending(i, f) \in Nat
  <2>1. internalMap[i] # None => internalMap[i] \in Calls
    BY DEF TypeOK
  <2>2. \A b \in Calls : info[b][f] \in Nat
    BY DEF TypeOK, Counters
  <2> QED
    BY <2>1, <2>2 DEF Pending
<1>3. InTransit(i, f) \in Nat
  BY CarriedFinite DEF InTransit, Carried
<1> QED
  BY <1>1, <1>2, <1>3, MadeFinite

-----------------------------------------------------------------------------
LEMMA InitInv == Init => IInv
<1> SUFFICES ASSUME Init PROVE IInv
  OBVIOUS
<1>1. Zero \in Counters /\ \A f \in Fields : Zero[f] = 0
  BY DEF Zero, Counters
<1>2. TypeOK
  BY <1>1 DEF Init, TypeOK
<1>3. LockInv /\ MapInv
  BY BillingAssumption DEF Init, LockInv, MapInv
<1>4. TakenInv
  BY <1>1 DEF Init, TakenInv, Fields
<1>5. BilledOnce
  <2> SUFFICES ASSUME NEW i \in Instances, NEW f \in Fields
               PROVE  Made(i, f) = Pending(i, f) + InTransit(i, f)
                                     + doc[i][f] + dropped[i][f]
    BY DEF BilledOnce
  <2>1. Makers(i, f) = {}
    BY DEF Init, Makers, Over
  <2>2. Made(i, f) = 0
    BY <2>1, MadeFinite, FS_EmptySet
  <2>3. Carried(i, f) = {}
    <3>1. {e \in Dumpers : cur[e] = i} = {}
      BY BillingAssumption DEF Init
    <3> QED
      BY <3>1 DEF Carried
  <2>4. InTransit(i, f) = 0
    BY <2>3, FS_EmptySet DEF InTransit, Carried
  <2>5. Pending(i, f) = 0 /\ doc[i][f] = 0 /\ dropped[i][f] = 0
    BY <1>1 DEF Init, Pending
  <2> QED
    BY <2>2, <2>4, <2>5
<1> QED
  BY <1>2, <1>3, <1>4, <1>5 DEF IInv

-----------------------------------------------------------------------------
(* recordBilling.                                                          *)

(* What remains to be shown of a step of a call that writes no counter and *)
(* leaves the map alone. *)
LEMMA CallFrame ==
  ASSUME IInv, TypeOK', LockInv', NEW c \in Calls,
         UNCHANGED <<internalMap, info, dumpVars, docVars>>,
         \A b \in Calls \ {c} : pc'[b] = pc[b] /\ ptr'[b] = ptr[b],
         \A f \in Fields : pc'[c] \in Over(f) <=> pc[c] \in Over(f),
         pc'[c] \in {"count", "bytes"} =>
           ptr'[c] # None /\ ptr'[c] = internalMap[InstanceOf[c]]
  PROVE  IInv'
<1>1. TypeOK /\ MapInv /\ TakenInv /\ BilledOnce
  BY DEF IInv
<1>2. MapInv'
  <2>1. \A b \in Calls : pc'[b] \in {"count", "bytes"} =>
          ptr'[b] # None /\ ptr'[b] = internalMap[InstanceOf[b]]
    BY <1>1 DEF MapInv
  <2> QED
    BY <1>1, <2>1 DEF MapInv
<1>3. TakenInv'
  BY <1>1 DEF TakenInv, Keys, dumpVars
<1>4. BilledOnce'
  <2> SUFFICES ASSUME NEW i \in Instances, NEW f \in Fields
               PROVE  Made(i, f)' = Pending(i, f)' + InTransit(i, f)'
                                      + doc'[i][f] + dropped'[i][f]
    BY DEF BilledOnce
  <2>1. Made(i, f)' = Made(i, f)
    <3>1. \A b \in Calls : pc'[b] \in Over(f) <=> pc[b] \in Over(f)
      OBVIOUS
    <3> QED
      BY <3>1, MadeKept
  <2>2. Pending(i, f)' = Pending(i, f) /\ InTransit(i, f)' = InTransit(i, f)
    BY DEF Pending, InTransit, Units, dumpVars
  <2> QED
    BY <1>1, <2>1, <2>2 DEF BilledOnce, docVars
<1> QED
  BY <1>2, <1>3, <1>4 DEF IInv

LEMMA RecordRLockInv ==
  ASSUME IInv, NEW c \in Calls, RecordRLock(c)
  PROVE  IInv'
<1>0. TypeOK /\ LockInv
  BY DEF IInv
<1>1. /\ pc[c] = "new" /\ writer = None /\ waiting = None
      /\ readers' = readers \cup {c} /\ writer' = None /\ waiting' = None
      /\ pc' = [pc EXCEPT ![c] = "look"]
      /\ UNCHANGED <<internalMap, info, ptr, dumpVars, docVars>>
  BY DEF RecordRLock, RLock, Goto
<1>2. pc'[c] = "look" /\ \A b \in Calls \ {c} : pc'[b] = pc[b]
  BY <1>0, <1>1 DEF TypeOK
<1>3. TypeOK'
  BY <1>0, <1>1 DEF TypeOK, Goroutines, dumpVars, docVars
<1>4. LockInv'
  BY <1>0, <1>1, <1>2 DEF LockInv, dumpVars
<1> QED
  BY <1>1, <1>2, <1>3, <1>4, CallFrame DEF Over

LEMMA RecordLookInv ==
  ASSUME IInv, NEW c \in Calls, RecordLook(c)
  PROVE  IInv'
<1> DEFINE b == internalMap[InstanceOf[c]]
<1>0. TypeOK /\ LockInv
  BY DEF IInv
<1>1. pc[c] = "look" /\ UNCHANGED <<internalMap, info, dumpVars, docVars>>
  BY DEF RecordLook
<1>2. b \in Calls \cup {None}
  BY <1>0, BillingAssumption DEF TypeOK
<1>3. CASE /\ b # None /\ ptr' = [ptr EXCEPT ![c] = b]
           /\ pc' = [pc EXCEPT ![c] = "count"] /\ UNCHANGED lockVars
  <2>1. /\ pc'[c] = "count" /\ \A d \in Calls \ {c} : pc'[d] = pc[d]
        /\ ptr'[c] = b /\ \A d \in Calls \ {c} : ptr'[d] = ptr[d]
    BY <1>0, <1>3 DEF TypeOK
  <2>2. TypeOK'
    BY <1>0, <1>1, <1>2, <1>3 DEF TypeOK, lockVars, dumpVars, docVars
  <2>3. LockInv'
    BY <1>0, <1>1, <1>3, <2>1 DEF LockInv, lockVars, dumpVars, TypeOK
  <2> QED
    BY <1>1, <1>3, <2>1, <2>2, <2>3, CallFrame DEF Over
<1>4. CASE /\ b = None /\ RUnlock(c)
           /\ pc' = [pc EXCEPT ![c] = "lock"] /\ UNCHANGED ptr
  <2>1. pc'[c] = "lock" /\ \A d \in Calls \ {c} : pc'[d] = pc[d]
    BY <1>0, <1>4 DEF TypeOK
  <2>2. readers' = readers \ {c} /\ writer' = writer /\ waiting' = waiting
    BY <1>4 DEF RUnlock
  <2>3. TypeOK'
    BY <1>0, <1>1, <1>4, <2>2 DEF TypeOK, dumpVars, docVars
  <2>4. LockInv'
    BY <1>0, <1>1, <2>1, <2>2, BillingAssumption DEF LockInv, dumpVars, TypeOK
  <2> QED
    BY <1>1, <1>4, <2>1, <2>3, <2>4, CallFrame DEF Over
<1> QED
  BY <1>3, <1>4 DEF RecordLook, Goto

LEMMA RecordWaitInv ==
  ASSUME IInv, NEW c \in Calls, RecordWait(c)
  PROVE  IInv'
<1>0. TypeOK /\ LockInv
  BY DEF IInv
<1>1. /\ pc[c] = "lock" /\ writer = None /\ waiting' = c
      /\ UNCHANGED <<readers, writer, internalMap, info, callVars, dumpVars, docVars>>
  BY DEF RecordWait
<1>2. TypeOK'
  BY <1>0, <1>1 DEF TypeOK, callVars, dumpVars, docVars
<1>3. LockInv'
  BY <1>0, <1>1 DEF LockInv, callVars, dumpVars
<1> QED
  BY <1>1, <1>2, <1>3, CallFrame DEF callVars

LEMMA RecordLockInv ==
  ASSUME IInv, NEW c \in Calls, RecordLock(c)
  PROVE  IInv'
<1>0. TypeOK /\ LockInv
  BY DEF IInv
<1>1. /\ waiting = c /\ readers = {} /\ writer' = c /\ waiting' = None
      /\ pc' = [pc EXCEPT ![c] = "relook"]
      /\ UNCHANGED <<readers, internalMap, info, ptr, dumpVars, docVars>>
  BY DEF RecordLock, Goto
<1>2. pc[c] = "lock" /\ writer = None
  BY <1>0, <1>1, BillingAssumption DEF LockInv
<1>3. pc'[c] = "relook" /\ \A d \in Calls \ {c} : pc'[d] = pc[d]
  BY <1>0, <1>1 DEF TypeOK
<1>4. TypeOK'
  BY <1>0, <1>1 DEF TypeOK, dumpVars, docVars
<1>5. LockInv'
  BY <1>0, <1>1, <1>2, <1>3, BillingAssumption DEF LockInv, dumpVars
<1> QED
  BY <1>1, <1>2, <1>3, <1>4, <1>5, CallFrame DEF Over

LEMMA RecordRelookInv ==
  ASSUME IInv, NEW c \in Calls, RecordRelook(c)
  PROVE  IInv'
<1> DEFINE i == InstanceOf[c]
           b == internalMap[i]
<1>0. TypeOK /\ LockInv /\ MapInv /\ TakenInv /\ BilledOnce
  BY DEF IInv
<1>1. /\ pc[c] = "relook" /\ pc' = [pc EXCEPT ![c] = "count"]
      /\ UNCHANGED <<readers, waiting, info, dumpVars, docVars>>
  BY DEF RecordRelook, Goto
<1>2. /\ i \in Instances /\ internalMap \in [Instances -> Calls \cup {None}]
      /\ writer = c /\ c # None
  BY <1>0, <1>1, BillingAssumption DEF TypeOK, LockInv
<1>3. pc'[c] = "count" /\ \A d \in Calls \ {c} : pc'[d] = pc[d]
  BY <1>0, <1>1 DEF TypeOK
<1>4. CASE /\ b # None /\ ptr' = [ptr EXCEPT ![c] = b]
           /\ UNCHANGED <<internalMap, writer>>
  <2>1. ptr'[c] = b /\ \A d \in Calls \ {c} : ptr'[d] = ptr[d]
    BY <1>0, <1>4 DEF TypeOK
  <2>2. TypeOK'
    BY <1>0, <1>1, <1>2, <1>4 DEF TypeOK, dumpVars, docVars
  <2>3. LockInv'
    BY <1>0, <1>1, <1>2, <1>3, <1>4 DEF LockInv, dumpVars, TypeOK
  <2> QED
    BY <1>1, <1>3, <1>4, <2>1, <2>2, <2>3, CallFrame DEF Over
<1>5. CASE /\ b = None /\ ptr' = [ptr EXCEPT ![c] = c]
           /\ internalMap' = [internalMap EXCEPT ![i] = c] /\ writer' = None
  <2>1. ptr'[c] = c /\ \A d \in Calls \ {c} : ptr'[d] = ptr[d]
    BY <1>0, <1>5 DEF TypeOK
  <2>2. /\ internalMap' \in [Instances -> Calls \cup {None}]
        /\ internalMap'[i] = c
        /\ \A j \in Instances \ {i} : internalMap'[j] = internalMap[j]
    BY <1>2, <1>5
  <2>3. TypeOK'
    BY <1>0, <1>1, <1>5, <2>2 DEF TypeOK, dumpVars, docVars
  <2>4. LockInv'
    BY <1>0, <1>1, <1>2, <1>3, <1>5 DEF LockInv, dumpVars, TypeOK
  <2>5. \A d \in Calls \ {c} : pc[d] \in {"count", "bytes"} => InstanceOf[d] # i
    BY <1>0, <1>5 DEF MapInv
  <2>6. info[c] = Zero
    BY <1>0, <1>2, <1>5 DEF MapInv
  <2>7. MapInv'
    <3>1. \A j \in Instances : internalMap'[j] # None => InstanceOf[internalMap'[j]] = j
      BY <1>0, <2>2 DEF MapInv
    <3>2. \A d \in Calls : pc'[d] \in {"count", "bytes"} =>
            ptr'[d] # None /\ ptr'[d] = internalMap'[InstanceOf[d]]
      BY <1>0, <1>2, <1>3, <2>1, <2>2, <2>5, BillingAssumption DEF MapInv
    <3>3. ASSUME NEW d \in Calls, internalMap'[InstanceOf[d]] # d
          PROVE  info'[d] = Zero
      <4>1. InstanceOf[d] \in Instances
        BY BillingAssumption
      <4>2. internalMap[InstanceOf[d]] # d
        BY <1>5, <2>2, <3>3, <4>1, BillingAssumption
      <4> QED
        BY <1>0, <1>1, <4>2 DEF MapInv
    <3> QED
      BY <3>1, <3>2, <3>3 DEF MapInv
  <2>8. TakenInv'
    <3>1. Keys \subseteq Keys'
      BY <1>2, <2>2 DEF Keys
    <3> QED
      BY <1>0, <1>1, <3>1 DEF TakenInv, dumpVars
  <2>9. BilledOnce'
    <3> SUFFICES ASSUME NEW j \in Instances, NEW f \in Fields
                 PROVE  Made(j, f)' = Pending(j, f)' + InTransit(j, f)'
                                        + doc'[j][f] + dropped'[j][f]
      BY DEF BilledOnce
    <3>1. \A d \in Calls : pc'[d] \in Over(f) <=> pc[d] \in Over(f)
      BY <1>1, <1>3 DEF Over
    <3>2. Made(j, f)' = Made(j, f)
      BY <3>1, MadeKept
    <3>3. InTransit(j, f)' = InTransit(j, f)
      BY <1>1 DEF InTransit, Units, dumpVars
    <3>4. Pending(j, f)' = Pending(j, f)
      <4>1. CASE j = i
        BY <1>1, <1>2, <1>5, <2>2, <2>6, <4>1 DEF Pending, Zero
      <4>2. CASE j # i
        BY <1>1, <2>2, <4>2 DEF Pending
      <4> QED
        BY <4>1, <4>2
    <3> QED
      BY <1>0, <1>1, <3>2, <3>3, <3>4 DEF BilledOnce, docVars
  <2> QED
    BY <2>3, <2>4, <2>7, <2>8, <2>9 DEF IInv
<1> QED
  BY <1>4, <1>5 DEF RecordRelook, Relook

(* An Add to one counter of one billingInfo. *)
LEMMA AddInv ==
  ASSUME IInv, NEW c \in Calls, NEW f \in Fields, NEW from, NEW to, Add(c, f, from, to),
         \/ from = "count" /\ to = "bytes" /\ f = "count"
         \/ from = "bytes" /\ to = "unlock" /\ f = "bytes"
  PROVE  IInv'
<1> DEFINE i == InstanceOf[c]
<1>0. TypeOK /\ LockInv /\ MapInv /\ TakenInv /\ BilledOnce
  BY DEF IInv
<1>1. /\ pc[c] = from /\ pc' = [pc EXCEPT ![c] = to]
      /\ info' = [info EXCEPT ![ptr[c]][f] = @ + 1]
      /\ UNCHANGED <<internalMap, lockVars, ptr, dumpVars, docVars>>
  BY DEF Add, Goto
<1>2. i \in Instances /\ internalMap[i] # None /\ ptr[c] = internalMap[i]
  BY <1>0, <1>1, BillingAssumption DEF MapInv
<1>3. PICK b \in Calls : b = ptr[c] /\ InstanceOf[b] = i
  BY <1>0, <1>2 DEF MapInv, TypeOK
<1>4. info \in [Calls -> Counters] /\ info[b] \in Counters /\ info[b][f] \in Nat
  BY <1>0 DEF TypeOK, Counters
<1>5. /\ info' \in [Calls -> Counters]
      /\ info'[b][f] = info[b][f] + 1
      /\ \A g \in Fields \ {f} : info'[b][g] = info[b][g]
      /\ \A e \in Calls \ {b} : info'[e] = info[e]
  <2> DEFINE new == [info[b] EXCEPT ![f] = @ + 1]
  <2>1. info' = [info EXCEPT ![b] = new]
    BY <1>1, <1>3
  <2>2. new \in Counters /\ new[f] = info[b][f] + 1
        /\ \A g \in Fields \ {f} : new[g] = info[b][g]
    BY <1>4 DEF Counters
  <2> HIDE DEF new
  <2> QED
    BY <1>4, <2>1, <2>2
<1>6. pc'[c] = to /\ \A d \in Calls \ {c} : pc'[d] = pc[d]
  BY <1>0, <1>1 DEF TypeOK
<1>7. TypeOK'
  <2>1. pc' \in [Calls -> {"new", "look", "lock", "relook", "count", "bytes",
                           "unlock", "done"}]
    BY <1>0, <1>1 DEF TypeOK
  <2> QED
    BY <1>0, <1>1, <1>5, <2>1 DEF TypeOK, lockVars, dumpVars, docVars
<1>8. LockInv'
  <2>1. waiting # None => pc'[waiting] = "lock"
    BY <1>0, <1>1, <1>6 DEF LockInv, TypeOK
  <2> QED
    BY <1>0, <1>1, <1>6, <2>1 DEF LockInv, lockVars, dumpVars
<1>9. MapInv'
  <2>1. \A d \in Calls : pc'[d] \in {"count", "bytes"} => pc[d] \in {"count", "bytes"}
    BY <1>1, <1>6
  <2>2. \A d \in Calls : internalMap[InstanceOf[d]] # d => info'[d] = Zero
    BY <1>0, <1>2, <1>3, <1>5 DEF MapInv
  <2> QED
    BY <1>0, <1>1, <2>1, <2>2 DEF MapInv
<1>10. TakenInv'
  BY <1>0, <1>1 DEF TakenInv, Keys, dumpVars
<1>11. BilledOnce'
  <2> SUFFICES ASSUME NEW j \in Instances, NEW g \in Fields
               PROVE  Made(j, g)' = Pending(j, g)' + InTransit(j, g)'
                                      + doc'[j][g] + dropped'[j][g]
    BY DEF BilledOnce
  <2>1. InTransit(j, g)' = InTransit(j, g)
    BY <1>1 DEF InTransit, Units, dumpVars
  <2>2. Made(j, g) = Pending(j, g) + InTransit(j, g) + doc[j][g] + dropped[j][g]
    BY <1>0 DEF BilledOnce
  <2>3. CASE j = i /\ g = f
    <3>1. Makers(j, g)' = Makers(j, g) \cup {c} /\ c \notin Makers(j, g)
      BY <1>1, <1>6, <2>3 DEF Makers, Over
    <3>2. Made(j, g)' = Made(j, g) + 1
      <4>1. Made(j, g)' = Cardinality(Makers(j, g)')
        BY DEF Made, Makers, Over
      <4>2. Cardinality(Makers(j, g) \cup {c}) = Cardinality(Makers(j, g)) + 1
        BY <3>1, MadeFinite, FS_AddElement
      <4> QED
        BY <3>1, <4>1, <4>2, MadeFinite
    <3>3. Pending(j, g)' = Pending(j, g) + 1
      BY <1>1, <1>2, <1>3, <1>5, <2>3 DEF Pending
    <3> QED
      BY <1>0, <1>1, <2>1, <2>2, <3>2, <3>3, BalanceParts DEF docVars
  <2>4. CASE ~(j = i /\ g = f)
    <3>1. Made(j, g)' = Made(j, g)
      <4>1. \A d \in Calls : InstanceOf[d] = j =>
              (pc'[d] \in Over(g) <=> pc[d] \in Over(g))
        BY <1>1, <1>6, <2>4 DEF Over, Fields
      <4>2. Makers(j, g)' = Makers(j, g)
        BY <4>1 DEF Makers, Over
      <4> QED
        BY <4>2 DEF Made, Makers, Over
    <3>2. Pending(j, g)' = Pending(j, g)
      <4>1. internalMap[j] # None =>
              internalMap[j] \in Calls /\ InstanceOf[internalMap[j]] = j
        BY <1>0 DEF MapInv, TypeOK
      <4> QED
        BY <1>1, <1>3, <1>5, <2>4, <4>1 DEF Pending
    <3> QED
      BY <1>1, <2>1, <2>2, <3>1, <3>2 DEF docVars
  <2> QED
    BY <2>3, <2>4
<1> QED
  BY <1>7, <1>8, <1>9, <1>10, <1>11 DEF IInv

LEMMA RecordUnlockInv ==
  ASSUME IInv, NEW c \in Calls, RecordUnlock(c)
  PROVE  IInv'
<1>0. TypeOK /\ LockInv
  BY DEF IInv
<1>1. /\ pc[c] = "unlock" /\ readers' = readers \ {c}
      /\ writer' = IF writer = c THEN None ELSE writer
      /\ pc' = [pc EXCEPT ![c] = "done"]
      /\ UNCHANGED <<waiting, internalMap, info, ptr, dumpVars, docVars>>
  BY DEF RecordUnlock, Goto
<1>2. pc'[c] = "done" /\ \A d \in Calls \ {c} : pc'[d] = pc[d]
  BY <1>0, <1>1 DEF TypeOK
<1>3. TypeOK'
  BY <1>0, <1>1 DEF TypeOK, dumpVars, docVars
<1>4. LockInv'
  <2>1. waiting # None => writer' = None /\ pc'[waiting] = "lock"
    BY <1>0, <1>1, <1>2, BillingAssumption DEF LockInv, TypeOK
  <2> QED
    BY <1>0, <1>1, <1>2, <2>1, BillingAssumption DEF LockInv, dumpVars
<1> QED
  BY <1>1, <1>2, <1>3, <1>4, CallFrame DEF Over

-----------------------------------------------------------------------------
(* OnBillingDump.                                                          *)

(* A dump leaves the calls, the map and the other dumpers alone. *)
DumperFrame(d) ==
  /\ UNCHANGED <<internalMap, callVars>>
  /\ dpc' \in [Dumpers -> {"idle", "loop", "count", "bytes", "set"}]
  /\ todo' \in [Dumpers -> SUBSET Instances]
  /\ cur' \in [Dumpers -> Instances \cup {None}]
  /\ taken' \in [Dumpers -> Counters]
  /\ \A e \in Dumpers \ {d} :
       /\ dpc'[e] = dpc[e] /\ todo'[e] = todo[e]
       /\ cur'[e] = cur[e] /\ taken'[e] = taken[e]

(* The invariant about what dumps have taken, for the dumper of a step. *)
TakenBy(d) ==
  /\ todo[d] \subseteq Keys
  /\ dpc[d] \in {"idle", "loop"} => cur[d] = None
  /\ dpc[d] \in {"count", "bytes", "set"} => cur[d] \in Keys
  /\ dpc[d] # "set" => taken[d]["bytes"] = 0
  /\ dpc[d] \notin {"bytes", "set"} => taken[d]["count"] = 0

LEMMA DumperTaken ==
  ASSUME TakenInv, NEW d \in Dumpers, DumperFrame(d), TakenBy(d)'
  PROVE  TakenInv'
<1>1. Keys' = Keys
  BY DEF Keys, DumperFrame
<1>2. TakenInv <=> \A e \in Dumpers : TakenBy(e)
  BY DEF TakenInv, TakenBy
<1>3. \A e \in Dumpers \ {d} : TakenBy(e) => TakenBy(e)'
  BY <1>1 DEF DumperFrame, TakenBy
<1>4. \A e \in Dumpers : TakenBy(e)'
  BY <1>2, <1>3
<1> QED
  BY <1>4 DEF TakenInv, TakenBy

(* What a dumper takes or sends, one counter of one instance. *)
Share(d, i, f) == IF cur[d] = i THEN taken[d][f] ELSE 0

LEMMA DumperTransit ==
  ASSUME TypeOK, TypeOK', NEW d \in Dumpers, DumperFrame(d),
         NEW i \in Instances, NEW f \in Fields
  PROVE  /\ InTransit(i, f)' + Share(d, i, f) = InTransit(i, f) + Share(d, i, f)'
         /\ InTransit(i, f) \in Nat /\ InTransit(i, f)' \in Nat
         /\ Share(d, i, f) \in Nat /\ Share(d, i, f)' \in Nat
         /\ Made(i, f)' = Made(i, f)
<1>1. Cardinality(Own(d, i, f)) = Share(d, i, f) /\ Share(d, i, f) \in Nat
  BY UnitsCount, FS_EmptySet DEF Own, Share
<1>2. Cardinality(Own(d, i, f)') = Share(d, i, f)' /\ Share(d, i, f)' \in Nat
  <2>1. taken'[d][f] \in Nat
    BY DEF TypeOK, Counters
  <2>2. Cardinality(Units(d, f)') = taken'[d][f]
    BY <2>1, PairsCount DEF Units
  <2> QED
    BY <2>1, <2>2, FS_EmptySet DEF Own, Share
<1>3. /\ InTransit(i, f)' + Cardinality(Own(d, i, f))
           = InTransit(i, f) + Cardinality(Own(d, i, f)')
      /\ InTransit(i, f) \in Nat /\ InTransit(i, f)' \in Nat
  BY TransitChange DEF DumperFrame
<1>4. Made(i, f)' = Made(i, f)
  BY MadeKept DEF DumperFrame, callVars
<1> QED
  BY <1>1, <1>2, <1>3, <1>4

(* What leaves one place is in another. *)
Placed(d, i, f) == Pending(i, f) + Share(d, i, f) + doc[i][f] + dropped[i][f]

LEMMA DumperBilled ==
  ASSUME IInv, TypeOK', NEW d \in Dumpers, DumperFrame(d),
         \A i \in Instances, f \in Fields : Placed(d, i, f)' = Placed(d, i, f)
  PROVE  BilledOnce'
<1> SUFFICES ASSUME NEW i \in Instances, NEW f \in Fields
             PROVE  Made(i, f)' = Pending(i, f)' + InTransit(i, f)'
                                    + doc'[i][f] + dropped'[i][f]
  BY DEF BilledOnce
<1>0. TypeOK /\ BilledOnce
  BY DEF IInv
<1>1. /\ InTransit(i, f)' + Share(d, i, f) = InTransit(i, f) + Share(d, i, f)'
      /\ InTransit(i, f) \in Nat /\ InTransit(i, f)' \in Nat
      /\ Share(d, i, f) \in Nat /\ Share(d, i, f)' \in Nat
      /\ Made(i, f)' = Made(i, f)
  BY <1>0, DumperTransit
<1>2. Made(i, f) = Pending(i, f) + InTransit(i, f) + doc[i][f] + dropped[i][f]
  BY <1>0 DEF BilledOnce
<1>3. /\ Made(i, f) \in Nat /\ Pending(i, f) \in Nat
      /\ doc[i][f] \in Nat /\ dropped[i][f] \in Nat
  BY <1>0, BalanceParts
<1>4. Pending(i, f)' \in Nat /\ doc'[i][f] \in Nat /\ dropped'[i][f] \in Nat
  <2>1. doc'[i][f] \in Nat /\ dropped'[i][f] \in Nat
    BY DEF TypeOK, Counters
  <2>2. internalMap'[i] # None => internalMap'[i] \in Calls
    BY DEF TypeOK
  <2>3. \A b \in Calls : info'[b][f] \in Nat
    BY DEF TypeOK, Counters
  <2> QED
    BY <2>1, <2>2, <2>3 DEF Pending
<1>5. Pending(i, f)' + Share(d, i, f)' + doc'[i][f] + dropped'[i][f]
        = Pending(i, f) + Share(d, i, f) + doc[i][f] + dropped[i][f]
  BY DEF Placed
<1> QED
  BY <1>1, <1>2, <1>3, <1>4, <1>5

LEMMA DumperLocks ==
  ASSUME LockInv, NEW d \in Dumpers, DumperFrame(d), UNCHANGED <<writer, waiting>>,
         \/ readers' = readers /\ dpc[d] # "idle"
         \/ readers' = readers \cup {d} /\ writer = None
         \/ readers' = readers \ {d} /\ dpc'[d] = "idle"
  PROVE  LockInv'
<1>1. pc' = pc /\ \A e \in Dumpers \ {d} : dpc'[e] = dpc[e]
  BY DEF DumperFrame, callVars
<1>2. \A c \in Calls : c \in readers => c \in readers'
  BY BillingAssumption
<1>3. \A e \in Dumpers : dpc'[e] # "idle" => e \in readers'
  BY <1>1 DEF LockInv
<1>4. writer' # None => readers' = {}
  BY DEF LockInv
<1> QED
  BY <1>1, <1>2, <1>3, <1>4 DEF LockInv

(* Steps that bill nothing. *)
LEMMA DumperMoves ==
  ASSUME IInv, TypeOK', LockInv', NEW d \in Dumpers, DumperFrame(d), TakenBy(d)',
         UNCHANGED <<info, docVars>>,
         \A i \in Instances, f \in Fields : Share(d, i, f)' = Share(d, i, f)
  PROVE  IInv'
<1>1. MapInv /\ TakenInv /\ TypeOK
  BY DEF IInv
<1>2. MapInv'
  BY <1>1 DEF MapInv, DumperFrame, callVars
<1>3. \A i \in Instances, f \in Fields : Placed(d, i, f)' = Placed(d, i, f)
  BY DEF Placed, Pending, docVars, DumperFrame
<1> QED
  BY <1>1, <1>2, <1>3, DumperTaken, DumperBilled DEF IInv

LEMMA DumpStartInv ==
  ASSUME IInv, NEW d \in Dumpers, DumpStart(d)
  PROVE  IInv'
<1>0. TypeOK /\ LockInv /\ TakenInv
  BY DEF IInv
<1>1. /\ dpc[d] = "idle" /\ RLock(d)
      /\ dpc' = [dpc EXCEPT ![d] = "loop"]
      /\ todo' = [todo EXCEPT ![d] = Keys]
      /\ UNCHANGED <<internalMap, info, callVars, cur, taken, docVars>>
  BY DEF DumpStart
<1>2. DumperFrame(d) /\ dpc'[d] = "loop" /\ todo'[d] = Keys
  BY <1>0, <1>1 DEF TypeOK, DumperFrame, Keys
<1>3. /\ writer = None /\ readers' = readers \cup {d}
      /\ UNCHANGED <<writer, waiting>>
  BY <1>1 DEF RLock
<1>4. TypeOK'
  BY <1>0, <1>1, <1>2, <1>3 DEF TypeOK, DumperFrame, Goroutines, callVars, docVars
<1>5. LockInv'
  BY <1>0, <1>2, <1>3, DumperLocks
<1>6. TakenBy(d)'
  BY <1>0, <1>1, <1>2 DEF TakenInv, TakenBy, Keys
<1>7. \A i \in Instances, f \in Fields : Share(d, i, f)' = Share(d, i, f)
  BY <1>1 DEF Share
<1> QED
  BY <1>1, <1>2, <1>4, <1>5, <1>6, <1>7, DumperMoves

LEMMA DumpNextInv ==
  ASSUME IInv, NEW d \in Dumpers, NEW i \in Instances, DumpNext(d, i)
  PROVE  IInv'
<1>0. TypeOK /\ LockInv /\ TakenInv
  BY DEF IInv
<1>1. /\ dpc[d] = "loop" /\ i \in todo[d]
      /\ todo' = [todo EXCEPT ![d] = @ \ {i}]
      /\ cur' = [cur EXCEPT ![d] = i]
      /\ dpc' = [dpc EXCEPT ![d] = "count"]
      /\ UNCHANGED <<internalMap, info, lockVars, callVars, taken, docVars>>
  BY DEF DumpNext
<1>2. /\ DumperFrame(d) /\ dpc'[d] = "count" /\ todo'[d] = todo[d] \ {i}
      /\ cur'[d] = i
  BY <1>0, <1>1 DEF TypeOK, DumperFrame
<1>3. TypeOK'
  BY <1>0, <1>1, <1>2 DEF TypeOK, DumperFrame, lockVars, callVars, docVars
<1>4. LockInv'
  BY <1>0, <1>1, <1>2, DumperLocks DEF lockVars
<1>5. /\ todo[d] \subseteq Keys /\ cur[d] = None
      /\ taken[d]["bytes"] = 0 /\ taken[d]["count"] = 0
  BY <1>0, <1>1 DEF TakenInv
<1>6. TakenBy(d)'
  BY <1>1, <1>2, <1>5 DEF TakenBy, Keys
<1>7. \A j \in Instances, f \in Fields : Share(d, j, f)' = Share(d, j, f)
  BY <1>1, <1>5 DEF Share, Fields
<1> QED
  BY <1>1, <1>2, <1>3, <1>4, <1>6, <1>7, DumperMoves

(* Swap(0) of one counter. *)
LEMMA SwapInv ==
  ASSUME IInv, NEW d \in Dumpers, NEW f \in Fields, NEW from, NEW to,
         Swap(d, f, from, to),
         \/ from = "count" /\ to = "bytes" /\ f = "count"
         \/ from = "bytes" /\ to = "set" /\ f = "bytes"
  PROVE  IInv'
<1>0. TypeOK /\ LockInv /\ MapInv /\ TakenInv
  BY DEF IInv
<1>1. PICK i \in Instances : cur[d] = i /\ internalMap[i] # None
  <2>1. dpc[d] = from
    BY DEF Swap
  <2>2. dpc[d] \in {"count", "bytes"}
    BY <2>1
  <2>3. cur[d] \in Keys
    BY <1>0, <2>2 DEF TakenInv
  <2> QED
    BY <2>3 DEF Keys
<1>2. PICK b \in Calls : b = internalMap[i] /\ InstanceOf[b] = i
  BY <1>0, <1>1 DEF TypeOK, MapInv
<1>3. /\ dpc[d] = from /\ dpc' = [dpc EXCEPT ![d] = to]
      /\ taken' = [taken EXCEPT ![d][f] = info[b][f]]
      /\ info' = [info EXCEPT ![b][f] = 0]
      /\ UNCHANGED <<internalMap, lockVars, callVars, todo, cur, docVars>>
  BY <1>1, <1>2 DEF Swap
<1>4. /\ info \in [Calls -> Counters] /\ info[b] \in Counters /\ info[b][f] \in Nat
      /\ taken \in [Dumpers -> Counters] /\ taken[d] \in Counters
  BY <1>0 DEF TypeOK, Counters
<1>5. /\ info' \in [Calls -> Counters] /\ info'[b][f] = 0
      /\ \A g \in Fields \ {f} : info'[b][g] = info[b][g]
      /\ \A e \in Calls \ {b} : info'[e] = info[e]
  <2> DEFINE new == [info[b] EXCEPT ![f] = 0]
  <2>1. info' = [info EXCEPT ![b] = new]
    BY <1>3
  <2>2. new \in Counters /\ new[f] = 0 /\ \A g \in Fields \ {f} : new[g] = info[b][g]
    BY <1>4 DEF Counters
  <2> HIDE DEF new
  <2> QED
    BY <1>4, <2>1, <2>2
<1>6. /\ taken' \in [Dumpers -> Counters] /\ taken'[d][f] = info[b][f]
      /\ \A g \in Fields \ {f} : taken'[d][g] = taken[d][g]
      /\ \A e \in Dumpers \ {d} : taken'[e] = taken[e]
  <2> DEFINE new == [taken[d] EXCEPT ![f] = info[b][f]]
  <2>1. taken' = [taken EXCEPT ![d] = new]
    BY <1>3
  <2>2. new \in Counters /\ new[f] = info[b][f]
        /\ \A g \in Fields \ {f} : new[g] = taken[d][g]
    BY <1>4 DEF Counters
  <2> HIDE DEF new
  <2> QED
    BY <1>4, <2>1, <2>2
<1>7. /\ dpc' \in [Dumpers -> {"idle", "loop", "count", "bytes", "set"}]
      /\ dpc'[d] = to /\ \A e \in Dumpers \ {d} : dpc'[e] = dpc[e]
  BY <1>0, <1>3 DEF TypeOK
<1>8. DumperFrame(d)
  BY <1>0, <1>3, <1>6, <1>7 DEF TypeOK, DumperFrame
<1>9. TypeOK'
  BY <1>0, <1>3, <1>5, <1>6, <1>7 DEF TypeOK, lockVars, callVars, docVars
<1>10. LockInv'
  BY <1>0, <1>3, <1>8, DumperLocks DEF lockVars
<1>11. MapInv'
  <2>1. \A e \in Calls : internalMap[InstanceOf[e]] # e => e # b
    BY <1>2
  <2>2. \A e \in Calls : internalMap[InstanceOf[e]] # e => info'[e] = Zero
    BY <1>0, <1>5, <2>1 DEF MapInv
  <2> QED
    BY <1>0, <1>3, <2>2 DEF MapInv, callVars
<1>12. TakenInv'
  <2>1. todo[d] \subseteq Keys /\ cur[d] \in Keys
        /\ taken[d]["bytes"] = 0 /\ (from = "count" => taken[d]["count"] = 0)
    BY <1>0, <1>3 DEF TakenInv
  <2>2. TakenBy(d)'
    BY <1>3, <1>6, <1>7, <2>1 DEF TakenBy, Keys, Fields
  <2> QED
    BY <1>0, <1>8, <2>2, DumperTaken
<1>13. taken[d][f] = 0
  BY <1>0, <1>3 DEF TakenInv
<1>14. ASSUME NEW j \in Instances, NEW g \in Fields
       PROVE  Placed(d, j, g)' = Placed(d, j, g)
  <2>1. doc' = doc /\ dropped' = dropped /\ internalMap' = internalMap /\ cur' = cur
    BY <1>3 DEF docVars
  <2>2. CASE j = i /\ g = f
    <3>1. Pending(j, g) = info[b][f] /\ Pending(j, g)' = 0
      BY <1>1, <1>2, <1>5, <2>1, <2>2 DEF Pending
    <3>2. Share(d, j, g) = 0 /\ Share(d, j, g)' = info[b][f]
      BY <1>1, <1>6, <1>13, <2>1, <2>2 DEF Share
    <3> QED
      BY <1>4, <2>1, <3>1, <3>2 DEF Placed
  <2>3. CASE ~(j = i /\ g = f)
    <3>1. internalMap[j] # None =>
            internalMap[j] \in Calls /\ InstanceOf[internalMap[j]] = j
      BY <1>0 DEF MapInv, TypeOK
    <3>2. Pending(j, g)' = Pending(j, g)
      BY <1>2, <1>5, <2>1, <2>3, <3>1 DEF Pending
    <3>3. Share(d, j, g)' = Share(d, j, g)
      BY <1>1, <1>6, <2>1, <2>3 DEF Share
    <3> QED
      BY <2>1, <3>2, <3>3 DEF Placed
  <2> QED
    BY <2>2, <2>3
<1>15. BilledOnce'
  BY <1>8, <1>9, <1>14, DumperBilled
<1> QED
  BY <1>9, <1>10, <1>11, <1>12, <1>15 DEF IInv

(* What d has taken of instance i goes to where, doc or dropped. *)
LEMMA AddedTo ==
  ASSUME TypeOK, NEW d \in Dumpers, NEW i \in Instances,
         NEW where \in [Instances -> Counters],
         NEW new, new = [where EXCEPT ![i] = Plus(@, taken[d])]
  PROVE  /\ new \in [Instances -> Counters]
         /\ \A f \in Fields : new[i][f] = where[i][f] + taken[d][f]
         /\ \A j \in Instances \ {i} : new[j] = where[j]
<1> DEFINE sum == Plus(where[i], taken[d])
<1>1. where[i] \in Counters /\ taken[d] \in Counters
  BY DEF TypeOK
<1>2. sum \in Counters /\ \A f \in Fields : sum[f] = where[i][f] + taken[d][f]
  BY <1>1 DEF Plus, Counters
<1>3. new = [where EXCEPT ![i] = sum]
  OBVIOUS
<1> HIDE DEF sum
<1> QED
  BY <1>2, <1>3

(* A dump is done with an instance: what it has taken is in doc or dropped. *)
LEMMA DoneWith ==
  ASSUME IInv, TypeOK', LockInv', NEW d \in Dumpers, NEW i \in Instances,
         DumperFrame(d), TakenBy(d)', UNCHANGED info,
         cur[d] = i, cur'[d] = None,
         \/ doc' = [doc EXCEPT ![i] = Plus(@, taken[d])] /\ dropped' = dropped
         \/ dropped' = [dropped EXCEPT ![i] = Plus(@, taken[d])] /\ doc' = doc
  PROVE  IInv'
<1>1. TypeOK /\ MapInv /\ TakenInv
  BY DEF IInv
<1>2. doc \in [Instances -> Counters] /\ dropped \in [Instances -> Counters]
  BY <1>1 DEF TypeOK
<1>3. \/ /\ \A f \in Fields : doc'[i][f] = doc[i][f] + taken[d][f]
         /\ \A j \in Instances \ {i} : doc'[j] = doc[j]
         /\ dropped' = dropped
      \/ /\ \A f \in Fields : dropped'[i][f] = dropped[i][f] + taken[d][f]
         /\ \A j \in Instances \ {i} : dropped'[j] = dropped[j]
         /\ doc' = doc
  <2>1. CASE doc' = [doc EXCEPT ![i] = Plus(@, taken[d])] /\ dropped' = dropped
    BY <1>1, <1>2, <2>1, AddedTo
  <2>2. CASE dropped' = [dropped EXCEPT ![i] = Plus(@, taken[d])] /\ doc' = doc
    BY <1>1, <1>2, <2>2, AddedTo
  <2> QED
    BY <2>1, <2>2
<1>4. ASSUME NEW j \in Instances, NEW f \in Fields
      PROVE  Placed(d, j, f)' = Placed(d, j, f)
  <2>1. Pending(j, f)' = Pending(j, f)
    BY DEF Pending, DumperFrame
  <2>2. Share(d, j, f)' = 0 /\ (j # i => Share(d, j, f) = 0)
        /\ (j = i => Share(d, j, f) = taken[d][f])
    BY BillingAssumption DEF Share
  <2>3. /\ Pending(j, f) \in Nat /\ doc[j][f] \in Nat /\ dropped[j][f] \in Nat
        /\ taken[d][f] \in Nat
    BY <1>1, BalanceParts DEF TypeOK, Counters
  <2>4. CASE j # i
    <3>1. doc'[j] = doc[j] /\ dropped'[j] = dropped[j]
      BY <1>3, <2>4
    <3> QED
      BY <2>1, <2>2, <2>3, <2>4, <3>1 DEF Placed
  <2>5. CASE j = i
    <3>1. \/ doc'[j][f] = doc[j][f] + taken[d][f] /\ dropped'[j][f] = dropped[j][f]
          \/ dropped'[j][f] = dropped[j][f] + taken[d][f] /\ doc'[j][f] = doc[j][f]
      BY <1>3, <2>5
    <3> QED
      BY <2>1, <2>2, <2>3, <2>5, <3>1 DEF Placed
  <2> QED
    BY <2>4, <2>5
<1>5. MapInv'
  BY <1>1 DEF MapInv, DumperFrame, callVars
<1> QED
  BY <1>1, <1>4, <1>5, DumperTaken, DumperBilled DEF IInv

LEMMA DumpSetInv ==
  ASSUME IInv, NEW d \in Dumpers, DumpSet(d)
  PROVE  IInv'
<1>0. TypeOK /\ LockInv /\ TakenInv
  BY DEF IInv
<1>1. /\ dpc[d] = "set" /\ doc' = [doc EXCEPT ![cur[d]] = Plus(@, taken[d])]
      /\ taken' = [taken EXCEPT ![d] = Zero]
      /\ cur' = [cur EXCEPT ![d] = None]
      /\ dpc' = [dpc EXCEPT ![d] = "loop"]
      /\ UNCHANGED <<internalMap, info, lockVars, callVars, todo, failed, dropped>>
  BY DEF DumpSet
<1>2. PICK i \in Instances : i = cur[d]
  BY <1>0, <1>1 DEF TakenInv, Keys
<1>3. Zero \in Counters /\ Zero["count"] = 0 /\ Zero["bytes"] = 0
  BY DEF Zero, Counters, Fields
<1>4. /\ DumperFrame(d) /\ dpc'[d] = "loop" /\ cur'[d] = None
      /\ taken'[d] = Zero /\ todo'[d] = todo[d]
  BY <1>0, <1>1, <1>3 DEF TypeOK, DumperFrame
<1>5. doc' \in [Instances -> Counters]
  BY <1>0, <1>1, <1>2, AddedTo DEF TypeOK
<1>6. TypeOK'
  BY <1>0, <1>1, <1>4, <1>5 DEF TypeOK, DumperFrame, lockVars, callVars
<1>7. LockInv'
  BY <1>0, <1>1, <1>4, DumperLocks DEF lockVars
<1>8. TakenBy(d)'
  BY <1>0, <1>1, <1>3, <1>4 DEF TakenInv, TakenBy, Keys
<1> QED
  BY <1>1, <1>2, <1>4, <1>6, <1>7, <1>8, DoneWith

LEMMA DumpFailsInv ==
  ASSUME IInv, NEW d \in Dumpers, DumpFails(d)
  PROVE  IInv'
<1>0. TypeOK /\ LockInv /\ TakenInv
  BY DEF IInv
<1>1. /\ dpc[d] \in {"count", "set"} /\ failed' = failed + 1
      /\ \/ doc' = [doc EXCEPT ![cur[d]] = Plus(@, taken[d])] /\ dropped' = dropped
         \/ dropped' = [dropped EXCEPT ![cur[d]] = Plus(@, taken[d])] /\ doc' = doc
      /\ taken' = [taken EXCEPT ![d] = Zero]
      /\ cur' = [cur EXCEPT ![d] = None]
      /\ todo' = [todo EXCEPT ![d] = {}]
      /\ dpc' = [dpc EXCEPT ![d] = "idle"]
      /\ readers' = readers \ {d} /\ UNCHANGED <<writer, waiting>>
      /\ UNCHANGED <<internalMap, info, callVars>>
  BY DEF DumpFails, RUnlock
<1>2. PICK i \in Instances : i = cur[d]
  BY <1>0, <1>1 DEF TakenInv, Keys
<1>3. Zero \in Counters /\ Zero["count"] = 0 /\ Zero["bytes"] = 0
  BY DEF Zero, Counters, Fields
<1>4. /\ DumperFrame(d) /\ dpc'[d] = "idle" /\ cur'[d] = None
      /\ taken'[d] = Zero /\ todo'[d] = {}
  BY <1>0, <1>1, <1>3 DEF TypeOK, DumperFrame
<1>5. doc' \in [Instances -> Counters] /\ dropped' \in [Instances -> Counters]
  <2>1. doc \in [Instances -> Counters] /\ dropped \in [Instances -> Counters]
    BY <1>0 DEF TypeOK
  <2> QED
    BY <1>0, <1>1, <1>2, <2>1, AddedTo
<1>6. TypeOK'
  BY <1>0, <1>1, <1>4, <1>5 DEF TypeOK, DumperFrame, callVars
<1>7. LockInv'
  BY <1>0, <1>1, <1>4, DumperLocks
<1>8. TakenBy(d)'
  BY <1>3, <1>4 DEF TakenBy
<1> QED
  BY <1>1, <1>2, <1>4, <1>6, <1>7, <1>8, DoneWith

LEMMA DumpEndInv ==
  ASSUME IInv, NEW d \in Dumpers, DumpEnd(d)
  PROVE  IInv'
<1>0. TypeOK /\ LockInv /\ TakenInv
  BY DEF IInv
<1>1. /\ dpc[d] = "loop" /\ todo[d] = {}
      /\ dpc' = [dpc EXCEPT ![d] = "idle"]
      /\ readers' = readers \ {d} /\ UNCHANGED <<writer, waiting>>
      /\ UNCHANGED <<internalMap, info, callVars, todo, cur, taken, docVars>>
  BY DEF DumpEnd, EndUnlocked, RUnlock
<1>2. DumperFrame(d) /\ dpc'[d] = "idle"
  BY <1>0, <1>1 DEF TypeOK, DumperFrame
<1>3. TypeOK'
  BY <1>0, <1>1, <1>2 DEF TypeOK, DumperFrame, callVars, docVars
<1>4. LockInv'
  BY <1>0, <1>1, <1>2, DumperLocks
<1>5. TakenBy(d)'
  BY <1>0, <1>1, <1>2 DEF TakenInv, TakenBy, Keys
<1>6. \A i \in Instances, f \in Fields : Share(d, i, f)' = Share(d, i, f)
  BY <1>1 DEF Share
<1> QED
  BY <1>1, <1>2, <1>3, <1>4, <1>5, <1>6, DumperMoves

LEMMA StutterInv ==
  ASSUME IInv, UNCHANGED vars
  PROVE  IInv'
<1>0. TypeOK /\ LockInv /\ MapInv /\ TakenInv /\ BilledOnce
  BY DEF IInv
<1>1. UNCHANGED <<internalMap, info, lockVars, callVars, dumpVars, docVars>>
  BY DEF vars
<1>2. TypeOK'
  BY <1>0, <1>1 DEF TypeOK, lockVars, callVars, dumpVars, docVars
<1>3. LockInv' /\ MapInv' /\ TakenInv'
  BY <1>0, <1>1 DEF LockInv, MapInv, TakenInv, Keys, lockVars, callVars, dumpVars
<1>4. BilledOnce'
  BY <1>0, <1>1 DEF BilledOnce, Made, Pending, InTransit, Units,
                    callVars, dumpVars, docVars
<1> QED
  BY <1>2, <1>3, <1>4 DEF IInv

-----------------------------------------------------------------------------
LEMMA StepInv == IInv /\ [Next]_vars => IInv'
<1> SUFFICES ASSUME IInv, [Next]_vars PROVE IInv'
  OBVIOUS
<1>1. ASSUME NEW c \in Calls, RecordRLock(c) \/ RecordStep(c)
      PROVE  IInv'
  <2>1. CASE AddCount(c)
    BY <2>1, AddInv DEF AddCount, Fields
  <2>2. CASE AddBytes(c)
    BY <2>2, AddInv DEF AddBytes, Fields
  <2> QED
    BY <1>1, <2>1, <2>2, RecordRLockInv, RecordLookInv, RecordWaitInv,
       RecordLockInv, RecordRelookInv, RecordUnlockInv DEF RecordStep
<1>2. ASSUME NEW d \in Dumpers, DumpStart(d) \/ DumpStep(d)
      PROVE  IInv'
  <2>1. CASE SwapCount(d)
    BY <2>1, SwapInv DEF SwapCount, Fields
  <2>2. CASE SwapBytes(d)
    BY <2>2, SwapInv DEF SwapBytes, Fields
  <2> QED
    BY <1>2, <2>1, <2>2, DumpStartInv, DumpNextInv, DumpSetInv, DumpFailsInv,
       DumpEndInv DEF DumpStep
<1> QED
  BY <1>1, <1>2, StutterInv DEF Next

(* However operations and dumps interleave and whatever fails. *)
THEOREM Invariance == Spec => []IInv
BY InitInv, StepInv, PTL DEF Spec

(* The variables keep their types. *)
THEOREM TypeCorrect == Spec => []TypeOK
<1>1. IInv => TypeOK
  BY DEF IInv
<1> QED
  BY <1>1, Invariance, PTL

(* Nothing is billed twice and nothing is lost but by a failed dump        *)
(* (operation.go, billing.go). *)
THEOREM EachIsBilledOnce == Spec => []BilledOnce
<1>1. IInv => BilledOnce
  BY DEF IInv
<1> QED
  BY <1>1, Invariance, PTL

(* The map of billingInfos is never written while it is read or iterated   *)
(* over (operation.go, recordBilling; billing.go, OnBillingDump). *)
THEOREM MapHasOneWriter == Spec => []MapIsGuarded
<1>1. ASSUME IInv, NEW c \in Calls, pc[c] = "relook"
      PROVE  /\ \A b \in Calls \ {c} : pc[b] \notin {"look", "relook"}
             /\ \A d \in Dumpers : dpc[d] = "idle"
  <2>1. writer = c /\ writer # None /\ readers = {}
    BY <1>1, BillingAssumption DEF IInv, LockInv
  <2> QED
    BY <1>1, <2>1 DEF IInv, LockInv
<1>2. IInv => MapIsGuarded
  BY <1>1 DEF MapIsGuarded
<1> QED
  BY <1>2, Invariance, PTL
=============================================================================
