--------------------------- MODULE PoolUseProofs ---------------------------
(***************************************************************************)
(* Proofs about PoolUse and about Scaling, for any threads, addresses,     *)
(* limits and loads.  The second part shows that every step of Scaling is  *)
(* a step of PoolUse with some limits, so that what the first shows of the *)
(* pool holds there too; what is new is the range the limits stay in       *)
(* although they are computed from stale values.                           *)
(***************************************************************************)
EXTENDS Scaling, PoolProofs

USE PoolAssumption, PoolUseAssumption

-----------------------------------------------------------------------------
(***************************************************************************)
(* What a change of one thread's object does to the number of holders.     *)
(***************************************************************************)
LEMMA HoldersFinite == IsFiniteSet(Holders) /\ Cardinality(Holders) \in Nat
<1>1. Holders \in SUBSET Threads
  BY DEF Holders
<1>2. QED
  BY <1>1, FS_Subset, FS_CardinalityType

LEMMA HolderTakes ==
  ASSUME PoolUseTypeOK, NEW t \in Threads, held[t] = NoObject, NEW a \in Addr \cup {Null},
         held' = [held EXCEPT ![t] = a]
  PROVE  /\ held' \in [Threads -> Addr \cup {Null, NoObject}]
         /\ Holders' = Holders \cup {t}
         /\ Cardinality(Holders') = Cardinality(Holders) + 1
<1>1. Holders' = Holders \cup {t} /\ t \notin Holders
  BY DEF PoolUseTypeOK, Holders
<1>2. Cardinality(Holders \cup {t}) = Cardinality(Holders) + 1
  BY <1>1, HoldersFinite, FS_AddElement
<1>3. held' \in [Threads -> Addr \cup {Null, NoObject}]
  BY DEF PoolUseTypeOK
<1>4. QED
  BY <1>1, <1>2, <1>3

LEMMA HolderGives ==
  ASSUME PoolUseTypeOK, NEW t \in Threads, held[t] # NoObject,
         held' = [held EXCEPT ![t] = NoObject]
  PROVE  /\ held' \in [Threads -> Addr \cup {Null, NoObject}]
         /\ Holders' = Holders \ {t}
         /\ Cardinality(Holders') = Cardinality(Holders) - 1
<1>1. Holders' = Holders \ {t} /\ t \in Holders
  BY DEF PoolUseTypeOK, Holders
<1>2. Cardinality(Holders \ {t}) = Cardinality(Holders) - 1
  BY <1>1, HoldersFinite, FS_RemoveElement
<1>3. held' \in [Threads -> Addr \cup {Null, NoObject}]
  BY DEF PoolUseTypeOK
<1>4. QED
  BY <1>1, <1>2, <1>3

-----------------------------------------------------------------------------
(***************************************************************************)
(* The type and the ledger.                                                *)
(***************************************************************************)
Booked == PoolUseTypeOK /\ Ledger

\* The steps of PoolUse with limits of any size.
FreeUse ==
  \/ \E t \in Threads : ThreadStep(t)
  \/ \E initial, max \in Nat : UpdateLimits(initial, max) \/ UpdateLimitsThrows(initial, max)

LEMMA UseIsFree == PoolUseNext => FreeUse
BY DEF PoolUseNext, FreeUse

LEMMA BookedInit == PoolUseInit => Booked
<1> SUFFICES ASSUME PoolUseInit PROVE Booked
  OBVIOUS
<1>1. PICK f \in [1 .. InitialSize -> Addr] : pool = InitialPool(f, InitialSize, InitialMax)
  BY DEF PoolUseInit
<1>2. /\ pool \in PoolType /\ Len(pool.objects) = InitialSize
      /\ pool.total = InitialSize /\ pool.available = InitialSize /\ pool.high = 0
  BY <1>1, InitialFields
<1>5. Holders = {}
  BY DEF PoolUseInit, Holders
<1>6. Ledger
  <2>1. Cardinality(Holders) = 0 /\ lost = 0
    BY <1>5, FS_EmptySet DEF PoolUseInit
  <2>2. pool.total - pool.available = 0 /\ pool.high >= pool.total - pool.available
    BY <1>2
  <2>3. pool.total = Len(pool.objects) - failed
    BY <1>2 DEF PoolUseInit
  <2>4. pool.total - pool.available = Cardinality(Holders) + lost
    BY <2>1, <2>2
  <2>5. QED
    BY <2>2, <2>3, <2>4 DEF Ledger
<1>7. QED
  <2>1. /\ held = [t \in Threads |-> NoObject] /\ lost = 0 /\ torn = FALSE /\ failed = 0
    BY DEF PoolUseInit
  <2>2. held \in [Threads -> Addr \cup {Null, NoObject}] /\ torn \in BOOLEAN
    BY <2>1, Zenon
  <2>4. lost \in 0 .. MaxLost /\ failed \in 0 .. MaxFailed
    BY <2>1, PoolUseAssumption DEF PoolUseAssumption
  <2>3. QED
    BY <1>2, <1>6, <2>2, <2>4 DEF Booked, PoolUseTypeOK

LEMMA BookedStep ==
  ASSUME Booked, [FreeUse]_poolUseVars
  PROVE  Booked'
<1> USE DEF Booked
<1>0. pool \in PoolType
  BY DEF PoolUseTypeOK
<1>a. pool.objects \in Seq(Object)
  BY <1>0, PoolFields
<1>1. /\ pool.total \in Int /\ pool.available \in Int /\ pool.high \in Nat
      /\ lost \in Nat /\ failed \in Nat /\ Cardinality(Holders) \in Nat
      /\ Len(pool.objects) \in Nat /\ pool.total = Len(pool.objects) - failed
      /\ pool.total - pool.available = Cardinality(Holders) + lost
      /\ pool.high >= pool.total - pool.available
  BY <1>0, <1>a, HoldersFinite, PoolFields, LenProperties DEF PoolUseTypeOK, Ledger
<1>2. ASSUME NEW t \in Threads, AcquireFree(t) PROVE Booked'
  <2>1. Free(pool) # {} /\ pool' = TakeFirst(pool)
    BY <1>2 DEF AcquireFree
  <2>2. /\ pool' \in PoolType /\ Len(pool'.objects) = Len(pool.objects)
        /\ pool'.total = pool.total /\ pool'.available = pool.available - 1
        /\ pool'.high >= pool'.total - pool'.available
    BY <1>0, <2>1, TakeFirstCounts
  <2>3. pool.objects[FirstFree(pool)].addr \in Addr \cup {Null}
    <3>1. FirstFree(pool) \in DOMAIN pool.objects
      BY <1>0, <2>1, FirstFreeIsFree DEF Free
    <3>2. pool.objects[FirstFree(pool)] \in Object
      BY <1>a, <3>1, LenProperties
    <3>3. QED
      BY <3>2 DEF Object
  <2>4. /\ held' \in [Threads -> Addr \cup {Null, NoObject}]
        /\ Cardinality(Holders') = Cardinality(Holders) + 1
    BY <1>2, <2>3, HolderTakes DEF AcquireFree
  <2>5. Ledger'
    <3>1. pool'.total \in Int /\ pool'.available \in Int
      BY <2>2, PoolFields
    <3>2. lost' = lost /\ failed' = failed
      BY <1>2 DEF AcquireFree
    <3>3. pool'.total - pool'.available = Cardinality(Holders') + lost'
      <4>1. /\ pool'.total = pool.total /\ pool'.available = pool.available - 1
            /\ Cardinality(Holders') = Cardinality(Holders) + 1
        BY <2>2, <2>4
      <4>2. pool'.total - pool'.available = (pool.total - pool.available) + 1
        <5> DEFINE n == pool.total
                   v == pool.available
        <5>1. n \in Int /\ v \in Int /\ pool'.total = n /\ pool'.available = v - 1
          BY <1>1, <4>1
        <5> HIDE DEF n, v
        <5>2. pool'.total - pool'.available = (n - v) + 1
          BY <5>1
        <5>3. QED
          BY <5>2 DEF n, v
      <4>3. QED
        BY <1>1, <3>2, <4>1, <4>2
    <3>4. pool'.total = Len(pool'.objects) - failed' /\ pool'.high >= pool'.total - pool'.available
      BY <1>1, <2>2, <3>1, <3>2 DEF Ledger
    <3>5. QED
      BY <3>3, <3>4 DEF Ledger
  <2>6. PoolUseTypeOK'
    BY <1>2, <2>2, <2>4 DEF AcquireFree, PoolUseTypeOK
  <2>7. QED
    BY <2>5, <2>6
<1>3. ASSUME NEW t \in Threads, AcquireNew(t) PROVE Booked'
  <2>1. PICK a \in Addr \ Live(pool) :
          pool' = TakeNew(pool, a) /\ held' = [held EXCEPT ![t] = a]
    BY <1>3 DEF AcquireNew
  <2>2. /\ pool' \in PoolType /\ Len(pool'.objects) = Len(pool.objects) + 1
        /\ pool'.total = pool.total + 1 /\ pool'.available = pool.available
        /\ pool'.high >= pool'.total - pool'.available
    BY <1>0, <2>1, TakeNewFields
  <2>3. /\ held' \in [Threads -> Addr \cup {Null, NoObject}]
        /\ Cardinality(Holders') = Cardinality(Holders) + 1
    BY <1>3, <2>1, HolderTakes DEF AcquireNew
  <2>4. Ledger'
    <3>1. pool'.total \in Int /\ pool'.available \in Int
      BY <2>2, PoolFields
    <3>2. lost' = lost /\ failed' = failed
      BY <1>3 DEF AcquireNew
    <3>3. pool'.total - pool'.available = Cardinality(Holders') + lost'
      BY <1>1, <2>2, <2>3, <3>1, <3>2
    <3>4. pool'.total = Len(pool'.objects) - failed' /\ pool'.high >= pool'.total - pool'.available
      BY <1>1, <2>2, <3>1, <3>2 DEF Ledger
    <3>5. QED
      BY <3>3, <3>4 DEF Ledger
  <2>5. PoolUseTypeOK'
    BY <1>3, <2>2, <2>3 DEF AcquireNew, PoolUseTypeOK
  <2>6. QED
    BY <2>4, <2>5
<1>4. ASSUME NEW t \in Threads, Release(t) PROVE Booked'
  <2>1. held[t] \in Live(pool) /\ pool' = GiveBack(pool, held[t])
    BY <1>4 DEF Release
  <2>2. held[t] # NoObject
    <3>1. PICK i \in DOMAIN pool.objects : held[t] = pool.objects[i].addr
      BY <2>1 DEF Live
    <3>2. pool.objects[i] \in Object
      BY <1>a, LenProperties
    <3>3. QED
      BY <3>1, <3>2 DEF Object
  <2> DEFINE q == GiveBack(pool, held[t])
  <2>9. /\ q \in PoolType /\ Len(q.objects) = Len(pool.objects)
        /\ q.total = pool.total /\ q.available = pool.available + 1 /\ q.high = pool.high
    <3> DEFINE a == held[t]
    <3>1. a \in Live(pool) /\ q = GiveBack(pool, a)
      BY <2>1
    <3> HIDE DEF a, q
    <3>2. QED
      BY <1>0, <3>1, GiveBackCounts
  <2> HIDE DEF q
  <2>3. /\ pool' \in PoolType /\ Len(pool'.objects) = Len(pool.objects)
        /\ pool'.total = pool.total /\ pool'.available = pool.available + 1
        /\ pool'.high = pool.high
    BY <2>1, <2>9 DEF q
  <2>4. /\ held' \in [Threads -> Addr \cup {Null, NoObject}]
        /\ Cardinality(Holders') = Cardinality(Holders) - 1
    BY <1>4, <2>2, HolderGives DEF Release
  <2>5. Ledger'
    <3>1. pool'.total \in Int /\ pool'.available \in Int
      BY <2>3, PoolFields
    <3>2. lost' = lost /\ failed' = failed
      BY <1>4 DEF Release
    <3>3. pool'.total - pool'.available = Cardinality(Holders') + lost'
      <4>1. Cardinality(Holders') = Cardinality(Holders) - 1
        BY <2>4
      <4>2. pool'.total = pool.total /\ pool'.available = pool.available + 1
        BY <2>3
      <4>3. QED
        BY <1>1, <3>2, <4>1, <4>2
    <3>4. pool'.total = Len(pool'.objects) - failed' /\ pool'.high >= pool'.total - pool'.available
      BY <1>1, <2>3, <3>1, <3>2 DEF Ledger
    <3>5. QED
      BY <3>3, <3>4 DEF Ledger
  <2>6. PoolUseTypeOK'
    BY <1>4, <2>3, <2>4 DEF Release, PoolUseTypeOK
  <2>7. QED
    BY <2>5, <2>6
<1>5. ASSUME NEW t \in Threads, Lose(t) PROVE Booked'
  <2>1. /\ held' \in [Threads -> Addr \cup {Null, NoObject}]
        /\ Cardinality(Holders') = Cardinality(Holders) - 1
    BY <1>5, HolderGives DEF Lose
  <2>2. Ledger'
    BY <1>1, <1>5, <2>1 DEF Lose, Ledger
  <2>3. PoolUseTypeOK'
    BY <1>5, <2>1 DEF Lose, PoolUseTypeOK
  <2>4. QED
    BY <2>2, <2>3
<1>6. ASSUME NEW initial \in Nat, NEW max \in Nat, UpdateLimits(initial, max) PROVE Booked'
  <2>1. PICK f \in FreshAddrs(pool, Missing(pool, initial)) :
          pool' = Resized(pool, initial, max, f)
    BY <1>6 DEF UpdateLimits
  <2>2. /\ pool' \in PoolType /\ Len(pool'.objects) = initial /\ pool'.high = pool.high
        /\ pool'.total = pool.total + (initial - Len(pool.objects))
        /\ pool'.available = pool.available + (initial - Len(pool.objects))
    <3> DEFINE q == Resized(pool, initial, max, f)
    <3>1. q = Resized(pool, initial, max, f) /\ pool' = q
      BY <2>1
    <3> HIDE DEF q
    <3>2. /\ q \in PoolType /\ Len(q.objects) = initial /\ q.high = pool.high
          /\ q.total = pool.total + (initial - Len(pool.objects))
          /\ q.available = pool.available + (initial - Len(pool.objects))
      BY <1>0, <3>1, ResizedFields
    <3>3. QED
      BY <3>1, <3>2
  <2>3. Holders' = Holders
    BY <1>6 DEF UpdateLimits, Holders
  <2>4. Ledger'
    BY <1>1, <1>6, <2>2, <2>3 DEF UpdateLimits, Ledger
  <2>5. PoolUseTypeOK'
    BY <1>6, <2>2 DEF UpdateLimits, PoolUseTypeOK
  <2>6. QED
    BY <2>4, <2>5
<1>7. ASSUME NEW t \in Threads, AcquireThrows(t) PROVE Booked'
  <2>1. /\ pool' = WithNullSlot(pool) /\ failed < MaxFailed /\ failed' = failed + 1
        /\ UNCHANGED <<held, lost, torn>>
    BY <1>7 DEF AcquireThrows
  <2>2. /\ pool' \in PoolType /\ Len(pool'.objects) = Len(pool.objects) + 1
        /\ pool'.total = pool.total /\ pool'.available = pool.available
        /\ pool'.high = pool.high
    BY <1>0, <2>1, NullSlotFields
  <2>3. Holders' = Holders
    BY <2>1 DEF Holders
  <2>4. Ledger'
    BY <1>1, <2>1, <2>2, <2>3 DEF Ledger
  <2>5. PoolUseTypeOK'
    BY <1>1, <2>1, <2>2 DEF PoolUseTypeOK
  <2>6. QED
    BY <2>4, <2>5
<1>8. ASSUME NEW initial \in Nat, NEW max \in Nat, UpdateLimitsThrows(initial, max)
      PROVE  Booked'
  <2>1. /\ failed < MaxFailed /\ failed' = failed + 1
        /\ UNCHANGED <<held, lost, torn>>
    BY <1>8 DEF UpdateLimitsThrows
  <2>2. PICK made \in 0 .. Missing(pool, initial) - 1 :
        \E f \in FreshAddrs(pool, made) : pool' = ResizeThrown(pool, made, max, f)
    BY <1>8 DEF UpdateLimitsThrows
  <2>3. PICK f \in FreshAddrs(pool, made) : pool' = ResizeThrown(pool, made, max, f)
    BY <2>2
  <2>4. made \in Nat
    BY <1>1 DEF Missing, Higher
  <2>5. /\ pool' \in PoolType /\ Len(pool'.objects) = Len(pool.objects) + made + 1
        /\ pool'.total = pool.total + made /\ pool'.available = pool.available + made
        /\ pool'.high = pool.high
    BY <1>0, <2>3, <2>4, ThrownFields
  <2>6. Holders' = Holders
    BY <2>1 DEF Holders
  <2>7. Ledger'
    BY <1>1, <2>1, <2>4, <2>5, <2>6 DEF Ledger
  <2>8. PoolUseTypeOK'
    BY <1>1, <2>1, <2>5 DEF PoolUseTypeOK
  <2>9. QED
    BY <2>7, <2>8
<1>9. CASE UNCHANGED poolUseVars
  BY <1>9 DEF poolUseVars, PoolUseTypeOK, Ledger, Holders
<1>10. QED
  BY <1>2, <1>3, <1>4, <1>5, <1>6, <1>7, <1>8, <1>9 DEF FreeUse, ThreadStep

(***************************************************************************)
(* The state of a pool and of the threads that use it keeps its type under *)
(* acquire, release and updateLimits, whether constructors throw or not.   *)
(***************************************************************************)
THEOREM PoolTypeCorrect == PoolUseSpec => []PoolUseTypeOK
<1>1. Booked => PoolUseTypeOK
  BY DEF Booked
<1>2. QED
  BY <1>1, BookedInit, BookedStep, UseIsFree, PTL DEF PoolUseSpec

(***************************************************************************)
(* m_total_count is the number of slots less the number of constructors    *)
(* that threw, total - available the number of objects acquired and not    *)
(* given back, and m_high_water_mark was never passed: through every       *)
(* acquire and release, every object lost by processPacket's catch, every  *)
(* updateLimits, and every failed construction in acquire (Pool.hpp:89-96) *)
(* and in updateLimits (132-137).                                          *)
(***************************************************************************)
THEOREM LedgerKept == PoolUseSpec => []Ledger
<1>1. Booked => Ledger
  BY DEF Booked
<1>2. QED
  BY <1>1, BookedInit, BookedStep, UseIsFree, PTL DEF PoolUseSpec

-----------------------------------------------------------------------------
(***************************************************************************)
(* Exclusive use: until an object in use is destroyed, the objects of the  *)
(* holders are marked and no two of them are the same.                     *)
(***************************************************************************)
Exclusive ==
  /\ \A t, u \in Holders : held[t] = held[u] /\ held[t] # Null => t = u
  /\ \A t \in Holders : held[t] # Null => InUse(pool, held[t])

Owned == Booked /\ Distinct(pool) /\ (~torn => Exclusive)

LEMMA OwnedExclusive == Owned => ExclusiveUntilTorn
<1> SUFFICES ASSUME Owned, ~torn
             PROVE  Exclusive => ExclusiveUntilTorn
  BY DEF ExclusiveUntilTorn, Owned
<1>1. DOMAIN pool.objects = 1 .. Len(pool.objects)
  BY PoolFields, LenProperties DEF Owned, Booked, PoolUseTypeOK
<1>2. QED
  BY <1>1 DEF Exclusive, InUse, ExclusiveUntilTorn

LEMMA OwnedInit == PoolUseInit => Owned
<1> SUFFICES ASSUME PoolUseInit PROVE Owned
  OBVIOUS
<1>1. PICK f \in [1 .. InitialSize -> Addr] :
        /\ \A i, j \in 1 .. InitialSize : f[i] = f[j] => i = j
        /\ pool = InitialPool(f, InitialSize, InitialMax)
  BY DEF PoolUseInit
<1>2. Distinct(pool)
  BY <1>1, InitialDistinct
<1>3. Holders = {}
  BY DEF PoolUseInit, Holders
<1>4. QED
  BY <1>2, <1>3, BookedInit DEF Owned, Exclusive

LEMMA OwnedStep ==
  ASSUME Owned, [FreeUse]_poolUseVars
  PROVE  Owned'
<1>1. /\ pool \in PoolType /\ Distinct(pool) /\ Len(pool.objects) \in Nat
      /\ held \in [Threads -> Addr \cup {Null, NoObject}]
  BY PoolFields, LenProperties DEF Owned, Booked, PoolUseTypeOK
<1>2. Booked'
  BY BookedStep DEF Owned
<1>3. ASSUME NEW t \in Threads, AcquireFree(t)
      PROVE  Distinct(pool') /\ (~torn' => Exclusive')
  <2> DEFINE a == pool.objects[FirstFree(pool)].addr
  <2>1. Free(pool) # {} /\ pool' = TakeFirst(pool) /\ torn' = torn
    BY <1>3 DEF AcquireFree
  <2>2. a \in Addr \cup {Null} /\ held[t] = NoObject /\ held' = [held EXCEPT ![t] = a]
    BY <1>1, <1>3, <2>1, FirstFreeObject DEF AcquireFree
  <2>3. \A u \in Holders' :
          (u \in Holders /\ held'[u] = held[u]) \/ (u = t /\ held'[u] = a)
    BY <1>1, <2>1, <2>2 DEF Holders
  <2>4. /\ Distinct(pool') /\ (a # Null => ~InUse(pool, a)) /\ InUse(pool', a)
        /\ \A b : InUse(pool, b) => InUse(pool', b)
    BY <1>1, <2>1, TakeFirstMarks
  <2> HIDE DEF a
  <2>5. QED
    BY <2>1, <2>3, <2>4 DEF Owned, Exclusive
<1>4. ASSUME NEW t \in Threads, AcquireNew(t)
      PROVE  Distinct(pool') /\ (~torn' => Exclusive')
  <2>1. PICK a \in Addr \ Live(pool) :
          pool' = TakeNew(pool, a) /\ held' = [held EXCEPT ![t] = a]
    BY <1>4 DEF AcquireNew
  <2>2. held[t] = NoObject /\ torn' = torn
    BY <1>4 DEF AcquireNew
  <2>3. \A u \in Holders' :
          (u \in Holders /\ held'[u] = held[u]) \/ (u = t /\ held'[u] = a)
    BY <1>1, <2>1, <2>2 DEF Holders
  <2>4. /\ Distinct(pool') /\ ~InUse(pool, a) /\ InUse(pool', a)
        /\ \A b : InUse(pool, b) => InUse(pool', b)
    BY <1>1, <2>1, TakeNewMarks
  <2>5. QED
    BY <2>2, <2>3, <2>4 DEF Owned, Exclusive
<1>5. ASSUME NEW t \in Threads, Release(t)
      PROVE  Distinct(pool') /\ (~torn' => Exclusive')
  <2>1. held[t] \in Live(pool) /\ pool' = GiveBack(pool, held[t]) /\ torn' = torn
        /\ held' = [held EXCEPT ![t] = NoObject]
    BY <1>5 DEF Release
  <2>2. held[t] # NoObject
    BY <1>1, <2>1, LiveAddrs
  <2>3. /\ Holders' = Holders \ {t} /\ t \in Holders
        /\ \A u \in Holders \ {t} : held'[u] = held[u]
    BY <1>1, <2>1, <2>2 DEF Holders
  <2>4. /\ Distinct(pool')
        /\ \A b : InUse(pool, b) /\ b # held[t] => InUse(pool', b)
    BY <1>1, <2>1, GiveBackMarks
  <2>5. QED
    BY <2>1, <2>3, <2>4 DEF Owned, Exclusive
<1>6. ASSUME NEW t \in Threads, Lose(t)
      PROVE  Distinct(pool') /\ (~torn' => Exclusive')
  <2>1. pool' = pool /\ torn' = torn /\ held' = [held EXCEPT ![t] = NoObject]
    BY <1>6 DEF Lose
  <2>2. Holders' \subseteq Holders /\ \A u \in Holders' : held'[u] = held[u]
    BY <1>1, <2>1 DEF Holders
  <2>3. QED
    BY <1>1, <2>1, <2>2 DEF Owned, Exclusive
<1>7. ASSUME NEW initial \in Nat, NEW max \in Nat, UpdateLimits(initial, max)
      PROVE  Distinct(pool') /\ (~torn' => Exclusive')
  <2>1. PICK f \in FreshAddrs(pool, Missing(pool, initial)) :
          pool' = Resized(pool, initial, max, f)
    BY <1>7 DEF UpdateLimits
  <2>2. /\ held' = held /\ Holders' = Holders
        /\ ~torn' => ~torn /\ \A t \in Holders : held[t] \notin Destroyed(pool, initial)
    BY <1>7 DEF UpdateLimits, Holders
  <2>3. /\ Distinct(pool')
        /\ \A b : InUse(pool, b) /\ b \notin Destroyed(pool, initial) /\ b # Null
                => InUse(pool', b)
    BY <1>1, <2>1, ResizedMarks
  <2>4. QED
    BY <2>2, <2>3 DEF Owned, Exclusive
<1>8. ASSUME NEW t \in Threads, AcquireThrows(t)
      PROVE  Distinct(pool') /\ (~torn' => Exclusive')
  <2>1. pool' = WithNullSlot(pool) /\ held' = held /\ torn' = torn /\ Holders' = Holders
    BY <1>8 DEF AcquireThrows, Holders
  <2>2. Distinct(pool') /\ \A b : InUse(pool, b) => InUse(pool', b)
    BY <1>1, <2>1, NullSlotMarks
  <2>3. QED
    BY <2>1, <2>2 DEF Owned, Exclusive
<1>9. ASSUME NEW initial \in Nat, NEW max \in Nat, UpdateLimitsThrows(initial, max)
      PROVE  Distinct(pool') /\ (~torn' => Exclusive')
  <2>1. held' = held /\ torn' = torn /\ Holders' = Holders
    BY <1>9 DEF UpdateLimitsThrows, Holders
  <2>2. PICK made \in 0 .. Missing(pool, initial) - 1 :
        \E f \in FreshAddrs(pool, made) : pool' = ResizeThrown(pool, made, max, f)
    BY <1>9 DEF UpdateLimitsThrows
  <2>3. PICK f \in FreshAddrs(pool, made) : pool' = ResizeThrown(pool, made, max, f)
    BY <2>2
  <2>4. made \in Nat
    BY <1>1 DEF Missing, Higher
  <2>5. Distinct(pool') /\ \A b : InUse(pool, b) /\ b # Null => InUse(pool', b)
    BY <1>1, <2>3, <2>4, ThrownMarks
  <2>6. QED
    BY <2>1, <2>5 DEF Owned, Exclusive
<1>10. CASE UNCHANGED poolUseVars
  BY <1>1, <1>2, <1>10 DEF poolUseVars, Owned, Exclusive, Holders
<1>11. QED
  BY <1>2, <1>3, <1>4, <1>5, <1>6, <1>7, <1>8, <1>9, <1>10 DEF FreeUse, ThreadStep, Owned

(***************************************************************************)
(* Until an updateLimits destroys an object in use, acquire never hands    *)
(* one object to two threads, and every thread's object is in the pool and *)
(* marked: release finds it.                                               *)
(***************************************************************************)
THEOREM ExclusiveUse == PoolUseSpec => []ExclusiveUntilTorn
BY OwnedInit, OwnedStep, OwnedExclusive, UseIsFree, PTL DEF PoolUseSpec

-----------------------------------------------------------------------------
(***************************************************************************)
(* Room for every thread.  Objects are marked as in use for the threads    *)
(* that hold them; one that is marked for nobody has been lost.  (A thread *)
(* may hold an object that is not marked, after a resize has destroyed it. *)
(* So the number of marked objects is bounded, not given, by the counters.)*)
(* There are no more slots without an object than constructors that threw. *)
(***************************************************************************)
MarkedAddrs(p) ==
  {p.objects[i].addr : i \in {j \in 1 .. Len(p.objects) :
                                p.objects[j].inUse /\ p.objects[j].addr # Null}}

NullSlots(p) == {i \in 1 .. Len(p.objects) : p.objects[i].addr = Null}

InHands == {held[t] : t \in Holders}

Orphans == MarkedAddrs(pool) \ InHands

Roomy ==
  /\ Owned
  /\ Cardinality(Orphans) <= lost
  /\ Cardinality(NullSlots(pool)) <= failed

LEMMA MarkedFinite ==
  ASSUME NEW p \in PoolType
  PROVE  IsFiniteSet(MarkedAddrs(p)) /\ Cardinality(MarkedAddrs(p)) \in Nat
<1> DEFINE I == {j \in 1 .. Len(p.objects) :
                  p.objects[j].inUse /\ p.objects[j].addr # Null}
           f == [i \in I |-> p.objects[i].addr]
<1>1. Len(p.objects) \in Nat
  BY PoolFields, LenProperties
<1>2. IsFiniteSet(I)
  <2>1. IsFiniteSet(1 .. Len(p.objects)) /\ I \in SUBSET (1 .. Len(p.objects))
    BY <1>1, FS_Interval
  <2>2. QED
    BY <2>1, FS_Subset
<1>3. f \in Surjection(I, MarkedAddrs(p))
  BY DEF Surjection, MarkedAddrs
<1>4. QED
  BY <1>2, <1>3, FS_Surjection, FS_CardinalityType

LEMMA InHandsFinite ==
  IsFiniteSet(InHands) /\ Cardinality(InHands) \in Nat
    /\ Cardinality(InHands) <= Cardinality(Holders)
<1> DEFINE f == [t \in Holders |-> held[t]]
<1>1. f \in Surjection(Holders, InHands)
  BY DEF Surjection, InHands
<1>2. QED
  BY <1>1, HoldersFinite, FS_Surjection, FS_CardinalityType

LEMMA OrphansFinite ==
  ASSUME PoolUseTypeOK
  PROVE  IsFiniteSet(Orphans) /\ Cardinality(Orphans) \in Nat
<1>1. Orphans \in SUBSET MarkedAddrs(pool)
  BY DEF Orphans
<1>2. IsFiniteSet(MarkedAddrs(pool))
  BY MarkedFinite DEF PoolUseTypeOK
<1>3. QED
  BY <1>1, <1>2, FS_Subset, FS_CardinalityType

LEMMA NullSlotsFinite ==
  ASSUME NEW p \in PoolType
  PROVE  /\ IsFiniteSet(1 .. Len(p.objects)) /\ IsFiniteSet(NullSlots(p))
         /\ Cardinality(1 .. Len(p.objects)) = Len(p.objects)
         /\ Cardinality(NullSlots(p)) \in Nat /\ Len(p.objects) \in Nat
<1>1. Len(p.objects) \in Nat
  BY PoolFields, LenProperties
<1>2. IsFiniteSet(1 .. Len(p.objects)) /\ Cardinality(1 .. Len(p.objects)) = Len(p.objects)
  BY <1>1, FS_Interval
<1>3. NullSlots(p) \in SUBSET (1 .. Len(p.objects))
  BY DEF NullSlots
<1>4. QED
  BY <1>1, <1>2, <1>3, FS_Subset, FS_CardinalityType

LEMMA RoomyInit == PoolUseInit => Roomy
<1> SUFFICES ASSUME PoolUseInit PROVE Roomy
  OBVIOUS
<1>1. PICK f \in [1 .. InitialSize -> Addr] :
        pool = InitialPool(f, InitialSize, InitialMax)
  BY DEF PoolUseInit
<1>2. \A i \in 1 .. Len(pool.objects) :
        ~pool.objects[i].inUse /\ pool.objects[i].addr \in Addr
  BY <1>1 DEF InitialPool
<1>3. Orphans = {} /\ NullSlots(pool) = {}
  BY <1>2 DEF Orphans, MarkedAddrs, NullSlots
<1>4. Cardinality(Orphans) <= lost /\ Cardinality(NullSlots(pool)) <= failed
  BY <1>3, FS_EmptySet DEF PoolUseInit
<1>5. QED
  BY <1>4, OwnedInit DEF Roomy

\* Only a loss leaves an object marked for nobody.
LEMMA OrphansStep ==
  ASSUME Owned, [FreeUse]_poolUseVars
  PROVE  \/ Orphans' \subseteq Orphans /\ lost' = lost
         \/ \E a : Orphans' \subseteq Orphans \cup {a} /\ lost' = lost + 1
<1> DEFINE n == Len(pool.objects)
<1>1. /\ pool \in PoolType /\ n \in Nat /\ DOMAIN pool.objects = 1 .. n
      /\ held \in [Threads -> Addr \cup {Null, NoObject}]
      /\ Distinct(pool)
  BY PoolFields, LenProperties DEF Owned, Booked, PoolUseTypeOK, Ledger
<1>2. ASSUME NEW t \in Threads, AcquireFree(t)
      PROVE  Orphans' \subseteq Orphans /\ lost' = lost
  <2> DEFINE i == FirstFree(pool)
  <2>1. Free(pool) # {} /\ pool' = TakeFirst(pool) /\ lost' = lost
        /\ held[t] = NoObject /\ held' = [held EXCEPT ![t] = pool.objects[i].addr]
    BY <1>2 DEF AcquireFree
  <2>2. i \in 1 .. n
    BY <1>1, <2>1, FirstFreeIsFree DEF Free
  <2>3. pool.objects[i].addr # NoObject
    <3>1. pool.objects[i] \in Object
      BY <1>1, <2>2, PoolFields, ElementOfSeq
    <3>2. QED
      BY <3>1 DEF Object
  <2>4. Len(pool'.objects) = n
    BY <1>1, <2>1, TakeFirstCounts
  <2>5. /\ \A j \in 1 .. n : pool'.objects[j].addr = pool.objects[j].addr
        /\ \A j \in 1 .. n : pool'.objects[j].inUse => j = i \/ pool.objects[j].inUse
    BY <1>1, <2>1, TakeFirstObjects
  <2> HIDE DEF i, n
  <2>6. MarkedAddrs(pool') \subseteq MarkedAddrs(pool) \cup {pool.objects[i].addr}
    BY <2>4, <2>5 DEF MarkedAddrs, n
  <2>7. InHands \cup {pool.objects[i].addr} \subseteq InHands'
    BY <1>1, <2>1, <2>3 DEF InHands, Holders
  <2>8. QED
    BY <2>1, <2>6, <2>7 DEF Orphans
<1>3. ASSUME NEW t \in Threads, AcquireNew(t)
      PROVE  Orphans' \subseteq Orphans /\ lost' = lost
  <2>1. PICK a \in Addr \ Live(pool) :
          pool' = TakeNew(pool, a) /\ held' = [held EXCEPT ![t] = a]
    BY <1>3 DEF AcquireNew
  <2>2. held[t] = NoObject /\ lost' = lost /\ a # NoObject
    BY <1>3 DEF AcquireNew
  <2>3. Len(pool'.objects) = n + 1
    BY <1>1, <2>1, TakeNewFields
  <2>4. /\ \A j \in 1 .. n : pool'.objects[j] = pool.objects[j]
        /\ pool'.objects[n + 1] = [addr |-> a, inUse |-> TRUE]
    BY <1>1, <2>1, TakeNewFields
  <2>5. pool'.objects[n + 1].addr = a /\ \A j \in 1 .. n + 1 : j \in 1 .. n \/ j = n + 1
    BY <1>1, <2>4
  <2> HIDE DEF n
  <2>6. MarkedAddrs(pool') \subseteq MarkedAddrs(pool) \cup {a}
    BY <2>3, <2>4, <2>5 DEF MarkedAddrs, n
  <2>7. InHands \cup {a} \subseteq InHands'
    BY <1>1, <2>1, <2>2 DEF InHands, Holders
  <2>8. QED
    BY <2>2, <2>6, <2>7 DEF Orphans
<1>4. ASSUME NEW t \in Threads, Release(t)
      PROVE  Orphans' \subseteq Orphans /\ lost' = lost
  <2> DEFINE a == held[t]
             i == Position(pool, a)
  <2>1. a \in Live(pool) /\ pool' = GiveBack(pool, a) /\ lost' = lost
        /\ held' = [held EXCEPT ![t] = NoObject]
    BY <1>4 DEF Release
  <2> HIDE DEF a
  <2>2. Len(pool'.objects) = n
    BY <1>1, <2>1, GiveBackCounts
  <2>3. /\ i \in 1 .. n /\ pool.objects[i].addr = a
        /\ \A j \in 1 .. n : pool'.objects[j].addr = pool.objects[j].addr
        /\ \A j \in 1 .. n : pool'.objects[j].inUse => j # i /\ pool.objects[j].inUse
    BY <1>1, <2>1, GiveBackObjects
  <2> HIDE DEF i, n
  <2>4. MarkedAddrs(pool') \subseteq MarkedAddrs(pool) \ {a}
    BY <1>1, <2>2, <2>3 DEF MarkedAddrs, Distinct, n
  <2>5. InHands \subseteq InHands' \cup {a}
    BY <1>1, <2>1 DEF InHands, Holders, a
  <2>6. QED
    BY <2>1, <2>4, <2>5 DEF Orphans
<1>5. ASSUME NEW t \in Threads, Lose(t)
      PROVE  \E a : Orphans' \subseteq Orphans \cup {a} /\ lost' = lost + 1
  <2>1. pool' = pool /\ lost' = lost + 1 /\ held' = [held EXCEPT ![t] = NoObject]
    BY <1>5 DEF Lose
  <2>2. InHands \subseteq InHands' \cup {held[t]}
    BY <1>1, <2>1 DEF InHands, Holders
  <2>3. QED
    BY <2>1, <2>2 DEF Orphans
<1>6. ASSUME NEW initial \in Nat, NEW max \in Nat, UpdateLimits(initial, max)
      PROVE  Orphans' \subseteq Orphans /\ lost' = lost
  <2>1. PICK f \in FreshAddrs(pool, Missing(pool, initial)) :
          pool' = Resized(pool, initial, max, f)
    BY <1>6 DEF UpdateLimits
  <2>2. Len(pool'.objects) = initial
    BY <1>1, <2>1, ResizedFields
  <2>3. /\ \A j \in 1 .. initial : j <= n => pool'.objects[j] = pool.objects[j]
        /\ \A j \in 1 .. initial : j > n => ~pool'.objects[j].inUse
    BY <1>1, <2>1, ResizedFields
  <2>4. \A j \in 1 .. initial : j \in 1 .. n \/ j > n
    BY <1>1
  <2> HIDE DEF n
  <2>5. MarkedAddrs(pool') \subseteq MarkedAddrs(pool)
    BY <1>1, <2>2, <2>3, <2>4 DEF MarkedAddrs, n
  <2>6. UNCHANGED <<held, lost>> /\ InHands' = InHands
    BY <1>6 DEF UpdateLimits, InHands, Holders
  <2>7. QED
    BY <2>5, <2>6 DEF Orphans
<1>7. ASSUME NEW t \in Threads, AcquireThrows(t)
      PROVE  Orphans' \subseteq Orphans /\ lost' = lost
  <2>1. pool' = WithNullSlot(pool) /\ held' = held /\ lost' = lost /\ InHands' = InHands
    BY <1>7 DEF AcquireThrows, InHands, Holders
  <2>2. /\ Len(pool'.objects) = n + 1
        /\ \A j \in 1 .. n : pool'.objects[j] = pool.objects[j]
        /\ pool'.objects[n + 1] = [addr |-> Null, inUse |-> FALSE]
    BY <1>1, <2>1, NullSlotFields
  <2>3. ~pool'.objects[n + 1].inUse /\ \A j \in 1 .. n + 1 : j \in 1 .. n \/ j = n + 1
    BY <1>1, <2>2
  <2> HIDE DEF n
  <2>4. MarkedAddrs(pool') \subseteq MarkedAddrs(pool)
    BY <2>2, <2>3 DEF MarkedAddrs, n
  <2>5. QED
    BY <2>1, <2>4 DEF Orphans
<1>8. ASSUME NEW initial \in Nat, NEW max \in Nat, UpdateLimitsThrows(initial, max)
      PROVE  Orphans' \subseteq Orphans /\ lost' = lost
  <2>1. UNCHANGED <<held, lost>> /\ InHands' = InHands
    BY <1>8 DEF UpdateLimitsThrows, InHands, Holders
  <2>2. PICK made \in 0 .. Missing(pool, initial) - 1 :
        \E f \in FreshAddrs(pool, made) : pool' = ResizeThrown(pool, made, max, f)
    BY <1>8 DEF UpdateLimitsThrows
  <2>3. PICK f \in FreshAddrs(pool, made) : pool' = ResizeThrown(pool, made, max, f)
    BY <2>2
  <2>4. made \in Nat
    BY <1>1 DEF Missing, Higher
  <2>5. /\ \A j \in 1 .. n : pool'.objects[j] = pool.objects[j]
        /\ \A j \in 1 .. Len(pool'.objects) : j > n => ~pool'.objects[j].inUse
        /\ Len(pool'.objects) = n + made + 1
    BY <1>1, <2>3, <2>4, ThrownFields
  <2>6. \A j \in 1 .. Len(pool'.objects) : j \in 1 .. n \/ j > n
    BY <1>1, <2>4, <2>5
  <2> HIDE DEF n
  <2>7. MarkedAddrs(pool') \subseteq MarkedAddrs(pool)
    BY <2>5, <2>6 DEF MarkedAddrs, n
  <2>8. QED
    BY <2>1, <2>7 DEF Orphans
<1>9. CASE UNCHANGED poolUseVars
  BY <1>9 DEF poolUseVars, Orphans, InHands, Holders
<1>10. QED
  BY <1>2, <1>3, <1>4, <1>5, <1>6, <1>7, <1>8, <1>9 DEF FreeUse, ThreadStep

\* Only a constructor that throws leaves a slot without an object.
LEMMA NullSlotsStep ==
  ASSUME Owned, [FreeUse]_poolUseVars
  PROVE  \/ NullSlots(pool)' \subseteq NullSlots(pool) /\ failed' = failed
         \/ \E i : NullSlots(pool)' \subseteq NullSlots(pool) \cup {i} /\ failed' = failed + 1
<1> DEFINE n == Len(pool.objects)
<1>1. pool \in PoolType /\ n \in Nat /\ DOMAIN pool.objects = 1 .. n
  BY PoolFields, LenProperties DEF Owned, Booked, PoolUseTypeOK
<1>2. ASSUME NEW t \in Threads, AcquireFree(t)
      PROVE  NullSlots(pool)' \subseteq NullSlots(pool) /\ failed' = failed
  <2>1. Free(pool) # {} /\ pool' = TakeFirst(pool) /\ failed' = failed
    BY <1>2 DEF AcquireFree
  <2>2. /\ Len(pool'.objects) = n
        /\ \A j \in 1 .. n : pool'.objects[j].addr = pool.objects[j].addr
    BY <1>1, <2>1, TakeFirstCounts, TakeFirstObjects
  <2>3. QED
    BY <2>1, <2>2 DEF NullSlots
<1>3. ASSUME NEW t \in Threads, AcquireNew(t)
      PROVE  NullSlots(pool)' \subseteq NullSlots(pool) /\ failed' = failed
  <2>1. PICK a \in Addr \ Live(pool) : pool' = TakeNew(pool, a) /\ failed' = failed
    BY <1>3 DEF AcquireNew
  <2>2. /\ Len(pool'.objects) = n + 1
        /\ \A j \in 1 .. n : pool'.objects[j] = pool.objects[j]
        /\ pool'.objects[n + 1] = [addr |-> a, inUse |-> TRUE]
    BY <1>1, <2>1, TakeNewFields
  <2>3. pool'.objects[n + 1].addr # Null /\ \A j \in 1 .. n + 1 : j \in 1 .. n \/ j = n + 1
    BY <1>1, <2>2
  <2> HIDE DEF n
  <2>4. QED
    BY <2>1, <2>2, <2>3 DEF NullSlots, n
<1>4. ASSUME NEW t \in Threads, Release(t)
      PROVE  NullSlots(pool)' \subseteq NullSlots(pool) /\ failed' = failed
  <2>1. PICK a \in Live(pool) : pool' = GiveBack(pool, a) /\ failed' = failed
    BY <1>4 DEF Release
  <2>2. /\ Len(pool'.objects) = n
        /\ \A j \in 1 .. n : pool'.objects[j].addr = pool.objects[j].addr
    BY <1>1, <2>1, GiveBackCounts, GiveBackObjects
  <2>3. QED
    BY <2>1, <2>2 DEF NullSlots
<1>5. ASSUME NEW t \in Threads, Lose(t)
      PROVE  NullSlots(pool)' \subseteq NullSlots(pool) /\ failed' = failed
  BY <1>5 DEF Lose, NullSlots
<1>6. ASSUME NEW initial \in Nat, NEW max \in Nat, UpdateLimits(initial, max)
      PROVE  NullSlots(pool)' \subseteq NullSlots(pool) /\ failed' = failed
  <2>1. PICK f \in FreshAddrs(pool, Missing(pool, initial)) :
          pool' = Resized(pool, initial, max, f)
    BY <1>6 DEF UpdateLimits
  <2>2. /\ Len(pool'.objects) = initial
        /\ \A j \in 1 .. initial : j <= n => pool'.objects[j] = pool.objects[j]
        /\ \A j \in 1 .. initial : j > n => pool'.objects[j].addr \in Addr
    BY <1>1, <2>1, ResizedFields
  <2>3. failed' = failed /\ \A j \in 1 .. initial : j \in 1 .. n \/ j > n
    BY <1>1, <1>6 DEF UpdateLimits
  <2> HIDE DEF n
  <2>4. QED
    BY <1>1, <2>2, <2>3 DEF NullSlots, n
<1>7. ASSUME NEW t \in Threads, AcquireThrows(t)
      PROVE  /\ NullSlots(pool)' \subseteq NullSlots(pool) \cup {n + 1}
             /\ failed' = failed + 1
  <2>1. pool' = WithNullSlot(pool) /\ failed' = failed + 1
    BY <1>7 DEF AcquireThrows
  <2>2. /\ Len(pool'.objects) = n + 1
        /\ \A j \in 1 .. n : pool'.objects[j] = pool.objects[j]
    BY <1>1, <2>1, NullSlotFields
  <2>3. \A j \in 1 .. n + 1 : j \in 1 .. n \/ j = n + 1
    BY <1>1
  <2> HIDE DEF n
  <2>4. QED
    BY <2>1, <2>2, <2>3 DEF NullSlots, n
<1>8. ASSUME NEW initial \in Nat, NEW max \in Nat, UpdateLimitsThrows(initial, max)
      PROVE  \E i : /\ NullSlots(pool)' \subseteq NullSlots(pool) \cup {i}
                    /\ failed' = failed + 1
  <2>1. failed' = failed + 1
    BY <1>8 DEF UpdateLimitsThrows
  <2>2. PICK made \in 0 .. Missing(pool, initial) - 1 :
        \E f \in FreshAddrs(pool, made) : pool' = ResizeThrown(pool, made, max, f)
    BY <1>8 DEF UpdateLimitsThrows
  <2>3. PICK f \in FreshAddrs(pool, made) : pool' = ResizeThrown(pool, made, max, f)
    BY <2>2
  <2>4. made \in Nat
    BY <1>1 DEF Missing, Higher
  <2>5. /\ \A j \in 1 .. n : pool'.objects[j] = pool.objects[j]
        /\ \A j \in 1 .. Len(pool'.objects) :
             j > n /\ pool'.objects[j].addr = Null => j = Len(pool'.objects)
        /\ Len(pool'.objects) = n + made + 1
    BY <1>1, <2>3, <2>4, ThrownFields
  <2>6. \A j \in 1 .. Len(pool'.objects) : j \in 1 .. n \/ j > n
    BY <1>1, <2>4, <2>5
  <2> HIDE DEF n
  <2>7. NullSlots(pool)' \subseteq NullSlots(pool) \cup {Len(pool'.objects)}
    BY <2>5, <2>6 DEF NullSlots, n
  <2>8. QED
    BY <2>1, <2>7
<1>9. CASE UNCHANGED poolUseVars
  BY <1>9 DEF poolUseVars, NullSlots
<1>10. QED
  BY <1>2, <1>3, <1>4, <1>5, <1>6, <1>7, <1>8, <1>9 DEF FreeUse, ThreadStep

\* A finite set that gains at most one element.
LEMMA AtMostOneMore ==
  ASSUME NEW S, IsFiniteSet(S), NEW a, NEW T, T \subseteq S \cup {a}
  PROVE  IsFiniteSet(T) /\ Cardinality(T) <= Cardinality(S) + 1
         /\ Cardinality(T) \in Nat /\ Cardinality(S) \in Nat
<1> DEFINE k == Cardinality(S)
<1>1. k \in Nat
  BY FS_CardinalityType
<1>2. /\ IsFiniteSet(S \cup {a})
      /\ Cardinality(S \cup {a}) = IF a \in S THEN k ELSE k + 1
  BY FS_AddElement
<1> HIDE DEF k
<1>3. Cardinality(S \cup {a}) <= k + 1 /\ Cardinality(S \cup {a}) \in Nat
  BY <1>1, <1>2
<1>4. /\ IsFiniteSet(T) /\ Cardinality(T) <= Cardinality(S \cup {a})
      /\ Cardinality(T) \in Nat
  BY <1>2, FS_Subset, FS_CardinalityType
<1>5. QED
  BY <1>1, <1>3, <1>4 DEF k

LEMMA RoomyStep ==
  ASSUME Roomy, [FreeUse]_poolUseVars
  PROVE  Roomy'
<1>1. Owned'
  BY OwnedStep DEF Roomy
<1>2. IsFiniteSet(Orphans) /\ Cardinality(Orphans) \in Nat
  BY OrphansFinite DEF Roomy, Owned, Booked
<1>3. IsFiniteSet(NullSlots(pool)) /\ Cardinality(NullSlots(pool)) \in Nat
  BY NullSlotsFinite DEF Roomy, Owned, Booked, PoolUseTypeOK
<1>4. /\ lost \in Nat /\ failed \in Nat
      /\ Cardinality(Orphans) <= lost /\ Cardinality(NullSlots(pool)) <= failed
  BY DEF Roomy, Owned, Booked, PoolUseTypeOK
<1>5. Cardinality(Orphans') <= lost'
  <2>1. CASE Orphans' \subseteq Orphans /\ lost' = lost
    <3>1. Cardinality(Orphans') <= Cardinality(Orphans) /\ Cardinality(Orphans') \in Nat
      BY <1>2, <2>1, FS_Subset, FS_CardinalityType
    <3>2. QED
      BY <1>2, <1>4, <2>1, <3>1
  <2>2. ASSUME NEW a, Orphans' \subseteq Orphans \cup {a}, lost' = lost + 1
        PROVE  Cardinality(Orphans') <= lost'
    <3>1. Cardinality(Orphans') <= Cardinality(Orphans) + 1 /\ Cardinality(Orphans') \in Nat
      BY <1>2, <2>2, AtMostOneMore
    <3>2. QED
      BY <1>2, <1>4, <2>2, <3>1
  <2>3. QED
    BY <2>1, <2>2, OrphansStep DEF Roomy
<1>6. Cardinality(NullSlots(pool)') <= failed'
  <2> DEFINE S == NullSlots(pool)
             T == NullSlots(pool')
  <2>0. IsFiniteSet(S) /\ Cardinality(S) \in Nat /\ Cardinality(S) <= failed
    BY <1>3, <1>4
  <2>1. \/ T \subseteq S /\ failed' = failed
        \/ \E i : T \subseteq S \cup {i} /\ failed' = failed + 1
    BY NullSlotsStep DEF Roomy
  <2> HIDE DEF S, T
  <2>2. CASE T \subseteq S /\ failed' = failed
    <3>1. Cardinality(T) <= Cardinality(S) /\ Cardinality(T) \in Nat
      BY <2>0, <2>2, FS_Subset, FS_CardinalityType
    <3>2. Cardinality(T) <= failed'
      BY <1>4, <2>0, <2>2, <3>1
    <3>3. QED
      BY <3>2 DEF T
  <2>3. ASSUME NEW i, T \subseteq S \cup {i}, failed' = failed + 1
        PROVE  Cardinality(T) <= failed'
    <3>1. Cardinality(T) <= Cardinality(S) + 1 /\ Cardinality(T) \in Nat
      BY <2>0, <2>3, AtMostOneMore
    <3>2. QED
      BY <1>4, <2>0, <2>3, <3>1
  <2>4. QED
    BY <2>1, <2>2, <2>3 DEF T
<1>7. QED
  BY <1>1, <1>5, <1>6 DEF Roomy

(***************************************************************************)
(* An exhausted pool has all its slots marked.  Those without an object    *)
(* are no more than the constructors that threw, so the others are at      *)
(* least total, at least max: and as many are the holders and lost objects.*)
(***************************************************************************)
LEMMA RoomyEnough == Roomy => RoomForEveryThread
<1> SUFFICES ASSUME Roomy, pool.max >= Cardinality(Threads) + lost, Holders # Threads,
                    pool.total >= 0, Exhausted(pool)
             PROVE  FALSE
  BY DEF RoomForEveryThread
<1> DEFINE n == Len(pool.objects)
           Z == NullSlots(pool)
           N == (1 .. n) \ Z
           f == [i \in N |-> pool.objects[i].addr]
<1>1. /\ pool \in PoolType /\ n \in Nat /\ pool.total = n - failed
      /\ DOMAIN pool.objects = 1 .. n /\ Distinct(pool)
      /\ lost \in Nat /\ failed \in Nat /\ pool.max \in Nat /\ pool.total \in Int
  BY PoolFields, LenProperties DEF Roomy, Owned, Booked, PoolUseTypeOK, Ledger
<1>2. \A i \in 1 .. n : pool.objects[i].inUse
  BY <1>1 DEF Exhausted, Free
<1>3. pool.total >= pool.max
  BY <1>1 DEF Exhausted, Unsigned
<1>4. f \in Injection(N, MarkedAddrs(pool))
  BY <1>2, <1>1 DEF Injection, IsInjective, MarkedAddrs, Distinct, NullSlots
<1>5. n - failed <= Cardinality(MarkedAddrs(pool))
  <2>1. /\ IsFiniteSet(1 .. n) /\ Cardinality(1 .. n) = n
        /\ IsFiniteSet(Z) /\ Cardinality(Z) \in Nat /\ Cardinality(Z) <= failed
    BY <1>1, NullSlotsFinite DEF Roomy
  <2>2. (1 .. n) \cap Z = Z
    BY DEF NullSlots
  <2>3. Cardinality(N) \in Nat /\ Cardinality(N) <= Cardinality(MarkedAddrs(pool))
        /\ IsFiniteSet(N)
    <3>1. IsFiniteSet(N)
      BY <2>1, FS_Subset
    <3>2. QED
      BY <1>1, <1>4, <3>1, MarkedFinite, FS_Injection, FS_CardinalityType
  <2>4. Cardinality(N) = n - Cardinality(Z)
    <3> DEFINE A == 1 .. n
    <3>1. IsFiniteSet(A) /\ Cardinality(A) = n /\ A \cap Z = Z /\ N = A \ Z
      BY <2>1, <2>2
    <3> HIDE DEF A, Z, N
    <3>2. Cardinality(A \ Z) = Cardinality(A) - Cardinality(A \cap Z)
      BY <2>1, <3>1, FS_Difference
    <3>3. QED
      BY <3>1, <3>2
  <2>5. Cardinality(MarkedAddrs(pool)) \in Nat
    BY <1>1, MarkedFinite
  <2> HIDE DEF n, Z, N
  <2>6. QED
    BY <1>1, <2>1, <2>3, <2>4, <2>5
<1>6. Cardinality(MarkedAddrs(pool)) <= Cardinality(Orphans) + Cardinality(InHands)
  <2>1. /\ IsFiniteSet(Orphans) /\ Cardinality(Orphans) \in Nat
        /\ IsFiniteSet(InHands) /\ Cardinality(InHands) \in Nat
    BY OrphansFinite, InHandsFinite DEF Roomy, Owned, Booked
  <2>2. /\ IsFiniteSet(Orphans \cup InHands)
        /\ Cardinality(Orphans \cup InHands) =
             Cardinality(Orphans) + Cardinality(InHands) - Cardinality(Orphans \cap InHands)
    BY <2>1, FS_Union
  <2>3. Cardinality(Orphans \cap InHands) = 0
    <3>1. Orphans \cap InHands = {}
      BY DEF Orphans
    <3>2. QED
      BY <3>1, FS_EmptySet
  <2>4. MarkedAddrs(pool) \in SUBSET (Orphans \cup InHands)
    BY DEF Orphans
  <2>5. Cardinality(MarkedAddrs(pool)) <= Cardinality(Orphans \cup InHands)
    BY <2>2, <2>4, FS_Subset
  <2>6. QED
    BY <2>1, <2>2, <2>3, <2>5
<1>7. Cardinality(Holders) < Cardinality(Threads)
  <2>1. Holders \in SUBSET Threads
    BY DEF Holders
  <2>2. Cardinality(Holders) <= Cardinality(Threads)
        /\ Cardinality(Holders) # Cardinality(Threads)
    BY <2>1, FS_Subset
  <2>3. QED
    BY <2>2, HoldersFinite, FS_CardinalityType
<1> HIDE DEF n
<1>8. /\ Cardinality(Orphans) <= lost /\ Cardinality(Orphans) \in Nat
      /\ Cardinality(InHands) <= Cardinality(Holders) /\ Cardinality(InHands) \in Nat
      /\ Cardinality(MarkedAddrs(pool)) \in Nat
      /\ Cardinality(Holders) \in Nat /\ Cardinality(Threads) \in Nat
  BY <1>1, OrphansFinite, InHandsFinite, MarkedFinite, HoldersFinite, FS_CardinalityType
     DEF Roomy, Owned, Booked
<1>9. QED
  BY <1>1, <1>3, <1>5, <1>6, <1>7, <1>8

(***************************************************************************)
(* A pool whose limit has room for every thread and every lost object is   *)
(* never exhausted, however often it was resized, also under threads that  *)
(* worked on destroyed objects, and however many constructors threw, until *)
(* that has taken m_total_count below zero (acquire, release,              *)
(* updateLimits).                                                          *)
(***************************************************************************)
THEOREM NeverExhausted == PoolUseSpec => []RoomForEveryThread
BY RoomyInit, RoomyStep, RoomyEnough, UseIsFree, PTL DEF PoolUseSpec

-----------------------------------------------------------------------------
(***************************************************************************)
(* Sizes, and the invariant.  What the thread has read are sizes, and as   *)
(* long as no operator came between it still describes the limit: the      *)
(* other threads change the size of the pool, but never past the limit.    *)
(* A count below zero stays below zero until the next updateLimits.        *)
(***************************************************************************)
LEMMA SizesRange ==
  /\ Sizes \subseteq Nat /\ Word \in Nat
  /\ \A n : n \in Sizes <=> n \in Nat /\ n < Word
  /\ MinSize \in Sizes /\ InitialMax \in Sizes /\ MinSize <= InitialMax
  /\ MaxFailed \in Nat /\ MaxFailed < Word
  /\ \A n \in Sizes : \A m \in Nat : m <= n => m \in Sizes
<1>1. Word \in Nat /\ Sizes = 0 .. Word - 1
  BY PoolAssumption DEF Sizes
<1>2. \A n : n \in Sizes <=> n \in Nat /\ n < Word
  BY <1>1
<1>3. /\ InitialMax \in Sizes /\ MinSize <= InitialMax /\ MinSize \in Nat
      /\ MaxFailed \in Nat /\ MaxFailed < Word
  BY PoolUseAssumption, ScalingAssumption DEF MinSize
<1>4. QED
  BY <1>1, <1>2, <1>3

Readings == [size : Sizes, max : Sizes \cup {NoSnapshot}]

Ranges ==
  /\ seen \in Readings \cup {NoSnapshot}
  /\ fresh \in BOOLEAN /\ started \in BOOLEAN
  /\ configured \in Sizes /\ oversized \in Sizes
  /\ pool.max \in Sizes
  /\ ~started => seen = NoSnapshot

\* The limit, or what may be found above it.
Ceiling == Higher(pool.max, Higher(MinSize, oversized))

FreshKept ==
  fresh /\ seen # NoSnapshot /\ pool.total >= 0 =>
    /\ seen.size <= Ceiling
    /\ seen.max # NoSnapshot => seen.max = pool.max

ScalingInv == Roomy /\ Ranges /\ WithinLimits /\ FreshKept

LEMMA ReadingIsNoSleep ==
  /\ NoSnapshot \notin Readings
  /\ NoSnapshot \notin Sizes
<1>1. Readings \subseteq [size : Int, max : Int \cup {NoSnapshot}] /\ Sizes \subseteq Int
  BY SizesRange DEF Readings
<1>2. QED
  BY <1>1, ScalingAssumption

\* The sizes and limits that count are numbers, and what is read is a size.
LEMMA Numbers ==
  ASSUME ScalingInv
  PROVE  /\ pool \in PoolType /\ pool.total \in Int /\ pool.max \in Nat /\ pool.max < Word
         /\ Len(pool.objects) \in Nat /\ failed \in Nat
         /\ pool.total = Len(pool.objects) - failed
         /\ configured \in Nat /\ oversized \in Nat /\ MinSize \in Nat
         /\ Ceiling \in Sizes /\ Ceiling \in Nat
         /\ pool.total <= Ceiling /\ Unsigned(pool.total) \in Sizes
<1>1. /\ pool \in PoolType /\ failed \in Nat /\ failed <= MaxFailed
      /\ pool.total = Len(pool.objects) - failed
  BY DEF ScalingInv, Roomy, Owned, Booked, PoolUseTypeOK, Ledger
<1>2. pool.total \in Int /\ Len(pool.objects) \in Nat
  BY <1>1, PoolFields, LenProperties
<1>3. /\ pool.max \in Sizes /\ oversized \in Sizes /\ configured \in Sizes
      /\ MinSize \in Sizes
  BY SizesRange DEF ScalingInv, Ranges
<1>4. /\ pool.max \in Nat /\ pool.max < Word /\ oversized \in Nat /\ oversized < Word
      /\ configured \in Nat /\ MinSize \in Nat /\ MinSize < Word
  BY <1>3, SizesRange
<1>5. Ceiling \in Nat /\ Ceiling < Word
  BY <1>4 DEF Ceiling, Higher
<1>6. Len(pool.objects) <= Ceiling + failed
  BY DEF ScalingInv, WithinLimits, Ceiling
<1>7. pool.total <= Ceiling /\ pool.total >= 0 - failed
  BY <1>1, <1>2, <1>5, <1>6
<1>8. Word \in Nat /\ failed < Word
  BY <1>1, SizesRange
<1>9. Unsigned(pool.total) \in Nat /\ Unsigned(pool.total) < Word
  BY <1>1, <1>2, <1>5, <1>7, <1>8 DEF Unsigned
<1>10. QED
  BY <1>1, <1>2, <1>4, <1>5, <1>7, <1>9, SizesRange

LEMMA ScalingInit == Init => ScalingInv
<1> SUFFICES ASSUME Init PROVE ScalingInv
  OBVIOUS
<1>1. Roomy
  BY RoomyInit DEF Init
<1>2. Len(pool.objects) = InitialSize /\ pool.max = InitialMax /\ failed = 0
  BY DEF Init, PoolUseInit, InitialPool
<1>3. /\ seen = NoSnapshot /\ fresh = TRUE /\ configured = InitialMax
      /\ started = FALSE /\ oversized = 0
  BY DEF Init
<1>4. /\ InitialMax \in Sizes /\ InitialMax \in Nat /\ 0 \in Sizes
      /\ InitialSize \in Nat /\ InitialSize <= InitialMax /\ MinSize = InitialSize
  BY SizesRange DEF MinSize
<1>5. Ranges
  BY <1>2, <1>3, <1>4 DEF Ranges
<1>6. WithinLimits
  BY <1>2, <1>3, <1>4 DEF WithinLimits, Higher, Lower
<1>7. FreshKept
  BY <1>3 DEF FreshKept
<1>8. QED
  BY <1>1, <1>5, <1>6, <1>7 DEF ScalingInv

-----------------------------------------------------------------------------
(***************************************************************************)
(* The steps.                                                              *)
(***************************************************************************)

\* What any updateLimits leaves behind.
LEMMA Resizes ==
  ASSUME ScalingInv, NEW initial \in Nat, NEW max \in Nat, UpdateLimits(initial, max)
  PROVE  /\ Len(pool'.objects) = initial /\ pool'.max = max /\ failed' = failed
         /\ pool'.total = initial - failed
<1>1. /\ pool \in PoolType /\ failed \in Nat /\ Len(pool.objects) \in Nat
      /\ pool.total = Len(pool.objects) - failed
  BY Numbers
<1>2. PICK f \in FreshAddrs(pool, Missing(pool, initial)) :
        pool' = Resized(pool, initial, max, f)
  BY DEF UpdateLimits
<1> DEFINE n == Len(pool.objects)
           q == Resized(pool, initial, max, f)
<1>3. q = Resized(pool, initial, max, f) /\ pool' = q /\ n \in Nat
  BY <1>1, <1>2
<1> HIDE DEF q
<1>4. Len(q.objects) = initial /\ q.max = max /\ q.total = pool.total + (initial - n)
  BY <1>1, <1>3, ResizedFields
<1> HIDE DEF n
<1>5. q.total = (n - failed) + (initial - n)
  BY <1>1, <1>4 DEF n
<1>6. q.total = initial - failed
  BY <1>1, <1>3, <1>5
<1>7. QED
  BY <1>3, <1>4, <1>6 DEF UpdateLimits

\* One that throws has not reached the size it was asked for.
LEMMA ResizesThrown ==
  ASSUME ScalingInv, NEW initial \in Nat, NEW max \in Nat, UpdateLimitsThrows(initial, max)
  PROVE  /\ Len(pool'.objects) \in Nat /\ Len(pool'.objects) <= initial
         /\ pool'.max = max /\ failed' = failed + 1
         /\ pool'.total = Len(pool'.objects) - failed'
<1>1. /\ pool \in PoolType /\ failed \in Nat /\ Len(pool.objects) \in Nat
      /\ pool.total = Len(pool.objects) - failed
  BY Numbers
<1>2. PICK made \in 0 .. Missing(pool, initial) - 1 :
        \E f \in FreshAddrs(pool, made) : pool' = ResizeThrown(pool, made, max, f)
  BY DEF UpdateLimitsThrows
<1>3. PICK f \in FreshAddrs(pool, made) : pool' = ResizeThrown(pool, made, max, f)
  BY <1>2
<1>4. made \in Nat /\ Len(pool.objects) + made + 1 <= initial
  BY <1>1 DEF Missing, Higher
<1>5. /\ Len(pool'.objects) = Len(pool.objects) + made + 1 /\ pool'.max = max
      /\ pool'.total = pool.total + made
  BY <1>1, <1>3, <1>4, ThrownFields
<1>6. failed' = failed + 1
  BY DEF UpdateLimitsThrows
<1> DEFINE n == Len(pool.objects)
<1>7. n \in Nat /\ pool'.total = (n - failed) + made /\ Len(pool'.objects) = n + made + 1
  BY <1>1, <1>5
<1> HIDE DEF n
<1>8. pool'.total = Len(pool'.objects) - failed'
  BY <1>1, <1>4, <1>6, <1>7
<1>9. QED
  BY <1>1, <1>4, <1>5, <1>6, <1>7, <1>8

\* The threads that use the pool keep its limit and grow it up to that; a
\* constructor that throws is counted.
LEMMA UseKeepsLimit ==
  ASSUME ScalingInv, Use
  PROVE  /\ pool'.max = pool.max /\ Len(pool'.objects) \in Nat /\ failed' \in Nat
         /\ pool'.total \in Int
         /\ \/ pool'.total = pool.total /\ Len(pool'.objects) = Len(pool.objects)
               /\ failed' = failed
            \/ pool'.total = pool.total /\ Len(pool'.objects) = Len(pool.objects) + 1
               /\ failed' = failed + 1
            \/ /\ pool'.total = pool.total + 1 /\ Len(pool'.objects) = Len(pool.objects) + 1
               /\ failed' = failed /\ Unsigned(pool.total) < pool.max
<1>1. /\ pool \in PoolType /\ pool.total \in Int /\ Len(pool.objects) \in Nat
      /\ failed \in Nat
  BY Numbers
<1>2. ASSUME NEW t \in Threads, AcquireFree(t) \/ Release(t) \/ Lose(t)
      PROVE  /\ pool'.max = pool.max /\ pool'.total = pool.total /\ failed' = failed
             /\ Len(pool'.objects) = Len(pool.objects)
  <2>1. CASE AcquireFree(t)
    BY <1>1, <2>1, TakeFirstCounts DEF AcquireFree
  <2>2. CASE Release(t)
    <3> DEFINE a == held[t]
               q == GiveBack(pool, a)
    <3>1. a \in Live(pool) /\ q = GiveBack(pool, a) /\ pool' = q /\ failed' = failed
      BY <2>2 DEF Release
    <3> HIDE DEF a, q
    <3>2. q.max = pool.max /\ q.total = pool.total /\ Len(q.objects) = Len(pool.objects)
      BY <1>1, <3>1, GiveBackCounts
    <3>3. QED
      BY <3>1, <3>2
  <2>3. CASE Lose(t)
    BY <2>3 DEF Lose
  <2>4. QED
    BY <1>2, <2>1, <2>2, <2>3
<1>3. ASSUME NEW t \in Threads, AcquireNew(t)
      PROVE  /\ pool'.max = pool.max /\ pool'.total = pool.total + 1 /\ failed' = failed
             /\ Len(pool'.objects) = Len(pool.objects) + 1
             /\ Unsigned(pool.total) < pool.max
  <2>1. PICK a \in Addr \ Live(pool) : pool' = TakeNew(pool, a)
    BY <1>3 DEF AcquireNew
  <2>2. Unsigned(pool.total) < pool.max /\ failed' = failed
    BY <1>3 DEF AcquireNew, CanGrow
  <2>3. QED
    BY <1>1, <2>1, <2>2, TakeNewFields
<1>4. ASSUME NEW t \in Threads, AcquireThrows(t)
      PROVE  /\ pool'.max = pool.max /\ pool'.total = pool.total /\ failed' = failed + 1
             /\ Len(pool'.objects) = Len(pool.objects) + 1
  <2>1. pool' = WithNullSlot(pool) /\ failed' = failed + 1
    BY <1>4 DEF AcquireThrows
  <2>2. QED
    BY <1>1, <2>1, NullSlotFields
<1>5. PICK t \in Threads : ThreadStep(t)
  BY DEF Use
<1>6. QED
  BY <1>1, <1>2, <1>3, <1>4, <1>5 DEF ThreadStep

\* A count below zero is read as more than any limit.
LEMMA NegativeStays ==
  ASSUME ScalingInv, Use, pool'.total >= 0
  PROVE  pool.total >= 0
<1>1. pool.total \in Int /\ pool.max \in Nat /\ pool.max < Word /\ Word \in Nat
  BY Numbers, SizesRange
<1>2. CASE pool'.total = pool.total
  BY <1>2
<1>3. CASE pool'.total = pool.total + 1 /\ Unsigned(pool.total) < pool.max
  BY <1>1, <1>3 DEF Unsigned
<1>4. QED
  BY <1>2, <1>3, UseKeepsLimit

\* What the scaling thread asks for, from whatever it has read.
LEMMA ScaledLimits ==
  ASSUME ScalingInv, Decided
  PROVE  /\ seen.size \in Sizes /\ seen.max \in Sizes
         /\ \A l \in Loads : IncreasedMax(seen, l) \in Sizes
                             /\ IncreasedMax(seen, l) <= seen.max
         /\ DecreasedMax(seen) \in Sizes
         /\ seen.size > MinSize => DecreasedMax(seen) < seen.size
<1>1. seen.size \in Sizes /\ seen.max \in Sizes
  BY ReadingIsNoSleep DEF ScalingInv, Ranges, Decided, Readings
<1>2. /\ seen.size \in Nat /\ seen.max \in Nat /\ seen.size < Word /\ Word \in Nat
      /\ MinSize \in Nat /\ MinSize \in Sizes
      /\ \A n \in Sizes : \A m \in Nat : m <= n => m \in Sizes
  BY <1>1, SizesRange
<1>3. ASSUME NEW l \in Loads
      PROVE  IncreasedMax(seen, l) \in Nat /\ IncreasedMax(seen, l) <= seen.max
  <2> DEFINE k == IF Emergency(seen, l) THEN 2 ELSE 1
  <2>1. k \in Nat
    OBVIOUS
  <2> HIDE DEF k
  <2>2. SizeSum(seen.size, k) \in Nat
    BY <1>2, <2>1 DEF SizeSum
  <2>3. IncreasedMax(seen, l) = Lower(SizeSum(seen.size, k), seen.max)
    BY DEF IncreasedMax, k
  <2>4. QED
    BY <1>2, <2>2, <2>3 DEF Lower
<1>4. DecreasedMax(seen) \in Nat /\ (DecreasedMax(seen) = MinSize \/ DecreasedMax(seen) <= seen.size)
  BY <1>2 DEF DecreasedMax, Higher
<1>5. seen.size > MinSize => DecreasedMax(seen) < seen.size
  BY <1>2 DEF DecreasedMax, Higher
<1>6. QED
  BY <1>1, <1>2, <1>3, <1>4, <1>5

LEMMA ScaleIsUpdate ==
  ASSUME ScalingInv, NEW l \in Loads, ScaleUp(l) \/ ScaleDown(l)
  PROVE  \E max \in Sizes : Rescale(max)
<1>1. Decided
  BY DEF ScaleUp, ScaleDown, ScalesDown
<1>2. IncreasedMax(seen, l) \in Sizes /\ DecreasedMax(seen) \in Sizes
  BY <1>1, ScaledLimits
<1>3. QED
  BY <1>2 DEF ScaleUp, ScaleDown

LEMMA LimitsAreSizes ==
  /\ \A c \in Limits : c[1] \in Sizes /\ c[2] \in Sizes /\ c[1] \in Nat /\ c[2] \in Nat
                       /\ c[1] <= c[2]
  /\ \A c \in StartLimits : c[1] \in Sizes /\ c[2] \in Sizes /\ c[1] \in Nat /\ c[2] \in Nat
  /\ 0 \in Sizes
<1>1. /\ \A c \in Limits : c[1] \in Sizes /\ c[2] \in Sizes /\ c[1] <= c[2]
      /\ \A c \in StartLimits : c[1] \in Sizes /\ c[2] \in Sizes
  BY ScalingAssumption
<1>2. 0 \in Sizes
  BY SizesRange
<1>3. QED
  BY <1>1, <1>2, SizesRange

LEMMA StepIsUse ==
  ASSUME ScalingInv, [Next]_vars
  PROVE  [FreeUse]_poolUseVars
<1>1. CASE Use
  BY <1>1 DEF Use, FreeUse
<1>2. ASSUME NEW c \in Limits, OperatorUpdate(c[1], c[2])
      PROVE  FreeUse
  BY <1>2, LimitsAreSizes DEF OperatorUpdate, FreeUse
<1>3. ASSUME NEW c \in StartLimits, StartUp(c[1], c[2])
      PROVE  FreeUse
  BY <1>3, LimitsAreSizes DEF StartUp, FreeUse
<1>4. CASE ReadSize \/ ReadMax \/ \E l \in Loads : LeaveAlone(l)
  BY <1>4 DEF ReadSize, ReadMax, LeaveAlone, poolUseVars
<1>5. ASSUME NEW l \in Loads, ScaleUp(l) \/ ScaleDown(l)
      PROVE  FreeUse
  <2>1. PICK max \in Sizes : UpdateLimits(MinSize, max)
    BY <1>5, ScaleIsUpdate DEF Rescale
  <2>2. MinSize \in Nat /\ max \in Nat
    BY SizesRange
  <2>3. QED
    BY <2>1, <2>2 DEF FreeUse
<1>6. CASE UNCHANGED vars
  BY <1>6 DEF vars
<1>7. QED
  BY <1>1, <1>2, <1>3, <1>4, <1>5, <1>6 DEF Next, Configure, ReadSizeDuringConfigure

\* The pool after an operator's update: as it was asked for, or not grown so far.
LEMMA OperatorLimits ==
  ASSUME ScalingInv, NEW c \in Limits, OperatorUpdate(c[1], c[2])
  PROVE  /\ c[2] \in Nat /\ c[2] \in Sizes
         /\ Len(pool'.objects) \in Nat /\ Len(pool'.objects) <= c[2] /\ pool'.max = c[2]
         /\ failed' \in Nat /\ pool'.total = Len(pool'.objects) - failed'
         /\ failed' = failed \/ failed' = failed + 1
         /\ configured' = c[2] /\ oversized' = 0 /\ fresh' = FALSE /\ started' = started
         /\ started
<1>1. c[1] \in Nat /\ c[2] \in Nat /\ c[1] <= c[2] /\ c[2] \in Sizes /\ failed \in Nat
  BY LimitsAreSizes, Numbers
<1>2. UpdateLimits(c[1], c[2]) \/ UpdateLimitsThrows(c[1], c[2])
  BY DEF OperatorUpdate
<1>3. CASE UpdateLimits(c[1], c[2])
  <2>1. /\ Len(pool'.objects) = c[1] /\ pool'.max = c[2] /\ failed' = failed
        /\ pool'.total = c[1] - failed
    BY <1>1, <1>3, Resizes
  <2>2. QED
    BY <1>1, <2>1 DEF OperatorUpdate
<1>4. CASE UpdateLimitsThrows(c[1], c[2])
  <2>1. /\ Len(pool'.objects) \in Nat /\ Len(pool'.objects) <= c[1]
        /\ pool'.max = c[2] /\ failed' = failed + 1
        /\ pool'.total = Len(pool'.objects) - failed'
    BY <1>1, <1>4, ResizesThrown
  <2>2. QED
    BY <1>1, <2>1 DEF OperatorUpdate
<1>5. QED
  BY <1>2, <1>3, <1>4

LEMMA StartLimit ==
  ASSUME ScalingInv, NEW c \in StartLimits, StartUp(c[1], c[2])
  PROVE  /\ c[1] \in Sizes /\ c[2] \in Sizes /\ c[1] \in Nat /\ c[2] \in Nat
         /\ Len(pool'.objects) = c[1] /\ pool'.max = c[2] /\ failed' = failed
         /\ configured' = c[2] /\ oversized' = c[1]
         /\ seen' = seen /\ fresh' = fresh /\ ~started /\ started' = TRUE
<1>1. c[1] \in Sizes /\ c[2] \in Sizes /\ c[1] \in Nat /\ c[2] \in Nat
  BY LimitsAreSizes
<1>2. UpdateLimits(c[1], c[2])
  BY DEF StartUp
<1>3. Len(pool'.objects) = c[1] /\ pool'.max = c[2] /\ failed' = failed
  BY <1>1, <1>2, Resizes
<1>4. QED
  BY <1>1, <1>3 DEF StartUp

LEMMA ThreadLimits ==
  ASSUME ScalingInv, NEW l \in Loads, ScaleUp(l) \/ ScaleDown(l)
  PROVE  /\ Len(pool'.objects) = MinSize /\ pool'.max \in Sizes /\ pool'.max \in Nat
         /\ failed' = failed
         /\ seen' = NoSnapshot /\ fresh' = fresh /\ configured' = configured
         /\ oversized' = 0 /\ started' = started
<1>1. PICK max \in Sizes : Rescale(max)
  BY ScaleIsUpdate
<1>2. MinSize \in Nat /\ max \in Nat /\ UpdateLimits(MinSize, max)
  BY <1>1, SizesRange DEF Rescale
<1>3. Len(pool'.objects) = MinSize /\ pool'.max = max /\ failed' = failed
  BY <1>2, Resizes
<1>4. QED
  BY <1>1, <1>2, <1>3 DEF Rescale

\* The size read in the middle of an updateLimits lies between two counts.
LEMMA MiddleRead ==
  ASSUME ScalingInv, NEW c \in Limits, ReadSizeDuringConfigure(c[1], c[2])
  PROVE  seen' \in Readings
<1>1. OperatorUpdate(c[1], c[2])
  BY DEF ReadSizeDuringConfigure
<1>2. PICK n \in Lower(pool.total, pool'.total) .. Higher(pool.total, pool'.total) :
        seen' = [size |-> Unsigned(n), max |-> NoSnapshot]
  BY DEF ReadSizeDuringConfigure
<1>3. /\ pool.total \in Int /\ pool.total >= 0 - failed /\ pool.total <= Ceiling
      /\ Ceiling \in Nat /\ Ceiling < Word /\ failed \in Nat /\ failed <= MaxFailed
  <2>1. failed <= MaxFailed
    BY DEF ScalingInv, Roomy, Owned, Booked, PoolUseTypeOK
  <2>2. QED
    BY <2>1, Numbers, SizesRange
<1>4. /\ pool'.total \in Int /\ pool'.total >= 0 - failed' /\ pool'.total < Word
      /\ failed' \in Nat /\ failed' <= MaxFailed
  <2>1. failed' <= MaxFailed
    BY <1>1, <1>3 DEF OperatorUpdate, UpdateLimits, UpdateLimitsThrows
  <2>2. c[2] \in Nat /\ c[2] < Word
    BY <1>1, OperatorLimits, SizesRange
  <2>3. /\ Len(pool'.objects) \in Nat /\ Len(pool'.objects) <= c[2]
        /\ pool'.total = Len(pool'.objects) - failed' /\ failed' \in Nat
    BY <1>1, OperatorLimits
  <2>4. QED
    BY <2>1, <2>2, <2>3, SizesRange
<1>5. Word \in Nat /\ MaxFailed \in Nat /\ MaxFailed < Word
  BY SizesRange
<1>6. n \in Int /\ n < Word /\ n >= 0 - MaxFailed
  BY <1>2, <1>3, <1>4, <1>5 DEF Lower, Higher
<1>7. Unsigned(n) \in Sizes
  BY <1>5, <1>6, SizesRange DEF Unsigned
<1>8. QED
  BY <1>2, <1>7 DEF Readings

LEMMA RangesStep ==
  ASSUME ScalingInv, [Next]_vars
  PROVE  Ranges'
<1>1. Ranges
  BY DEF ScalingInv
<1>2. CASE Use
  BY <1>1, <1>2, UseKeepsLimit DEF Use, scalingVars, Ranges
<1>3. ASSUME NEW c \in Limits, Configure(c[1], c[2])
      PROVE  Ranges'
  <2>1. seen' = seen /\ OperatorUpdate(c[1], c[2])
    BY <1>3 DEF Configure
  <2>2. QED
    BY <1>1, <2>1, OperatorLimits, LimitsAreSizes DEF Ranges
<1>4. ASSUME NEW c \in Limits, ReadSizeDuringConfigure(c[1], c[2])
      PROVE  Ranges'
  <2>1. seen' \in Readings /\ OperatorUpdate(c[1], c[2])
    BY <1>4, MiddleRead DEF ReadSizeDuringConfigure
  <2>2. QED
    BY <1>1, <2>1, OperatorLimits, LimitsAreSizes DEF Ranges
<1>5. CASE ReadSize
  <2>1. seen' \in Readings
    BY <1>5, Numbers DEF ReadSize, Readings
  <2>2. QED
    BY <1>1, <1>5, <2>1 DEF ReadSize, Ranges, poolUseVars
<1>6. CASE ReadMax
  <2>1. seen \in Readings /\ pool.max \in Sizes
    BY <1>1, <1>6 DEF ReadMax, Ranges
  <2>2. seen' \in Readings
    BY <1>6, <2>1 DEF ReadMax, Readings
  <2>3. QED
    BY <1>1, <1>6, <2>2 DEF ReadMax, Ranges, poolUseVars
<1>7. ASSUME NEW l \in Loads, ScaleUp(l) \/ ScaleDown(l)
      PROVE  Ranges'
  BY <1>1, <1>7, ThreadLimits, LimitsAreSizes DEF Ranges
<1>8. ASSUME NEW l \in Loads, LeaveAlone(l)
      PROVE  Ranges'
  BY <1>1, <1>8 DEF LeaveAlone, Ranges, poolUseVars
<1>9. ASSUME NEW c \in StartLimits, StartUp(c[1], c[2])
      PROVE  Ranges'
  BY <1>1, <1>9, StartLimit DEF Ranges
<1>10. CASE UNCHANGED vars
  BY <1>1, <1>10 DEF vars, poolUseVars, scalingVars, Ranges
<1>11. QED
  BY <1>2, <1>3, <1>4, <1>5, <1>6, <1>7, <1>8, <1>9, <1>10 DEF Next

LEMMA WithinStep ==
  ASSUME ScalingInv, [Next]_vars
  PROVE  WithinLimits'
<1>1. /\ WithinLimits /\ MinSize \in Nat /\ configured \in Nat /\ oversized \in Nat
      /\ pool.total \in Int /\ pool.max \in Nat /\ failed \in Nat
      /\ Len(pool.objects) \in Nat /\ pool.total = Len(pool.objects) - failed
      /\ Word \in Nat
  BY Numbers, SizesRange DEF ScalingInv
<1>2. CASE Use
  <2> DEFINE top == Higher(pool.max, Higher(MinSize, oversized))
             least == Lower(MinSize, configured)
  <2>1. /\ configured' = configured /\ oversized' = oversized /\ pool'.max = pool.max
        /\ top \in Nat /\ top >= pool.max /\ least \in Nat
    BY <1>1, <1>2, UseKeepsLimit DEF Use, scalingVars, Higher, Lower
  <2>2. Len(pool.objects) <= top + failed /\ Higher(Len(pool.objects), pool.max) >= least
    BY <1>1 DEF WithinLimits
  <2> HIDE DEF top, least
  <2>3. Len(pool'.objects) <= top + failed'
    <3>1. CASE Len(pool'.objects) = Len(pool.objects) /\ failed' = failed
      BY <2>2, <3>1
    <3>2. CASE Len(pool'.objects) = Len(pool.objects) + 1 /\ failed' = failed + 1
      BY <1>1, <2>1, <2>2, <3>2
    <3>3. CASE /\ Len(pool'.objects) = Len(pool.objects) + 1 /\ failed' = failed
               /\ Unsigned(pool.total) < pool.max
      <4>1. pool.total < pool.max
        BY <1>1, <3>3 DEF Unsigned
      <4>2. Len(pool.objects) - failed < top
        BY <1>1, <2>1, <4>1
      <4>3. QED
        BY <1>1, <2>1, <3>3, <4>2
    <3>4. QED
      BY <1>2, <3>1, <3>2, <3>3, UseKeepsLimit
  <2>4. Higher(Len(pool'.objects), pool'.max) >= least
    <3>1. Len(pool'.objects) \in Nat /\ Len(pool'.objects) >= Len(pool.objects)
      BY <1>1, <1>2, UseKeepsLimit
    <3>2. QED
      BY <1>1, <2>1, <2>2, <3>1 DEF Higher
  <2>5. QED
    BY <2>1, <2>3, <2>4 DEF WithinLimits, MinSize, top, least
<1>3. ASSUME NEW c \in Limits, OperatorUpdate(c[1], c[2])
      PROVE  WithinLimits'
  <2>1. /\ c[2] \in Nat /\ Len(pool'.objects) \in Nat /\ Len(pool'.objects) <= c[2]
        /\ pool'.max = c[2] /\ configured' = c[2] /\ oversized' = 0 /\ failed' \in Nat
    BY <1>3, OperatorLimits
  <2>2. Len(pool'.objects) <= Higher(pool'.max, Higher(MinSize, oversized')) + failed'
    BY <1>1, <2>1 DEF Higher
  <2>3. Higher(Len(pool'.objects), pool'.max) >= Lower(MinSize, configured')
    BY <1>1, <2>1 DEF Higher, Lower
  <2>4. QED
    BY <2>2, <2>3 DEF WithinLimits, MinSize
<1>4. ASSUME NEW c \in StartLimits, StartUp(c[1], c[2])
      PROVE  WithinLimits'
  <2>1. /\ c[1] \in Nat /\ c[2] \in Nat /\ Len(pool'.objects) = c[1] /\ pool'.max = c[2]
        /\ configured' = c[2] /\ oversized' = c[1] /\ failed' = failed
    BY <1>4, StartLimit
  <2>2. Len(pool'.objects) <= Higher(pool'.max, Higher(MinSize, oversized')) + failed'
    BY <1>1, <2>1 DEF Higher
  <2>3. Higher(Len(pool'.objects), pool'.max) >= Lower(MinSize, configured')
    BY <1>1, <2>1 DEF Higher, Lower
  <2>4. QED
    BY <2>2, <2>3 DEF WithinLimits, MinSize
<1>5. ASSUME NEW l \in Loads, ScaleUp(l) \/ ScaleDown(l)
      PROVE  WithinLimits'
  <2>1. /\ pool'.max \in Nat /\ Len(pool'.objects) = MinSize /\ failed' = failed
        /\ oversized' = 0 /\ configured' = configured
    BY <1>5, ThreadLimits
  <2>2. Len(pool'.objects) <= Higher(pool'.max, Higher(MinSize, oversized')) + failed'
    BY <1>1, <2>1 DEF Higher
  <2>3. Higher(Len(pool'.objects), pool'.max) >= Lower(MinSize, configured')
    BY <1>1, <2>1 DEF Higher, Lower
  <2>4. QED
    BY <2>2, <2>3 DEF WithinLimits, MinSize
<1>6. CASE ReadSize \/ ReadMax \/ (\E l \in Loads : LeaveAlone(l)) \/ UNCHANGED vars
  <2>1. UNCHANGED <<pool, failed, configured, oversized>>
    BY <1>6 DEF ReadSize, ReadMax, LeaveAlone, vars, poolUseVars, scalingVars
  <2>2. QED
    BY <1>1, <2>1 DEF WithinLimits, MinSize
<1>7. QED
  BY <1>2, <1>3, <1>4, <1>5, <1>6 DEF Next, Configure, ReadSizeDuringConfigure

LEMMA FreshStep ==
  ASSUME ScalingInv, [Next]_vars
  PROVE  FreshKept'
<1>1. FreshKept
  BY DEF ScalingInv
<1>2. CASE Use
  <2>1. /\ pool'.max = pool.max /\ Ceiling' = Ceiling
        /\ UNCHANGED <<fresh, seen>>
    BY <1>2, UseKeepsLimit DEF Use, scalingVars, Ceiling, MinSize
  <2>2. pool'.total >= 0 => pool.total >= 0
    BY <1>2, NegativeStays
  <2>3. QED
    BY <1>1, <2>1, <2>2 DEF FreshKept
<1>3. ASSUME NEW c \in Limits, OperatorUpdate(c[1], c[2])
      PROVE  FreshKept'
  BY <1>3, OperatorLimits DEF FreshKept
<1>4. CASE ReadSize
  <2>1. seen'.size = Unsigned(pool.total) /\ seen'.max = NoSnapshot /\ pool' = pool
        /\ Ceiling' = Ceiling
    BY <1>4 DEF ReadSize, poolUseVars, Ceiling, MinSize
  <2>2. pool.total \in Int /\ pool.total <= Ceiling
    BY Numbers
  <2>3. pool.total >= 0 => Unsigned(pool.total) = pool.total
    BY <2>2 DEF Unsigned
  <2>4. QED
    BY <2>1, <2>2, <2>3 DEF FreshKept
<1>5. CASE ReadMax
  <2>1. seen \in Readings /\ pool' = pool /\ fresh' = fresh /\ seen # NoSnapshot
        /\ Ceiling' = Ceiling
    BY <1>5 DEF ScalingInv, Ranges, ReadMax, poolUseVars, Ceiling, MinSize
  <2>2. seen'.size = seen.size /\ seen'.max = pool.max
    BY <1>5, <2>1 DEF ReadMax, Readings
  <2>3. QED
    BY <1>1, <2>1, <2>2 DEF FreshKept
<1>6. ASSUME NEW l \in Loads, ScaleUp(l) \/ ScaleDown(l)
      PROVE  FreshKept'
  BY <1>6, ThreadLimits DEF FreshKept
<1>7. ASSUME NEW l \in Loads, LeaveAlone(l)
      PROVE  FreshKept'
  BY <1>7 DEF LeaveAlone, FreshKept
<1>8. ASSUME NEW c \in StartLimits, StartUp(c[1], c[2])
      PROVE  FreshKept'
  BY <1>8, StartLimit DEF ScalingInv, Ranges, FreshKept
<1>9. CASE UNCHANGED vars
  BY <1>1, <1>9 DEF vars, poolUseVars, scalingVars, FreshKept, Ceiling, MinSize
<1>10. QED
  BY <1>2, <1>3, <1>4, <1>5, <1>6, <1>7, <1>8, <1>9
     DEF Next, Configure, ReadSizeDuringConfigure

LEMMA ScalingStep ==
  ASSUME ScalingInv, [Next]_vars
  PROVE  ScalingInv'
<1>1. Roomy'
  BY StepIsUse, RoomyStep DEF ScalingInv
<1>2. QED
  BY <1>1, RangesStep, WithinStep, FreshStep DEF ScalingInv

-----------------------------------------------------------------------------
(***************************************************************************)
(* From whatever start-up file, and however the thread and the operator    *)
(* interleave (Handler's constructor, updatePoolSize, updateLimits,        *)
(* updatePoolConfiguration), the pool has no more slots than its limit,    *)
(* the minimum or the start-up file's initial allows, but for one for each *)
(* constructor that threw; and room for the minimum or for what the        *)
(* operator configured.                                                    *)
(***************************************************************************)
THEOREM ScalingWithinLimits == Spec => []WithinLimits
<1>1. ScalingInv => WithinLimits
  BY DEF ScalingInv
<1>2. QED
  BY <1>1, ScalingInit, ScalingStep, PTL DEF Spec

(***************************************************************************)
(* With the thread and the operator at work as well, the pool keeps its    *)
(* type, its ledger, the exclusive use of its objects and room for every   *)
(* thread (acquire, release, updateLimits, constructors that throw).       *)
(***************************************************************************)
THEOREM ScaledPoolSound ==
  Spec => [](PoolUseTypeOK /\ Ledger /\ ExclusiveUntilTorn /\ RoomForEveryThread)
<1>1. ScalingInv => PoolUseTypeOK /\ Ledger /\ ExclusiveUntilTorn /\ RoomForEveryThread
  BY OwnedExclusive, RoomyEnough DEF ScalingInv, Roomy, Owned, Booked
<1>2. QED
  BY <1>1, ScalingInit, ScalingStep, PTL DEF Spec

\* What the thread writes when no operator came between is no higher limit.
LEMMA FreshScalesDown ==
  ASSUME ScalingInv, NEW l \in Loads, ScaleUp(l) \/ ScaleDown(l), fresh, pool.total >= 0
  PROVE  pool'.max <= Higher(pool.max, oversized - 1)
<1>1. /\ Decided /\ seen # NoSnapshot /\ seen.max # NoSnapshot
      /\ seen.size <= Ceiling /\ seen.max = pool.max
  BY DEF ScaleUp, ScaleDown, ScalesDown, Decided, ScalingInv, FreshKept
<1>2. /\ seen.size \in Nat /\ pool.max \in Nat /\ MinSize \in Nat /\ oversized \in Nat
      /\ IncreasedMax(seen, l) \in Nat /\ IncreasedMax(seen, l) <= pool.max
      /\ DecreasedMax(seen) \in Nat
      /\ seen.size > MinSize => DecreasedMax(seen) < seen.size
  BY <1>1, ScaledLimits, SizesRange, Numbers
<1>3. CASE ScaleUp(l)
  <2>1. UpdateLimits(MinSize, IncreasedMax(seen, l))
    BY <1>3 DEF ScaleUp, Rescale
  <2>2. pool'.max = IncreasedMax(seen, l)
    BY <1>2, <2>1, Resizes
  <2>3. QED
    BY <1>2, <2>2 DEF Higher
<1>4. CASE ScaleDown(l)
  <2>1. UpdateLimits(MinSize, DecreasedMax(seen)) /\ seen.size > MinSize
    BY <1>4 DEF ScaleDown, ScalesDown, Decrease, Rescale
  <2>2. pool'.max = DecreasedMax(seen)
    BY <1>2, <2>1, Resizes
  <2>3. seen.size <= pool.max \/ seen.size <= oversized
    BY <1>1, <1>2, <2>1 DEF Ceiling, Higher
  <2>4. QED
    BY <1>2, <2>1, <2>2, <2>3 DEF Higher
<1>5. QED
  BY <1>3, <1>4

(***************************************************************************)
(* Without an operator's update since its reads, the scaling thread never  *)
(* raises the limit, whether it scales up or down (updatePoolSize), unless *)
(* the start-up file's initial size is above it, or failed constructions   *)
(* have taken the count below zero.                                        *)
(***************************************************************************)
THEOREM OnlyOperatorsDo == Spec => OnlyOperatorsRaise
<1>1. ASSUME ScalingInv, [Next]_vars
      PROVE  [fresh /\ seen # NoSnapshot /\ seen' = NoSnapshot /\ pool.total >= 0
                => pool'.max <= Higher(pool.max, oversized - 1)]_vars
  <2> SUFFICES ASSUME fresh, seen # NoSnapshot, seen' = NoSnapshot, pool.total >= 0
               PROVE  pool'.max <= Higher(pool.max, oversized - 1)
    OBVIOUS
  <2>1. pool.max \in Nat /\ oversized \in Nat
    BY <1>1, Numbers
  <2>2. pool'.max = pool.max => pool'.max <= Higher(pool.max, oversized - 1)
    BY <2>1 DEF Higher
  <2>3. CASE Use
    BY <2>3 DEF Use, scalingVars
  <2>4. ASSUME NEW c \in Limits,
               Configure(c[1], c[2]) \/ ReadSizeDuringConfigure(c[1], c[2])
        PROVE  FALSE
    BY <2>4 DEF Configure, ReadSizeDuringConfigure
  <2>5. ASSUME NEW c \in StartLimits, StartUp(c[1], c[2])
        PROVE  FALSE
    BY <2>5 DEF StartUp
  <2>6. CASE ReadSize \/ ReadMax \/ (\E l \in Loads : LeaveAlone(l)) \/ UNCHANGED vars
    BY <2>2, <2>6 DEF ReadSize, ReadMax, LeaveAlone, vars, poolUseVars
  <2>7. ASSUME NEW l \in Loads, ScaleUp(l) \/ ScaleDown(l)
        PROVE  pool'.max <= Higher(pool.max, oversized - 1)
    BY <1>1, <2>7, FreshScalesDown
  <2>8. QED
    BY <1>1, <2>3, <2>4, <2>5, <2>6, <2>7 DEF Next
<1>2. QED
  BY <1>1, ScalingInit, ScalingStep, PTL DEF Spec, OnlyOperatorsRaise

-----------------------------------------------------------------------------
(***************************************************************************)
(* The refinement: the abstract use of a pool with limits of any size.     *)
(***************************************************************************)
LEMMA AbstractUpdate ==
  ASSUME NEW initial \in Sizes, NEW max \in Sizes,
         UpdateLimits(initial, max) \/ UpdateLimitsThrows(initial, max)
  PROVE  AnyUse!PoolUseNext
<1>1. <<initial, max>> \in Sizes \X Sizes
  OBVIOUS
<1>2. CASE UpdateLimits(initial, max)
  <2>1. AnyUse!UpdateLimits(initial, max)
    BY <1>2 DEF AnyUse!UpdateLimits, UpdateLimits, AnyUse!FreshAddrs, FreshAddrs,
         AnyUse!Live, Live, AnyUse!Missing, Missing, AnyUse!Higher, Higher,
         AnyUse!Resized, Resized, AnyUse!Destroyed, Destroyed
  <2>2. QED
    BY <1>1, <2>1 DEF AnyUse!PoolUseNext
<1>3. CASE UpdateLimitsThrows(initial, max)
  <2>1. AnyUse!UpdateLimitsThrows(initial, max)
    BY <1>3 DEF AnyUse!UpdateLimitsThrows, UpdateLimitsThrows, AnyUse!FreshAddrs,
         FreshAddrs, AnyUse!Live, Live, AnyUse!Missing, Missing, AnyUse!Higher, Higher,
         AnyUse!ResizeThrown, ResizeThrown, AnyUse!Resized, Resized,
         AnyUse!WithNullSlot, WithNullSlot
  <2>2. QED
    BY <1>1, <2>1 DEF AnyUse!PoolUseNext
<1>4. QED
  BY <1>2, <1>3

(***************************************************************************)
(* Seen from the pool, the start-up, the thread and the operator are       *)
(* callers of updateLimits.                                                *)
(***************************************************************************)
THEOREM ScalingUsesPool == Spec => ImplementsPoolUse
<1>1. Init => AnyUse!PoolUseInit
  BY DEF Init, PoolUseInit, AnyUse!PoolUseInit, InitialPool, AnyUse!InitialPool
<1>2. ASSUME ScalingInv, [Next]_vars
      PROVE  [AnyUse!PoolUseNext]_(AnyUse!poolUseVars)
  <2>1. CASE Use
    BY <2>1 DEF Use, ThreadStep, AnyUse!PoolUseNext, AnyUse!ThreadStep,
         AnyUse!AcquireFree, AcquireFree, AnyUse!AcquireNew, AcquireNew,
         AnyUse!AcquireThrows, AcquireThrows, AnyUse!Release, Release, AnyUse!Lose, Lose,
         AnyUse!Free, Free, AnyUse!FirstFree, FirstFree, AnyUse!TakeFirst, TakeFirst,
         AnyUse!Marked, Marked, AnyUse!Higher, Higher, AnyUse!CanGrow, CanGrow,
         AnyUse!Unsigned, Unsigned, AnyUse!WithNullSlot, WithNullSlot,
         AnyUse!Live, Live, AnyUse!TakeNew, TakeNew, AnyUse!GiveBack, GiveBack,
         AnyUse!Position, Position, AnyUse!At, At
  <2>2. ASSUME NEW c \in Limits, OperatorUpdate(c[1], c[2])
        PROVE  AnyUse!PoolUseNext
    BY <2>2, LimitsAreSizes, AbstractUpdate DEF OperatorUpdate
  <2>3. ASSUME NEW c \in StartLimits, StartUp(c[1], c[2])
        PROVE  AnyUse!PoolUseNext
    BY <2>3, LimitsAreSizes, AbstractUpdate DEF StartUp
  <2>4. ASSUME NEW l \in Loads, ScaleUp(l) \/ ScaleDown(l)
        PROVE  AnyUse!PoolUseNext
    <3>1. PICK max \in Sizes : UpdateLimits(MinSize, max)
      BY <1>2, <2>4, ScaleIsUpdate DEF Rescale
    <3>2. QED
      BY <3>1, SizesRange, AbstractUpdate
  <2>5. CASE ReadSize \/ ReadMax \/ (\E l \in Loads : LeaveAlone(l)) \/ UNCHANGED vars
    BY <2>5 DEF ReadSize, ReadMax, LeaveAlone, vars, poolUseVars, AnyUse!poolUseVars
  <2>6. QED
    BY <1>2, <2>1, <2>2, <2>3, <2>4, <2>5 DEF Next, Configure, ReadSizeDuringConfigure
<1>3. QED
  BY <1>1, <1>2, ScalingInit, ScalingStep, PTL
  DEF Spec, ImplementsPoolUse, AnyUse!PoolUseSpec
=============================================================================
