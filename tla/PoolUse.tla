------------------------------ MODULE PoolUse ------------------------------
(***************************************************************************)
(* Threads that use one pool the way processPacket does, and threads that  *)
(* change its limits (the web thread after a pause, the scaling thread     *)
(* without one) at any moment: an acquired object is released by its       *)
(* holder, or lost when the work on it throws.  Making an object may fail, *)
(* in acquire and in updateLimits.                                         *)
(***************************************************************************)
EXTENDS Pool, FiniteSets

CONSTANTS
  Threads,      \* the threads that use the pool
  NoObject,     \* a thread holds no object
  Limits,       \* the pairs <<initial, max>> updateLimits may be called with
  InitialSize,  \* arguments of the constructor: 2 and 4 in Handler.cpp:12-15
  InitialMax,
  MaxLost,      \* bound: number of objects lost
  MaxFailed     \* bound: number of constructors that throw

ASSUME PoolUseAssumption ==
  /\ IsFiniteSet(Threads)
  /\ NoObject \notin Addr \cup {Null}
  /\ Limits \subseteq Nat \X Nat
  /\ InitialSize \in Nat /\ InitialMax \in Nat
  /\ MaxLost \in Nat /\ MaxFailed \in Nat

VARIABLES
  pool,   \* the pool
  held,   \* the object each thread works on
  lost,   \* history: acquired objects that were never given back
  torn,   \* history: an object was destroyed while a thread worked on it
  failed  \* history: number of constructors that threw

poolUseVars == <<pool, held, lost, torn, failed>>

Holders == {t \in Threads : held[t] # NoObject}

PoolUseTypeOK ==
  /\ pool \in PoolType
  /\ held \in [Threads -> Addr \cup {Null, NoObject}]
  /\ lost \in 0 .. MaxLost
  /\ failed \in 0 .. MaxFailed
  /\ torn \in BOOLEAN

PoolUseInit ==
  /\ \E f \in [1 .. InitialSize -> Addr] :
       /\ \A i, j \in 1 .. InitialSize : f[i] = f[j] => i = j
       /\ pool = InitialPool(f, InitialSize, InitialMax)
  /\ held = [t \in Threads |-> NoObject]
  /\ lost = 0
  /\ torn = FALSE
  /\ failed = 0

AcquireFree(t) ==
  /\ held[t] = NoObject
  /\ Free(pool) # {}
  /\ pool' = TakeFirst(pool)
  /\ held' = [held EXCEPT ![t] = pool.objects[FirstFree(pool)].addr]
  /\ UNCHANGED <<lost, torn, failed>>

AcquireNew(t) ==
  /\ held[t] = NoObject
  /\ CanGrow(pool)
  /\ \E a \in Addr \ Live(pool) :
       /\ pool' = TakeNew(pool, a)
       /\ held' = [held EXCEPT ![t] = a]
  /\ UNCHANGED <<lost, torn, failed>>

\* acquire throws what the constructor threw.
AcquireThrows(t) ==
  /\ held[t] = NoObject
  /\ CanGrow(pool)
  /\ failed < MaxFailed
  /\ pool' = WithNullSlot(pool)
  /\ failed' = failed + 1
  /\ UNCHANGED <<held, lost, torn>>

Release(t) ==
  /\ held[t] \in Live(pool)
  /\ pool' = GiveBack(pool, held[t])
  /\ held' = [held EXCEPT ![t] = NoObject]
  /\ UNCHANGED <<lost, torn, failed>>

\* release throws "Object not found in pool", or the work itself throws: the
\* catch of processPacket gives nothing back.
Lose(t) ==
  /\ held[t] # NoObject
  /\ lost < MaxLost
  /\ lost' = lost + 1
  /\ held' = [held EXCEPT ![t] = NoObject]
  /\ UNCHANGED <<pool, torn, failed>>

UpdateLimits(initial, max) ==
  /\ \E f \in FreshAddrs(pool, Missing(pool, initial)) :
       pool' = Resized(pool, initial, max, f)
  /\ torn' = (torn \/ \E t \in Threads : held[t] \in Destroyed(pool, initial))
  /\ UNCHANGED <<held, lost, failed>>

\* updateLimits throws what the constructor threw.
UpdateLimitsThrows(initial, max) ==
  /\ failed < MaxFailed
  /\ \E made \in 0 .. Missing(pool, initial) - 1 :
     \E f \in FreshAddrs(pool, made) : pool' = ResizeThrown(pool, made, max, f)
  /\ failed' = failed + 1
  /\ UNCHANGED <<held, lost, torn>>

ThreadStep(t) ==
  AcquireFree(t) \/ AcquireNew(t) \/ AcquireThrows(t) \/ Release(t) \/ Lose(t)

PoolUseNext ==
  \/ \E t \in Threads : ThreadStep(t)
  \/ \E l \in Limits : UpdateLimits(l[1], l[2]) \/ UpdateLimitsThrows(l[1], l[2])

PoolUseSpec == PoolUseInit /\ [][PoolUseNext]_poolUseVars

-----------------------------------------------------------------------------
(***************************************************************************)
(* The counters keep their meaning through every resize and every failed   *)
(* construction: total - available is the number of objects that were      *)
(* acquired and not given back, held or lost, the high water mark was      *)
(* never passed, and m_total_count is short of the number of slots by one  *)
(* for every constructor that threw, also when the empty slot has long     *)
(* been handed out, given back or destroyed.                               *)
(***************************************************************************)
Ledger ==
  /\ pool.total = Len(pool.objects) - failed
  /\ pool.total - pool.available = Cardinality(Holders) + lost
  /\ pool.high >= pool.total - pool.available

(***************************************************************************)
(* As long as no resize destroyed an object in use, two threads never work *)
(* on the same object, and the object a thread works on is in the pool and *)
(* marked as in use: it can neither be handed out again nor fail to be     *)
(* released.  A failed construction does not change that for the others:   *)
(* only the null pointer is handed out to several threads.                 *)
(***************************************************************************)
ExclusiveUntilTorn ==
  ~torn =>
    /\ \A t, u \in Holders : held[t] = held[u] /\ held[t] # Null => t = u
    /\ \A t \in Holders :
         held[t] # Null =>
           \E i \in DOMAIN pool.objects :
              pool.objects[i].addr = held[t] /\ pool.objects[i].inUse

(***************************************************************************)
(* A pool whose limit has room for every thread and every lost object is   *)
(* never exhausted, whatever resizes and failed constructions went before: *)
(* "Pool exhausted" means that the limit is too small, or that the count   *)
(* has wrapped below zero.                                                 *)
(***************************************************************************)
RoomForEveryThread ==
  /\ pool.max >= Cardinality(Threads) + lost
  /\ Holders # Threads
  /\ pool.total >= 0
  => ~Exhausted(pool)
=============================================================================
