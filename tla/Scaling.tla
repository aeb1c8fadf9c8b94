------------------------------ MODULE Scaling ------------------------------
(***************************************************************************)
(* The scaling thread (Handler::updatePoolSize) beside the threads that    *)
(* use a pool and the operator who configures it.  The thread reads the    *)
(* size and the limit of the pool one after the other and without a lock,  *)
(* looks at the load, and calls updateLimits; it is not stopped by a pause *)
(* of the workers.                                                         *)
(*                                                                         *)
(* The Handler's constructor makes the pool with its own two numbers and   *)
(* then applies those of configuration.json, which nothing has validated;  *)
(* later values come from the web interface and have been.  A constructor  *)
(* that throws is reported by acquire to the worker and by the operator's  *)
(* updateLimits to the web thread.  At start-up and in the scaling thread  *)
(* nobody catches it: the process ends, and with it the behaviour.         *)
(*                                                                         *)
(* The load is any combination of the metrics the thread reads: they are   *)
(* kept by other threads, reset by this one, and never tied to the pool.   *)
(* avg is in milliseconds, processed is over five seconds.                 *)
(***************************************************************************)
EXTENDS PoolUse

CONSTANTS
  StartLimits, \* the pairs <<initial, max>> the start-up file may hold
  Loads,       \* the loads: records [queue, peak, avg, processed]
  NoSnapshot   \* the scaling thread sleeps

Sizes == 0 .. Word - 1   \* the values of a size_t

\* validateConfigurationFile and updatePoolConfiguration refuse an initial size
\* above the limit.
ASSUME ScalingAssumption ==
  /\ InitialSize <= InitialMax /\ InitialMax \in Sizes
  /\ StartLimits \subseteq Sizes \X Sizes
  /\ Limits \subseteq Sizes \X Sizes
  /\ \A c \in Limits : c[1] <= c[2]
  /\ MaxFailed < Word
  /\ NoSnapshot \notin Int
  /\ NoSnapshot \notin [size : Int, max : Int \cup {NoSnapshot}]

VARIABLES
  seen,        \* what the scaling thread has read: size, max
  fresh,       \* history: no operator update since it read the size
  configured,  \* history: the last max of the start-up file or the operator
  started,     \* the start-up file has been applied
  oversized    \* history: the start-up file's initial, until the next update

scalingVars == <<seen, fresh, configured, started, oversized>>
vars == <<poolUseVars, scalingVars>>

MinSize == InitialSize   \* getMinSize: a constant of the constructor

Lower(a, b) == IF a < b THEN a ELSE b

-----------------------------------------------------------------------------
(***************************************************************************)
(* The decision.  queue_utilization is a floating point quotient: 0/0 is   *)
(* not a number and compares as false, n/0 is infinite.                    *)
(***************************************************************************)
UtilizationAbove(l, tenths) ==
  IF l.peak = 0 THEN l.queue > 0 ELSE 10 * l.queue > tenths * l.peak

UtilizationBelow(l, tenths) == l.peak # 0 /\ 10 * l.queue < tenths * l.peak

\* These two take the size and the limit the thread has read.
Emergency(s, l) == s.size < s.max /\ (l.queue > 50 \/ UtilizationAbove(l, 9))

Increase(s, l) ==
  /\ s.size < s.max
  /\ \/ UtilizationAbove(l, 5) /\ l.avg > 100
     \/ l.processed > 50 /\ l.avg > 50
     \/ Emergency(s, l)

Decrease(s, l) ==
  /\ s.size > MinSize
  /\ \/ UtilizationBelow(l, 1) /\ l.avg < 20
     \/ l.processed < 10 /\ l.avg < 10

\* Mutant: the step is added without looking at the limit.
UnboundedIncreasedMax(s, l) == s.size + (IF Emergency(s, l) THEN 2 ELSE 1)

\* The sum of two values of type size_t.
SizeSum(a, b) == IF a + b < Word THEN a + b ELSE a + b - Word

IncreasedMax(s, l) == Lower(SizeSum(s.size, IF Emergency(s, l) THEN 2 ELSE 1), s.max)

DecreasedMax(s) == Higher(s.size - 1, MinSize)

-----------------------------------------------------------------------------
Init ==
  /\ PoolUseInit
  /\ seen = NoSnapshot
  /\ fresh = TRUE
  /\ configured = InitialMax
  /\ started = FALSE
  /\ oversized = 0

\* The Handler's constructor applies the file.
StartUp(initial, max) ==
  /\ ~started
  /\ UpdateLimits(initial, max)
  /\ started' = TRUE
  /\ configured' = max
  /\ oversized' = initial
  /\ UNCHANGED <<seen, fresh>>

Use ==
  /\ started
  /\ \E t \in Threads : ThreadStep(t)
  /\ UNCHANGED scalingVars

\* The operator's updateLimits, after a pause of the workers or not.
OperatorUpdate(initial, max) ==
  /\ started
  /\ UpdateLimits(initial, max) \/ UpdateLimitsThrows(initial, max)
  /\ configured' = max
  /\ oversized' = 0
  /\ fresh' = FALSE
  /\ UNCHANGED started

Configure(initial, max) == OperatorUpdate(initial, max) /\ UNCHANGED seen

ReadSize ==
  /\ started
  /\ seen = NoSnapshot
  /\ seen' = [size |-> Unsigned(pool.total), max |-> NoSnapshot]
  /\ fresh' = TRUE
  /\ UNCHANGED <<poolUseVars, configured, started, oversized>>

\* The size is read in the middle of the operator's updateLimits.
ReadSizeDuringConfigure(initial, max) ==
  /\ OperatorUpdate(initial, max)
  /\ seen = NoSnapshot
  /\ \E n \in Lower(pool.total, pool'.total) .. Higher(pool.total, pool'.total) :
       seen' = [size |-> Unsigned(n), max |-> NoSnapshot]

ReadMax ==
  /\ seen # NoSnapshot
  /\ seen.max = NoSnapshot
  /\ seen' = [seen EXCEPT !.max = pool.max]
  /\ UNCHANGED <<poolUseVars, fresh, configured, started, oversized>>

Decided == seen # NoSnapshot /\ seen.max # NoSnapshot

\* updateLimits with the constructor's size, after which the thread sleeps.
Rescale(max) ==
  /\ UpdateLimits(MinSize, max)
  /\ seen' = NoSnapshot
  /\ oversized' = 0
  /\ UNCHANGED <<fresh, configured, started>>

ScaleUp(l) ==
  /\ Decided
  /\ Increase(seen, l)
  /\ Rescale(IncreasedMax(seen, l))

ScalesDown(l) == Decided /\ ~Increase(seen, l) /\ Decrease(seen, l)

\* Mutant: scaling down destroys the objects but leaves the counters.
ScaleDownUncounted(l) ==
  /\ ScalesDown(l)
  /\ MinSize < Len(pool.objects)
  /\ pool' = [pool EXCEPT !.objects = SubSeq(@, 1, MinSize),
                          !.max = DecreasedMax(seen)]
  /\ torn' = (torn \/ \E t \in Threads : held[t] \in Destroyed(pool, MinSize))
  /\ seen' = NoSnapshot
  /\ oversized' = 0
  /\ UNCHANGED <<held, lost, failed, fresh, configured, started>>

\* Mutant: the pool is shrunk below the size it was built with.
ScaleDownTo1(l) ==
  /\ ScalesDown(l)
  /\ UpdateLimits(1, 1)
  /\ seen' = NoSnapshot
  /\ oversized' = 0
  /\ UNCHANGED <<fresh, configured, started>>

ScaleDown(l) == ScalesDown(l) /\ Rescale(DecreasedMax(seen))

LeaveAlone(l) ==
  /\ Decided
  /\ ~Increase(seen, l)
  /\ ~Decrease(seen, l)
  /\ seen' = NoSnapshot
  /\ UNCHANGED <<poolUseVars, fresh, configured, started, oversized>>

Next ==
  \/ \E c \in StartLimits : StartUp(c[1], c[2])
  \/ Use
  \/ \E c \in Limits : Configure(c[1], c[2]) \/ ReadSizeDuringConfigure(c[1], c[2])
  \/ ReadSize \/ ReadMax
  \/ \E l \in Loads : ScaleUp(l) \/ ScaleDown(l) \/ LeaveAlone(l)

Spec == Init /\ [][Next]_vars

-----------------------------------------------------------------------------
(***************************************************************************)
(* Reconfiguring and scaling at any moment, on whatever stale values, take *)
(* the pool out of bounds neither way.  It has no more slots than its      *)
(* limit allows, but for the two the scaling thread always asks for, those *)
(* of an unvalidated start-up file until the next update, and one for each *)
(* constructor that threw.  And as many as the constructor made remain to  *)
(* be had, unless the operator allowed fewer.                              *)
(***************************************************************************)
WithinLimits ==
  /\ Len(pool.objects) <= Higher(pool.max, Higher(MinSize, oversized)) + failed
  /\ Higher(Len(pool.objects), pool.max) >= Lower(MinSize, configured)

(***************************************************************************)
(* Only an operator raises the limit: without an update between its reads  *)
(* and its write, the scaling thread lowers the limit or keeps it, whether *)
(* it scales up or down (its scaling up is a ratchet).  There are two      *)
(* exceptions: it trusts the size it finds, so a start-up file with an     *)
(* initial size above the limit has the limit raised to that size less     *)
(* one; and a count that failed constructions have taken below zero.       *)
(***************************************************************************)
OnlyOperatorsRaise ==
  [][fresh /\ seen # NoSnapshot /\ seen' = NoSnapshot /\ pool.total >= 0
       => pool'.max <= Higher(pool.max, oversized - 1)]_vars

(***************************************************************************)
(* Seen from the pool, the scaling thread, the start-up and the operator   *)
(* are just callers of updateLimits: this is a use of the pool as in       *)
(* PoolUse, with whatever values a size_t has.                             *)
(***************************************************************************)
AnyUse == INSTANCE PoolUse WITH Limits <- Sizes \X Sizes

ImplementsPoolUse == AnyUse!PoolUseSpec

-----------------------------------------------------------------------------
(***************************************************************************)
(* What the comments and messages say of scaling.                          *)
(***************************************************************************)

\* "In emergency, scale up more aggressively", and "Increased ... pool size":
\* an emergency leaves the pool with no fewer objects than it had.
ScaleUpScalesUp ==
  [][\A l \in Loads :
       ScaleUp(l) /\ Emergency(seen, l) => Len(pool'.objects) >= Len(pool.objects)]_vars
=============================================================================
