-------------------------------- MODULE Pool --------------------------------
(***************************************************************************)
(* The object pool of Pool.hpp as operators on its state:                  *)
(*                                                                         *)
(*   objects    m_objects, each with the address of its object and in_use  *)
(*   total      m_total_count                                              *)
(*   available  m_available_count                                          *)
(*   high       m_high_water_mark                                          *)
(*   max        m_max_size                                                 *)
(*                                                                         *)
(* total and available are integers here.  The C++ counters are unsigned:  *)
(* available wraps when objects in use are destroyed, but the code only    *)
(* ever uses the difference total - available, which is the same modulo    *)
(* 2^64; where total is compared with a limit it is read as unsigned.      *)
(*                                                                         *)
(* A constructor may throw (curl_easy_init in Api's, reached from the      *)
(* Resolver's).  The slot was appended before, and stays: it holds no      *)
(* object, is not in use, and was not counted.  acquire hands it out like  *)
(* any other, as a null pointer, and release(nullptr) finds the first.     *)
(*                                                                         *)
(* A new object may get any address no object of the pool has, the address *)
(* of a destroyed object included.  Every operation holds m_mutex from its *)
(* beginning to its end, so each is one step of its caller.                *)
(***************************************************************************)
EXTENDS Integers, Sequences

CONSTANTS
  Addr,   \* the addresses objects may have
  Null,   \* the address in a slot without an object
  Word    \* the number of values of a size_t, 2^64

ASSUME PoolAssumption == Null \notin Addr /\ Word \in Nat

PoolType ==
  [objects : Seq([addr : Addr \cup {Null}, inUse : BOOLEAN]),
   total : Int, available : Int, high : Nat, max : Nat]

Unsigned(n) == IF n < 0 THEN n + Word ELSE n

Live(p) == {p.objects[i].addr : i \in DOMAIN p.objects}

\* Sequences of n different addresses for new objects.
FreshAddrs(p, n) ==
  {f \in [1 .. n -> Addr \ Live(p)] : \A i, j \in 1 .. n : f[i] = f[j] => i = j}

InitialPool(f, n, max) ==
  [objects |-> [i \in 1 .. n |-> [addr |-> f[i], inUse |-> FALSE]],
   total |-> n, available |-> n, high |-> 0, max |-> max]

Higher(a, b) == IF a > b THEN a ELSE b

\* Mutant: the difference taken the wrong way round.
MarkedSwapped(p) == [p EXCEPT !.high = p.available - p.total]

\* m_high_water_mark after any change of the counters.
Marked(p) == [p EXCEPT !.high = Higher(@, p.total - p.available)]

-----------------------------------------------------------------------------
(***************************************************************************)
(* acquire.                                                                *)
(***************************************************************************)
Free(p) == {i \in DOMAIN p.objects : ~p.objects[i].inUse}

FirstFree(p) == CHOOSE i \in Free(p) : \A j \in Free(p) : i <= j

\* Mutant: the object handed out is not marked as in use.
TakeUnmarked(p) == Marked([p EXCEPT !.available = @ - 1])

TakeFirst(p) ==
  Marked([p EXCEPT !.objects[FirstFree(p)].inUse = TRUE, !.available = @ - 1])

\* Mutant: the limit is compared off by one.
CanGrowPast(p) == Free(p) = {} /\ Unsigned(p.total) <= p.max

CanGrow(p) == Free(p) = {} /\ Unsigned(p.total) < p.max

\* Mutant: the new object is counted as available although it is handed out.
TakeNewAvailable(p, a) ==
  Marked([p EXCEPT !.objects = Append(@, [addr |-> a, inUse |-> TRUE]),
                   !.total = @ + 1, !.available = @ + 1])

TakeNew(p, a) ==
  Marked([p EXCEPT !.objects = Append(@, [addr |-> a, inUse |-> TRUE]),
                   !.total = @ + 1])

\* Mutant: the slot is counted before its object is there.
WithCountedNullSlot(p) ==
  [p EXCEPT !.objects = Append(@, [addr |-> Null, inUse |-> FALSE]), !.total = @ + 1]

\* The constructor of the new object throws.
WithNullSlot(p) ==
  [p EXCEPT !.objects = Append(@, [addr |-> Null, inUse |-> FALSE])]

\* acquire throws "Pool exhausted".
Exhausted(p) == Free(p) = {} /\ ~(Unsigned(p.total) < p.max)

-----------------------------------------------------------------------------
(***************************************************************************)
(* release finds the first slot with the address; it throws when there is  *)
(* none.                                                                   *)
(***************************************************************************)
At(p, a) == {i \in DOMAIN p.objects : p.objects[i].addr = a}

Position(p, a) == CHOOSE i \in At(p, a) : \A j \in At(p, a) : i <= j

\* Mutant: the object is counted as available but stays marked as in use.
GiveBackMarked(p, a) == [p EXCEPT !.available = @ + 1]

GiveBack(p, a) ==
  [p EXCEPT !.objects[Position(p, a)].inUse = FALSE, !.available = @ + 1]

-----------------------------------------------------------------------------
(***************************************************************************)
(* updateLimits makes the pool exactly as large as initial: it appends     *)
(* free objects or destroys objects from the back, used or not.            *)
(***************************************************************************)
Missing(p, initial) == Higher(initial - Len(p.objects), 0)

Resized(p, initial, max, f) ==
  LET n == Len(p.objects)
  IN  [p EXCEPT
        !.objects = IF initial < n THEN SubSeq(@, 1, initial)
                    ELSE @ \o [k \in 1 .. initial - n |->
                                 [addr |-> f[k], inUse |-> FALSE]],
        !.total = @ + (initial - n),
        !.available = @ + (initial - n),
        !.max = max]

\* A constructor throws when updateLimits has made some of the objects.
ResizeThrown(p, made, max, f) ==
  WithNullSlot(Resized(p, Len(p.objects) + made, max, f))

\* The addresses of the objects updateLimits destroys.
Destroyed(p, initial) ==
  {p.objects[i].addr : i \in {j \in DOMAIN p.objects : j > initial}} \ {Null}
=============================================================================
