----------------------------- MODULE PoolProofs -----------------------------
(***************************************************************************)
(* Facts about the operators of Pool, for any addresses: what each does to *)
(* the fields of a pool, and what it does to the exclusive use of its      *)
(* objects.                                                                *)
(***************************************************************************)
EXTENDS Pool, SequenceTheorems, FiniteSetTheorems, TLAPS

-----------------------------------------------------------------------------
(***************************************************************************)
(* What the operations of Pool do to the fields of the pool.               *)
(***************************************************************************)
Object == [addr : Addr \cup {Null}, inUse : BOOLEAN]

LEMMA PoolFields ==
  ASSUME NEW p \in PoolType
  PROVE  /\ p.objects \in Seq(Object) /\ p.total \in Int /\ p.available \in Int
         /\ p.high \in Nat /\ p.max \in Nat
  BY DEF PoolType, Object

LEMMA HigherType ==
  ASSUME NEW a \in Nat, NEW b \in Int
  PROVE  Higher(a, b) \in Nat /\ Higher(a, b) >= a /\ Higher(a, b) >= b
  BY DEF Higher

\* A nonempty set of positions has a first element.
LEMMA FirstExists ==
  ASSUME NEW T \in SUBSET Nat, T # {}
  PROVE  \E i \in T : \A j \in T : i <= j
<1>1. PICK i \in T : \A j \in T : ~ (<<j, i>> \in OpToRel(<, Nat))
  BY NatLessThanWellFounded, WFMin
<1>2. \A j \in T : ~(j < i)
  BY <1>1 DEF OpToRel
<1>3. QED
  BY <1>2

LEMMA FirstFreeIsFree ==
  ASSUME NEW p \in PoolType, Free(p) # {}
  PROVE  FirstFree(p) \in Free(p)
<1>1. Free(p) \in SUBSET Nat
  BY LenProperties DEF Free, PoolType
<1>2. \E i \in Free(p) : \A j \in Free(p) : i <= j
  BY <1>1, FirstExists
<1>3. QED
  BY <1>2 DEF FirstFree

\* The objects of a pool have addresses.
LEMMA LiveAddrs ==
  ASSUME NEW p \in PoolType
  PROVE  /\ Live(p) \subseteq Addr \cup {Null}
         /\ \A i \in 1 .. Len(p.objects) : p.objects[i].addr \in Live(p)
<1>1. p.objects \in Seq(Object) /\ DOMAIN p.objects = 1 .. Len(p.objects)
  BY PoolFields, LenProperties
<1>2. \A i \in 1 .. Len(p.objects) : p.objects[i] \in Object
  BY <1>1, ElementOfSeq
<1>3. \A i \in 1 .. Len(p.objects) : p.objects[i].addr \in Addr \cup {Null}
  BY <1>2 DEF Object
<1>4. QED
  BY <1>1, <1>3 DEF Live

LEMMA FirstFreeObject ==
  ASSUME NEW p \in PoolType, Free(p) # {}
  PROVE  /\ FirstFree(p) \in 1 .. Len(p.objects)
         /\ p.objects[FirstFree(p)].addr \in Addr \cup {Null}
<1>1. FirstFree(p) \in 1 .. Len(p.objects)
  BY FirstFreeIsFree, PoolFields, LenProperties DEF Free
<1>2. QED
  BY <1>1, LiveAddrs

\* Marking an object changes no address and no other mark.
LEMMA MarkObject ==
  ASSUME NEW s \in Seq(Object), NEW i \in 1 .. Len(s), NEW used \in BOOLEAN
  PROVE  LET t == [s EXCEPT ![i].inUse = used] IN
         /\ t \in Seq(Object) /\ Len(t) = Len(s)
         /\ \A j \in 1 .. Len(s) :
              /\ t[j].addr = s[j].addr
              /\ t[j].inUse = IF j = i THEN used ELSE s[j].inUse
<1> DEFINE o == [s[i] EXCEPT !.inUse = used]
           t == [s EXCEPT ![i] = o]
<1>1. s[i] \in Object
  BY ElementOfSeq
<1>2. o \in Object /\ o.addr = s[i].addr /\ o.inUse = used
  BY <1>1, Zenon DEF Object
<1>3. t \in Seq(Object) /\ Len(t) = Len(s)
  BY <1>2, ExceptSeq
<1>4. \A j \in 1 .. Len(s) : t[j] = IF j = i THEN o ELSE s[j]
  BY <1>2, ExceptSeq
<1>5. QED
  BY <1>2, <1>3, <1>4

\* A pool with new objects and counters.
Recounted(p, s, t, a) == [p EXCEPT !.objects = s, !.total = t, !.available = a]

LEMMA RecountedType ==
  ASSUME NEW p \in PoolType, NEW s \in Seq(Object), NEW t \in Int, NEW a \in Int
  PROVE  Recounted(p, s, t, a) \in PoolType
  BY DEF PoolType, Object, Recounted

\* The high water mark after an operation is not below the objects in use.
LEMMA MarkedFields ==
  ASSUME NEW p \in PoolType, NEW q, q = Marked(p)
  PROVE  /\ q \in PoolType
         /\ q.objects = p.objects
         /\ q.total = p.total
         /\ q.available = p.available
         /\ q.max = p.max
         /\ q.high >= p.total - p.available
<1>1. Marked(p) \in PoolType
  BY HigherType DEF PoolType, Marked
<1>2. /\ Marked(p).objects = p.objects
      /\ Marked(p).total = p.total
      /\ Marked(p).available = p.available
      /\ Marked(p).max = p.max
      /\ Marked(p).high = Higher(p.high, p.total - p.available)
  BY DEF PoolType, Marked
<1>3. p.high \in Nat /\ p.total - p.available \in Int
  BY DEF PoolType
<1>4. QED
  BY <1>1, <1>2, <1>3, HigherType

LEMMA TakeFirstCounts ==
  ASSUME NEW p \in PoolType, Free(p) # {}, NEW q, q = TakeFirst(p)
  PROVE  /\ q \in PoolType
         /\ Len(q.objects) = Len(p.objects)
         /\ q.total = p.total /\ q.available = p.available - 1 /\ q.max = p.max
         /\ q.high >= q.total - q.available
<1> DEFINE i == FirstFree(p)
           s == [p.objects EXCEPT ![i].inUse = TRUE]
           r == Recounted(p, s, p.total, p.available - 1)
<1>1. /\ i \in 1 .. Len(p.objects) /\ p.objects \in Seq(Object)
      /\ p.total \in Int /\ p.available - 1 \in Int
  <2>1. i \in DOMAIN p.objects
    BY FirstFreeIsFree DEF Free
  <2>2. p.objects \in Seq(Object) /\ p.total \in Int /\ p.available - 1 \in Int
    BY DEF PoolType, Object
  <2>3. QED
    BY <2>1, <2>2, LenProperties
<1>2. s \in Seq(Object) /\ Len(s) = Len(p.objects)
  BY <1>1, MarkObject
<1>3. q = Marked(r)
  BY DEF TakeFirst, PoolType, Recounted
<1> HIDE DEF s
<1>4. r \in PoolType
  BY <1>1, <1>2, RecountedType, Zenon
<1>5. /\ r.objects = s /\ r.total = p.total /\ r.available = p.available - 1
      /\ r.max = p.max
  BY Zenon DEF Recounted, PoolType
<1> HIDE DEF r
<1>6. /\ q \in PoolType /\ q.objects = r.objects
      /\ q.total = r.total /\ q.available = r.available /\ q.max = r.max
      /\ q.high >= r.total - r.available
  BY <1>3, <1>4, MarkedFields, Zenon
<1>7. QED
  BY <1>2, <1>5, <1>6

LEMMA TakeFirstObjects ==
  ASSUME NEW p \in PoolType, Free(p) # {}, NEW q, q = TakeFirst(p)
  PROVE  /\ \A j \in 1 .. Len(p.objects) : q.objects[j].addr = p.objects[j].addr
         /\ \A j \in 1 .. Len(p.objects) : p.objects[j].inUse => q.objects[j].inUse
         /\ \A j \in 1 .. Len(p.objects) :
              q.objects[j].inUse => j = FirstFree(p) \/ p.objects[j].inUse
         /\ q.objects[FirstFree(p)].inUse
<1> DEFINE i == FirstFree(p)
           s == [p.objects EXCEPT ![i].inUse = TRUE]
           r == Recounted(p, s, p.total, p.available - 1)
<1>1. /\ i \in 1 .. Len(p.objects) /\ p.objects \in Seq(Object)
      /\ p.total \in Int /\ p.available - 1 \in Int
  <2>1. i \in DOMAIN p.objects
    BY FirstFreeIsFree DEF Free
  <2>2. p.objects \in Seq(Object) /\ p.total \in Int /\ p.available - 1 \in Int
    BY DEF PoolType, Object
  <2>3. QED
    BY <2>1, <2>2, LenProperties
<1>2. /\ s \in Seq(Object) /\ Len(s) = Len(p.objects)
      /\ \A j \in 1 .. Len(p.objects) :
           /\ s[j].addr = p.objects[j].addr
           /\ s[j].inUse = IF j = i THEN TRUE ELSE p.objects[j].inUse
  BY <1>1, MarkObject
<1>3. q = Marked(r)
  BY DEF TakeFirst, PoolType, Recounted
<1> HIDE DEF s
<1>4. r \in PoolType
  BY <1>1, <1>2, RecountedType, Zenon
<1>5. r.objects = s /\ r.total = p.total /\ r.available = p.available - 1
  BY Zenon DEF Recounted, PoolType
<1> HIDE DEF r
<1>6. /\ q \in PoolType /\ q.objects = r.objects
      /\ q.total = r.total /\ q.available = r.available
      /\ q.high >= r.total - r.available
  BY <1>3, <1>4, MarkedFields, Zenon
<1>7. q.objects = s
  BY <1>5, <1>6
<1>8. QED
  BY <1>1, <1>2, <1>7

LEMMA TakeNewFields ==
  ASSUME NEW p \in PoolType, NEW a \in Addr, NEW q, q = TakeNew(p, a)
  PROVE  /\ q \in PoolType
         /\ Len(q.objects) = Len(p.objects) + 1
         /\ q.total = p.total + 1 /\ q.available = p.available /\ q.max = p.max
         /\ q.high >= q.total - q.available
         /\ \A j \in 1 .. Len(p.objects) : q.objects[j] = p.objects[j]
         /\ q.objects[Len(p.objects) + 1] = [addr |-> a, inUse |-> TRUE]
<1> DEFINE o == [addr |-> a, inUse |-> TRUE]
           s == Append(p.objects, o)
           r == Recounted(p, s, p.total + 1, p.available)
<1>1. o \in Object
  BY DEF Object
<1>2. p.objects \in Seq(Object) /\ p.total + 1 \in Int /\ p.available \in Int
  BY DEF PoolType, Object
<1>3. q = Marked(r)
  BY DEF TakeNew, PoolType, Recounted
<1> HIDE DEF o
<1>4. /\ s \in Seq(Object) /\ Len(s) = Len(p.objects) + 1
      /\ s[Len(p.objects) + 1] = o
      /\ \A j \in 1 .. Len(p.objects) : s[j] = p.objects[j]
  BY <1>1, <1>2, AppendProperties
<1> HIDE DEF s
<1>5. r \in PoolType
  BY <1>2, <1>4, RecountedType, Zenon
<1>6. /\ r.objects = s /\ r.total = p.total + 1 /\ r.available = p.available
      /\ r.max = p.max
  BY Zenon DEF Recounted, PoolType
<1> HIDE DEF r
<1>7. /\ q \in PoolType /\ q.objects = r.objects
      /\ q.total = r.total /\ q.available = r.available /\ q.max = r.max
      /\ q.high >= r.total - r.available
  BY <1>3, <1>5, MarkedFields, Zenon
<1>8. QED
  BY <1>4, <1>6, <1>7 DEF o

LEMMA NullSlotFields ==
  ASSUME NEW p \in PoolType, NEW q, q = WithNullSlot(p)
  PROVE  /\ q \in PoolType
         /\ Len(q.objects) = Len(p.objects) + 1
         /\ q.total = p.total /\ q.available = p.available
         /\ q.high = p.high /\ q.max = p.max
         /\ \A j \in 1 .. Len(p.objects) : q.objects[j] = p.objects[j]
         /\ q.objects[Len(p.objects) + 1] = [addr |-> Null, inUse |-> FALSE]
<1> DEFINE o == [addr |-> Null, inUse |-> FALSE]
           s == Append(p.objects, o)
           r == Recounted(p, s, p.total, p.available)
<1>1. o \in Object
  BY DEF Object
<1>2. p.objects \in Seq(Object) /\ p.total \in Int /\ p.available \in Int
  BY DEF PoolType, Object
<1>3. q = r
  BY DEF WithNullSlot, PoolType, Recounted
<1> HIDE DEF o
<1>4. /\ s \in Seq(Object) /\ Len(s) = Len(p.objects) + 1
      /\ s[Len(p.objects) + 1] = o
      /\ \A j \in 1 .. Len(p.objects) : s[j] = p.objects[j]
  BY <1>1, <1>2, AppendProperties
<1> HIDE DEF s
<1>5. r \in PoolType
  BY <1>2, <1>4, RecountedType, Zenon
<1>6. /\ r.objects = s /\ r.total = p.total /\ r.available = p.available
      /\ r.high = p.high /\ r.max = p.max
  BY Zenon DEF Recounted, PoolType
<1> HIDE DEF r
<1>7. QED
  BY <1>3, <1>4, <1>5, <1>6 DEF o

\* release finds a slot with the address.
LEMMA PositionAt ==
  ASSUME NEW p \in PoolType, NEW a \in Live(p)
  PROVE  Position(p, a) \in 1 .. Len(p.objects) /\ p.objects[Position(p, a)].addr = a
<1>1. DOMAIN p.objects = 1 .. Len(p.objects) /\ Len(p.objects) \in Nat
  BY PoolFields, LenProperties
<1>2. At(p, a) \in SUBSET Nat /\ At(p, a) # {}
  BY <1>1 DEF At, Live
<1>3. \E i \in At(p, a) : \A j \in At(p, a) : i <= j
  BY <1>2, FirstExists
<1>4. Position(p, a) \in At(p, a)
  BY <1>3 DEF Position
<1>5. QED
  BY <1>1, <1>4 DEF At

LEMMA GiveBackCounts ==
  ASSUME NEW p \in PoolType, NEW a \in Live(p), NEW q, q = GiveBack(p, a)
  PROVE  /\ q \in PoolType
         /\ Len(q.objects) = Len(p.objects)
         /\ q.total = p.total /\ q.available = p.available + 1
         /\ q.high = p.high /\ q.max = p.max
<1> DEFINE i == Position(p, a)
           s == [p.objects EXCEPT ![i].inUse = FALSE]
           r == Recounted(p, s, p.total, p.available + 1)
<1>1. p.objects \in Seq(Object) /\ p.total \in Int /\ p.available + 1 \in Int
  BY DEF PoolType, Object
<1>2. i \in 1 .. Len(p.objects) /\ p.objects[i].addr = a
  BY PositionAt
<1>3. s \in Seq(Object) /\ Len(s) = Len(p.objects)
  BY <1>1, <1>2, MarkObject
<1>4. q = r
  BY DEF GiveBack, PoolType, Recounted
<1> HIDE DEF s
<1>5. r \in PoolType
  BY <1>1, <1>3, RecountedType, Zenon
<1>6. /\ r.objects = s /\ r.high = p.high /\ r.max = p.max
      /\ r.total = p.total /\ r.available = p.available + 1
  BY Zenon DEF Recounted, PoolType
<1> HIDE DEF r, i
<1>7. QED
  BY <1>3, <1>4, <1>5, <1>6

LEMMA GiveBackObjects ==
  ASSUME NEW p \in PoolType, NEW a \in Live(p), NEW q, q = GiveBack(p, a)
  PROVE  /\ Position(p, a) \in 1 .. Len(p.objects)
         /\ p.objects[Position(p, a)].addr = a
         /\ \A j \in 1 .. Len(p.objects) : q.objects[j].addr = p.objects[j].addr
         /\ \A j \in 1 .. Len(p.objects) :
              j # Position(p, a) /\ p.objects[j].inUse => q.objects[j].inUse
         /\ \A j \in 1 .. Len(p.objects) :
              q.objects[j].inUse => j # Position(p, a) /\ p.objects[j].inUse
<1> DEFINE i == Position(p, a)
           s == [p.objects EXCEPT ![i].inUse = FALSE]
           r == Recounted(p, s, p.total, p.available + 1)
<1>1. p.objects \in Seq(Object) /\ p.total \in Int /\ p.available + 1 \in Int
  BY DEF PoolType, Object
<1>2. i \in 1 .. Len(p.objects) /\ p.objects[i].addr = a
  BY PositionAt
<1>3. /\ s \in Seq(Object) /\ Len(s) = Len(p.objects)
      /\ \A j \in 1 .. Len(p.objects) :
           /\ s[j].addr = p.objects[j].addr
           /\ s[j].inUse = IF j = i THEN FALSE ELSE p.objects[j].inUse
  BY <1>1, <1>2, MarkObject
<1>4. q = r
  BY DEF GiveBack, PoolType, Recounted
<1> HIDE DEF s
<1>6. r.objects = s
  BY Zenon DEF Recounted, PoolType
<1> HIDE DEF r, i
<1>7. QED
  BY <1>2, <1>3, <1>4, <1>6 DEF i

LEMMA ResizedFields ==
  ASSUME NEW p \in PoolType, NEW initial \in Nat, NEW max \in Nat,
         NEW f \in FreshAddrs(p, Missing(p, initial)),
         NEW q, q = Resized(p, initial, max, f)
  PROVE  /\ q \in PoolType
         /\ Len(q.objects) = initial /\ q.max = max /\ q.high = p.high
         /\ q.total = p.total + (initial - Len(p.objects))
         /\ q.available = p.available + (initial - Len(p.objects))
         /\ \A j \in 1 .. initial : j <= Len(p.objects) => q.objects[j] = p.objects[j]
         /\ \A j \in 1 .. initial : j > Len(p.objects) =>
              q.objects[j].addr \in Addr \ Live(p) /\ ~q.objects[j].inUse
         /\ \A j, k \in 1 .. initial :
              /\ j > Len(p.objects) /\ k > Len(p.objects)
              /\ q.objects[j].addr = q.objects[k].addr
              => j = k
<1> DEFINE n == Len(p.objects)
           cut == SubSeq(p.objects, 1, initial)
           free(k) == [addr |-> f[k], inUse |-> FALSE]
           g == [k \in 1 .. initial - n |-> free(k)]
           s == IF initial < n THEN cut ELSE p.objects \o g
<1>1. /\ p.objects \in Seq(Object) /\ n \in Nat
      /\ \A i \in 1 .. n : p.objects[i] \in Object
  BY LenProperties, ElementOfSeq DEF PoolType, Object
<1>2. p.total \in Int /\ p.available \in Int /\ p.high \in Nat
  BY DEF PoolType
<1>3. /\ q.objects = s /\ q.total = p.total + (initial - n)
      /\ q.available = p.available + (initial - n) /\ q.high = p.high /\ q.max = max
      /\ q = [objects |-> q.objects, total |-> q.total, available |-> q.available,
              high |-> q.high, max |-> q.max]
  BY DEF Resized, PoolType
<1>4. q.total \in Int /\ q.available \in Int
  BY <1>1, <1>2, <1>3
<1>5. s \in Seq(Object) => q \in PoolType
  BY <1>2, <1>3, <1>4 DEF PoolType, Object
<1>6. CASE initial < n
  <2>1. \A i \in 1 .. initial : p.objects[i] \in Object
    BY <1>1, <1>6
  <2>2. /\ cut \in Seq(Object) /\ Len(cut) = initial
        /\ \A i \in 1 .. initial : cut[i] = p.objects[i]
    BY <2>1, SubSeqProperties
  <2> HIDE DEF cut, g
  <2>3. q.objects = cut /\ s = cut
    BY <1>3, <1>6
  <2>4. QED
    BY <1>1, <1>3, <1>4, <1>5, <1>6, <2>2, <2>3
<1>7. CASE initial >= n
  <2>1. initial - n \in Nat /\ Missing(p, initial) = initial - n
    BY <1>1, <1>7 DEF Missing, Higher
  <2>2. /\ \A k \in 1 .. initial - n : f[k] \in Addr \ Live(p)
        /\ \A i, k \in 1 .. initial - n : f[i] = f[k] => i = k
    BY <2>1 DEF FreshAddrs
  <2>3. \A k \in 1 .. initial - n :
          free(k) \in Object /\ free(k).addr = f[k] /\ free(k).inUse = FALSE
    BY <2>2 DEF Object
  <2> HIDE DEF free
  <2>4. g \in Seq(Object)
    BY <2>1, <2>3, SeqDef
  <2>5. Len(g) = initial - n /\ \A k \in 1 .. initial - n : g[k] = free(k)
    BY <2>1
  <2> HIDE DEF g, cut
  <2>6. /\ p.objects \o g \in Seq(Object)
        /\ Len(p.objects \o g) = n + Len(g)
        /\ \A j \in 1 .. n + Len(g) :
              (p.objects \o g)[j] = IF j <= n THEN p.objects[j] ELSE g[j - n]
    BY <1>1, <2>4, ConcatProperties
  <2>7. q.objects = p.objects \o g /\ s = p.objects \o g
    BY <1>1, <1>3, <1>7
  <2>8. n + Len(g) = initial /\ \A j \in 1 .. initial : j > n => j - n \in 1 .. initial - n
    BY <1>1, <1>7, <2>5
  <2>9. \A j \in 1 .. initial :
          /\ j <= n => q.objects[j] = p.objects[j]
          /\ j > n => q.objects[j] = free(j - n)
    BY <1>1, <2>5, <2>6, <2>7, <2>8
  <2>10. \A j \in 1 .. initial : j > n =>
           /\ q.objects[j].addr = f[j - n] /\ q.objects[j].addr \in Addr \ Live(p)
           /\ ~q.objects[j].inUse
    BY <2>2, <2>3, <2>8, <2>9
  <2>11. \A j, k \in 1 .. initial :
           j > n /\ k > n /\ q.objects[j].addr = q.objects[k].addr => j = k
    <3>1. ASSUME NEW j \in 1 .. initial, NEW k \in 1 .. initial,
                 j > n, k > n, q.objects[j].addr = q.objects[k].addr
          PROVE  j - n = k - n
      <4>1. j - n \in 1 .. initial - n /\ k - n \in 1 .. initial - n
        BY <2>8, <3>1
      <4>2. f[j - n] = f[k - n]
        BY <2>10, <3>1
      <4>3. QED
        BY <2>2, <4>1, <4>2
    <3>2. QED
      BY <1>1, <3>1
  <2>12. QED
    BY <1>1, <1>3, <1>4, <1>5, <2>6, <2>7, <2>8, <2>9, <2>10, <2>11
<1>8. initial < n \/ initial >= n
  BY <1>1
<1>9. QED
  BY <1>6, <1>7, <1>8, Zenon

-----------------------------------------------------------------------------
(***************************************************************************)
(* What exclusive use rests on: no two objects of a pool have one address, *)
(* and which addresses are marked as in use.                               *)
(***************************************************************************)
Distinct(p) ==
  \A i, j \in 1 .. Len(p.objects) :
    p.objects[i].addr = p.objects[j].addr /\ p.objects[i].addr # Null => i = j

InUse(p, a) ==
  \E i \in 1 .. Len(p.objects) : p.objects[i].addr = a /\ p.objects[i].inUse

LEMMA InitialFields ==
  ASSUME NEW n \in Nat, NEW f \in [1 .. n -> Addr], NEW max \in Nat
  PROVE  LET p == InitialPool(f, n, max) IN
         /\ p \in PoolType
         /\ Len(p.objects) = n /\ p.total = n /\ p.available = n
         /\ p.high = 0 /\ p.max = max
<1> DEFINE o == [i \in 1 .. n |-> [addr |-> f[i], inUse |-> FALSE]]
           p == InitialPool(f, n, max)
<1>1. o \in Seq(Object) /\ Len(o) = n
  <2>1. \A i \in 1 .. n : o[i] \in Object
    BY DEF Object
  <2>2. o \in [1 .. n -> Object]
    BY <2>1
  <2>3. QED
    BY <2>2, SeqDef
<1>2. /\ p.objects = o /\ p.total = n /\ p.available = n /\ p.high = 0 /\ p.max = max
      /\ p = [objects |-> p.objects, total |-> p.total, available |-> p.available,
              high |-> p.high, max |-> p.max]
  BY DEF InitialPool
<1> HIDE DEF o, p
<1>3. p \in PoolType
  BY <1>1, <1>2 DEF PoolType, Object
<1>4. QED
  BY <1>1, <1>2, <1>3 DEF p

LEMMA InitialDistinct ==
  ASSUME NEW n \in Nat, NEW f \in [1 .. n -> Addr], NEW max,
         \A i, j \in 1 .. n : f[i] = f[j] => i = j
  PROVE  Distinct(InitialPool(f, n, max))
<1> DEFINE p == InitialPool(f, n, max)
<1>1. p.objects = [i \in 1 .. n |-> [addr |-> f[i], inUse |-> FALSE]]
  BY DEF InitialPool
<1>2. Len(p.objects) = n /\ \A i \in 1 .. n : p.objects[i].addr = f[i]
  BY <1>1
<1> HIDE DEF p
<1>3. Distinct(p)
  BY <1>2 DEF Distinct
<1>4. QED
  BY <1>3 DEF p

\* The object handed out was free, and is marked now.
LEMMA TakeFirstMarks ==
  ASSUME NEW p \in PoolType, Free(p) # {}, Distinct(p), NEW q, q = TakeFirst(p)
  PROVE  /\ Distinct(q)
         /\ \A b : InUse(p, b) => InUse(q, b)
         /\ p.objects[FirstFree(p)].addr # Null => ~InUse(p, p.objects[FirstFree(p)].addr)
         /\ InUse(q, p.objects[FirstFree(p)].addr)
<1> DEFINE n == Len(p.objects)
           i == FirstFree(p)
<1>1. n \in Nat /\ DOMAIN p.objects = 1 .. n
  BY PoolFields, LenProperties
<1>2. i \in 1 .. n /\ ~p.objects[i].inUse
  BY <1>1, FirstFreeIsFree DEF Free
<1>3. Len(q.objects) = n
  BY TakeFirstCounts
<1>4. /\ \A j \in 1 .. n : q.objects[j].addr = p.objects[j].addr
      /\ \A j \in 1 .. n : p.objects[j].inUse => q.objects[j].inUse
      /\ q.objects[i].inUse
  BY TakeFirstObjects
<1> HIDE DEF i, n
<1>5. Distinct(q)
  BY <1>1, <1>3, <1>4 DEF Distinct, n
<1>6. /\ p.objects[i].addr # Null => ~InUse(p, p.objects[i].addr)
      /\ InUse(q, p.objects[i].addr)
  BY <1>2, <1>3, <1>4 DEF InUse, Distinct, n
<1>7. ASSUME NEW b, InUse(p, b) PROVE InUse(q, b)
  <2>1. PICK j \in 1 .. n : p.objects[j].addr = b /\ p.objects[j].inUse
    BY <1>7 DEF InUse, n
  <2>2. QED
    BY <1>3, <1>4, <2>1 DEF InUse
<1>8. QED
  BY <1>5, <1>6, <1>7 DEF i

LEMMA TakeNewMarks ==
  ASSUME NEW p \in PoolType, Distinct(p), NEW a \in Addr \ Live(p),
         NEW q, q = TakeNew(p, a)
  PROVE  /\ Distinct(q)
         /\ \A b : InUse(p, b) => InUse(q, b)
         /\ ~InUse(p, a)
         /\ InUse(q, a)
<1> DEFINE n == Len(p.objects)
<1>1. n \in Nat
  BY PoolFields, LenProperties
<1>2. Len(q.objects) = n + 1
  BY TakeNewFields
<1>3. /\ \A j \in 1 .. n : q.objects[j] = p.objects[j]
      /\ q.objects[n + 1] = [addr |-> a, inUse |-> TRUE]
  BY TakeNewFields
<1>4. \A j \in 1 .. n : p.objects[j].addr # a
  BY LiveAddrs
<1>5. q.objects[n + 1].addr = a /\ q.objects[n + 1].inUse
  BY <1>3
<1> HIDE DEF n
<1>6. Distinct(q)
  <2>1. \A j \in 1 .. n + 1 : j \in 1 .. n \/ j = n + 1
    BY <1>1
  <2>2. \A j, m \in 1 .. n :
          q.objects[j].addr = q.objects[m].addr /\ q.objects[j].addr # Null => j = m
    BY <1>3 DEF Distinct, n
  <2>3. \A j \in 1 .. n : q.objects[j].addr # a
    BY <1>3, <1>4
  <2>4. QED
    BY <1>2, <1>5, <2>1, <2>2, <2>3 DEF Distinct
<1>7. ~InUse(p, a)
  BY <1>4 DEF InUse, n
<1>8. InUse(q, a)
  BY <1>1, <1>2, <1>5 DEF InUse
<1>9. ASSUME NEW b, InUse(p, b) PROVE InUse(q, b)
  BY <1>1, <1>2, <1>3, <1>9 DEF InUse, n
<1>10. QED
  BY <1>6, <1>7, <1>8, <1>9

LEMMA GiveBackMarks ==
  ASSUME NEW p \in PoolType, Distinct(p), NEW a \in Live(p), NEW q, q = GiveBack(p, a)
  PROVE  /\ Distinct(q)
         /\ \A b : InUse(p, b) /\ b # a => InUse(q, b)
<1> DEFINE n == Len(p.objects)
           i == Position(p, a)
<1>1. n \in Nat
  BY PoolFields, LenProperties
<1>2. Len(q.objects) = n
  BY GiveBackCounts
<1>3. /\ i \in 1 .. n /\ p.objects[i].addr = a
      /\ \A j \in 1 .. n : q.objects[j].addr = p.objects[j].addr
      /\ \A j \in 1 .. n : j # i /\ p.objects[j].inUse => q.objects[j].inUse
  BY GiveBackObjects
<1> HIDE DEF i, n
<1>4. Distinct(q)
  BY <1>1, <1>2, <1>3 DEF Distinct, n
<1>5. ASSUME NEW b, InUse(p, b), b # a PROVE InUse(q, b)
  <2>1. PICK j \in 1 .. n : p.objects[j].addr = b /\ p.objects[j].inUse
    BY <1>5 DEF InUse, n
  <2>2. j # i
    BY <1>3, <1>5, <2>1
  <2>3. QED
    BY <1>2, <1>3, <2>1, <2>2 DEF InUse
<1>6. QED
  BY <1>4, <1>5

\* A slot without an object changes nothing for the objects.
LEMMA NullSlotMarks ==
  ASSUME NEW p \in PoolType, Distinct(p), NEW q, q = WithNullSlot(p)
  PROVE  Distinct(q) /\ \A b : InUse(p, b) => InUse(q, b)
<1> DEFINE n == Len(p.objects)
<1>1. n \in Nat
  BY PoolFields, LenProperties
<1>2. /\ Len(q.objects) = n + 1
      /\ \A j \in 1 .. n : q.objects[j] = p.objects[j]
      /\ q.objects[n + 1] = [addr |-> Null, inUse |-> FALSE]
  BY NullSlotFields
<1>3. q.objects[n + 1].addr = Null
  BY <1>2
<1> HIDE DEF n
<1>4. Distinct(q)
  <2>1. \A j \in 1 .. n + 1 : j \in 1 .. n \/ j = n + 1
    BY <1>1
  <2>2. \A j, m \in 1 .. n :
          q.objects[j].addr = q.objects[m].addr /\ q.objects[j].addr # Null => j = m
    BY <1>2 DEF Distinct, n
  <2>3. QED
    BY <1>2, <1>3, <2>1, <2>2 DEF Distinct
<1>5. ASSUME NEW b, InUse(p, b) PROVE InUse(q, b)
  BY <1>1, <1>2, <1>5 DEF InUse, n
<1>6. QED
  BY <1>4, <1>5

LEMMA ResizedMarks ==
  ASSUME NEW p \in PoolType, Distinct(p),
         NEW initial \in Nat, NEW max \in Nat,
         NEW f \in FreshAddrs(p, Missing(p, initial)),
         NEW q, q = Resized(p, initial, max, f)
  PROVE  /\ Distinct(q)
         /\ \A b : InUse(p, b) /\ b \notin Destroyed(p, initial) /\ b # Null => InUse(q, b)
<1> DEFINE n == Len(p.objects)
<1>1. n \in Nat /\ DOMAIN p.objects = 1 .. n
  BY PoolFields, LenProperties
<1>2. Len(q.objects) = initial
  BY ResizedFields
<1>3. \A j \in 1 .. initial : j <= n => q.objects[j] = p.objects[j]
  BY ResizedFields
<1>4. \A j \in 1 .. initial : j > n => q.objects[j].addr \notin Live(p)
  BY ResizedFields
<1>5. \A j, k \in 1 .. initial :
        j > n /\ k > n /\ q.objects[j].addr = q.objects[k].addr => j = k
  BY ResizedFields
<1>6. \A j \in 1 .. n : p.objects[j].addr \in Live(p)
  BY <1>1 DEF Live
<1> HIDE DEF n
<1>7. Distinct(q)
  <2>1. ASSUME NEW j \in 1 .. initial, NEW k \in 1 .. initial,
               q.objects[j].addr = q.objects[k].addr, q.objects[j].addr # Null
        PROVE  j = k
    <3>1. j <= n => j \in 1 .. n /\ q.objects[j] = p.objects[j]
      BY <1>1, <1>3
    <3>2. k <= n => k \in 1 .. n /\ q.objects[k] = p.objects[k]
      BY <1>1, <1>3
    <3>3. CASE j <= n /\ k <= n
      BY <2>1, <3>1, <3>2, <3>3 DEF Distinct, n
    <3>4. CASE j > n /\ k > n
      BY <1>5, <2>1, <3>4
    <3>5. CASE j <= n /\ k > n
      BY <1>4, <1>6, <2>1, <3>1, <3>5
    <3>6. CASE j > n /\ k <= n
      BY <1>4, <1>6, <2>1, <3>2, <3>6
    <3>7. QED
      BY <1>1, <3>3, <3>4, <3>5, <3>6
  <2>2. QED
    BY <1>2, <2>1 DEF Distinct
<1>8. ASSUME NEW b, InUse(p, b), b \notin Destroyed(p, initial), b # Null
      PROVE  InUse(q, b)
  <2>1. PICK j \in 1 .. n : p.objects[j].addr = b /\ p.objects[j].inUse
    BY <1>8 DEF InUse, n
  <2>2. ~(j > initial)
    BY <1>1, <1>8, <2>1 DEF Destroyed
  <2>3. j \in 1 .. initial /\ j <= n
    BY <1>1, <2>2
  <2>4. QED
    BY <1>2, <1>3, <2>1, <2>3 DEF InUse
<1>9. QED
  BY <1>7, <1>8
\* An updateLimits that throws: made objects more, and a slot without one.
LEMMA ThrownFields ==
  ASSUME NEW p \in PoolType, NEW made \in Nat, NEW max \in Nat,
         NEW f \in FreshAddrs(p, made), NEW q, q = ResizeThrown(p, made, max, f)
  PROVE  /\ q \in PoolType
         /\ Len(q.objects) = Len(p.objects) + made + 1 /\ q.max = max /\ q.high = p.high
         /\ q.total = p.total + made /\ q.available = p.available + made
         /\ \A j \in 1 .. Len(p.objects) : q.objects[j] = p.objects[j]
         /\ \A j \in 1 .. Len(q.objects) : j > Len(p.objects) => ~q.objects[j].inUse
         /\ \A j \in 1 .. Len(q.objects) :
              j > Len(p.objects) /\ q.objects[j].addr = Null => j = Len(q.objects)
<1> DEFINE n == Len(p.objects)
           m == n + made
           d == Resized(p, m, max, f)
<1>1. n \in Nat /\ m \in Nat /\ m = n + made /\ p.total \in Int /\ p.available \in Int
  BY PoolFields, LenProperties
<1> HIDE DEF m
<1>2. Missing(p, m) = made
  BY <1>1 DEF Missing, Higher
<1>3. f \in FreshAddrs(p, Missing(p, m)) /\ q = WithNullSlot(d)
  BY <1>1, <1>2, Zenon DEF ResizeThrown
<1>4. /\ d \in PoolType /\ Len(d.objects) = m /\ d.max = max /\ d.high = p.high
      /\ d.total = p.total + (m - n) /\ d.available = p.available + (m - n)
      /\ \A j \in 1 .. m : j <= n => d.objects[j] = p.objects[j]
      /\ \A j \in 1 .. m : j > n => d.objects[j].addr \in Addr \ Live(p)
                                  /\ ~d.objects[j].inUse
  <2>1. d = Resized(p, m, max, f) /\ m \in Nat /\ f \in FreshAddrs(p, Missing(p, m))
    BY <1>1, <1>3
  <2> HIDE DEF d, n
  <2>2. /\ d \in PoolType /\ Len(d.objects) = m /\ d.max = max /\ d.high = p.high
        /\ d.total = p.total + (m - Len(p.objects))
        /\ d.available = p.available + (m - Len(p.objects))
        /\ \A j \in 1 .. m : j <= Len(p.objects) => d.objects[j] = p.objects[j]
        /\ \A j \in 1 .. m : j > Len(p.objects) =>
             d.objects[j].addr \in Addr \ Live(p) /\ ~d.objects[j].inUse
    BY <2>1, ResizedFields
  <2>3. QED
    BY <2>2 DEF n
<1> HIDE DEF d
<1>5. /\ q \in PoolType /\ Len(q.objects) = m + 1 /\ q.max = max /\ q.high = p.high
      /\ q.total = d.total /\ q.available = d.available
      /\ \A j \in 1 .. m : q.objects[j] = d.objects[j]
      /\ q.objects[m + 1] = [addr |-> Null, inUse |-> FALSE]
  BY <1>3, <1>4, NullSlotFields
<1>6. /\ q.total = p.total + made /\ q.available = p.available + made
      /\ ~q.objects[m + 1].inUse
  BY <1>1, <1>4, <1>5
<1>7. \A j \in 1 .. m + 1 : j \in 1 .. m \/ j = m + 1
  BY <1>1
<1>8. \A j \in 1 .. n : j \in 1 .. m /\ j <= n
  BY <1>1
<1> HIDE DEF n
<1>9. \A j \in 1 .. m + 1 : j > n => ~q.objects[j].inUse
  BY <1>4, <1>5, <1>6, <1>7
<1>10. \A j \in 1 .. m + 1 : j > n /\ q.objects[j].addr = Null => j = m + 1
  BY <1>4, <1>5, <1>7, PoolAssumption
<1>11. \A j \in 1 .. n : q.objects[j] = p.objects[j]
  BY <1>4, <1>5, <1>8
<1>12. QED
  BY <1>5, <1>6, <1>9, <1>10, <1>11, <1>1 DEF n

LEMMA ThrownMarks ==
  ASSUME NEW p \in PoolType, Distinct(p), NEW made \in Nat, NEW max \in Nat,
         NEW f \in FreshAddrs(p, made), NEW q, q = ResizeThrown(p, made, max, f)
  PROVE  Distinct(q) /\ \A b : InUse(p, b) /\ b # Null => InUse(q, b)
<1> DEFINE n == Len(p.objects)
           m == n + made
           d == Resized(p, m, max, f)
<1>1. n \in Nat /\ m \in Nat /\ DOMAIN p.objects = 1 .. n
  BY PoolFields, LenProperties
<1>2. Missing(p, m) = made
  BY <1>1 DEF Missing, Higher
<1>3. f \in FreshAddrs(p, Missing(p, m)) /\ q = WithNullSlot(d)
  BY <1>2 DEF ResizeThrown
<1>4. Destroyed(p, m) = {}
  BY <1>1 DEF Destroyed
<1> HIDE DEF d, m
<1>5. /\ d \in PoolType /\ Distinct(d)
      /\ \A b : InUse(p, b) /\ b # Null => InUse(d, b)
  BY <1>1, <1>3, <1>4, ResizedFields, ResizedMarks DEF d
<1>6. QED
  BY <1>3, <1>5, NullSlotMarks

\* A pool without an empty slot gets one only from WithNullSlot.
LEMMA NoNewNull ==
  ASSUME NEW p \in PoolType, NEW q \in PoolType, Null \notin Live(p),
         \A j \in 1 .. Len(q.objects) :
           \/ q.objects[j].addr \in Addr
           \/ j \in 1 .. Len(p.objects) /\ q.objects[j].addr = p.objects[j].addr
  PROVE  Null \notin Live(q)
<1>1. DOMAIN p.objects = 1 .. Len(p.objects) /\ DOMAIN q.objects = 1 .. Len(q.objects)
  BY PoolFields, LenProperties
<1>2. \A j \in 1 .. Len(q.objects) : q.objects[j].addr # Null
  BY <1>1, PoolAssumption DEF Live
<1>3. QED
  BY <1>1, <1>2 DEF Live
=============================================================================
