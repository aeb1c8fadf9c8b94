--------------------------- MODULE PipelineProofs ---------------------------
(***************************************************************************)
(* Proofs about Pipeline, for any workers, connections, addresses and      *)
(* limits.                                                                 *)
(***************************************************************************)
EXTENDS Pipeline, PoolProofs

USE PipelineAssumption

-----------------------------------------------------------------------------
(***************************************************************************)
(* The invariant.                                                          *)
(***************************************************************************)
Jobs == {job[w] : w \in Workers}

JobsKept ==
  /\ \A w \in Workers : phase[w] = "idle" <=> job[w] = NoConn
  /\ \A v, w \in Workers : job[v] = job[w] /\ job[v] # NoConn => v = w
  /\ \A w \in Workers : job[w] # NoConn => counted[job[w]] = 0

Holding == {"execute", "receive", "release"}

ObjectKept ==
  \A w \in Workers :
    /\ object[w] # NoObject <=> phase[w] \in Holding
    /\ object[w] = Null => stage[w] = "resolver"
    /\ phase[w] = "receive" => stage[w] = "forwarder"

Fresh(c) ==
  verdict[c] = "none" /\ c \notin contacted /\ reply[c] = "none" /\ c \notin closed

NotBegun == \A c \in Conns : counted[c] = 0 /\ c \notin Jobs => Fresh(c)

Unasked(w) == stage[w] = "accepter" /\ phase[w] # "release"

Accepting(w) ==
  \/ stage[w] = "accepter" /\ phase[w] = "release"
  \/ stage[w] = "resolver" /\ phase[w] # "release"

Resolved(w) ==
  \/ stage[w] = "resolver" /\ phase[w] = "release"
  \/ stage[w] \in {"forwarder", "sender"}

Forwarded(w) ==
  \/ stage[w] = "forwarder" /\ phase[w] \in {"receive", "release"}
  \/ stage[w] = "sender"

Sent(w) == stage[w] = "sender" /\ phase[w] = "release"

PacketKept(w) ==
  /\ Unasked(w) => verdict[job[w]] = "none"
  /\ Accepting(w) => verdict[job[w]] = IF flags[w].accepted THEN "accepted" ELSE "blocked"
  /\ Resolved(w) =>
       IF flags[w].accepted
       THEN /\ verdict[job[w]] \in {"denied", "cleared"}
            /\ flags[w].resolved => verdict[job[w]] = "cleared"
       ELSE verdict[job[w]] = "blocked" /\ ~flags[w].resolved
  /\ ~Forwarded(w) => job[w] \notin contacted
  /\ Forwarded(w) /\ flags[w].resolved => job[w] \in contacted
  /\ ~Sent(w) => reply[job[w]] = "none" /\ job[w] \notin closed
  /\ Sent(w) => job[w] \in closed \cup excused

PacketsKept == \A w \in Workers : job[w] # NoConn => PacketKept(w)

AnswerKept ==
  ~torn["forwarder"] =>
    \A w \in Workers : job[w] # NoConn =>
      /\ response[w] \in {job[w], "empty"}
      /\ phase[w] = "receive" => upstream[object[w]] = job[w]

HoldersIn(s) == {w \in Workers : stage[w] = s /\ object[w] # NoObject}

ExclusiveIn(s) ==
  /\ \A v, w \in HoldersIn(s) : object[v] = object[w] /\ object[v] # Null => v = w
  /\ \A w \in HoldersIn(s) : object[w] # Null => InUse(pools[s], object[w])

NullFree(s) == s # "resolver" => Null \notin Live(pools[s])

PoolKept(s) ==
  /\ NullFree(s)
  /\ Distinct(pools[s])
  /\ ~torn[s] => ExclusiveIn(s)

PoolsKept == \A s \in Stages : PoolKept(s)

LostKept ==
  \A s \in Stages : lost[s] <= MaxThrows + Cardinality({c \in Conns : counted[c] > 0})

-----------------------------------------------------------------------------
(***************************************************************************)
(* The type.  That an action changes a field of the connection it works on *)
(* needs that a worker has one unless it is idle; that Forwarders' sockets *)
(* have theirs, that only Resolvers are missing from their slots.          *)
(***************************************************************************)
Whole == \A s \in Stages : NullFree(s)

Employed == \A w \in Workers : phase[w] # "idle" => job[w] # NoConn

Handed ==
  \A w \in Workers :
    /\ phase[w] \in Holding => object[w] # NoObject
    /\ object[w] = Null => stage[w] = "resolver"
    /\ phase[w] = "receive" => stage[w] = "forwarder"

LEMMA FlagsFields ==
  ASSUME TypeOK, NEW w \in Workers
  PROVE  /\ flags[w].accepted \in BOOLEAN
         /\ flags[w].resolved \in BOOLEAN
         /\ flags[w].forwarded \in BOOLEAN
  BY DEF TypeOK

LEMMA TypeInit == Init => TypeOK /\ Whole
<1> SUFFICES ASSUME Init PROVE TypeOK /\ Whole
  OBVIOUS
<1>1. PICK f \in [1 .. InitialSize -> Addr] :
        pools = [s \in Stages |-> InitialPool(f, InitialSize, InitialMax)]
  BY DEF Init
<1> DEFINE p == InitialPool(f, InitialSize, InitialMax)
<1>2. p \in PoolType /\ Null \notin Live(p)
  <2>1. p \in PoolType
    BY InitialFields
  <2>2. Null \notin Live(p)
    BY PoolAssumption DEF Live, InitialPool
  <2>3. QED
    BY <2>1, <2>2
<1> HIDE DEF p
<1>3. pools \in [Stages -> PoolType] /\ Whole
  BY <1>1, <1>2 DEF p, Whole, NullFree
<1>4. /\ "accepter" \in Stages
      /\ NewPacket \in [accepted : BOOLEAN, resolved : BOOLEAN, forwarded : BOOLEAN]
  BY DEF Stages, NewPacket
<1>5. QED
  BY <1>3, <1>4 DEF Init, TypeOK


\* What a worker at work has in hand.
LEMMA Working ==
  ASSUME TypeOK, Employed, Handed, NEW w \in Workers, phase[w] # "idle"
  PROVE  /\ job[w] \in Conns
         /\ stage[w] \in Stages
         /\ phase[w] \in Holding => object[w] \in Addr \cup {Null}
         /\ phase[w] \in Holding /\ stage[w] # "resolver" => object[w] \in Addr
         /\ pools[stage[w]] \in PoolType
  BY DEF TypeOK, Employed, Handed

LEMMA ConcludeType ==
  ASSUME TypeOK, Employed, Handed, NEW w \in Workers, phase[w] # "idle", Conclude(w)
  PROVE  /\ counted' \in [Conns -> Nat]
         /\ phase' \in [Workers -> {"idle", "acquire", "execute", "receive", "release"}]
         /\ job' \in [Workers -> Conns \cup {NoConn}]
         /\ object' \in [Workers -> Addr \cup {Null, NoObject}]
  BY Working DEF TypeOK, Conclude

LEMMA FailType ==
  ASSUME TypeOK, Employed, Handed, NEW w \in Workers, phase[w] # "idle", Fail(w),
         pools' \in [Stages -> PoolType], lost' \in [Stages -> Nat],
         failed' \in [Stages -> 0 .. MaxFailed]
  PROVE  TypeOK'
<1>1. /\ counted' \in [Conns -> Nat]
      /\ phase' \in [Workers -> {"idle", "acquire", "execute", "receive", "release"}]
      /\ job' \in [Workers -> Conns \cup {NoConn}]
      /\ object' \in [Workers -> Addr \cup {Null, NoObject}]
  BY ConcludeType DEF Fail
<1>2. excused' \subseteq Conns
  BY Working DEF Fail, TypeOK
<1>3. QED
  BY <1>1, <1>2 DEF Fail, TypeOK

LEMMA HoldsType ==
  ASSUME TypeOK, NEW w \in Workers, NEW a \in Addr \cup {Null}, Holds(w, a),
         pools' \in [Stages -> PoolType], upstream' \in [Addr -> Conns \cup {NoConn}]
  PROVE  TypeOK'
<1>1. object' \in [Workers -> Addr \cup {Null, NoObject}]
  BY DEF TypeOK, Holds
<1>2. phase' \in [Workers -> {"idle", "acquire", "execute", "receive", "release"}]
  BY DEF TypeOK, Holds
<1>3. QED
  BY <1>1, <1>2 DEF TypeOK, Holds, packetVars, clientVars, recordVars

LEMMA ThrowsType ==
  ASSUME TypeOK, NEW s \in Stages, ConstructorThrows(s)
  PROVE  failed' \in [Stages -> 0 .. MaxFailed]
<1>1. failed[s] \in 0 .. MaxFailed /\ failed[s] + 1 \in 0 .. MaxFailed
  BY DEF ConstructorThrows, TypeOK
<1>2. QED
  BY <1>1 DEF ConstructorThrows, TypeOK

LEMMA TypeStep ==
  ASSUME TypeOK, Whole, Employed, Handed, [Next]_vars
  PROVE  TypeOK'
<1>1. ASSUME NEW w \in Workers, NEW c \in Conns, Begin(w, c)
      PROVE  TypeOK'
  <2>1. NewPacket \in [accepted : BOOLEAN, resolved : BOOLEAN, forwarded : BOOLEAN]
    BY DEF NewPacket
  <2>2. "accepter" \in Stages
    BY DEF Stages
  <2>3. QED
    BY <1>1, <2>1, <2>2 DEF Begin, TypeOK, clientVars, recordVars
<1>2. ASSUME NEW w \in Workers, AcquireFree(w)
      PROVE  TypeOK'
  <2> DEFINE s == stage[w]
             p == pools[s]
             a == p.objects[FirstFree(p)].addr
  <2>1. /\ s \in Stages /\ p \in PoolType /\ Free(p) # {}
        /\ pools' = [pools EXCEPT ![s] = TakeFirst(p)] /\ Holds(w, a)
        /\ upstream' = upstream
    BY <1>2, Working DEF AcquireFree
  <2>2. TakeFirst(p) \in PoolType /\ a \in Addr \cup {Null}
    BY <2>1, TakeFirstCounts, FirstFreeObject
  <2> HIDE DEF s, p, a
  <2>3. pools' \in [Stages -> PoolType]
    BY <2>1, <2>2 DEF TypeOK
  <2>4. QED
    BY <2>1, <2>2, <2>3, HoldsType DEF TypeOK
<1>3. ASSUME NEW w \in Workers, AcquireNew(w)
      PROVE  TypeOK'
  <2> DEFINE s == stage[w]
             p == pools[s]
  <2>1. s \in Stages /\ p \in PoolType
    BY <1>3, Working DEF AcquireNew
  <2>2. PICK a \in Addr \ Live(p) :
          /\ pools' = [pools EXCEPT ![s] = TakeNew(p, a)]
          /\ Holds(w, a)
          /\ upstream' = IF s = "forwarder"
                         THEN [upstream EXCEPT ![a] = NoConn] ELSE upstream
    BY <1>3 DEF AcquireNew
  <2>3. TakeNew(p, a) \in PoolType
    BY <2>1, TakeNewFields
  <2> HIDE DEF s, p
  <2>4. pools' \in [Stages -> PoolType]
    BY <2>1, <2>2, <2>3 DEF TypeOK
  <2>5. upstream' \in [Addr -> Conns \cup {NoConn}]
    BY <2>2 DEF TypeOK
  <2>6. QED
    BY <2>2, <2>4, <2>5, HoldsType
<1>4. ASSUME NEW w \in Workers, PoolExhausted(w)
      PROVE  TypeOK'
  BY <1>4, FailType DEF PoolExhausted, TypeOK
<1>5. ASSUME NEW w \in Workers, ExecuteThrows(w) \/ ReleaseMissing(w)
      PROVE  TypeOK'
  <2>1. phase[w] # "idle" /\ lost' = [lost EXCEPT ![stage[w]] = @ + 1]
    BY <1>5 DEF ExecuteThrows, ReleaseMissing
  <2>2. lost' \in [Stages -> Nat]
    BY <2>1, Working DEF TypeOK
  <2>3. Fail(w) /\ UNCHANGED <<pools, failed>>
    BY <1>5 DEF ExecuteThrows, ReleaseMissing
  <2>4. QED
    BY <2>1, <2>2, <2>3, FailType DEF TypeOK
<1>6. ASSUME NEW w \in Workers, Release(w)
      PROVE  TypeOK'
  <2> DEFINE s == stage[w]
             p == pools[s]
             a == object[w]
  <2>1. /\ s \in Stages /\ p \in PoolType /\ a \in Live(p) /\ phase[w] # "idle"
        /\ pools' = [pools EXCEPT ![s] = GiveBack(p, a)]
    BY <1>6, Working DEF Release
  <2> HIDE DEF s, p, a
  <2>2. GiveBack(p, a) \in PoolType
    BY <2>1, GiveBackCounts
  <2>3. pools' \in [Stages -> PoolType]
    BY <2>1, <2>2 DEF TypeOK
  <2>4. CASE Conclude(w) /\ UNCHANGED stage
    BY <1>6, <2>1, <2>3, <2>4, ConcludeType DEF Release, TypeOK, clientVars
  <2>5. CASE Advance(w)
    <3>1. stage' \in [Workers -> Stages]
      BY <2>5 DEF Advance, TypeOK, Stages
    <3>2. phase' \in [Workers -> {"idle", "acquire", "execute", "receive", "release"}]
      BY <2>5 DEF Advance, TypeOK
    <3>3. object' \in [Workers -> Addr \cup {Null, NoObject}]
      BY <2>5 DEF Advance, TypeOK
    <3>4. QED
      BY <1>6, <2>3, <2>5, <3>1, <3>2, <3>3 DEF Release, Advance, TypeOK, clientVars
  <2>6. QED
    BY <1>6, <2>4, <2>5 DEF Release, s
<1>7. ASSUME NEW s \in Stages, NEW l \in Limits, Resize(s, l[1], l[2])
      PROVE  TypeOK'
  <2>1. l[1] \in Nat /\ l[2] \in Nat
    OBVIOUS
  <2>2. PICK f \in FreshAddrs(pools[s], Missing(pools[s], l[1])) :
          pools' = [pools EXCEPT ![s] = Resized(pools[s], l[1], l[2], f)]
    BY <1>7 DEF Resize
  <2>3. Resized(pools[s], l[1], l[2], f) \in PoolType
    <3>1. pools[s] \in PoolType
      BY DEF TypeOK
    <3>2. QED
      BY <2>1, <2>2, <3>1, ResizedFields
  <2>4. pools' \in [Stages -> PoolType]
    BY <2>2, <2>3 DEF TypeOK
  <2>5. torn' \in [Stages -> BOOLEAN]
    <3>1. torn' = [torn EXCEPT ![s] =
                     @ \/ \E w \in Workers : HeldIn(s)[w] \in Destroyed(pools[s], l[1])]
      BY <1>7 DEF Resize
    <3>2. (torn[s] \/ \E w \in Workers : HeldIn(s)[w] \in Destroyed(pools[s], l[1])) \in BOOLEAN
      BY DEF TypeOK
    <3>3. QED
      BY <3>1, <3>2, Zenon DEF TypeOK
  <2>6. upstream' \in [Addr -> Conns \cup {NoConn}]
    BY <1>7 DEF Resize, TypeOK
  <2>7. resizes' \in 0 .. MaxResizes
    BY <1>7 DEF Resize, TypeOK
  <2>8. QED
    BY <1>7, <2>4, <2>5, <2>6, <2>7
    DEF Resize, TypeOK, packetVars, placeVars, clientVars, recordVars
<1>8. ASSUME NEW w \in Workers,
             Accept(w) \/ Resolve(w) \/ SkipForwarding(w) \/ Connect(w) \/ ConnectFails(w)
               \/ Receive(w) \/ Discard(w) \/ Refuse(w) \/ Answer(w) \/ AnswerFails(w)
      PROVE  TypeOK'
  <2>1. /\ UNCHANGED <<pools, job, stage, object, counted, lost, torn, failed, resizes>>
        /\ phase[w] \in {"execute", "receive"}
        /\ \E next \in {"receive", "release"} : phase' = [phase EXCEPT ![w] = next]
    BY <1>8 DEF Accept, Resolve, SkipForwarding, Connect, ConnectFails, Receive, Discard,
         Refuse, Answer, AnswerFails, Executes, Then
  <2>2. /\ phase' \in [Workers -> {"idle", "acquire", "execute", "receive", "release"}]
        /\ job[w] \in Conns
        /\ stage[w] # "resolver" => upstream[object[w]] \in Conns \cup {NoConn}
    BY <2>1, Working DEF TypeOK, Holding
  <2>3. CASE Accept(w)
    <3>1. PICK allowed \in BOOLEAN :
            /\ flags' = [flags EXCEPT ![w].accepted = allowed]
            /\ verdict' = [verdict EXCEPT ![job[w]] =
                             IF allowed THEN "accepted" ELSE "blocked"]
      BY <2>3 DEF Accept
    <3>2. flags' \in [Workers -> [accepted : BOOLEAN, resolved : BOOLEAN, forwarded : BOOLEAN]]
      BY <3>1 DEF TypeOK
    <3>3. verdict' \in [Conns -> {"none", "blocked", "accepted", "denied", "cleared"}]
      BY <2>2, <3>1 DEF TypeOK
    <3>4. QED
      BY <2>1, <2>2, <2>3, <3>2, <3>3 DEF Accept, TypeOK, clientVars
  <2>4. CASE Resolve(w)
    <3>1. \E clear \in BOOLEAN : flags' = [flags EXCEPT ![w].resolved = clear]
      BY <2>4 DEF Resolve
    <3>2. flags' \in [Workers -> [accepted : BOOLEAN, resolved : BOOLEAN, forwarded : BOOLEAN]]
      BY <3>1 DEF TypeOK
    <3>3. verdict' = verdict \/ \E v \in {"denied", "cleared"} :
                                  verdict' = [verdict EXCEPT ![job[w]] = v]
      BY <2>4 DEF Resolve
    <3>4. verdict' \in [Conns -> {"none", "blocked", "accepted", "denied", "cleared"}]
      BY <2>2, <3>3 DEF TypeOK
    <3>5. QED
      BY <2>1, <2>2, <2>4, <3>2, <3>4 DEF Resolve, TypeOK, clientVars
  <2>5. CASE SkipForwarding(w)
    <3>0. \E b \in BOOLEAN : flags' = [flags EXCEPT ![w].forwarded = b]
      BY <2>5 DEF SkipForwarding
    <3>1. flags' \in [Workers -> [accepted : BOOLEAN, resolved : BOOLEAN, forwarded : BOOLEAN]]
      BY <3>0 DEF TypeOK
    <3>2. QED
      BY <2>1, <2>2, <2>5, <3>1 DEF SkipForwarding, TypeOK, clientVars
  <2>6. CASE Connect(w)
    BY <2>1, <2>2, <2>6 DEF Connect, TypeOK, clientVars
  <2>7. CASE ConnectFails(w)
    <3>1. flags' \in [Workers -> [accepted : BOOLEAN, resolved : BOOLEAN, forwarded : BOOLEAN]]
      <4>1. PICK b, d \in BOOLEAN :
              flags' = [flags EXCEPT ![w].resolved = b, ![w].forwarded = d]
        BY <2>7 DEF ConnectFails
      <4> DEFINE g == [flags EXCEPT ![w].resolved = b]
      <4>2. flags' = [g EXCEPT ![w].forwarded = d]
        BY <4>1
      <4>3. g \in [Workers -> [accepted : BOOLEAN, resolved : BOOLEAN, forwarded : BOOLEAN]]
        BY <4>1 DEF TypeOK
      <4> HIDE DEF g
      <4>4. QED
        BY <4>1, <4>2, <4>3
    <3>2. upstream' \in [Addr -> Conns \cup {NoConn}]
      <4>1. PICK u \in {upstream[object[w]], NoConn} :
              upstream' = [upstream EXCEPT ![object[w]] = u]
        BY <2>7 DEF ConnectFails
      <4>2. u \in Conns \cup {NoConn}
        BY <2>2, <2>7, <4>1 DEF ConnectFails, Executes
      <4>3. QED
        BY <4>1, <4>2 DEF TypeOK
    <3>3. QED
      BY <2>1, <2>2, <2>7, <3>1, <3>2 DEF ConnectFails, TypeOK, clientVars
  <2>8. CASE Receive(w)
    <3>0. \E b \in BOOLEAN : flags' = [flags EXCEPT ![w].forwarded = b]
      BY <2>8 DEF Receive
    <3>1. flags' \in [Workers -> [accepted : BOOLEAN, resolved : BOOLEAN, forwarded : BOOLEAN]]
      BY <3>0 DEF TypeOK
    <3>2. response' \in [Workers -> Conns \cup {"empty"}]
      BY <2>2, <2>8 DEF Handed, Receive, Received, TypeOK
    <3>3. QED
      BY <2>1, <2>2, <2>8, <3>1, <3>2 DEF Receive, TypeOK, clientVars
  <2>9. CASE Discard(w)
    BY <2>1, <2>2, <2>9 DEF Discard, TypeOK, clientVars
  <2>10. CASE Refuse(w)
    <3>1. \E r \in {"none", "blacklisted", "unresolved"} :
            reply' = [reply EXCEPT ![job[w]] = r]
      BY <2>10 DEF Refuse
    <3>2. reply' \in [Conns -> Conns \cup {"none", "empty", "blacklisted", "unresolved"}]
      BY <3>1 DEF TypeOK
    <3>3. QED
      BY <2>1, <2>2, <2>10, <3>2 DEF Refuse, TypeOK
  <2>11. CASE Answer(w)
    <3>1. reply' \in [Conns -> Conns \cup {"none", "empty", "blacklisted", "unresolved"}]
      BY <2>2, <2>11 DEF Answer, TypeOK
    <3>2. QED
      BY <2>1, <2>2, <2>11, <3>1 DEF Answer, TypeOK
  <2>12. CASE AnswerFails(w)
    BY <2>1, <2>2, <2>12 DEF AnswerFails, TypeOK
  <2>13. QED
    BY <1>8, <2>3, <2>4, <2>5, <2>6, <2>7, <2>8, <2>9, <2>10, <2>11, <2>12
<1>9. ASSUME NEW w \in Workers, AcquireThrows(w)
      PROVE  TypeOK'
  <2> DEFINE s == stage[w]
             p == pools[s]
  <2>1. /\ s \in Stages /\ p \in PoolType /\ phase[w] # "idle" /\ lost' = lost
        /\ pools' = [pools EXCEPT ![s] = WithNullSlot(p)] /\ Fail(w)
        /\ ConstructorThrows(s)
    BY <1>9, Working DEF AcquireThrows
  <2>2. WithNullSlot(p) \in PoolType
    BY <2>1, NullSlotFields
  <2> HIDE DEF s, p
  <2>3. pools' \in [Stages -> PoolType]
    BY <2>1, <2>2 DEF TypeOK
  <2>4. QED
    BY <2>1, <2>3, FailType, ThrowsType DEF TypeOK
<1>10. ASSUME NEW s \in Stages, NEW l \in Limits, ResizeThrows(s, l[1], l[2])
      PROVE  TypeOK'
  <2>1. l[1] \in Nat /\ l[2] \in Nat /\ pools[s] \in PoolType
    BY DEF TypeOK
  <2>2. PICK made \in 0 .. Missing(pools[s], l[1]) - 1 :
        \E f \in FreshAddrs(pools[s], made) :
          pools' = [pools EXCEPT ![s] = ResizeThrown(pools[s], made, l[2], f)]
    BY <1>10 DEF ResizeThrows
  <2>3. made \in Nat
    OBVIOUS
  <2>4. \A f \in FreshAddrs(pools[s], made) :
          ResizeThrown(pools[s], made, l[2], f) \in PoolType
    BY <2>1, <2>3, ThrownFields
  <2>5. pools' \in [Stages -> PoolType]
    BY <2>2, <2>4 DEF TypeOK
  <2>6. failed' \in [Stages -> 0 .. MaxFailed]
    BY <1>10, ThrowsType DEF ResizeThrows
  <2>7. resizes' \in 0 .. MaxResizes
    BY <1>10 DEF ResizeThrows, TypeOK
  <2>8. QED
    BY <1>10, <2>5, <2>6, <2>7
    DEF ResizeThrows, TypeOK, packetVars, placeVars, clientVars, recordVars
<1>11. CASE UNCHANGED vars
  BY <1>11 DEF vars, packetVars, placeVars, clientVars, recordVars, TypeOK
<1>12. QED
  BY <1>1, <1>2, <1>3, <1>4, <1>5, <1>6, <1>7, <1>8, <1>9, <1>10, <1>11 DEF Next, WorkerStep

-----------------------------------------------------------------------------
(***************************************************************************)
(* Whom a step of a worker concerns: itself and the connection it works    *)
(* on.  It begins with one, ends with it or goes on with it.               *)
(***************************************************************************)
Local(w) ==
  /\ \A v \in Workers \ {w} :
       /\ job'[v] = job[v] /\ flags'[v] = flags[v] /\ response'[v] = response[v]
       /\ stage'[v] = stage[v] /\ phase'[v] = phase[v] /\ object'[v] = object[v]
  /\ \A c \in Conns \ {job[w]} :
       /\ counted'[c] = counted[c] /\ verdict'[c] = verdict[c] /\ reply'[c] = reply[c]
       /\ c \in contacted' <=> c \in contacted
       /\ c \in closed' <=> c \in closed
       /\ c \in excused' <=> c \in excused

Begins(w) ==
  /\ phase[w] = "idle" /\ phase'[w] = "acquire"
  /\ job'[w] \in Conns \ Started
  /\ stage'[w] = "accepter" /\ response'[w] = "empty"
  /\ UNCHANGED <<pools, object, upstream, clientVars, recordVars, lost, torn>>

Ends(w) ==
  /\ phase[w] # "idle" /\ phase'[w] = "idle"
  /\ job'[w] = NoConn /\ object'[w] = NoObject /\ stage'[w] = stage[w]
  /\ counted'[job[w]] = counted[job[w]] + 1
  /\ job[w] \in excused' \/ (Sent(w) /\ excused' = excused)
  /\ excused \subseteq excused'
  /\ UNCHANGED <<verdict, contacted, reply, closed, upstream>>

Goes(w) ==
  /\ phase[w] # "idle" /\ phase'[w] # "idle"
  /\ job'[w] = job[w]
  /\ object'[w] # NoObject <=> phase'[w] \in Holding
  /\ object'[w] = Null => stage'[w] = "resolver"
  /\ phase'[w] = "receive" => stage'[w] = "forwarder"
  /\ counted' = counted

LEMMA ConcludeLocal ==
  ASSUME TypeOK, Employed, Handed, NEW w \in Workers, phase[w] # "idle", Conclude(w),
         UNCHANGED <<stage, flags, response, verdict, reply, contacted, closed>>,
         excused' \in {excused, excused \cup {job[w]}}
  PROVE  Local(w)
<1>1. \A v \in Workers \ {w} :
        job'[v] = job[v] /\ phase'[v] = phase[v] /\ object'[v] = object[v]
  BY DEF Conclude, TypeOK
<1>2. \A c \in Conns \ {job[w]} : counted'[c] = counted[c]
  BY DEF Conclude, TypeOK
<1>3. \A c \in Conns \ {job[w]} : c \in excused' <=> c \in excused
  OBVIOUS
<1>4. QED
  BY <1>1, <1>2, <1>3 DEF Local

LEMMA FailEnds ==
  ASSUME TypeOK, Employed, Handed, NEW w \in Workers, phase[w] # "idle", Fail(w)
  PROVE  Local(w) /\ Ends(w)
<1>1. Local(w)
  BY ConcludeLocal DEF Fail
<1>2. /\ phase'[w] = "idle" /\ job'[w] = NoConn /\ object'[w] = NoObject
      /\ counted'[job[w]] = counted[job[w]] + 1
  BY Working DEF Fail, Conclude, TypeOK
<1>3. QED
  BY <1>1, <1>2 DEF Fail, Ends

LEMMA HoldsGoes ==
  ASSUME TypeOK, Employed, Handed, NEW w \in Workers, phase[w] = "acquire",
         NEW a \in Addr \cup {Null}, Holds(w, a), a = Null => stage[w] = "resolver"
  PROVE  Local(w) /\ Goes(w) /\ stage'[w] = stage[w] /\ phase'[w] = "execute"
<1>1. Local(w)
  BY DEF Holds, TypeOK, Local, packetVars, clientVars, recordVars
<1>2. /\ job' = job /\ stage' = stage /\ counted' = counted
      /\ object'[w] = a /\ phase'[w] = "execute"
  BY DEF Holds, TypeOK, packetVars, recordVars
<1>3. QED
  BY <1>1, <1>2 DEF Goes, Holding

LEMMA ExecuteGoes ==
  ASSUME TypeOK, Employed, Handed, NEW w \in Workers,
         phase[w] \in {"execute", "receive"}, NEW next \in {"receive", "release"},
         phase' = [phase EXCEPT ![w] = next], next = "receive" => stage[w] = "forwarder",
         UNCHANGED <<job, stage, object, counted>>
  PROVE  Goes(w)
  BY Working DEF Goes, Holding, TypeOK, Handed

LEMMA BeginBegins ==
  ASSUME TypeOK, NEW w \in Workers, NEW c \in Conns, Begin(w, c)
  PROVE  Local(w) /\ Begins(w) /\ job'[w] = c
<1>1. Local(w)
  BY DEF Begin, Local, TypeOK, clientVars, recordVars
<1>2. /\ job'[w] = c /\ phase'[w] = "acquire" /\ stage'[w] = "accepter"
      /\ response'[w] = "empty"
  BY DEF Begin, TypeOK
<1>3. QED
  BY <1>1, <1>2 DEF Begin, Begins

\* The steps that execute a stage.
Execute(w) ==
  \/ Accept(w) \/ Resolve(w) \/ SkipForwarding(w) \/ Connect(w) \/ ConnectFails(w)
  \/ Receive(w) \/ Discard(w) \/ Refuse(w) \/ Answer(w) \/ AnswerFails(w)

LEMMA ExecuteFrame ==
  ASSUME TypeOK, Employed, Handed, NEW w \in Workers, ObjectKept, Execute(w)
  PROVE  /\ UNCHANGED <<pools, job, stage, object, counted, lost, torn, failed, resizes>>
         /\ phase[w] \in {"execute", "receive"} /\ phase'[w] \in {"receive", "release"}
         /\ \A v \in Workers \ {w} : phase'[v] = phase[v]
         /\ Goes(w)
<1>1. /\ UNCHANGED <<pools, job, stage, object, counted, lost, torn, failed, resizes>>
      /\ phase[w] \in {"execute", "receive"}
      /\ \E next \in {"receive", "release"} :
            /\ phase' = [phase EXCEPT ![w] = next]
            /\ next = "receive" => stage[w] = "forwarder"
  BY DEF Execute, Accept, Resolve, SkipForwarding, Connect, ConnectFails, Receive, Discard,
       Refuse, Answer, AnswerFails, Executes, Then
<1>2. Goes(w)
  BY <1>1, ExecuteGoes
<1>3. phase'[w] \in {"receive", "release"} /\ \A v \in Workers \ {w} : phase'[v] = phase[v]
  BY <1>1 DEF TypeOK
<1>4. QED
  BY <1>1, <1>2, <1>3

LEMMA ExecuteLocal ==
  ASSUME TypeOK, Employed, Handed, ObjectKept, NEW w \in Workers, Execute(w)
  PROVE  Local(w)
<1>1. /\ job' = job /\ stage' = stage /\ object' = object /\ counted' = counted
      /\ \A v \in Workers \ {w} : phase'[v] = phase[v]
  BY ExecuteFrame
<1>2. \A v \in Workers \ {w} : flags'[v] = flags[v]
  BY DEF Execute, Accept, Resolve, SkipForwarding, Connect, ConnectFails, Receive, Discard,
       Refuse, Answer, AnswerFails, TypeOK
<1>3. \A v \in Workers \ {w} : response'[v] = response[v]
  BY DEF Execute, Accept, Resolve, SkipForwarding, Connect, ConnectFails, Receive, Discard,
       Refuse, Answer, AnswerFails, TypeOK
<1>4. \A c \in Conns \ {job[w]} : verdict'[c] = verdict[c]
  BY DEF Execute, Accept, Resolve, SkipForwarding, Connect, ConnectFails, Receive, Discard,
       Refuse, Answer, AnswerFails, TypeOK
<1>5. \A c \in Conns \ {job[w]} : reply'[c] = reply[c]
  BY DEF Execute, Accept, Resolve, SkipForwarding, Connect, ConnectFails, Receive, Discard,
       Refuse, Answer, AnswerFails, TypeOK, clientVars
<1>6. \A c \in Conns \ {job[w]} : c \in contacted' <=> c \in contacted
  BY DEF Execute, Accept, Resolve, SkipForwarding, Connect, ConnectFails, Receive, Discard,
       Refuse, Answer, AnswerFails
<1>7. \A c \in Conns \ {job[w]} :
        (c \in closed' <=> c \in closed) /\ (c \in excused' <=> c \in excused)
  BY DEF Execute, Accept, Resolve, SkipForwarding, Connect, ConnectFails, Receive, Discard,
       Refuse, Answer, AnswerFails, clientVars
<1>8. QED
  BY <1>1, <1>2, <1>3, <1>4, <1>5, <1>6, <1>7 DEF Local

\* The steps that take an object.
LEMMA AcquireHolds ==
  ASSUME TypeOK, Whole, NEW w \in Workers, AcquireFree(w) \/ AcquireNew(w)
  PROVE  /\ phase[w] = "acquire"
         /\ \E a \in Addr \cup {Null} : Holds(w, a) /\ (a = Null => stage[w] = "resolver")
<1>1. CASE AcquireFree(w)
  <2>1. phase[w] = "acquire" /\ Free(pools[stage[w]]) # {} /\ pools[stage[w]] \in PoolType
    BY <1>1 DEF AcquireFree, TypeOK
  <2> DEFINE a == pools[stage[w]].objects[FirstFree(pools[stage[w]])].addr
  <2>2. a \in Addr \cup {Null} /\ a \in Live(pools[stage[w]])
    BY <2>1, FirstFreeObject, LiveAddrs
  <2>3. a = Null => stage[w] = "resolver"
    BY <2>2 DEF Whole, NullFree, TypeOK
  <2>4. QED
    BY <1>1, <2>1, <2>2, <2>3 DEF AcquireFree
<1>2. CASE AcquireNew(w)
  BY <1>2, PoolAssumption DEF AcquireNew
<1>3. QED
  BY <1>1, <1>2

LEMMA AdvanceGoes ==
  ASSUME TypeOK, Employed, Handed, NEW w \in Workers, Release(w), stage[w] # "sender"
  PROVE  /\ Local(w) /\ Goes(w) /\ phase'[w] = "acquire" /\ object'[w] = NoObject
         /\ flags' = flags /\ response' = response
         /\ UNCHANGED <<upstream, clientVars, recordVars>>
         /\ stage'[w] = IF stage[w] = "accepter" THEN "resolver"
                        ELSE IF stage[w] = "resolver" THEN "forwarder" ELSE "sender"
<1>1. /\ Advance(w) /\ phase[w] = "release"
      /\ UNCHANGED <<flags, response, upstream, clientVars, verdict, contacted>>
  BY DEF Release
<1>2. /\ phase'[w] = "acquire" /\ object'[w] = NoObject /\ job' = job /\ counted' = counted
      /\ \A v \in Workers \ {w} :
           phase'[v] = phase[v] /\ object'[v] = object[v] /\ stage'[v] = stage[v]
  BY <1>1 DEF Advance, TypeOK
<1>3. stage'[w] = IF stage[w] = "accepter" THEN "resolver"
                  ELSE IF stage[w] = "resolver" THEN "forwarder" ELSE "sender"
  BY <1>1 DEF Advance, TypeOK, Stages
<1>4. Local(w)
  BY <1>1, <1>2 DEF Local, clientVars
<1>5. QED
  BY <1>1, <1>2, <1>3, <1>4 DEF Goes, Holding, clientVars, recordVars

LEMMA ReleaseEnds ==
  ASSUME TypeOK, Employed, Handed, NEW w \in Workers, Release(w), stage[w] = "sender"
  PROVE  Local(w) /\ Ends(w)
<1>1. /\ Conclude(w) /\ phase[w] = "release" /\ UNCHANGED stage
      /\ UNCHANGED <<flags, response, upstream, clientVars, verdict, contacted>>
  BY DEF Release
<1>2. Local(w)
  BY <1>1, ConcludeLocal DEF clientVars
<1>3. /\ phase'[w] = "idle" /\ job'[w] = NoConn /\ object'[w] = NoObject
      /\ counted'[job[w]] = counted[job[w]] + 1
  BY <1>1, Working DEF Conclude, TypeOK
<1>4. QED
  BY <1>1, <1>2, <1>3 DEF Ends, Sent, clientVars

\* The steps that end in the catch.
GivesUp(w) == PoolExhausted(w) \/ AcquireThrows(w) \/ ExecuteThrows(w) \/ ReleaseMissing(w)

LEMMA GivingUpFails ==
  ASSUME NEW w \in Workers, GivesUp(w)
  PROVE  Fail(w) /\ phase[w] # "idle"
  BY DEF GivesUp, PoolExhausted, AcquireThrows, ExecuteThrows, ReleaseMissing

LEMMA Kinds ==
  ASSUME TypeOK, Whole, Employed, Handed, ObjectKept, NEW w \in Workers,
         (\E c \in Conns : Begin(w, c)) \/ WorkerStep(w) \/ ExecuteThrows(w)
  PROVE  Local(w) /\ (Begins(w) \/ Ends(w) \/ Goes(w))
<1>1. CASE \E c \in Conns : Begin(w, c)
  BY <1>1, BeginBegins
<1>2. CASE AcquireFree(w) \/ AcquireNew(w)
  BY <1>2, AcquireHolds, HoldsGoes
<1>3. CASE GivesUp(w)
  BY <1>3, GivingUpFails, FailEnds
<1>4. CASE Execute(w)
  BY <1>4, ExecuteFrame, ExecuteLocal
<1>5. CASE Release(w)
  BY <1>5, AdvanceGoes, ReleaseEnds
<1>6. QED
  BY <1>1, <1>2, <1>3, <1>4, <1>5 DEF WorkerStep, Execute, GivesUp

-----------------------------------------------------------------------------
(***************************************************************************)
(* Jobs, objects and settlement.                                           *)
(***************************************************************************)
Basic == TypeOK /\ Whole /\ JobsKept /\ ObjectKept /\ NotBegun

LEMMA BasicGives == Basic => TypeOK /\ Whole /\ Employed /\ Handed
BY DEF Basic, JobsKept, ObjectKept, Employed, Handed

\* A step that is no worker's.
Outside ==
  UNCHANGED <<packetVars, placeVars, clientVars, recordVars>>

LEMMA StepKinds ==
  ASSUME Basic, [Next]_vars
  PROVE  \/ \E w \in Workers : Local(w) /\ (Begins(w) \/ Ends(w) \/ Goes(w))
         \/ Outside
<1>1. ASSUME NEW s \in Stages, NEW l \in Limits,
             Resize(s, l[1], l[2]) \/ ResizeThrows(s, l[1], l[2])
      PROVE  Outside
  BY <1>1 DEF Resize, ResizeThrows, Outside
<1>2. CASE UNCHANGED vars
  BY <1>2 DEF vars, Outside
<1>3. QED
  BY <1>1, <1>2, Kinds, BasicGives DEF Basic, Next

LEMMA NewJob ==
  ASSUME Basic, NEW w \in Workers, Begins(w)
  PROVE  /\ job[w] = NoConn /\ job'[w] \in Conns /\ job'[w] # NoConn
         /\ counted[job'[w]] = 0 /\ job'[w] \notin Jobs /\ Fresh(job'[w])
<1>1. job[w] = NoConn /\ job'[w] \in Conns /\ job'[w] # NoConn
  BY DEF Begins, Basic, JobsKept
<1>2. job'[w] \notin Jobs /\ ~(counted[job'[w]] > 0)
  BY DEF Begins, Started, Jobs
<1>3. counted[job'[w]] \in Nat
  BY <1>1 DEF Basic, TypeOK
<1>4. counted[job'[w]] = 0
  BY <1>2, <1>3
<1>5. QED
  BY <1>1, <1>2, <1>4 DEF Basic, NotBegun

LEMMA JobsStep ==
  ASSUME Basic, [Next]_vars
  PROVE  JobsKept'
<1>1. JobsKept /\ job \in [Workers -> Conns \cup {NoConn}]
  BY DEF Basic, TypeOK
<1>2. ASSUME NEW w \in Workers, Local(w), Begins(w)
      PROVE  JobsKept'
  <2>1. /\ phase'[w] = "acquire" /\ counted' = counted
        /\ job[w] = NoConn /\ job'[w] \in Conns /\ job'[w] # NoConn
        /\ counted[job'[w]] = 0 /\ \A v \in Workers : job[v] # job'[w]
    BY <1>2, NewJob DEF Begins, recordVars, Jobs
  <2>2. \A v \in Workers \ {w} : job'[v] = job[v] /\ phase'[v] = phase[v]
    BY <1>2 DEF Local
  <2>3. QED
    BY <1>1, <2>1, <2>2 DEF JobsKept
<1>3. ASSUME NEW w \in Workers, Local(w), Ends(w)
      PROVE  JobsKept'
  <2>1. phase'[w] = "idle" /\ job'[w] = NoConn
    BY <1>3 DEF Ends
  <2>2. \A v \in Workers \ {w} : job'[v] = job[v] /\ phase'[v] = phase[v]
    BY <1>3 DEF Local
  <2>3. \A c \in Conns \ {job[w]} : counted'[c] = counted[c]
    BY <1>3 DEF Local
  <2>4. phase[w] # "idle"
    BY <1>3 DEF Ends
  <2>5. QED
    BY <1>1, <2>1, <2>2, <2>3, <2>4 DEF JobsKept
<1>4. ASSUME NEW w \in Workers, Local(w), Goes(w)
      PROVE  JobsKept'
  <2>1. /\ phase[w] # "idle" /\ phase'[w] # "idle" /\ job'[w] = job[w]
        /\ counted' = counted
    BY <1>4 DEF Goes
  <2>2. \A v \in Workers \ {w} : job'[v] = job[v] /\ phase'[v] = phase[v]
    BY <1>4 DEF Local
  <2>3. QED
    BY <1>1, <2>1, <2>2 DEF JobsKept
<1>5. CASE Outside
  BY <1>1, <1>5 DEF Outside, packetVars, placeVars, recordVars, JobsKept
<1>6. QED
  BY <1>2, <1>3, <1>4, <1>5, StepKinds

LEMMA ObjectStep ==
  ASSUME Basic, [Next]_vars
  PROVE  ObjectKept'
<1>1. ObjectKept /\ TypeOK
  BY DEF Basic
<1>2. ASSUME NEW w \in Workers, Local(w), Begins(w)
      PROVE  ObjectKept'
  BY <1>1, <1>2 DEF Local, Begins, ObjectKept, Holding
<1>3. ASSUME NEW w \in Workers, Local(w), Ends(w)
      PROVE  ObjectKept'
  BY <1>1, <1>3 DEF Local, Ends, ObjectKept, Holding
<1>4. ASSUME NEW w \in Workers, Local(w), Goes(w)
      PROVE  ObjectKept'
  BY <1>1, <1>4 DEF Local, Goes, ObjectKept
<1>5. CASE Outside
  BY <1>1, <1>5 DEF Outside, placeVars, ObjectKept
<1>6. QED
  BY <1>2, <1>3, <1>4, <1>5, StepKinds

LEMMA NotBegunStep ==
  ASSUME Basic, [Next]_vars
  PROVE  NotBegun'
<1>1. NotBegun /\ JobsKept /\ counted \in [Conns -> Nat]
  BY DEF Basic, TypeOK
<1>2. ASSUME NEW w \in Workers, Local(w), Begins(w) \/ Ends(w) \/ Goes(w),
             NEW c \in Conns, counted'[c] = 0, c \notin Jobs'
      PROVE  Fresh(c)'
  <2>1. c # job[w]
    BY <1>1, <1>2 DEF Begins, Ends, Goes, JobsKept, Jobs, recordVars
  <2>2. counted[c] = 0
    BY <1>2, <2>1 DEF Local
  <2>3. c \notin Jobs
    BY <1>2, <2>1 DEF Local, Jobs
  <2>4. Fresh(c)
    BY <1>1, <2>2, <2>3 DEF NotBegun
  <2>5. QED
    BY <1>2, <2>1, <2>4 DEF Local, Fresh
<1>3. CASE Outside
  BY <1>1, <1>3 DEF Outside, packetVars, clientVars, recordVars, NotBegun, Jobs, Fresh
<1>4. QED
  BY <1>2, <1>3, StepKinds DEF NotBegun

-----------------------------------------------------------------------------
(***************************************************************************)
(* The pools: as in PoolUse, for each stage and the workers in it.         *)
(***************************************************************************)
LEMMA UndisturbedPool ==
  ASSUME NEW s \in Stages, PoolKept(s),
         pools'[s] = pools[s], torn'[s] = torn[s],
         \A w \in HoldersIn(s)' : w \in HoldersIn(s) /\ object'[w] = object[w]
  PROVE  PoolKept(s)'
  BY DEF PoolKept, ExclusiveIn, NullFree

\* A thread takes an object nobody has, or gives one back.
LEMMA OneMoreHolder ==
  ASSUME NEW s \in Stages, NEW w \in Workers, NEW a, ExclusiveIn(s),
         a # Null => ~InUse(pools[s], a), InUse(pools'[s], a),
         \A b : InUse(pools[s], b) => InUse(pools'[s], b),
         \A v \in HoldersIn(s)' : \/ v \in HoldersIn(s) /\ object'[v] = object[v]
                                  \/ v = w /\ object'[v] = a
  PROVE  ExclusiveIn(s)'
<1>1. \A v \in HoldersIn(s) : a # Null => object[v] # a
  BY DEF ExclusiveIn
<1>2. \A v \in HoldersIn(s)' : object'[v] # Null => InUse(pools'[s], object'[v])
  BY DEF ExclusiveIn
<1>3. ASSUME NEW u \in HoldersIn(s)', NEW v \in HoldersIn(s)', object'[u] = object'[v],
             object'[u] # Null
      PROVE  u = v
  BY <1>1, <1>3 DEF ExclusiveIn
<1>4. QED
  BY <1>2, <1>3 DEF ExclusiveIn

LEMMA OneHolderLess ==
  ASSUME NEW s \in Stages, NEW w \in HoldersIn(s), ExclusiveIn(s),
         \A b : InUse(pools[s], b) /\ b # object[w] => InUse(pools'[s], b),
         \A v \in HoldersIn(s)' : v \in HoldersIn(s) /\ v # w /\ object'[v] = object[v]
  PROVE  ExclusiveIn(s)'
<1>1. \A v \in HoldersIn(s)' : object'[v] # Null => InUse(pools'[s], object'[v])
  <2>1. SUFFICES ASSUME NEW v \in HoldersIn(s)', object'[v] # Null
                 PROVE  InUse(pools'[s], object'[v])
    OBVIOUS
  <2>2. v \in HoldersIn(s) /\ v # w /\ object[v] # Null /\ object'[v] = object[v]
    BY <2>1
  <2>3. object[v] # object[w] /\ InUse(pools[s], object[v])
    BY <2>2 DEF ExclusiveIn
  <2>4. QED
    BY <2>2, <2>3
<1>2. \A u, v \in HoldersIn(s)' : object'[u] = object'[v] /\ object'[u] # Null => u = v
  BY DEF ExclusiveIn
<1>3. QED
  BY <1>1, <1>2 DEF ExclusiveIn

LEMMA PoolFree ==
  ASSUME Basic, PoolsKept, NEW w \in Workers, AcquireFree(w)
  PROVE  PoolsKept'
<1>0. PICK s \in Stages : s = stage[w]
  BY DEF Basic, TypeOK
<1> DEFINE p == pools[s]
           a == p.objects[FirstFree(p)].addr
<1>1. /\ p \in PoolType /\ Free(p) # {} /\ NullFree(s)
      /\ Distinct(p) /\ pools' = [pools EXCEPT ![s] = TakeFirst(p)]
      /\ object' = [object EXCEPT ![w] = a] /\ stage' = stage /\ torn' = torn
      /\ object[w] = NoObject
  BY <1>0 DEF AcquireFree, Basic, TypeOK, PoolsKept, PoolKept, Holds, ObjectKept, Holding
<1>2. pools'[s] = TakeFirst(p) /\ \A r \in Stages \ {s} : pools'[r] = pools[r]
  BY <1>1 DEF Basic, TypeOK
<1>3. a \in Addr \cup {Null}
  BY <1>1, FirstFreeObject
<1>4. /\ object'[w] = a
      /\ \A v \in Workers \ {w} : object'[v] = object[v]
  BY <1>1, <1>3 DEF Basic, TypeOK
<1>5. PoolKept(s)'
  <2>1. NullFree(s)'
    <3>1. /\ pools'[s] \in PoolType /\ Len(pools'[s].objects) = Len(p.objects)
          /\ \A j \in 1 .. Len(p.objects) : pools'[s].objects[j].addr = p.objects[j].addr
      BY <1>1, <1>2, TakeFirstCounts, TakeFirstObjects
    <3>2. QED
      BY <1>1, <3>1, NoNewNull DEF NullFree
  <2>2. /\ Distinct(pools'[s]) /\ (a # Null => ~InUse(p, a)) /\ InUse(pools'[s], a)
        /\ \A b : InUse(p, b) => InUse(pools'[s], b)
    BY <1>1, <1>2, TakeFirstMarks
  <2> HIDE DEF a
  <2>3. \A v \in HoldersIn(s)' : \/ v \in HoldersIn(s) /\ object'[v] = object[v]
                                 \/ v = w /\ object'[v] = a
    BY <1>1, <1>4 DEF HoldersIn
  <2>4. ~torn[s] => ExclusiveIn(s)
    BY <1>1 DEF PoolsKept, PoolKept
  <2>5. ~torn[s] => ExclusiveIn(s)'
    BY <2>2, <2>3, <2>4, OneMoreHolder
  <2>6. QED
    BY <1>1, <2>1, <2>2, <2>5 DEF PoolKept
<1> HIDE DEF a
<1>6. ASSUME NEW r \in Stages \ {s} PROVE PoolKept(r)'
  <2>1. \A v \in HoldersIn(r)' : v \in HoldersIn(r) /\ object'[v] = object[v]
    BY <1>0, <1>1, <1>4, <1>6 DEF HoldersIn
  <2>2. QED
    BY <1>1, <1>2, <2>1, UndisturbedPool DEF PoolsKept
<1>7. QED
  BY <1>5, <1>6 DEF PoolsKept

LEMMA PoolNew ==
  ASSUME Basic, PoolsKept, NEW w \in Workers, AcquireNew(w)
  PROVE  PoolsKept'
<1>0. PICK s \in Stages : s = stage[w]
  BY DEF Basic, TypeOK
<1> DEFINE p == pools[s]
<1>1. /\ p \in PoolType /\ NullFree(s)
      /\ Distinct(p) /\ object[w] = NoObject
  BY DEF AcquireNew, Basic, TypeOK, PoolsKept, PoolKept, ObjectKept, Holding
<1>2. PICK a \in Addr \ Live(p) :
        pools' = [pools EXCEPT ![s] = TakeNew(p, a)] /\ Holds(w, a)
  BY <1>0 DEF AcquireNew
<1>3. pools'[s] = TakeNew(p, a) /\ \A r \in Stages \ {s} : pools'[r] = pools[r]
  BY <1>1, <1>2 DEF Basic, TypeOK
<1>4. /\ object'[w] = a /\ stage' = stage /\ torn' = torn
      /\ \A v \in Workers \ {w} : object'[v] = object[v]
  BY <1>2 DEF Basic, TypeOK, Holds
<1>5. PoolKept(s)'
  <2>1. NullFree(s)'
    <3>1. /\ pools'[s] \in PoolType /\ Len(pools'[s].objects) = Len(p.objects) + 1
          /\ \A j \in 1 .. Len(p.objects) : pools'[s].objects[j] = p.objects[j]
          /\ pools'[s].objects[Len(p.objects) + 1].addr \in Addr
      <4>1. a \in Addr /\ p \in PoolType /\ pools'[s] = TakeNew(p, a)
        BY <1>1, <1>3
      <4> HIDE DEF p
      <4>2. /\ pools'[s] \in PoolType /\ Len(pools'[s].objects) = Len(p.objects) + 1
            /\ \A j \in 1 .. Len(p.objects) : pools'[s].objects[j] = p.objects[j]
            /\ pools'[s].objects[Len(p.objects) + 1] = [addr |-> a, inUse |-> TRUE]
        BY <4>1, TakeNewFields
      <4>3. QED
        BY <4>1, <4>2
    <3>2. Len(p.objects) \in Nat
      BY <1>1, PoolFields, LenProperties
    <3> DEFINE q == pools'[s]
    <3>3. \A j \in 1 .. Len(q.objects) : j \in 1 .. Len(p.objects) \/ j = Len(p.objects) + 1
      BY <3>1, <3>2
    <3>4. \A j \in 1 .. Len(q.objects) :
            \/ q.objects[j].addr \in Addr
            \/ j \in 1 .. Len(p.objects) /\ q.objects[j].addr = p.objects[j].addr
      BY <3>1, <3>3
    <3>5. p \in PoolType /\ q \in PoolType /\ NullFree(s)
      BY <1>1, <3>1
    <3> HIDE DEF q
    <3>6. s # "resolver" => Null \notin Live(q)
      BY <3>4, <3>5, NoNewNull DEF NullFree
    <3>7. QED
      BY <3>6 DEF NullFree, q
  <2>2. /\ Distinct(pools'[s]) /\ ~InUse(p, a) /\ InUse(pools'[s], a)
        /\ \A b : InUse(p, b) => InUse(pools'[s], b)
    BY <1>1, <1>3, TakeNewMarks
  <2>3. \A v \in HoldersIn(s)' : \/ v \in HoldersIn(s) /\ object'[v] = object[v]
                                 \/ v = w /\ object'[v] = a
    BY <1>4 DEF HoldersIn
  <2>4. ~torn[s] => ExclusiveIn(s)
    BY <1>1 DEF PoolsKept, PoolKept
  <2>5. ~torn[s] => ExclusiveIn(s)'
    BY <2>2, <2>3, <2>4, OneMoreHolder
  <2>6. QED
    BY <1>4, <2>1, <2>2, <2>5 DEF PoolKept
<1>6. ASSUME NEW r \in Stages \ {s} PROVE PoolKept(r)'
  <2>1. \A v \in HoldersIn(r)' : v \in HoldersIn(r) /\ object'[v] = object[v]
    BY <1>0, <1>4, <1>6 DEF HoldersIn
  <2>2. QED
    BY <1>3, <1>4, <2>1, UndisturbedPool DEF PoolsKept
<1>7. QED
  BY <1>5, <1>6 DEF PoolsKept

LEMMA PoolBack ==
  ASSUME Basic, PoolsKept, NEW w \in Workers, Release(w)
  PROVE  PoolsKept'
<1>0. PICK s \in Stages : s = stage[w]
  BY DEF Basic, TypeOK
<1>a. PICK a \in Live(pools[s]) : a = object[w]
  BY <1>0 DEF Release
<1> DEFINE p == pools[s]
<1>1. /\ p \in PoolType /\ NullFree(s) /\ Distinct(p)
      /\ pools' = [pools EXCEPT ![s] = GiveBack(p, a)] /\ torn' = torn
      /\ w \in HoldersIn(s)
  BY <1>0, <1>a
  DEF Release, Basic, TypeOK, PoolsKept, PoolKept, ObjectKept, Holding, HoldersIn
<1>2. pools'[s] = GiveBack(p, a) /\ \A r \in Stages \ {s} : pools'[r] = pools[r]
  BY <1>1 DEF Basic, TypeOK
<1>3. object' = [object EXCEPT ![w] = NoObject]
  BY DEF Release, Conclude, Advance
<1>4. /\ object'[w] = NoObject
      /\ \A v \in Workers \ {w} : object'[v] = object[v]
  BY <1>3 DEF Basic, TypeOK
<1>5. \A v \in Workers \ {w} : stage'[v] = stage[v]
  BY DEF Release, Advance, Basic, TypeOK
<1>6. \A r \in Stages : \A v \in HoldersIn(r)' :
        v \in HoldersIn(r) /\ v # w /\ object'[v] = object[v]
  BY <1>4, <1>5 DEF HoldersIn
<1>7. PoolKept(s)'
  <2>1. NullFree(s)'
    <3>1. /\ pools'[s] \in PoolType /\ Len(pools'[s].objects) = Len(p.objects)
          /\ \A j \in 1 .. Len(p.objects) : pools'[s].objects[j].addr = p.objects[j].addr
      BY <1>1, <1>2, GiveBackCounts, GiveBackObjects
    <3>2. QED
      BY <1>1, <3>1, NoNewNull DEF NullFree
  <2>2. /\ Distinct(pools'[s])
        /\ \A b : InUse(p, b) /\ b # a => InUse(pools'[s], b)
    BY <1>1, <1>2, GiveBackMarks
  <2>3. ~torn[s] => ExclusiveIn(s)
    BY <1>1 DEF PoolsKept, PoolKept
  <2>4. ~torn[s] => ExclusiveIn(s)'
    BY <1>a, <1>1, <1>6, <2>2, <2>3, OneHolderLess
  <2>5. QED
    BY <1>1, <2>1, <2>2, <2>4 DEF PoolKept
<1>8. ASSUME NEW r \in Stages \ {s} PROVE PoolKept(r)'
  <2>1. \A v \in HoldersIn(r)' : v \in HoldersIn(r) /\ object'[v] = object[v]
    BY <1>6
  <2>2. QED
    BY <1>1, <1>2, <2>1, UndisturbedPool DEF PoolsKept
<1>9. QED
  BY <1>7, <1>8 DEF PoolsKept

LEMMA PoolResized ==
  ASSUME Basic, PoolsKept, NEW s \in Stages, NEW l \in Limits, Resize(s, l[1], l[2])
  PROVE  PoolsKept'
<1> DEFINE p == pools[s]
<1>1. /\ p \in PoolType /\ NullFree(s) /\ Distinct(p)
      /\ l[1] \in Nat /\ l[2] \in Nat
  BY DEF Basic, TypeOK, PoolsKept, PoolKept
<1>2. PICK f \in FreshAddrs(p, Missing(p, l[1])) :
        pools' = [pools EXCEPT ![s] = Resized(p, l[1], l[2], f)]
  BY DEF Resize
<1>3. pools'[s] = Resized(p, l[1], l[2], f) /\ \A r \in Stages \ {s} : pools'[r] = pools[r]
  BY <1>2 DEF Basic, TypeOK
<1>4. /\ object' = object /\ stage' = stage
      /\ \A r \in Stages \ {s} : torn'[r] = torn[r]
  BY DEF Resize, placeVars, Basic, TypeOK
<1>5. ~torn'[s] => ~torn[s] /\ \A w \in HoldersIn(s) : object[w] \notin Destroyed(p, l[1])
  <2> DEFINE t == torn[s] \/ \E w \in Workers : HeldIn(s)[w] \in Destroyed(p, l[1])
  <2>1. torn' = [torn EXCEPT ![s] = t]
    BY DEF Resize
  <2> HIDE DEF t
  <2>2. torn'[s] = t
    BY <2>1 DEF Basic, TypeOK
  <2>3. \A w \in HoldersIn(s) : w \in Workers /\ HeldIn(s)[w] = object[w]
    BY DEF HoldersIn, HeldIn
  <2>4. QED
    BY <2>2, <2>3 DEF t
<1>6. PoolKept(s)'
  <2>1. NullFree(s)'
    <3>1. /\ pools'[s] \in PoolType /\ Len(pools'[s].objects) = l[1]
          /\ \A j \in 1 .. l[1] : j <= Len(p.objects) => pools'[s].objects[j] = p.objects[j]
          /\ \A j \in 1 .. l[1] : j > Len(p.objects) => pools'[s].objects[j].addr \in Addr
      BY <1>1, <1>2, <1>3, ResizedFields
    <3>2. Len(p.objects) \in Nat
      BY <1>1, PoolFields, LenProperties
    <3> DEFINE q == pools'[s]
    <3>3. \A j \in 1 .. l[1] : j \in 1 .. Len(p.objects) \/ j > Len(p.objects)
      BY <1>1, <3>2
    <3>4. \A j \in 1 .. Len(q.objects) :
            \/ q.objects[j].addr \in Addr
            \/ j \in 1 .. Len(p.objects) /\ q.objects[j].addr = p.objects[j].addr
      BY <3>1, <3>3
    <3>5. p \in PoolType /\ q \in PoolType /\ NullFree(s)
      BY <1>1, <3>1
    <3> HIDE DEF q
    <3>6. s # "resolver" => Null \notin Live(q)
      BY <3>4, <3>5, NoNewNull DEF NullFree
    <3>7. QED
      BY <3>6 DEF NullFree, q
  <2>2. /\ Distinct(pools'[s])
        /\ \A b : InUse(p, b) /\ b \notin Destroyed(p, l[1]) /\ b # Null
                  => InUse(pools'[s], b)
    BY <1>1, <1>2, <1>3, ResizedMarks
  <2>3. ~torn[s] => ExclusiveIn(s)
    BY DEF PoolsKept, PoolKept
  <2>4. HoldersIn(s)' = HoldersIn(s)
    BY <1>4 DEF HoldersIn
  <2>5. ~torn'[s] => ExclusiveIn(s)'
    BY <1>4, <1>5, <2>2, <2>3, <2>4 DEF ExclusiveIn
  <2>6. QED
    BY <2>1, <2>2, <2>5 DEF PoolKept
<1>7. ASSUME NEW r \in Stages \ {s} PROVE PoolKept(r)'
  <2>1. HoldersIn(r)' = HoldersIn(r)
    BY <1>4 DEF HoldersIn
  <2>2. QED
    BY <1>3, <1>4, <1>7, <2>1, UndisturbedPool DEF PoolsKept
<1>8. QED
  BY <1>6, <1>7 DEF PoolsKept

\* A constructor that throws leaves everything in use as it was.
LEMMA PoolThrown ==
  ASSUME Basic, PoolsKept, NEW s \in Stages, ConstructorThrows(s),
         NEW p \in PoolType, pools' = [pools EXCEPT ![s] = p], torn' = torn,
         Distinct(p), \A b : InUse(pools[s], b) /\ b # Null => InUse(p, b),
         \A r \in Stages : \A v \in HoldersIn(r)' :
           v \in HoldersIn(r) /\ object'[v] = object[v]
  PROVE  PoolsKept'
<1>1. pools'[s] = p /\ \A r \in Stages \ {s} : pools'[r] = pools[r]
  BY DEF Basic, TypeOK
<1>2. PoolKept(s)'
  <2>1. NullFree(s)'
    BY DEF ConstructorThrows, NullFree
  <2>2. ~torn[s] => ExclusiveIn(s)
    BY DEF PoolsKept, PoolKept
  <2>3. ~torn[s] => ExclusiveIn(s)'
    BY <1>1, <2>2 DEF ExclusiveIn
  <2>4. QED
    BY <1>1, <2>1, <2>3 DEF PoolKept
<1>3. ASSUME NEW r \in Stages \ {s} PROVE PoolKept(r)'
  BY <1>1, UndisturbedPool DEF PoolsKept
<1>4. QED
  BY <1>2, <1>3 DEF PoolsKept

LEMMA PoolsStep ==
  ASSUME Basic, PoolsKept, [Next]_vars
  PROVE  PoolsKept'
<1>1. ASSUME UNCHANGED <<pools, torn>>,
             \A r \in Stages : \A v \in HoldersIn(r)' :
               v \in HoldersIn(r) /\ object'[v] = object[v]
      PROVE  PoolsKept'
  BY <1>1, UndisturbedPool DEF PoolsKept
<1>2. ASSUME NEW w \in Workers, NEW c \in Conns, Begin(w, c)
      PROVE  PoolsKept'
  <2>1. object' = object /\ object[w] = NoObject /\ UNCHANGED <<pools, torn>>
    BY <1>2 DEF Begin, Basic, ObjectKept, Holding
  <2>2. \A v \in Workers \ {w} : stage'[v] = stage[v]
    BY <1>2 DEF Begin, Basic, TypeOK
  <2>3. QED
    BY <1>1, <2>1, <2>2 DEF HoldersIn
<1>3. ASSUME NEW w \in Workers, GivesUp(w)
      PROVE  PoolsKept'
  <2>1. object' = [object EXCEPT ![w] = NoObject] /\ stage' = stage /\ torn' = torn
    BY <1>3, GivingUpFails DEF Fail, Conclude
  <2>2. object'[w] = NoObject /\ \A v \in Workers \ {w} : object'[v] = object[v]
    BY <2>1 DEF Basic, TypeOK
  <2>3. \A r \in Stages : \A v \in HoldersIn(r)' :
          v \in HoldersIn(r) /\ object'[v] = object[v]
    BY <2>1, <2>2 DEF HoldersIn
  <2>4. CASE pools' = pools
    BY <1>1, <2>1, <2>3, <2>4
  <2>5. CASE AcquireThrows(w)
    <3>1. PICK s \in Stages : s = stage[w]
      BY DEF Basic, TypeOK
    <3>2. /\ pools[s] \in PoolType /\ Distinct(pools[s]) /\ ConstructorThrows(s)
          /\ pools' = [pools EXCEPT ![s] = WithNullSlot(pools[s])]
      BY <2>5, <3>1 DEF AcquireThrows, Basic, TypeOK, PoolsKept, PoolKept
    <3>3. /\ WithNullSlot(pools[s]) \in PoolType /\ Distinct(WithNullSlot(pools[s]))
          /\ \A b : InUse(pools[s], b) => InUse(WithNullSlot(pools[s]), b)
      BY <3>2, NullSlotFields, NullSlotMarks
    <3>4. QED
      BY <2>1, <2>3, <3>2, <3>3, PoolThrown
  <2>6. QED
    BY <1>3, <2>4, <2>5 DEF GivesUp, PoolExhausted, ExecuteThrows, ReleaseMissing
<1>4. ASSUME NEW w \in Workers, Execute(w)
      PROVE  PoolsKept'
  <2>1. UNCHANGED <<pools, torn, object, stage>>
    BY <1>4, ExecuteFrame, BasicGives DEF Basic
  <2>2. QED
    BY <1>1, <2>1 DEF HoldersIn
<1>5. ASSUME NEW s \in Stages, NEW l \in Limits, ResizeThrows(s, l[1], l[2])
      PROVE  PoolsKept'
  <2>1. /\ pools[s] \in PoolType /\ Distinct(pools[s]) /\ l[1] \in Nat /\ l[2] \in Nat
    BY DEF Basic, TypeOK, PoolsKept, PoolKept
  <2>2. PICK made \in 0 .. Missing(pools[s], l[1]) - 1 :
        \E f \in FreshAddrs(pools[s], made) :
          pools' = [pools EXCEPT ![s] = ResizeThrown(pools[s], made, l[2], f)]
    BY <1>5 DEF ResizeThrows
  <2>3. PICK f \in FreshAddrs(pools[s], made) :
          pools' = [pools EXCEPT ![s] = ResizeThrown(pools[s], made, l[2], f)]
    BY <2>2
  <2>4. made \in Nat
    OBVIOUS
  <2> DEFINE p == ResizeThrown(pools[s], made, l[2], f)
  <2>5. /\ p \in PoolType /\ Distinct(p)
        /\ \A b : InUse(pools[s], b) /\ b # Null => InUse(p, b)
    BY <2>1, <2>4, ThrownFields, ThrownMarks
  <2>6. pools' = [pools EXCEPT ![s] = p]
    BY <2>3
  <2> HIDE DEF p
  <2>7. /\ ConstructorThrows(s) /\ torn' = torn
        /\ \A r \in Stages : \A v \in HoldersIn(r)' :
             v \in HoldersIn(r) /\ object'[v] = object[v]
    BY <1>5 DEF ResizeThrows, placeVars, HoldersIn
  <2>8. QED
    BY <2>5, <2>6, <2>7, PoolThrown
<1>6. CASE UNCHANGED vars
  BY <1>1, <1>6 DEF vars, placeVars, HoldersIn
<1>7. QED
  BY <1>2, <1>3, <1>4, <1>5, <1>6, PoolFree, PoolNew, PoolBack, PoolResized
  DEF Next, WorkerStep, Execute, GivesUp

-----------------------------------------------------------------------------
(***************************************************************************)
(* A connection is settled once.                                           *)
(***************************************************************************)
LEMMA SettledStep ==
  ASSUME Basic, PacketsKept, Settled, NotBegun', [Next]_vars
  PROVE  Settled'
<1>1. /\ counted \in [Conns -> Nat] /\ JobsKept
      /\ \A c \in Conns : counted[c] <= 1
      /\ \A c \in Conns : counted[c] = 1 => c \notin Jobs /\ c \in closed \cup excused
  BY DEF Basic, TypeOK, Settled, Jobs
<1>2. ASSUME NEW c \in Conns, counted'[c] = 0, c \in closed'
      PROVE  c \in Jobs'
  BY <1>2 DEF NotBegun, Fresh
<1>3. ASSUME NEW w \in Workers, Local(w), Begins(w) \/ Ends(w) \/ Goes(w), NEW c \in Conns
      PROVE  counted'[c] <= 1 /\ (counted'[c] = 1 => c \notin Jobs' /\ c \in closed' \cup excused')
  <2>1. CASE c # job[w] /\ Begins(w)
    <3>1. counted'[c] = counted[c] /\ (counted[c] = 1 => c # job'[w])
      BY <1>3, <2>1, NewJob DEF Local
    <3>2. \A v \in Workers \ {w} : job'[v] = job[v]
      BY <1>3 DEF Local
    <3>3. counted[c] = 1 => c \notin Jobs' /\ c \in closed' \cup excused'
      BY <1>1, <1>3, <2>1, <3>1, <3>2 DEF Local, Jobs
    <3>4. QED
      BY <1>1, <3>1, <3>3
  <2>2. CASE c # job[w] /\ (Ends(w) \/ Goes(w))
    <3>1. counted'[c] = counted[c] /\ c # job'[w]
      BY <1>3, <2>2 DEF Local, Ends, Goes
    <3>2. \A v \in Workers \ {w} : job'[v] = job[v]
      BY <1>3 DEF Local
    <3>3. counted[c] = 1 => c \notin Jobs' /\ c \in closed' \cup excused'
      BY <1>1, <1>3, <2>2, <3>1, <3>2 DEF Local, Jobs
    <3>4. QED
      BY <1>1, <3>1, <3>3
  <2>3. CASE c = job[w] /\ Ends(w)
    <3>1. counted'[c] = 1
      BY <1>1, <2>3 DEF Ends, JobsKept
    <3>2. \A v \in Workers : job'[v] # c
      BY <1>1, <1>3, <2>3 DEF Local, Ends, JobsKept
    <3>3. c \in closed' \cup excused'
      BY <1>1, <2>3 DEF Ends, PacketsKept, PacketKept
    <3>4. QED
      BY <3>1, <3>2, <3>3 DEF Jobs
  <2>4. CASE c = job[w] /\ (Begins(w) \/ Goes(w))
    <3>1. counted'[c] = 0
      BY <1>1, <1>3, <2>4 DEF Begins, Goes, JobsKept, recordVars
    <3>2. QED
      BY <3>1
  <2>5. QED
    BY <1>3, <2>1, <2>2, <2>3, <2>4
<1>4. CASE Outside
  BY <1>1, <1>2, <1>4 DEF Outside, packetVars, clientVars, recordVars, Settled, Jobs
<1>5. QED
  BY <1>2, <1>3, <1>4, StepKinds DEF Settled, Jobs

-----------------------------------------------------------------------------
(***************************************************************************)
(* What is known of a packet at each stage, and what its client is sent.   *)
(***************************************************************************)
LEMMA OthersPacket ==
  ASSUME Basic, PacketsKept, NEW w \in Workers, Local(w), Begins(w) \/ Ends(w) \/ Goes(w),
         NEW v \in Workers \ {w}, job'[v] # NoConn
  PROVE  PacketKept(v)'
<1>1. PICK c \in Conns \ {job[w]} : job[v] = c /\ job'[v] = c
  BY DEF Local, Basic, TypeOK, JobsKept
<1>2. /\ flags'[v] = flags[v] /\ stage'[v] = stage[v] /\ phase'[v] = phase[v]
      /\ verdict'[c] = verdict[c] /\ reply'[c] = reply[c]
      /\ c \in contacted' <=> c \in contacted
      /\ c \in closed' <=> c \in closed
      /\ c \in excused' <=> c \in excused
  BY DEF Local
<1>3. PacketKept(v)
  BY <1>1 DEF PacketsKept
<1>4. QED
  BY <1>1, <1>2, <1>3
  DEF PacketKept, Unasked, Accepting, Resolved, Forwarded, Sent

LEMMA BegunPacket ==
  ASSUME Basic, NEW w \in Workers, Begins(w)
  PROVE  PacketKept(w)'
<1>1. Fresh(job'[w]) /\ stage'[w] = "accepter" /\ phase'[w] = "acquire"
  BY NewJob DEF Begins
<1>2. UNCHANGED <<verdict, contacted, reply, closed>>
  BY DEF Begins, clientVars, recordVars
<1>3. QED
  BY <1>1, <1>2
  DEF PacketKept, Fresh, Unasked, Accepting, Resolved, Forwarded, Sent

LEMMA MovedPacket ==
  ASSUME Basic, NEW w \in Workers, PacketKept(w), AcquireFree(w) \/ AcquireNew(w)
  PROVE  PacketKept(w)'
<1>1. phase[w] = "acquire" /\ phase'[w] = "execute"
  BY AcquireHolds, HoldsGoes, BasicGives
<1>2. UNCHANGED <<flags, job, stage, verdict, contacted, reply, closed, excused>>
  BY DEF AcquireFree, AcquireNew, Holds, packetVars, clientVars, recordVars
<1>3. QED
  BY <1>1, <1>2
  DEF PacketKept, Unasked, Accepting, Resolved, Forwarded, Sent

LEMMA AdvancedPacket ==
  ASSUME Basic, NEW w \in Workers, PacketKept(w), Release(w), stage[w] # "sender"
  PROVE  PacketKept(w)'
<1>1. /\ phase[w] = "release" /\ phase'[w] = "acquire" /\ job'[w] = job[w]
      /\ flags' = flags /\ UNCHANGED <<verdict, contacted, reply, closed, excused>>
      /\ stage'[w] = IF stage[w] = "accepter" THEN "resolver"
                     ELSE IF stage[w] = "resolver" THEN "forwarder" ELSE "sender"
  BY AdvanceGoes, BasicGives DEF Release, Goes, clientVars, recordVars
<1>2. stage[w] \in Stages
  BY DEF Basic, TypeOK
<1>3. QED
  BY <1>1, <1>2
  DEF PacketKept, Unasked, Accepting, Resolved, Forwarded, Sent, Stages

LEMMA ExecutedPacket ==
  ASSUME Basic, NEW w \in Workers, PacketKept(w), Execute(w)
  PROVE  PacketKept(w)'
<1>1. /\ job' = job /\ stage' = stage /\ job[w] \in Conns
      /\ phase[w] \in {"execute", "receive"}
  BY ExecuteFrame, Working, BasicGives DEF Basic
<1>2. PICK b, d \in BOOLEAN : flags[w].accepted = b /\ flags[w].resolved = d
  BY FlagsFields DEF Basic
<1>3. CASE Accept(w)
  <2>1. PICK allowed \in BOOLEAN :
          /\ flags' = [flags EXCEPT ![w].accepted = allowed]
          /\ verdict' = [verdict EXCEPT ![job[w]] =
                           IF allowed THEN "accepted" ELSE "blocked"]
    BY <1>3 DEF Accept
  <2>2. flags'[w].accepted = allowed
    BY <2>1 DEF Basic, TypeOK
  <2>3. verdict'[job[w]] = IF allowed THEN "accepted" ELSE "blocked"
    BY <1>1, <2>1 DEF Basic, TypeOK
  <2>4. /\ stage[w] = "accepter" /\ phase[w] = "execute" /\ phase'[w] = "release"
        /\ UNCHANGED <<reply, closed, contacted>>
    BY <1>3 DEF Accept, Executes, Then, clientVars, Basic, TypeOK
  <2>5. QED
    BY <1>1, <2>2, <2>3, <2>4
    DEF PacketKept, Unasked, Accepting, Resolved, Forwarded, Sent
<1>4. CASE Resolve(w)
  <2>1. /\ stage[w] = "resolver" /\ phase[w] = "execute" /\ phase'[w] = "release"
        /\ UNCHANGED <<reply, closed, contacted>>
    BY <1>4 DEF Resolve, Executes, Then, clientVars, Basic, TypeOK
  <2>2. verdict[job[w]] = IF flags[w].accepted THEN "accepted" ELSE "blocked"
    BY <2>1 DEF PacketKept, Accepting
  <2>3. PICK clear \in BOOLEAN :
          /\ flags' = [flags EXCEPT ![w].resolved = clear]
          /\ IF flags[w].accepted
             THEN verdict' = [verdict EXCEPT ![job[w]] =
                                IF clear THEN "cleared" ELSE "denied"]
             ELSE verdict' = verdict /\ ~clear
    <3>1. CASE ~flags[w].accepted
      BY <1>4, <3>1 DEF Resolve
    <3>2. CASE flags[w].accepted
      <4>1. PICK answer :
              /\ flags' = [flags EXCEPT ![w].resolved = answer # "malicious"]
              /\ verdict' = [verdict EXCEPT ![job[w]] =
                               IF answer = "malicious" THEN "denied" ELSE "cleared"]
        BY <1>4, <3>2 DEF Resolve
      <4>2. CASE answer = "malicious"
        BY <3>2, <4>1, <4>2
      <4>3. CASE answer # "malicious"
        BY <3>2, <4>1, <4>3
      <4>4. QED
        BY <4>2, <4>3
    <3>3. QED
      BY <3>1, <3>2
  <2>4. flags'[w].accepted = flags[w].accepted /\ flags'[w].resolved = clear
    BY <2>3 DEF Basic, TypeOK
  <2>5. verdict'[job[w]] = IF flags[w].accepted
                           THEN IF clear THEN "cleared" ELSE "denied" ELSE "blocked"
    BY <1>1, <2>2, <2>3 DEF Basic, TypeOK
  <2>6. flags[w].accepted \/ ~clear
    BY <2>3
  <2>7. job[w] \notin contacted /\ reply[job[w]] = "none" /\ job[w] \notin closed
    BY <2>1 DEF PacketKept, Forwarded, Sent
  <2>8. QED
    BY <1>1, <2>1, <2>4, <2>5, <2>6, <2>7
    DEF PacketKept, Unasked, Accepting, Resolved, Forwarded, Sent
<1>5. CASE SkipForwarding(w)
  <2>1. /\ stage[w] = "forwarder" /\ phase[w] = "execute" /\ phase'[w] = "release"
        /\ ~flags[w].resolved /\ UNCHANGED <<reply, closed, excused, verdict, contacted>>
    BY <1>5 DEF SkipForwarding, Executes, Then, clientVars, Basic, TypeOK
  <2>2. flags'[w].accepted = flags[w].accepted /\ flags'[w].resolved = flags[w].resolved
    <3>1. \E e \in BOOLEAN : flags' = [flags EXCEPT ![w].forwarded = e]
      BY <1>5 DEF SkipForwarding
    <3>2. QED
      BY <3>1 DEF Basic, TypeOK
  <2>3. QED
    BY <1>1, <2>1, <2>2
    DEF PacketKept, Unasked, Accepting, Resolved, Forwarded, Sent
<1>6. CASE Connect(w)
  <2>1. /\ stage[w] = "forwarder" /\ phase[w] = "execute" /\ phase'[w] = "receive"
        /\ flags' = flags /\ UNCHANGED <<reply, closed, excused, verdict>>
        /\ contacted' = contacted \cup {job[w]}
    BY <1>6 DEF Connect, Executes, Then, clientVars, Basic, TypeOK
  <2>2. QED
    BY <1>1, <2>1
    DEF PacketKept, Unasked, Accepting, Resolved, Forwarded, Sent
<1>7. CASE ConnectFails(w)
  <2>1. /\ stage[w] = "forwarder" /\ phase[w] = "execute" /\ phase'[w] = "release"
        /\ UNCHANGED <<reply, closed, excused, verdict, contacted>>
    BY <1>7 DEF ConnectFails, Executes, Then, clientVars, Basic, TypeOK
  <2>2. flags'[w].accepted = flags[w].accepted /\ ~flags'[w].resolved
    <3>1. flags' = [flags EXCEPT ![w].resolved = FALSE, ![w].forwarded = FALSE]
      BY <1>7 DEF ConnectFails
    <3>2. QED
      BY <3>1 DEF Basic, TypeOK
  <2>3. flags[w].resolved
    BY <1>7 DEF ConnectFails
  <2>4. QED
    BY <1>1, <2>1, <2>2, <2>3
    DEF PacketKept, Unasked, Accepting, Resolved, Forwarded, Sent
<1>8. CASE Receive(w) \/ Discard(w)
  <2>1. /\ stage[w] = "forwarder" /\ phase[w] = "receive" /\ phase'[w] = "release"
        /\ UNCHANGED <<reply, closed, excused, verdict, contacted>>
    BY <1>8 DEF Receive, Discard, Then, clientVars, Basic, TypeOK, ObjectKept
  <2>2. flags'[w].accepted = flags[w].accepted /\ flags'[w].resolved = flags[w].resolved
    <3>1. flags' = flags \/ \E e \in BOOLEAN : flags' = [flags EXCEPT ![w].forwarded = e]
      BY <1>8 DEF Receive, Discard
    <3>2. QED
      BY <3>1 DEF Basic, TypeOK
  <2>3. QED
    BY <1>1, <2>1, <2>2
    DEF PacketKept, Unasked, Accepting, Resolved, Forwarded, Sent
<1>9. CASE Refuse(w) \/ Answer(w) \/ AnswerFails(w)
  <2>1. /\ stage[w] = "sender" /\ phase[w] = "execute" /\ phase'[w] = "release"
        /\ UNCHANGED <<flags, verdict, contacted>>
        /\ job[w] \in closed' \cup excused'
    BY <1>9 DEF Refuse, Answer, AnswerFails, Executes, Then, Basic, TypeOK
  <2>2. QED
    BY <1>1, <2>1
    DEF PacketKept, Unasked, Accepting, Resolved, Forwarded, Sent
<1>10. QED
  BY <1>3, <1>4, <1>5, <1>6, <1>7, <1>8, <1>9 DEF Execute

LEMMA PacketsStep ==
  ASSUME Basic, PacketsKept, [Next]_vars
  PROVE  PacketsKept'
<1>1. ASSUME NEW w \in Workers,
             (\E c \in Conns : Begin(w, c)) \/ WorkerStep(w) \/ ExecuteThrows(w),
             NEW v \in Workers, job'[v] # NoConn
      PROVE  PacketKept(v)'
  <2>1. Local(w) /\ (Begins(w) \/ Ends(w) \/ Goes(w))
    BY <1>1, Kinds, BasicGives DEF Basic
  <2>2. CASE v # w
    BY <1>1, <2>1, <2>2, OthersPacket
  <2>3. CASE v = w /\ Begins(w)
    BY <2>3, BegunPacket
  <2>4. CASE v = w /\ Ends(w)
    BY <1>1, <2>4 DEF Ends
  <2>5. CASE v = w /\ Goes(w)
    <3>1. PacketKept(w) /\ phase[w] # "idle" /\ phase'[w] # "idle"
      BY <1>1, <2>5 DEF Goes, PacketsKept
    <3>2. CASE Release(w)
      BY <2>5, <3>1, <3>2, AdvancedPacket, ReleaseEnds, BasicGives DEF Ends
    <3>3. CASE Execute(w)
      BY <2>5, <3>1, <3>3, ExecutedPacket
    <3>4. CASE AcquireFree(w) \/ AcquireNew(w)
      BY <2>5, <3>1, <3>4, MovedPacket
    <3>5. CASE \E c \in Conns : Begin(w, c)
      BY <3>1, <3>5 DEF Begin
    <3>6. CASE GivesUp(w)
      BY <3>1, <3>6, FailEnds, GivingUpFails, BasicGives DEF Ends
    <3>7. QED
      BY <1>1, <3>2, <3>3, <3>4, <3>5, <3>6 DEF WorkerStep, Execute, GivesUp
  <2>6. QED
    BY <2>1, <2>2, <2>3, <2>4, <2>5
<1>2. CASE Outside
  BY <1>2 DEF Outside, packetVars, placeVars, clientVars, recordVars, PacketsKept,
    PacketKept, Unasked, Accepting, Resolved, Forwarded, Sent
<1>3. ASSUME NEW s \in Stages, NEW l \in Limits,
             Resize(s, l[1], l[2]) \/ ResizeThrows(s, l[1], l[2])
      PROVE  Outside
  BY <1>3 DEF Resize, ResizeThrows, Outside
<1>4. CASE UNCHANGED vars
  BY <1>2, <1>4 DEF vars, Outside
<1>5. QED
  BY <1>1, <1>2, <1>3, <1>4 DEF Next, PacketsKept

\* Filtered for one connection.
FilteredFor(c) ==
  /\ c \in contacted => verdict[c] = "cleared"
  /\ reply[c] = "blacklisted" => verdict[c] = "blocked"
  /\ reply[c] = "unresolved" => verdict[c] \in {"denied", "cleared"}
  /\ reply[c] \in Conns \cup {"empty"} => verdict[c] = "cleared" /\ c \in contacted

LEMMA FilteredExecute ==
  ASSUME Basic, NEW w \in Workers, PacketKept(w), FilteredFor(job[w]), Execute(w)
  PROVE  FilteredFor(job[w])'
<1>1. job' = job /\ job[w] \in Conns /\ phase[w] \in {"execute", "receive"}
  BY ExecuteFrame, Working, BasicGives DEF Basic
<1>2. CASE Accept(w) \/ Resolve(w)
  <2>1. ~Forwarded(w) /\ ~Sent(w) /\ contacted' = contacted /\ reply' = reply
    BY <1>2 DEF Accept, Resolve, Executes, Forwarded, Sent, clientVars
  <2>2. QED
    BY <1>1, <2>1 DEF PacketKept, FilteredFor
<1>3. CASE SkipForwarding(w) \/ ConnectFails(w) \/ Receive(w) \/ Discard(w) \/ AnswerFails(w)
  <2>1. UNCHANGED <<verdict, contacted, reply>>
    BY <1>3 DEF SkipForwarding, ConnectFails, Receive, Discard, AnswerFails, clientVars
  <2>2. QED
    BY <1>1, <2>1 DEF FilteredFor
<1>4. CASE Connect(w)
  <2>1. /\ stage[w] = "forwarder" /\ phase[w] = "execute" /\ flags[w].resolved
        /\ contacted' = contacted \cup {job[w]} /\ UNCHANGED <<verdict, reply>>
    BY <1>4 DEF Connect, Executes, clientVars
  <2>2. verdict[job[w]] = "cleared" /\ reply[job[w]] = "none"
    BY <2>1 DEF PacketKept, Resolved, Sent
  <2>3. QED
    BY <1>1, <2>1, <2>2 DEF FilteredFor
<1>5. CASE Refuse(w)
  <2>1. /\ stage[w] = "sender" /\ phase[w] = "execute"
        /\ ~(flags[w].accepted /\ flags[w].resolved)
        /\ UNCHANGED <<verdict, contacted>>
    BY <1>5 DEF Refuse, Executes
  <2>2. IF flags[w].accepted THEN verdict[job[w]] \in {"denied", "cleared"}
                             ELSE verdict[job[w]] = "blocked"
    BY <2>1 DEF PacketKept, Resolved
  <2>3. PICK r : /\ reply' = [reply EXCEPT ![job[w]] = r]
                 /\ \/ r = "none"
                    \/ r = "blacklisted" /\ ~flags[w].accepted
                    \/ r = "unresolved" /\ flags[w].accepted
    BY <1>5 DEF Refuse
  <2>4. reply'[job[w]] = r
    BY <1>1, <2>3 DEF Basic, TypeOK
  <2>5. r \notin Conns \cup {"empty"}
    BY <2>3
  <2>6. QED
    BY <1>1, <2>1, <2>2, <2>3, <2>4, <2>5 DEF FilteredFor
<1>6. CASE Answer(w)
  <2>1. /\ stage[w] = "sender" /\ phase[w] = "execute"
        /\ flags[w].accepted /\ flags[w].resolved
        /\ UNCHANGED <<verdict, contacted>>
        /\ reply' = [reply EXCEPT ![job[w]] = response[w]]
    BY <1>6 DEF Answer, Executes
  <2>2. reply'[job[w]] = response[w] /\ response[w] \in Conns \cup {"empty"}
    BY <1>1, <2>1 DEF Basic, TypeOK
  <2>3. verdict[job[w]] = "cleared" /\ job[w] \in contacted
    BY <2>1 DEF PacketKept, Resolved, Forwarded
  <2>4. response[w] # "blacklisted" /\ response[w] # "unresolved"
    BY <2>2
  <2>5. QED
    BY <1>1, <2>1, <2>2, <2>3, <2>4 DEF FilteredFor
<1>7. QED
  BY <1>2, <1>3, <1>4, <1>5, <1>6 DEF Execute

\* The steps that find out nothing, contact nobody and send nothing.
LEMMA OnlyExecuteShows ==
  ASSUME NEW w \in Workers,
         (\E c \in Conns : Begin(w, c)) \/ WorkerStep(w) \/ ExecuteThrows(w)
  PROVE  Execute(w) \/ UNCHANGED <<verdict, contacted, reply, closed>>
BY DEF WorkerStep, Execute, Begin, ExecuteThrows, AcquireFree, AcquireNew, Holds,
  AcquireThrows, PoolExhausted, Release, ReleaseMissing, Fail, clientVars, recordVars

LEMMA FilteredStep ==
  ASSUME Basic, PacketsKept, Filtered, [Next]_vars
  PROVE  Filtered'
<1>1. \A c \in Conns : FilteredFor(c)
  BY DEF Filtered, FilteredFor
<1>2. CASE UNCHANGED <<verdict, contacted, reply, closed>>
  BY <1>2 DEF Filtered
<1>3. ASSUME NEW w \in Workers, Execute(w), NEW c \in Conns
      PROVE  FilteredFor(c)'
  <2>1. Local(w) /\ job' = job /\ job[w] \in Conns /\ PacketKept(w)
    BY <1>3, ExecuteLocal, ExecuteFrame, Working, BasicGives DEF Basic, PacketsKept
  <2>2. CASE c = job[w]
    BY <1>1, <1>3, <2>1, <2>2, FilteredExecute
  <2>3. CASE c # job[w]
    BY <1>1, <2>1, <2>3 DEF Local, FilteredFor
  <2>4. QED
    BY <2>2, <2>3
<1>4. CASE \E w \in Workers : Execute(w)
  BY <1>3, <1>4 DEF Filtered, FilteredFor
<1>5. ASSUME NEW s \in Stages, NEW l \in Limits,
             Resize(s, l[1], l[2]) \/ ResizeThrows(s, l[1], l[2])
      PROVE  UNCHANGED <<verdict, contacted, reply, closed>>
  BY <1>5 DEF Resize, ResizeThrows, clientVars, recordVars
<1>6. CASE UNCHANGED vars
  BY <1>2, <1>6 DEF vars, clientVars, recordVars
<1>7. QED
  BY <1>2, <1>4, <1>5, <1>6, OnlyExecuteShows DEF Next

-----------------------------------------------------------------------------
(***************************************************************************)
(* Whose page a client is sent.                                            *)
(***************************************************************************)
AnswerKeptFor(v) ==
  job[v] # NoConn =>
    /\ response[v] \in {job[v], "empty"}
    /\ phase[v] = "receive" => upstream[object[v]] = job[v]

LEMMA TornOnce ==
  ASSUME Basic, [Next]_vars, ~torn'["forwarder"]
  PROVE  ~torn["forwarder"]
<1>1. ASSUME NEW s \in Stages, NEW l \in Limits, Resize(s, l[1], l[2])
      PROVE  ~torn["forwarder"]
  <2> DEFINE t == torn[s] \/ \E w \in Workers : HeldIn(s)[w] \in Destroyed(pools[s], l[1])
  <2>1. torn' = [torn EXCEPT ![s] = t]
    BY <1>1 DEF Resize
  <2>2. torn[s] => t
    OBVIOUS
  <2> HIDE DEF t
  <2>3. QED
    BY <2>1, <2>2 DEF Basic, TypeOK, Stages
<1>2. CASE UNCHANGED torn
  BY <1>2
<1>3. ASSUME NEW w \in Workers,
             (\E c \in Conns : Begin(w, c)) \/ WorkerStep(w) \/ ExecuteThrows(w)
      PROVE  UNCHANGED torn
  <2>1. CASE Execute(w)
    BY <2>1, ExecuteFrame, BasicGives DEF Basic
  <2>2. CASE ~Execute(w)
    BY <1>3, <2>2 DEF Begin, WorkerStep, Execute, ExecuteThrows, AcquireFree, AcquireNew,
      AcquireThrows, Holds, PoolExhausted, Release, ReleaseMissing, Fail
  <2>3. QED
    BY <2>1, <2>2
<1>4. QED
  BY <1>1, <1>2, <1>3 DEF Next, vars, ResizeThrows

\* The object a forwarder at work has is its own, and is in the pool.
LEMMA OwnForwarder ==
  ASSUME Basic, PoolsKept, ~torn["forwarder"], NEW v \in Workers, phase[v] = "receive"
  PROVE  /\ stage[v] = "forwarder" /\ object[v] \in Live(pools["forwarder"])
         /\ v \in HoldersIn("forwarder")
         /\ \A w \in Workers :
              w # v /\ stage[w] = "forwarder" /\ phase[w] \in Holding => object[w] # object[v]
<1>1. /\ "forwarder" \in Stages /\ pools["forwarder"] \in PoolType
  BY DEF Stages, Basic, TypeOK
<1>2. ExclusiveIn("forwarder")
  BY <1>1 DEF PoolsKept, PoolKept
<1>3. stage[v] = "forwarder" /\ v \in HoldersIn("forwarder")
  BY DEF Basic, ObjectKept, Holding, HoldersIn
<1>3a. object[v] # Null
  BY <1>3 DEF Basic, ObjectKept
<1>4. object[v] \in Live(pools["forwarder"])
  BY <1>1, <1>2, <1>3, <1>3a, LiveAddrs DEF ExclusiveIn, InUse
<1>5. \A w \in Workers :
        w # v /\ stage[w] = "forwarder" /\ phase[w] \in Holding => object[w] # object[v]
  BY <1>2, <1>3, <1>3a DEF Basic, ObjectKept, HoldersIn, ExclusiveIn
<1>6. QED
  BY <1>3, <1>4, <1>5

\* No step of a worker touches the socket another one reads.
LEMMA OthersSocket ==
  ASSUME Basic, PoolsKept, ~torn["forwarder"], NEW w \in Workers,
         (\E c \in Conns : Begin(w, c)) \/ WorkerStep(w) \/ ExecuteThrows(w),
         NEW v \in Workers \ {w}, phase[v] = "receive"
  PROVE  upstream'[object[v]] = upstream[object[v]]
<1>1. /\ object[v] \in Live(pools["forwarder"]) /\ object[v] \in Addr
      /\ stage[w] = "forwarder" /\ phase[w] \in Holding => object[w] # object[v]
  BY OwnForwarder, Working, BasicGives DEF Basic, Holding
<1>2. CASE upstream' = upstream
  BY <1>2
<1>3. CASE AcquireNew(w)
  <2>1. stage[w] = "forwarder" =>
          \E a \in Addr : a # object[v] /\ upstream' = [upstream EXCEPT ![a] = NoConn]
    BY <1>1, <1>3 DEF AcquireNew
  <2>2. stage[w] # "forwarder" => upstream' = upstream
    BY <1>3 DEF AcquireNew
  <2>3. QED
    BY <1>1, <2>1, <2>2 DEF Basic, TypeOK
<1>4. CASE Connect(w) \/ ConnectFails(w)
  <2>1. object[w] # object[v]
    BY <1>1, <1>4 DEF Connect, ConnectFails, Executes, Holding
  <2>2. \E u : upstream' = [upstream EXCEPT ![object[w]] = u]
    BY <1>4 DEF Connect, ConnectFails
  <2>3. QED
    BY <1>1, <2>1, <2>2 DEF Basic, TypeOK
<1>5. upstream' = upstream \/ AcquireNew(w) \/ Connect(w) \/ ConnectFails(w)
  BY DEF WorkerStep, Begin, ExecuteThrows, AcquireFree, PoolExhausted, AcquireThrows, Fail,
    Release, ReleaseMissing, Accept, Resolve, SkipForwarding, Receive, Discard, Refuse, Answer,
    AnswerFails
<1>6. QED
  BY <1>2, <1>3, <1>4, <1>5

LEMMA OwnAnswerKept ==
  ASSUME Basic, NEW w \in Workers, AnswerKeptFor(w),
         (\E c \in Conns : Begin(w, c)) \/ WorkerStep(w) \/ ExecuteThrows(w)
  PROVE  AnswerKeptFor(w)'
<1>1. Begins(w) \/ Ends(w) \/ Goes(w)
  BY Kinds, BasicGives DEF Basic
<1>2. CASE Begins(w) \/ Ends(w)
  BY <1>2 DEF Begins, Ends, AnswerKeptFor
<1>3. CASE Goes(w) /\ Execute(w)
  <2>1. job' = job /\ object' = object /\ job[w] \in Conns /\ phase[w] # "idle"
    BY <1>3, ExecuteFrame, Working, BasicGives DEF Basic, Holding
  <2>2. CASE Connect(w)
    <3>1. upstream'[object[w]] = job[w] /\ response' = response
      <4>1. object[w] \in Addr
        BY <2>2, Working, BasicGives DEF Connect, Executes, Holding
      <4>2. QED
        BY <2>1, <2>2, <4>1 DEF Connect, Basic, TypeOK
    <3>2. QED
      BY <2>1, <3>1 DEF AnswerKeptFor
  <2>3. CASE Receive(w)
    <3>1. /\ phase[w] = "receive" /\ phase'[w] = "release"
          /\ \E r \in Received(w) : response'[w] = r
      BY <2>3 DEF Receive, Then, Basic, TypeOK
    <3>2. Received(w) \subseteq {job[w], "empty"}
      BY <2>1, <3>1 DEF Received, AnswerKeptFor
    <3>3. QED
      BY <2>1, <3>1, <3>2 DEF AnswerKeptFor
  <2>4. CASE ~Connect(w) /\ ~Receive(w)
    <3>1. response' = response /\ phase'[w] = "release"
      BY <1>3, <2>4 DEF Execute, Accept, Resolve, SkipForwarding, ConnectFails, Discard,
        Refuse, Answer, AnswerFails, Then, Basic, TypeOK
    <3>2. QED
      BY <2>1, <3>1 DEF AnswerKeptFor
  <2>5. QED
    BY <2>2, <2>3, <2>4
<1>4. CASE Goes(w) /\ ~Execute(w)
  <2>1. job'[w] = job[w] /\ phase'[w] # "idle"
    BY <1>4 DEF Goes
  <2>2. CASE Release(w)
    BY <2>1, <2>2, AdvanceGoes, ReleaseEnds, BasicGives DEF AnswerKeptFor, Ends
  <2>3. CASE AcquireFree(w) \/ AcquireNew(w)
    <3>1. phase'[w] = "execute"
      BY <2>3, AcquireHolds, HoldsGoes, BasicGives
    <3>2. response' = response
      BY <2>3 DEF AcquireFree, AcquireNew, Holds, packetVars
    <3>3. QED
      BY <2>1, <3>1, <3>2 DEF AnswerKeptFor
  <2>4. CASE \E c \in Conns : Begin(w, c)
    BY <1>4, <2>4, BeginBegins, BasicGives DEF Begins, Goes
  <2>5. CASE GivesUp(w)
    BY <2>1, <2>5, FailEnds, GivingUpFails, BasicGives DEF Ends
  <2>6. QED
    BY <1>4, <2>2, <2>3, <2>4, <2>5 DEF WorkerStep, Execute, GivesUp
<1>5. QED
  BY <1>1, <1>2, <1>3, <1>4

\* A resize that tears no forwarder leaves the sockets in use alone.
LEMMA ResizeKeepsSocket ==
  ASSUME Basic, PoolsKept, NEW s \in Stages, NEW l \in Limits, Resize(s, l[1], l[2]),
         ~torn["forwarder"], ~torn'["forwarder"], NEW v \in Workers, phase[v] = "receive"
  PROVE  upstream'[object[v]] = upstream[object[v]]
<1>1. CASE s # "forwarder"
  BY <1>1 DEF Resize
<1>2. CASE s = "forwarder"
  <2> DEFINE p == pools["forwarder"]
  <2>1. /\ stage[v] = "forwarder" /\ object[v] \in Live(p) /\ object[v] \in Addr
    BY OwnForwarder, Working, BasicGives DEF Basic, Holding
  <2>2. object[v] \notin Destroyed(p, l[1])
    <3> DEFINE t == torn[s] \/ \E w \in Workers : HeldIn(s)[w] \in Destroyed(pools[s], l[1])
    <3>1. torn' = [torn EXCEPT ![s] = t]
      BY DEF Resize
    <3> HIDE DEF t
    <3>2. torn'[s] = t
      BY <3>1 DEF Basic, TypeOK
    <3>3. HeldIn(s)[v] = object[v]
      BY <1>2, <2>1 DEF HeldIn
    <3>4. QED
      BY <1>2, <3>2, <3>3 DEF t
  <2>3. upstream' = [a \in Addr |-> IF \/ a \in Destroyed(p, l[1])
                                       \/ a \in Live(pools'["forwarder"]) \ Live(p)
                                    THEN NoConn ELSE upstream[a]]
    BY <1>2 DEF Resize
  <2>4. QED
    BY <2>1, <2>2, <2>3
<1>3. QED
  BY <1>1, <1>2

LEMMA AnswerStep ==
  ASSUME Basic, PoolsKept, AnswerKept, [Next]_vars
  PROVE  AnswerKept'
<1> SUFFICES ASSUME ~torn'["forwarder"], NEW v \in Workers
             PROVE  AnswerKeptFor(v)'
  BY DEF AnswerKept, AnswerKeptFor
<1>1. ~torn["forwarder"] /\ AnswerKeptFor(v)
  BY TornOnce DEF AnswerKept, AnswerKeptFor
<1>2. ASSUME NEW w \in Workers,
             (\E c \in Conns : Begin(w, c)) \/ WorkerStep(w) \/ ExecuteThrows(w)
      PROVE  AnswerKeptFor(v)'
  <2>1. CASE v = w
    BY <1>1, <1>2, <2>1, OwnAnswerKept
  <2>2. CASE v # w
    <3>1. /\ job'[v] = job[v] /\ response'[v] = response[v] /\ phase'[v] = phase[v]
          /\ object'[v] = object[v]
      BY <1>2, <2>2, Kinds, BasicGives DEF Local, Basic
    <3>2. phase[v] = "receive" => upstream'[object[v]] = upstream[object[v]]
      BY <1>1, <1>2, <2>2, OthersSocket
    <3>3. QED
      BY <1>1, <3>1, <3>2 DEF AnswerKeptFor
  <2>3. QED
    BY <2>1, <2>2
<1>3. ASSUME NEW s \in Stages, NEW l \in Limits,
             Resize(s, l[1], l[2]) \/ ResizeThrows(s, l[1], l[2])
      PROVE  AnswerKeptFor(v)'
  <2>1. UNCHANGED <<job, response, phase, object>>
    BY <1>3 DEF Resize, ResizeThrows, packetVars, placeVars
  <2>2. phase[v] = "receive" => upstream'[object[v]] = upstream[object[v]]
    BY <1>1, <1>3, ResizeKeepsSocket DEF ResizeThrows
  <2>3. QED
    BY <1>1, <2>1, <2>2 DEF AnswerKeptFor
<1>4. CASE UNCHANGED vars
  BY <1>1, <1>4 DEF vars, packetVars, placeVars, AnswerKeptFor
<1>5. QED
  BY <1>2, <1>3, <1>4 DEF Next

LEMMA OwnAnswerStep ==
  ASSUME Basic, AnswerKept, OwnAnswerUntilTorn, [Next]_vars
  PROVE  OwnAnswerUntilTorn'
<1> SUFFICES ASSUME ~torn'["forwarder"], NEW c \in Conns, NEW d \in Conns, reply'[c] = d
             PROVE  c = d
  BY DEF OwnAnswerUntilTorn
<1>1. ~torn["forwarder"] /\ (reply[c] = d => c = d)
  BY TornOnce DEF OwnAnswerUntilTorn
<1>2. ASSUME NEW w \in Workers, Execute(w)
      PROVE  c = d
  <2>1. job[w] \in Conns /\ Local(w) /\ response[w] \in {job[w], "empty"}
    <3>1. job[w] \in Conns /\ Local(w)
      BY <1>2, ExecuteLocal, ExecuteFrame, Working, BasicGives DEF Basic
    <3>2. QED
      BY <1>1, <3>1 DEF AnswerKept
  <2>2. CASE c # job[w] \/ reply' = reply
    BY <1>1, <2>1, <2>2 DEF Local
  <2>3. CASE c = job[w] /\ Refuse(w)
    <3>1. \E r \in {"none", "blacklisted", "unresolved"} :
            reply' = [reply EXCEPT ![job[w]] = r]
      BY <2>3 DEF Refuse
    <3>2. reply'[c] \in {"none", "blacklisted", "unresolved"}
      BY <2>1, <2>3, <3>1 DEF Basic, TypeOK
    <3>3. QED
      BY <3>2
  <2>4. CASE c = job[w] /\ Answer(w)
    BY <2>1, <2>4 DEF Answer, Basic, TypeOK
  <2>5. QED
    BY <1>2, <2>2, <2>3, <2>4 DEF Execute, Accept, Resolve, SkipForwarding, Connect,
      ConnectFails, Receive, Discard, AnswerFails, clientVars
<1>3. CASE reply' = reply
  BY <1>1, <1>3
<1>4. ASSUME NEW s \in Stages, NEW l \in Limits,
             Resize(s, l[1], l[2]) \/ ResizeThrows(s, l[1], l[2])
      PROVE  reply' = reply
  BY <1>4 DEF Resize, ResizeThrows, clientVars
<1>5. QED
  BY <1>2, <1>3, <1>4, OnlyExecuteShows DEF Next, vars, clientVars

-----------------------------------------------------------------------------
(***************************************************************************)
(* How many objects are lost.                                              *)
(***************************************************************************)
Done == {c \in Conns : counted[c] > 0}

LEMMA DoneFinite ==
  /\ IsFiniteSet(Done) /\ Cardinality(Done) \in Nat
  /\ Cardinality(Conns) \in Nat
  /\ \A c \in Conns \ Done : Cardinality(Done) < Cardinality(Conns)
<1>1. Done \in SUBSET Conns
  BY DEF Done
<1>2. IsFiniteSet(Done) /\ Cardinality(Done) <= Cardinality(Conns)
      /\ (Cardinality(Conns) = Cardinality(Done) => Conns = Done)
  BY <1>1, FS_Subset
<1>3. Cardinality(Done) \in Nat /\ Cardinality(Conns) \in Nat
  BY <1>2, FS_CardinalityType
<1>4. QED
  BY <1>2, <1>3

LEMMA DoneSame ==
  ASSUME counted' = counted
  PROVE  Done' = Done
  BY DEF Done

LEMMA DoneGrows ==
  ASSUME Basic, NEW w \in Workers, Ends(w), Local(w)
  PROVE  Cardinality(Done') = Cardinality(Done) + 1
<1>1. job[w] \in Conns /\ counted[job[w]] = 0 /\ counted'[job[w]] = 1
  BY DEF Ends, Basic, JobsKept, TypeOK
<1>2. Done' = Done \cup {job[w]} /\ job[w] \notin Done
  BY <1>1 DEF Local, Done
<1>3. IsFiniteSet(Done)
  BY DoneFinite
<1>4. QED
  BY <1>2, <1>3, FS_AddElement

LEMMA LostStep ==
  ASSUME Basic, LostKept, [Next]_vars
  PROVE  LostKept'
<1>1. /\ \A s \in Stages : lost[s] <= MaxThrows + Cardinality(Done)
      /\ lost \in [Stages -> Nat] /\ Cardinality(Done) \in Nat
  BY DoneFinite DEF LostKept, Done, Basic, TypeOK
<1>2. CASE lost' = lost /\ counted' = counted
  BY <1>1, <1>2, DoneSame DEF LostKept, Done
<1>3. ASSUME NEW w \in Workers, GivesUp(w)
      PROVE  LostKept'
  <2>1. Cardinality(Done') = Cardinality(Done) + 1
    BY <1>3, FailEnds, GivingUpFails, DoneGrows, BasicGives
  <2>2. \/ lost' = lost
        \/ lost[stage[w]] < MaxThrows /\ lost' = [lost EXCEPT ![stage[w]] = @ + 1]
        \/ lost' = [lost EXCEPT ![stage[w]] = @ + 1]
    BY <1>3 DEF GivesUp, PoolExhausted, AcquireThrows, ExecuteThrows, ReleaseMissing
  <2>3. \A s \in Stages : lost'[s] <= MaxThrows + (Cardinality(Done) + 1)
    BY <1>1, <2>2
  <2>4. QED
    BY <2>1, <2>3 DEF LostKept, Done
<1>4. ASSUME NEW w \in Workers, Release(w)
      PROVE  LostKept'
  <2>1. lost' = lost
    BY <1>4 DEF Release
  <2>2. CASE counted' = counted
    BY <1>2, <2>1, <2>2
  <2>3. CASE counted' # counted
    <3>1. Cardinality(Done') = Cardinality(Done) + 1
      BY <1>4, <2>3, ReleaseEnds, AdvanceGoes, DoneGrows, BasicGives DEF Goes
    <3>2. \A s \in Stages : lost'[s] <= MaxThrows + (Cardinality(Done) + 1)
      BY <1>1, <2>1
    <3>3. QED
      BY <3>1, <3>2 DEF LostKept, Done
  <2>4. QED
    BY <2>2, <2>3
<1>5. ASSUME NEW w \in Workers, Execute(w)
      PROVE  lost' = lost /\ counted' = counted
  BY <1>5, ExecuteFrame, BasicGives DEF Basic
<1>6. ASSUME NEW w \in Workers, (\E c \in Conns : Begin(w, c)) \/ AcquireFree(w) \/ AcquireNew(w)
      PROVE  lost' = lost /\ counted' = counted
  BY <1>6 DEF Begin, AcquireFree, AcquireNew, Holds, recordVars
<1>7. ASSUME NEW s \in Stages, NEW l \in Limits,
             Resize(s, l[1], l[2]) \/ ResizeThrows(s, l[1], l[2])
      PROVE  lost' = lost /\ counted' = counted
  BY <1>7 DEF Resize, ResizeThrows, recordVars
<1>8. CASE UNCHANGED vars
  BY <1>2, <1>8 DEF vars, recordVars
<1>9. QED
  BY <1>2, <1>3, <1>4, <1>5, <1>6, <1>7, <1>8 DEF Next, WorkerStep, Execute, GivesUp

-----------------------------------------------------------------------------
(***************************************************************************)
(* Each stage's pool is used as in PoolUse.  The operators on pools that   *)
(* the instance brings are those of Pool.                                  *)
(***************************************************************************)
LEMMA StageReads ==
  ASSUME NEW s \in Stages, NEW p
  PROVE  /\ StageUse(s)!Live(p) = Live(p)
         /\ StageUse(s)!Free(p) = Free(p)
         /\ StageUse(s)!FirstFree(p) = FirstFree(p)
         /\ StageUse(s)!CanGrow(p) <=> CanGrow(p)
<1>1. StageUse(s)!Live(p) = Live(p)
  BY Zenon DEF StageUse!Live, Live
<1>2. StageUse(s)!Free(p) = Free(p)
  BY Zenon DEF StageUse!Free, Free
<1>3. StageUse(s)!FirstFree(p) = FirstFree(p)
  BY Zenon DEF StageUse!FirstFree, FirstFree, StageUse!Free, Free
<1>4. StageUse(s)!CanGrow(p) <=> CanGrow(p)
  BY Zenon DEF StageUse!CanGrow, CanGrow, StageUse!Free, Free, StageUse!Unsigned, Unsigned
<1>5. QED
  BY <1>1, <1>2, <1>3, <1>4

LEMMA StageTakes ==
  ASSUME NEW s \in Stages, NEW p
  PROVE  /\ StageUse(s)!TakeFirst(p) = TakeFirst(p)
         /\ \A a : StageUse(s)!TakeNew(p, a) = TakeNew(p, a)
         /\ \A a : StageUse(s)!GiveBack(p, a) = GiveBack(p, a)
         /\ StageUse(s)!WithNullSlot(p) = WithNullSlot(p)
<1>1. StageUse(s)!TakeFirst(p) = TakeFirst(p)
  BY Zenon DEF StageUse!TakeFirst, TakeFirst, StageUse!Marked, Marked, StageUse!Higher,
    Higher, StageUse!FirstFree, FirstFree, StageUse!Free, Free
<1>2. ASSUME NEW a
      PROVE  StageUse(s)!TakeNew(p, a) = TakeNew(p, a)
  BY Zenon DEF StageUse!TakeNew, TakeNew, StageUse!Marked, Marked, StageUse!Higher, Higher
<1>3. ASSUME NEW a
      PROVE  StageUse(s)!GiveBack(p, a) = GiveBack(p, a)
  BY Zenon DEF StageUse!GiveBack, GiveBack, StageUse!Position, Position, StageUse!At, At
<1>4. StageUse(s)!WithNullSlot(p) = WithNullSlot(p)
  BY Zenon DEF StageUse!WithNullSlot, WithNullSlot
<1>5. QED
  BY <1>1, <1>2, <1>3, <1>4

LEMMA StageResizes ==
  ASSUME NEW s \in Stages, NEW p, NEW initial
  PROVE  /\ StageUse(s)!Missing(p, initial) = Missing(p, initial)
         /\ \A n : StageUse(s)!FreshAddrs(p, n) = FreshAddrs(p, n)
         /\ StageUse(s)!FreshAddrs(p, StageUse(s)!Missing(p, initial))
              = FreshAddrs(p, Missing(p, initial))
         /\ StageUse(s)!Destroyed(p, initial) = Destroyed(p, initial)
         /\ \A max, f : StageUse(s)!Resized(p, initial, max, f) = Resized(p, initial, max, f)
         /\ \A made, max, f :
              StageUse(s)!ResizeThrown(p, made, max, f) = ResizeThrown(p, made, max, f)
<1>1. StageUse(s)!Missing(p, initial) = Missing(p, initial)
  BY Zenon DEF StageUse!Missing, Missing, StageUse!Higher, Higher
<1>2. ASSUME NEW n
      PROVE  StageUse(s)!FreshAddrs(p, n) = FreshAddrs(p, n)
  BY Zenon DEF StageUse!FreshAddrs, FreshAddrs, StageUse!Live, Live
<1>3. StageUse(s)!Destroyed(p, initial) = Destroyed(p, initial)
  BY Zenon DEF StageUse!Destroyed, Destroyed
<1>4. ASSUME NEW max, NEW f
      PROVE  StageUse(s)!Resized(p, initial, max, f) = Resized(p, initial, max, f)
  BY Zenon DEF StageUse!Resized, Resized
<1>5. ASSUME NEW made, NEW max, NEW f
      PROVE  StageUse(s)!ResizeThrown(p, made, max, f) = ResizeThrown(p, made, max, f)
  BY Zenon DEF StageUse!ResizeThrown, ResizeThrown, StageUse!WithNullSlot, WithNullSlot,
    StageUse!Resized, Resized
<1>6. QED
  BY <1>1, <1>2, <1>3, <1>4, <1>5

\* What a step of a worker does to the objects held in a stage.
LEMMA HeldChange ==
  ASSUME Basic, NEW w \in Workers, Local(w), NEW s \in Stages
  PROVE  HeldIn(s)' = [HeldIn(s) EXCEPT ![w] = IF stage'[w] = s THEN object'[w] ELSE NoObject]
  BY DEF Local, HeldIn

LEMMA HeldSame ==
  ASSUME Basic, NEW w \in Workers, Local(w), NEW s \in Stages,
         \/ stage[w] # s \/ object[w] = NoObject
         \/ stage'[w] = s /\ object'[w] = object[w],
         \/ stage'[w] # s \/ object'[w] = NoObject
         \/ stage[w] = s /\ object'[w] = object[w]
  PROVE  HeldIn(s)' = HeldIn(s)
  BY DEF Local, HeldIn

Uses(s) ==
  [StageUse(s)!PoolUseNext]_<<pools[s], HeldIn(s), lost[s], torn[s], failed[s]>>

LEMMA StageAcquires ==
  ASSUME Basic, NEW w \in Workers, AcquireFree(w) \/ AcquireNew(w), NEW s \in Stages
  PROVE  Uses(s)
<1>1. /\ Local(w) /\ phase[w] = "acquire" /\ object[w] = NoObject
      /\ stage' = stage /\ lost' = lost /\ torn' = torn /\ failed' = failed
      /\ HeldIn(s)[w] = NoObject
  BY AcquireHolds, HoldsGoes, BasicGives
  DEF AcquireFree, AcquireNew, Holds, Basic, ObjectKept, Holding, HeldIn
<1>2. CASE stage[w] # s
  <2>1. HeldIn(s)' = HeldIn(s)
    BY <1>1, <1>2, HeldSame
  <2>2. pools'[s] = pools[s]
    BY <1>2 DEF AcquireFree, AcquireNew, Basic, TypeOK
  <2>3. QED
    BY <1>1, <2>1, <2>2 DEF Uses
<1>3. CASE stage[w] = s /\ AcquireFree(w)
  <2> DEFINE a == pools[s].objects[FirstFree(pools[s])].addr
  <2>1. Free(pools[s]) # {} /\ pools'[s] = TakeFirst(pools[s]) /\ object'[w] = a
    BY <1>3 DEF AcquireFree, Holds, Basic, TypeOK
  <2> HIDE DEF a
  <2>2. HeldIn(s)' = [HeldIn(s) EXCEPT ![w] = a]
    BY <1>1, <1>3, <2>1, HeldChange
  <2>3. StageUse(s)!AcquireFree(w)
    BY <1>1, <2>1, <2>2, StageReads, StageTakes DEF StageUse!AcquireFree, a
  <2>4. QED
    BY <2>3 DEF Uses, StageUse!PoolUseNext, StageUse!ThreadStep
<1>4. CASE stage[w] = s /\ AcquireNew(w)
  <2>1. PICK a \in Addr \ Live(pools[s]) :
          pools' = [pools EXCEPT ![s] = TakeNew(@, a)] /\ Holds(w, a)
    BY <1>4 DEF AcquireNew
  <2>2. CanGrow(pools[s]) /\ pools'[s] = TakeNew(pools[s], a) /\ object'[w] = a
    BY <1>4, <2>1 DEF AcquireNew, Holds, Basic, TypeOK
  <2>3. HeldIn(s)' = [HeldIn(s) EXCEPT ![w] = a]
    BY <1>1, <1>4, <2>2, HeldChange
  <2>4. StageUse(s)!AcquireNew(w)
    <3>1. /\ a \in Addr \ StageUse(s)!Live(pools[s])
          /\ StageUse(s)!CanGrow(pools[s])
      BY <2>1, <2>2, StageReads
    <3>2. pools'[s] = StageUse(s)!TakeNew(pools[s], a)
      BY <2>2, StageTakes
    <3>3. QED
      BY <1>1, <2>3, <3>1, <3>2 DEF StageUse!AcquireNew
  <2>5. QED
    BY <2>4 DEF Uses, StageUse!PoolUseNext, StageUse!ThreadStep
<1>5. QED
  BY <1>2, <1>3, <1>4

LEMMA StageReleases ==
  ASSUME Basic, NEW w \in Workers, Release(w), NEW s \in Stages
  PROVE  Uses(s)
<1>1. Local(w) /\ object'[w] = NoObject /\ lost' = lost /\ torn' = torn /\ failed' = failed
  BY ReleaseEnds, AdvanceGoes, BasicGives DEF Ends, Release
<1>2. CASE stage[w] # s
  <2>1. HeldIn(s)' = HeldIn(s)
    BY <1>1, <1>2, HeldSame
  <2>2. pools'[s] = pools[s]
    BY <1>2 DEF Release, Basic, TypeOK
  <2>3. QED
    BY <1>1, <2>1, <2>2 DEF Uses
<1>3. CASE stage[w] = s
  <2>1. /\ object[w] \in Live(pools[s]) /\ pools'[s] = GiveBack(pools[s], object[w])
        /\ HeldIn(s)[w] = object[w]
    BY <1>3 DEF Release, Basic, TypeOK, HeldIn
  <2>2. HeldIn(s)' = [HeldIn(s) EXCEPT ![w] = NoObject]
    BY <1>1, HeldChange
  <2>3. StageUse(s)!Release(w)
    BY <1>1, <2>1, <2>2, StageReads, StageTakes DEF StageUse!Release
  <2>4. QED
    BY <2>3 DEF Uses, StageUse!PoolUseNext, StageUse!ThreadStep
<1>4. QED
  BY <1>2, <1>3

LEMMA StageLoses ==
  ASSUME Basic, LostKept, NEW w \in Workers, ExecuteThrows(w) \/ ReleaseMissing(w),
         NEW s \in Stages
  PROVE  Uses(s)
<1>1. /\ Local(w) /\ object'[w] = NoObject /\ object[w] # NoObject /\ job[w] \in Conns
      /\ counted[job[w]] = 0 /\ pools' = pools /\ torn' = torn /\ failed' = failed
      /\ lost' = [lost EXCEPT ![stage[w]] = @ + 1]
  <2>1. phase[w] \in Holding /\ Fail(w)
    BY DEF ExecuteThrows, ReleaseMissing, Holding
  <2>2. Local(w) /\ Ends(w) /\ job[w] \in Conns
    BY <2>1, FailEnds, Working, BasicGives DEF Holding
  <2>3. object[w] # NoObject /\ counted[job[w]] = 0
    BY <2>1, <2>2 DEF Basic, ObjectKept, JobsKept
  <2>4. QED
    BY <2>1, <2>2, <2>3 DEF Ends, Fail, ExecuteThrows, ReleaseMissing
<1>2. CASE stage[w] # s
  <2>1. HeldIn(s)' = HeldIn(s)
    BY <1>1, <1>2, HeldSame
  <2>2. lost'[s] = lost[s]
    BY <1>1, <1>2 DEF Basic, TypeOK
  <2>3. QED
    BY <1>1, <2>1, <2>2 DEF Uses
<1>3. CASE stage[w] = s
  <2>1. HeldIn(s)[w] # NoObject /\ HeldIn(s)' = [HeldIn(s) EXCEPT ![w] = NoObject]
    BY <1>1, <1>3, HeldChange DEF HeldIn
  <2>2. lost[s] \in Nat /\ lost'[s] = lost[s] + 1
    BY <1>1, <1>3 DEF Basic, TypeOK
  <2>3. lost[s] < MaxThrows + Cardinality(Conns)
    <3>1. job[w] \in Conns \ Done
      BY <1>1 DEF Done
    <3>2. /\ Cardinality(Done) \in Nat /\ Cardinality(Conns) \in Nat
          /\ Cardinality(Done) < Cardinality(Conns)
      BY <3>1, DoneFinite
    <3>3. lost[s] <= MaxThrows + Cardinality(Done)
      BY DEF LostKept, Done
    <3>4. QED
      BY <2>2, <3>2, <3>3
  <2>4. StageUse(s)!Lose(w)
    BY <1>1, <2>1, <2>2, <2>3 DEF StageUse!Lose
  <2>5. QED
    BY <2>4 DEF Uses, StageUse!PoolUseNext, StageUse!ThreadStep
<1>4. QED
  BY <1>2, <1>3

LEMMA StageResized ==
  ASSUME Basic, NEW r \in Stages, NEW l \in Limits, Resize(r, l[1], l[2]), NEW s \in Stages
  PROVE  Uses(s)
<1>1. HeldIn(s)' = HeldIn(s) /\ lost' = lost /\ failed' = failed
  BY DEF Resize, placeVars, HeldIn
<1>2. CASE r # s
  BY <1>1, <1>2 DEF Resize, Basic, TypeOK, Uses
<1>3. CASE r = s
  <2>1. PICK f \in FreshAddrs(pools[s], Missing(pools[s], l[1])) :
          pools' = [pools EXCEPT ![s] = Resized(@, l[1], l[2], f)]
    BY <1>3 DEF Resize
  <2>2. pools'[s] = Resized(pools[s], l[1], l[2], f)
    BY <2>1 DEF Basic, TypeOK
  <2> DEFINE t == torn[s] \/ \E w \in Workers : HeldIn(s)[w] \in Destroyed(pools[s], l[1])
  <2>3. torn' = [torn EXCEPT ![s] = t]
    BY <1>3 DEF Resize
  <2> HIDE DEF t
  <2>4. torn'[s] = t
    BY <2>3 DEF Basic, TypeOK
  <2>5. StageUse(s)!UpdateLimits(l[1], l[2])
    BY <1>1, <2>1, <2>2, <2>4, StageResizes DEF StageUse!UpdateLimits, t
  <2>6. QED
    BY <2>5 DEF Uses, StageUse!PoolUseNext, StageUse!ThreadStep
<1>4. QED
  BY <1>2, <1>3

\* A constructor throws in acquire, or in updateLimits.
LEMMA StageThrows ==
  ASSUME Basic, NEW w \in Workers, AcquireThrows(w), NEW s \in Stages
  PROVE  Uses(s)
<1>1. /\ Local(w) /\ object'[w] = NoObject /\ object[w] = NoObject
      /\ lost' = lost /\ torn' = torn
  BY FailEnds, GivingUpFails, BasicGives
  DEF GivesUp, AcquireThrows, Fail, Ends, Basic, ObjectKept, Holding
<1>2. HeldIn(s)' = HeldIn(s) /\ HeldIn(s)[w] = NoObject
  BY <1>1, HeldSame DEF HeldIn
<1>3. CASE stage[w] # s
  BY <1>1, <1>2, <1>3 DEF AcquireThrows, ConstructorThrows, Basic, TypeOK, Uses
<1>4. CASE stage[w] = s
  <2>1. /\ CanGrow(pools[s]) /\ failed[s] < MaxFailed
        /\ pools'[s] = WithNullSlot(pools[s]) /\ failed'[s] = failed[s] + 1
    BY <1>4 DEF AcquireThrows, ConstructorThrows, Basic, TypeOK
  <2>2. StageUse(s)!AcquireThrows(w)
    BY <1>1, <1>2, <2>1, StageReads, StageTakes DEF StageUse!AcquireThrows
  <2>3. QED
    BY <2>2 DEF Uses, StageUse!PoolUseNext, StageUse!ThreadStep
<1>5. QED
  BY <1>3, <1>4

LEMMA StageResizeThrows ==
  ASSUME Basic, NEW r \in Stages, NEW l \in Limits, ResizeThrows(r, l[1], l[2]),
         NEW s \in Stages
  PROVE  Uses(s)
<1>1. HeldIn(s)' = HeldIn(s) /\ lost' = lost /\ torn' = torn
  BY DEF ResizeThrows, placeVars, HeldIn
<1>2. CASE r # s
  BY <1>1, <1>2 DEF ResizeThrows, ConstructorThrows, Basic, TypeOK, Uses
<1>3. CASE r = s
  <2>1. PICK made \in 0 .. Missing(pools[s], l[1]) - 1 :
        \E f \in FreshAddrs(pools[s], made) :
          pools' = [pools EXCEPT ![s] = ResizeThrown(@, made, l[2], f)]
    BY <1>3 DEF ResizeThrows
  <2>2. \E f \in FreshAddrs(pools[s], made) :
          pools'[s] = ResizeThrown(pools[s], made, l[2], f)
    BY <2>1 DEF Basic, TypeOK
  <2>3. failed[s] < MaxFailed /\ failed'[s] = failed[s] + 1
    BY <1>3 DEF ResizeThrows, ConstructorThrows, Basic, TypeOK
  <2>4. StageUse(s)!UpdateLimitsThrows(l[1], l[2])
    BY <1>1, <2>1, <2>2, <2>3, StageResizes DEF StageUse!UpdateLimitsThrows
  <2>5. QED
    BY <2>4 DEF Uses, StageUse!PoolUseNext
<1>4. QED
  BY <1>2, <1>3

LEMMA StageStep ==
  ASSUME Basic, LostKept, [Next]_vars, NEW s \in Stages
  PROVE  Uses(s)
<1>1. CASE /\ pools' = pools /\ lost' = lost /\ torn' = torn /\ failed' = failed
           /\ HeldIn(s)' = HeldIn(s)
  BY <1>1 DEF Uses
<1>2. ASSUME NEW w \in Workers, NEW c \in Conns, Begin(w, c)
      PROVE  Uses(s)
  <2>1. /\ Local(w) /\ object' = object /\ object[w] = NoObject
        /\ pools' = pools /\ lost' = lost /\ torn' = torn /\ failed' = failed
    BY <1>2, BeginBegins, BasicGives DEF Begin, Basic, ObjectKept, Holding
  <2>2. HeldIn(s)' = HeldIn(s)
    BY <2>1, HeldSame
  <2>3. QED
    BY <1>1, <2>1, <2>2
<1>3. ASSUME NEW w \in Workers, PoolExhausted(w)
      PROVE  Uses(s)
  <2>1. /\ Local(w) /\ object'[w] = NoObject /\ object[w] = NoObject
        /\ pools' = pools /\ lost' = lost /\ torn' = torn /\ failed' = failed
    BY <1>3, FailEnds, BasicGives
    DEF PoolExhausted, Fail, Ends, Basic, ObjectKept, Holding
  <2>2. HeldIn(s)' = HeldIn(s)
    BY <2>1, HeldSame
  <2>3. QED
    BY <1>1, <2>1, <2>2
<1>4. ASSUME NEW w \in Workers, Execute(w)
      PROVE  Uses(s)
  <2>1. UNCHANGED <<pools, stage, object, lost, torn, failed>>
    BY <1>4, ExecuteFrame, BasicGives DEF Basic
  <2>2. QED
    BY <1>1, <2>1 DEF HeldIn
<1>5. CASE UNCHANGED vars
  BY <1>1, <1>5 DEF vars, placeVars, HeldIn
<1>6. QED
  BY <1>2, <1>3, <1>4, <1>5, StageAcquires, StageReleases, StageLoses, StageThrows,
     StageResized, StageResizeThrows
  DEF Next, WorkerStep, Execute

-----------------------------------------------------------------------------
(***************************************************************************)
(* The theorems.                                                           *)
(***************************************************************************)
PipelineInv ==
  /\ Basic
  /\ PacketsKept
  /\ AnswerKept
  /\ PoolsKept
  /\ LostKept
  /\ Filtered
  /\ OwnAnswerUntilTorn
  /\ Settled

LEMMA PipelineInit == Init => PipelineInv
<1> SUFFICES ASSUME Init PROVE PipelineInv
  OBVIOUS
<1>1. TypeOK /\ Whole
  BY TypeInit
<1>2. /\ \A w \in Workers : job[w] = NoConn /\ phase[w] = "idle" /\ object[w] = NoObject
      /\ \A c \in Conns : /\ counted[c] = 0 /\ verdict[c] = "none" /\ reply[c] = "none"
                          /\ c \notin contacted /\ c \notin closed
  BY DEF Init
<1>3. Basic
  BY <1>1, <1>2 DEF Basic, JobsKept, ObjectKept, Holding, NotBegun, Fresh
<1>4. PacketsKept /\ AnswerKept
  BY <1>2 DEF PacketsKept, AnswerKept
<1>5. PoolsKept
  <2>1. PICK f \in [1 .. InitialSize -> Addr] :
          /\ \A i, j \in 1 .. InitialSize : f[i] = f[j] => i = j
          /\ pools = [s \in Stages |-> InitialPool(f, InitialSize, InitialMax)]
    BY DEF Init
  <2>2. \A s \in Stages : Distinct(pools[s])
    BY <2>1, InitialDistinct
  <2>3. \A s \in Stages : ExclusiveIn(s)
    BY <1>2 DEF ExclusiveIn, HoldersIn
  <2>4. QED
    BY <1>1, <2>2, <2>3 DEF PoolsKept, PoolKept, Whole
<1>6. LostKept
  <2>1. \A s \in Stages : lost[s] = 0
    BY DEF Init
  <2>2. QED
    BY <2>1, DoneFinite DEF LostKept, Done
<1>7. Filtered /\ OwnAnswerUntilTorn /\ Settled
  BY <1>2 DEF Filtered, OwnAnswerUntilTorn, Settled
<1>8. QED
  BY <1>3, <1>4, <1>5, <1>6, <1>7 DEF PipelineInv

LEMMA BasicStep ==
  ASSUME Basic, PoolsKept, [Next]_vars
  PROVE  Basic'
<1>1. TypeOK'
  BY TypeStep, BasicGives
<1>2. Whole'
  BY PoolsStep DEF PoolsKept, PoolKept, Whole
<1>3. QED
  BY <1>1, <1>2, JobsStep, ObjectStep, NotBegunStep DEF Basic

LEMMA PipelineStep ==
  ASSUME PipelineInv, [Next]_vars
  PROVE  PipelineInv'
<1>1. Basic' /\ PoolsKept'
  BY BasicStep, PoolsStep DEF PipelineInv
<1>2. NotBegun'
  BY <1>1 DEF Basic
<1>3. PacketsKept' /\ Filtered' /\ AnswerKept' /\ OwnAnswerUntilTorn' /\ LostKept'
  BY PacketsStep, FilteredStep, AnswerStep, OwnAnswerStep, LostStep DEF PipelineInv
<1>4. Settled'
  BY <1>2, SettledStep DEF PipelineInv
<1>5. QED
  BY <1>1, <1>3, <1>4 DEF PipelineInv

LEMMA PipelineAlways == Spec => []PipelineInv
<1>1. PipelineInv /\ UNCHANGED vars => PipelineInv'
  BY PipelineStep
<1>2. PipelineInv /\ Next => PipelineInv'
  BY PipelineStep
<1>3. QED
  BY <1>1, <1>2, PipelineInit, PTL DEF Spec

(***************************************************************************)
(* TypeOK: the state of workers, packets and pools has its type.           *)
(***************************************************************************)
THEOREM PipelineTypeCorrect == Spec => []TypeOK
<1>1. PipelineInv => TypeOK
  BY DEF PipelineInv, Basic
<1>2. QED
  BY <1>1, PipelineAlways, PTL

(***************************************************************************)
(* Filtered: no origin is contacted, and no client answered, against what  *)
(* accepter and resolver found out (processPacket, Forwarder::execute,     *)
(* Sender::execute).                                                       *)
(***************************************************************************)
THEOREM OnlyFiltered == Spec => []Filtered
<1>1. PipelineInv => Filtered
  BY DEF PipelineInv
<1>2. QED
  BY <1>1, PipelineAlways, PTL

(***************************************************************************)
(* Settled: every connection is decremented once, whether processPacket    *)
(* ends or throws, and left open only after a throw or a failed send.      *)
(***************************************************************************)
THEOREM SettledOnce == Spec => []Settled
<1>1. PipelineInv => Settled
  BY DEF PipelineInv
<1>2. QED
  BY <1>1, PipelineAlways, PTL

(***************************************************************************)
(* OwnAnswerUntilTorn: a client is answered by its own origin as long as   *)
(* no resize destroyed a Forwarder in use.                                 *)
(***************************************************************************)
THEOREM OwnAnswers == Spec => []OwnAnswerUntilTorn
<1>1. PipelineInv => OwnAnswerUntilTorn
  BY DEF PipelineInv
<1>2. QED
  BY <1>1, PipelineAlways, PTL

(***************************************************************************)
(* UsesEachPool: every step of processPacket and of updateLimits is, seen  *)
(* from the pool of any stage, a step of PoolUse or none at all.           *)
(***************************************************************************)
THEOREM PipelineUsesPools == Spec => UsesEachPool
<1>1. Init => \A s \in Stages : StageUse(s)!PoolUseInit
  <2> SUFFICES ASSUME Init, NEW s \in Stages PROVE StageUse(s)!PoolUseInit
    OBVIOUS
  <2>1. PICK f \in [1 .. InitialSize -> Addr] :
          /\ \A i, j \in 1 .. InitialSize : f[i] = f[j] => i = j
          /\ pools = [r \in Stages |-> InitialPool(f, InitialSize, InitialMax)]
    BY DEF Init
  <2>2. pools[s] = StageUse(s)!InitialPool(f, InitialSize, InitialMax)
    BY <2>1, Zenon DEF StageUse!InitialPool, InitialPool
  <2>3. HeldIn(s) = [w \in Workers |-> NoObject]
    BY DEF Init, HeldIn
  <2>4. lost[s] = 0 /\ torn[s] = FALSE /\ failed[s] = 0
    BY DEF Init
  <2>5. QED
    BY <2>1, <2>2, <2>3, <2>4 DEF StageUse!PoolUseInit
<1>2. ASSUME PipelineInv, [Next]_vars
      PROVE  [\A s \in Stages :
                [StageUse(s)!PoolUseNext]_<<pools[s], HeldIn(s), lost[s], torn[s],
                                            failed[s]>>]_vars
  BY <1>2, StageStep DEF PipelineInv, Uses
<1>3. QED
  BY <1>1, <1>2, PipelineAlways, PTL DEF Spec, UsesEachPool
(***************************************************************************)
(* ExclusiveUntilTorn of PoolUse holds of the pool of every stage: two     *)
(* workers never execute the same Accepter, Resolver, Forwarder or Sender, *)
(* and each finds its object marked when it gives it back, until a resize  *)
(* destroys an object of that stage in use (processPacket).  Only the null *)
(* pointer a failed Resolver leaves may be in several hands.               *)
(***************************************************************************)
THEOREM StagesExclusive == Spec => [](\A s \in Stages : StageUse(s)!ExclusiveUntilTorn)
<1>1. ASSUME PipelineInv, NEW s \in Stages PROVE StageUse(s)!ExclusiveUntilTorn
  <2>1. SUFFICES ASSUME ~torn[s] PROVE StageUse(s)!ExclusiveUntilTorn
    BY DEF StageUse!ExclusiveUntilTorn
  <2>2. ExclusiveIn(s)
    BY <1>1, <2>1 DEF PipelineInv, PoolsKept, PoolKept
  <2>3. ASSUME NEW w \in StageUse(s)!Holders
        PROVE  w \in HoldersIn(s) /\ HeldIn(s)[w] = object[w]
    BY <2>3 DEF StageUse!Holders, HeldIn, HoldersIn
  <2>4. \A v, w \in StageUse(s)!Holders :
          HeldIn(s)[v] = HeldIn(s)[w] /\ HeldIn(s)[v] # Null => v = w
    BY <2>2, <2>3 DEF ExclusiveIn
  <2>5. ASSUME NEW w \in StageUse(s)!Holders, HeldIn(s)[w] # Null
        PROVE  \E i \in DOMAIN pools[s].objects :
                  pools[s].objects[i].addr = HeldIn(s)[w] /\ pools[s].objects[i].inUse
    BY <2>2, <2>3, <2>5 DEF ExclusiveIn, InUse
  <2>6. QED
    BY <2>4, <2>5 DEF StageUse!ExclusiveUntilTorn
<1>2. PipelineInv => \A s \in Stages : StageUse(s)!ExclusiveUntilTorn
  BY <1>1
<1>3. QED
  BY <1>2, PipelineAlways, PTL
=============================================================================
