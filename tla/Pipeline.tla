------------------------------ MODULE Pipeline ------------------------------
(***************************************************************************)
(* Handler::processPacket: a worker takes a connection through the four    *)
(* stages accepter, resolver, forwarder, sender.  At each it acquires an   *)
(* object of the stage's pool, executes it and releases it.  Any of these  *)
(* may throw; the catch of processPacket then ends the processing and      *)
(* gives nothing back.  The pools may be resized at any moment: a pause    *)
(* does not wait for the packets in hand, and the scaling thread does not  *)
(* pause anybody.                                                          *)
(*                                                                         *)
(* The blacklist's verdict, the answer of VirusTotal, what the origin and  *)
(* the client's socket do are choices of the environment.  A Forwarder is  *)
(* the only pool object with a state that matters: its upstream socket.    *)
(*                                                                         *)
(* A Resolver's constructor throws when it gets no curl handle; the other  *)
(* constructors only initialise members.  The null pointer in the slot it  *)
(* leaves resolves like any other: execute is not virtual and reads no     *)
(* member.                                                                 *)
(***************************************************************************)
EXTENDS Pool, FiniteSets

CONSTANTS
  Workers, Conns,
  NoConn,      \* a worker without a connection, a forwarder without a socket
  NoObject,    \* a worker without a pool object
  InitialSize, InitialMax,   \* the pools' limits after the constructor
  Limits,      \* arguments <<initial, max>> of updateLimits
  MaxResizes,  \* bound: number of calls of updateLimits
  MaxThrows,   \* bound: number of exceptions thrown by execute
  MaxFailed    \* bound: number of constructors that throw

Stages == {"accepter", "resolver", "forwarder", "sender"}

ASSUME PipelineAssumption ==
  /\ IsFiniteSet(Workers) /\ IsFiniteSet(Conns)
  /\ NoConn \notin Conns /\ NoObject \notin Addr \cup {Null}
  /\ Conns \cap {"none", "empty", "blacklisted", "unresolved"} = {}
  /\ Limits \subseteq Nat \X Nat
  /\ InitialSize \in Nat /\ InitialMax \in Nat
  /\ MaxResizes \in Nat /\ MaxThrows \in Nat /\ MaxFailed \in Nat

VARIABLES
  pools,     \* the pool of each stage
  job,       \* the connection of each worker
  stage,     \* the stage each worker is in
  phase,     \* "idle", "acquire", "execute", "receive" or "release"
  object,    \* the pool object each worker holds
  flags,     \* isAccepted, isResolved, isForwarder of each worker's packet
  response,  \* the packet's response: "empty", or whose origin sent it
  upstream,  \* whose origin each Forwarder's socket is connected to
  closed,    \* connections whose socket was closed
  counted,   \* history: how often each connection was decremented
  verdict,   \* history: what accepter and resolver found out
  contacted, \* history: connections whose origin was contacted
  reply,     \* history: what each client was sent
  excused,   \* history: connections that ended by an exception or failed send
  lost,      \* history: objects of each pool not given back
  torn,      \* history: was an object of the pool destroyed in use
  failed,    \* history: number of constructors of each pool that threw
  resizes    \* history: number of calls of updateLimits

packetVars  == <<job, flags, response>>
placeVars   == <<stage, phase, object>>
clientVars  == <<closed, reply, excused>>
recordVars  == <<counted, verdict, contacted>>
vars == <<pools, packetVars, placeVars, upstream, clientVars, recordVars,
          lost, torn, failed, resizes>>

NewPacket == [accepted |-> FALSE, resolved |-> FALSE, forwarded |-> FALSE]

HeldIn(s) == [w \in Workers |-> IF stage[w] = s THEN object[w] ELSE NoObject]

TypeOK ==
  /\ pools \in [Stages -> PoolType]
  /\ job \in [Workers -> Conns \cup {NoConn}]
  /\ stage \in [Workers -> Stages]
  /\ phase \in [Workers -> {"idle", "acquire", "execute", "receive", "release"}]
  /\ object \in [Workers -> Addr \cup {Null, NoObject}]
  /\ flags \in [Workers -> [accepted : BOOLEAN, resolved : BOOLEAN,
                            forwarded : BOOLEAN]]
  /\ response \in [Workers -> Conns \cup {"empty"}]
  /\ upstream \in [Addr -> Conns \cup {NoConn}]
  /\ closed \subseteq Conns /\ contacted \subseteq Conns
  /\ excused \subseteq Conns
  /\ counted \in [Conns -> Nat]
  /\ verdict \in [Conns -> {"none", "blocked", "accepted", "denied", "cleared"}]
  /\ reply \in [Conns -> Conns \cup {"none", "empty", "blacklisted", "unresolved"}]
  /\ lost \in [Stages -> Nat]
  /\ torn \in [Stages -> BOOLEAN]
  /\ failed \in [Stages -> 0 .. MaxFailed]
  /\ resizes \in 0 .. MaxResizes

Init ==
  /\ \E f \in [1 .. InitialSize -> Addr] :
       /\ \A i, j \in 1 .. InitialSize : f[i] = f[j] => i = j
       /\ pools = [s \in Stages |-> InitialPool(f, InitialSize, InitialMax)]
  /\ job = [w \in Workers |-> NoConn]
  /\ stage = [w \in Workers |-> "accepter"]
  /\ phase = [w \in Workers |-> "idle"]
  /\ object = [w \in Workers |-> NoObject]
  /\ flags = [w \in Workers |-> NewPacket]
  /\ response = [w \in Workers |-> "empty"]
  /\ upstream = [a \in Addr |-> NoConn]
  /\ closed = {} /\ contacted = {} /\ excused = {}
  /\ counted = [c \in Conns |-> 0]
  /\ verdict = [c \in Conns |-> "none"]
  /\ reply = [c \in Conns |-> "none"]
  /\ lost = [s \in Stages |-> 0]
  /\ torn = [s \in Stages |-> FALSE]
  /\ failed = [s \in Stages |-> 0]
  /\ resizes = 0

Started == {job[w] : w \in Workers} \cup {c \in Conns : counted[c] > 0}

-----------------------------------------------------------------------------
(***************************************************************************)
(* The frame of processPacket.                                             *)
(***************************************************************************)
Begin(w, c) ==
  /\ phase[w] = "idle"
  /\ c \notin Started
  /\ job' = [job EXCEPT ![w] = c]
  /\ flags' = [flags EXCEPT ![w] = NewPacket]
  /\ response' = [response EXCEPT ![w] = "empty"]
  /\ stage' = [stage EXCEPT ![w] = "accepter"]
  /\ phase' = [phase EXCEPT ![w] = "acquire"]
  /\ UNCHANGED <<pools, object, upstream, clientVars, recordVars, lost, torn,
                 failed, resizes>>

\* The worker's processing is over: decrementActiveConnections.
Conclude(w) ==
  /\ counted' = [counted EXCEPT ![job[w]] = @ + 1]
  /\ phase' = [phase EXCEPT ![w] = "idle"]
  /\ job' = [job EXCEPT ![w] = NoConn]
  /\ object' = [object EXCEPT ![w] = NoObject]

\* The catch block.
Fail(w) ==
  /\ Conclude(w)
  /\ excused' = excused \cup {job[w]}
  /\ UNCHANGED <<stage, flags, response, closed, reply, verdict, contacted,
                 upstream, torn, resizes>>

\* Mutant: the worker keeps the object it has released.
AdvanceHolding(w) ==
  /\ stage' = [stage EXCEPT ![w] =
                 CASE @ = "accepter" -> "resolver"
                   [] @ = "resolver" -> "forwarder"
                   [] OTHER -> "sender"]
  /\ phase' = [phase EXCEPT ![w] = "acquire"]
  /\ UNCHANGED <<object, job, counted>>

Advance(w) ==
  /\ stage' = [stage EXCEPT ![w] =
                 CASE @ = "accepter" -> "resolver"
                   [] @ = "resolver" -> "forwarder"
                   [] OTHER -> "sender"]
  /\ phase' = [phase EXCEPT ![w] = "acquire"]
  /\ object' = [object EXCEPT ![w] = NoObject]
  /\ UNCHANGED <<job, counted>>

Holds(w, a) ==
  /\ object' = [object EXCEPT ![w] = a]
  /\ phase' = [phase EXCEPT ![w] = "execute"]
  /\ UNCHANGED <<packetVars, stage, clientVars, recordVars, lost, torn, failed,
                 resizes>>

AcquireFree(w) ==
  LET s == stage[w] IN
  /\ phase[w] = "acquire"
  /\ Free(pools[s]) # {}
  /\ pools' = [pools EXCEPT ![s] = TakeFirst(@)]
  /\ Holds(w, pools[s].objects[FirstFree(pools[s])].addr)
  /\ UNCHANGED upstream

AcquireNew(w) ==
  LET s == stage[w] IN
  /\ phase[w] = "acquire"
  /\ CanGrow(pools[s])
  /\ \E a \in Addr \ Live(pools[s]) :
       /\ pools' = [pools EXCEPT ![s] = TakeNew(@, a)]
       /\ Holds(w, a)
       /\ upstream' = IF s = "forwarder"
                      THEN [upstream EXCEPT ![a] = NoConn] ELSE upstream

PoolExhausted(w) ==
  /\ phase[w] = "acquire"
  /\ Exhausted(pools[stage[w]])
  /\ Fail(w)
  /\ UNCHANGED <<pools, lost, failed>>

\* The constructor of a Resolver throws, in acquire or in updateLimits.
ConstructorThrows(s) ==
  /\ s = "resolver"
  /\ failed[s] < MaxFailed
  /\ failed' = [failed EXCEPT ![s] = @ + 1]

AcquireThrows(w) ==
  LET s == stage[w] IN
  /\ phase[w] = "acquire"
  /\ CanGrow(pools[s])
  /\ ConstructorThrows(s)
  /\ pools' = [pools EXCEPT ![s] = WithNullSlot(@)]
  /\ Fail(w)
  /\ UNCHANGED lost

\* execute throws; a forwarder may have contacted the origin before.
ExecuteThrows(w) ==
  LET s == stage[w] IN
  /\ phase[w] \in {"execute", "receive"}
  /\ lost[s] < MaxThrows
  /\ lost' = [lost EXCEPT ![s] = @ + 1]
  /\ Fail(w)
  /\ UNCHANGED <<pools, failed>>

Release(w) ==
  LET s == stage[w] IN
  /\ phase[w] = "release"
  /\ object[w] \in Live(pools[s])
  /\ pools' = [pools EXCEPT ![s] = GiveBack(@, object[w])]
  /\ IF s = "sender" THEN Conclude(w) /\ UNCHANGED stage ELSE Advance(w)
  /\ UNCHANGED <<flags, response, upstream, clientVars, verdict, contacted,
                 lost, torn, failed, resizes>>

\* release throws "Object not found in pool".
ReleaseMissing(w) ==
  LET s == stage[w] IN
  /\ phase[w] = "release"
  /\ object[w] \notin Live(pools[s])
  /\ lost' = [lost EXCEPT ![s] = @ + 1]
  /\ Fail(w)
  /\ UNCHANGED <<pools, failed>>

-----------------------------------------------------------------------------
(***************************************************************************)
(* The stages.                                                             *)
(***************************************************************************)
Executes(w, s) ==
  /\ phase[w] = "execute"
  /\ stage[w] = s
  /\ UNCHANGED <<pools, job, stage, object, counted, lost, torn, failed, resizes>>

Then(w, next) == phase' = [phase EXCEPT ![w] = next]

\* Accepter::execute: the blacklist decides.
Accept(w) ==
  /\ Executes(w, "accepter")
  /\ \E allowed \in BOOLEAN :
       /\ flags' = [flags EXCEPT ![w].accepted = allowed]
       /\ verdict' = [verdict EXCEPT ![job[w]] =
                        IF allowed THEN "accepted" ELSE "blocked"]
  /\ Then(w, "release")
  /\ UNCHANGED <<response, upstream, clientVars, contacted>>

\* Mutant: the resolver asks about every host, and believes the answer.
ResolveAll(w) ==
  /\ Executes(w, "resolver")
  /\ \E clean \in BOOLEAN :
       /\ flags' = [flags EXCEPT ![w].resolved = clean]
       /\ UNCHANGED verdict
  /\ Then(w, "release")
  /\ UNCHANGED <<response, upstream, clientVars, contacted>>

\* Resolver::execute: a host the blacklist stopped stays unresolved; the
\* others are denied only by an answer that says malicious or suspicious.
\* No key, no answer and an answer that cannot be read all clear the host.
Resolve(w) ==
  /\ Executes(w, "resolver")
  /\ IF ~flags[w].accepted
     THEN /\ flags' = [flags EXCEPT ![w].resolved = FALSE]
          /\ UNCHANGED verdict
     ELSE \E answer \in {"disabled", "no keys", "failed", "unreadable",
                         "clean", "malicious"} :
            /\ flags' = [flags EXCEPT ![w].resolved = answer # "malicious"]
            /\ verdict' = [verdict EXCEPT ![job[w]] =
                             IF answer = "malicious" THEN "denied" ELSE "cleared"]
  /\ Then(w, "release")
  /\ UNCHANGED <<response, upstream, clientVars, contacted>>

\* Forwarder::execute up to connect, which replaces the object's socket.
SkipForwarding(w) ==
  /\ Executes(w, "forwarder")
  /\ ~flags[w].resolved
  /\ flags' = [flags EXCEPT ![w].forwarded = FALSE]
  /\ Then(w, "release")
  /\ UNCHANGED <<response, upstream, clientVars, verdict, contacted>>

Connect(w) ==
  /\ Executes(w, "forwarder")
  /\ flags[w].resolved
  /\ upstream' = [upstream EXCEPT ![object[w]] = job[w]]
  /\ contacted' = contacted \cup {job[w]}
  /\ Then(w, "receive")
  /\ UNCHANGED <<flags, response, clientVars, verdict>>

ConnectFails(w) ==
  /\ Executes(w, "forwarder")
  /\ flags[w].resolved
  /\ \E u \in {upstream[object[w]], NoConn} :   \* getaddrinfo fails before
       upstream' = [upstream EXCEPT ![object[w]] = u]
  /\ flags' = [flags EXCEPT ![w].resolved = FALSE, ![w].forwarded = FALSE]
  /\ Then(w, "release")
  /\ UNCHANGED <<response, clientVars, verdict, contacted>>

\* Mutant: a failed read is not told from a response.
ReceiveUnchecked(w) ==
  /\ phase[w] = "receive"
  /\ response' = [response EXCEPT ![w] = upstream[object[w]]]
  /\ flags' = [flags EXCEPT ![w].forwarded = TRUE]
  /\ Then(w, "release")
  /\ UNCHANGED <<pools, job, stage, object, counted, lost, torn, failed, resizes,
                 upstream, clientVars, verdict, contacted>>

\* receiveResponse reads whatever socket the object has by now: what that
\* origin sends, or nothing when the request was not sent, the origin closes
\* or is too slow, or the socket has been closed.
Received(w) == ({upstream[object[w]]} \ {NoConn}) \cup {"empty"}

Receive(w) ==
  /\ phase[w] = "receive"
  /\ \E r \in Received(w) : response' = [response EXCEPT ![w] = r]
  /\ flags' = [flags EXCEPT ![w].forwarded = TRUE]
  /\ Then(w, "release")
  /\ UNCHANGED <<pools, job, stage, object, counted, lost, torn, failed, resizes,
                 upstream, clientVars, verdict, contacted>>

\* A body that does not decompress is thrown away: the packet stays resolved
\* and its response empty.
Discard(w) ==
  /\ phase[w] = "receive"
  /\ upstream[object[w]] # NoConn
  /\ Then(w, "release")
  /\ UNCHANGED <<pools, job, flags, response, stage, object, counted, lost,
                 torn, failed, resizes, upstream, clientVars, verdict, contacted>>

\* Mutant: a refusal that cannot be sent leaves the socket open.
RefuseLeavingOpen(w) ==
  /\ Executes(w, "sender")
  /\ ~(flags[w].accepted /\ flags[w].resolved)
  /\ UNCHANGED <<reply, closed>>
  /\ Then(w, "release")
  /\ UNCHANGED <<flags, response, upstream, excused, verdict, contacted>>

\* Sender::execute: the two refusals close the socket even when send fails.
Refuse(w) ==
  /\ Executes(w, "sender")
  /\ ~(flags[w].accepted /\ flags[w].resolved)
  /\ \E sent \in BOOLEAN :
       reply' = [reply EXCEPT ![job[w]] =
                   CASE ~sent -> "none"
                     [] sent /\ ~flags[w].accepted -> "blacklisted"
                     [] OTHER -> "unresolved"]
  /\ closed' = closed \cup {job[w]}
  /\ Then(w, "release")
  /\ UNCHANGED <<flags, response, upstream, excused, verdict, contacted>>

Answer(w) ==
  /\ Executes(w, "sender")
  /\ flags[w].accepted /\ flags[w].resolved
  /\ reply' = [reply EXCEPT ![job[w]] = response[w]]
  /\ closed' = closed \cup {job[w]}
  /\ Then(w, "release")
  /\ UNCHANGED <<flags, response, upstream, excused, verdict, contacted>>

\* The answer is the branch that returns without closing when send fails.
AnswerFails(w) ==
  /\ Executes(w, "sender")
  /\ flags[w].accepted /\ flags[w].resolved
  /\ excused' = excused \cup {job[w]}
  /\ Then(w, "release")
  /\ UNCHANGED <<flags, response, upstream, closed, reply, verdict, contacted>>

-----------------------------------------------------------------------------
(***************************************************************************)
(* updateLimits on the pool of a stage; destroying a Forwarder closes its  *)
(* socket, a new one has none.                                             *)
(***************************************************************************)
Resize(s, initial, max) ==
  /\ resizes < MaxResizes
  /\ resizes' = resizes + 1
  /\ \E f \in FreshAddrs(pools[s], Missing(pools[s], initial)) :
       pools' = [pools EXCEPT ![s] = Resized(@, initial, max, f)]
  /\ torn' = [torn EXCEPT ![s] =
                @ \/ \E w \in Workers : HeldIn(s)[w] \in Destroyed(pools[s], initial)]
  /\ upstream' = IF s # "forwarder" THEN upstream
                 ELSE [a \in Addr |-> IF \/ a \in Destroyed(pools[s], initial)
                                         \/ a \in Live(pools'[s]) \ Live(pools[s])
                                      THEN NoConn ELSE upstream[a]]
  /\ UNCHANGED <<packetVars, placeVars, clientVars, recordVars, lost, failed>>

ResizeThrows(s, initial, max) ==
  /\ resizes < MaxResizes
  /\ resizes' = resizes + 1
  /\ ConstructorThrows(s)
  /\ \E made \in 0 .. Missing(pools[s], initial) - 1 :
     \E f \in FreshAddrs(pools[s], made) :
       pools' = [pools EXCEPT ![s] = ResizeThrown(@, made, max, f)]
  /\ UNCHANGED <<packetVars, placeVars, upstream, clientVars, recordVars, lost,
                 torn>>

WorkerStep(w) ==
  \/ AcquireFree(w) \/ AcquireNew(w) \/ AcquireThrows(w) \/ PoolExhausted(w)
  \/ Accept(w) \/ Resolve(w)
  \/ SkipForwarding(w) \/ Connect(w) \/ ConnectFails(w) \/ Receive(w)
  \/ Discard(w)
  \/ Refuse(w) \/ Answer(w) \/ AnswerFails(w)
  \/ Release(w) \/ ReleaseMissing(w)

Next ==
  \/ \E w \in Workers : \/ \E c \in Conns : Begin(w, c)
                        \/ WorkerStep(w)
                        \/ ExecuteThrows(w)
  \/ \E s \in Stages, l \in Limits :
       Resize(s, l[1], l[2]) \/ ResizeThrows(s, l[1], l[2])

Spec == Init /\ [][Next]_vars

-----------------------------------------------------------------------------
(***************************************************************************)
(* Filtering holds end to end: the origin of a connection is contacted     *)
(* only when the blacklist accepted and the resolver cleared its host, and *)
(* what the client is sent is what its verdict calls for.                  *)
(***************************************************************************)
Filtered ==
  \A c \in Conns :
    /\ c \in contacted => verdict[c] = "cleared"
    /\ reply[c] = "blacklisted" => verdict[c] = "blocked"
    /\ reply[c] = "unresolved" => verdict[c] \in {"denied", "cleared"}
    /\ reply[c] \in Conns \cup {"empty"} => verdict[c] = "cleared" /\ c \in contacted

(***************************************************************************)
(* Nobody reads another client's page: as long as no Forwarder was         *)
(* destroyed while in use, a client that is answered is answered with what *)
(* its own origin sent.                                                    *)
(***************************************************************************)
OwnAnswerUntilTorn ==
  ~torn["forwarder"] => \A c, d \in Conns : reply[c] = d => c = d

(***************************************************************************)
(* Every path through processPacket decrements the connection exactly      *)
(* once, and one that leaves the client's socket open has thrown or failed *)
(* to send the answer.                                                     *)
(***************************************************************************)
Settled ==
  \A c \in Conns :
    /\ counted[c] <= 1
    /\ counted[c] = 1 => /\ c \notin {job[w] : w \in Workers}
                         /\ c \in closed \cup excused
    /\ counted[c] = 0 /\ c \in closed => c \in {job[w] : w \in Workers}

(***************************************************************************)
(* Seen from one pool, the workers are threads that use it as in PoolUse.  *)
(***************************************************************************)
StageUse(s) == INSTANCE PoolUse WITH
  Threads <- Workers, pool <- pools[s], held <- HeldIn(s), lost <- lost[s],
  torn <- torn[s], failed <- failed[s],
  MaxLost <- MaxThrows + Cardinality(Conns)

UsesEachPool ==
  /\ \A s \in Stages : StageUse(s)!PoolUseInit
  /\ [][\A s \in Stages :
          [StageUse(s)!PoolUseNext]_<<pools[s], HeldIn(s), lost[s], torn[s],
                                      failed[s]>>]_vars
=============================================================================
