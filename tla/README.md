# A TLA+ verification of Argonet

Argonet is a filtering HTTP proxy in C++. It accepts connections, lets a fixed set of worker threads take each
one through four stages (accepter, resolver, forwarder, sender), and is configured through a small web
interface while it runs. These modules model the parts of it that are hard to test: the threads around the
work queue, the object pools that are resized under their users, the scaling thread, the pipeline, the
exchange with the origin, the lookups at VirusTotal, the blacklist that is reloaded while it is used, and the
web interface with the configuration file and its backup.

`tlc -config X.cfg MCmodule.tla` repeats a run, `tlapm XProofs.tla` the proofs of one of the eight modules
named `...Proofs`. Every invariant and every action property that a run checks is also proved there, for any
value of the constants; liveness is left to the runs. `PROJECT.json` lists the runs, the definitions with the
source lines they model, the mutated definitions that each property detects, and the hazards the properties
are aimed at.

## 1. Inventory

Paths are relative to the repository.

| component | state | operations | talks to |
|---|---|---|---|
| Server (`src/Server.cpp`) | `running`, `m_active_connections`, the Handler | constructor, `start` (accept loop), `stop`, `updateConfiguration` | pushes packets to Handler; reloads Blacklist, APIKeyManager, pools |
| Handler (`src/Handler.cpp`) | `m_work_queue`, `m_queue_mutex`, `m_queue_cv`, `m_running`, `m_paused`, four pools | `handlePacket`, `workerThread`, `pauseProcessing`, `resumeProcessing`, `updatePoolConfiguration`, `start`, `stop` | called by the accept loop and by the web thread |
| Pool (`include/Pool.hpp`) | objects with `in_use`, three counters, `m_max_size` | `acquire`, `release`, `updateLimits` | called by workers, web thread, scaling thread |
| Scaling (`include/Handler.hpp`) | queue, time and throughput metrics | `updatePoolSize` every five seconds | reads queue and pools, calls `updateLimits` |
| Accepter, Resolver, Sender | none | `execute` | Blacklist, APIKeyManager, VirusTotal, the client |
| Forwarder (`src/Sockets/Forwarder.cpp`) | its upstream socket, kept between uses | `execute`, `connect`, `receiveResponse`, `decompressGzip` | the origin |
| Blacklist (`include/Blacklist.hpp`) | `m_enabled`, `m_patterns`, `m_cache`; no lock | `isAllowed`, `loadFromConfig` | called by workers, reloaded by the web thread |
| APIKeyManager | keys and a flag, locked | `loadFromConfig`, `getKeys`, `isEnabled` | Resolver |
| Api, VirustotalAPI | request times, key index, one object per lookup | `waitForRateLimit`, `getNextKey`, `fetchUsingKey`, `parseResponse` | Resolver, VirusTotal |
| Configuration file (`src/Command.cpp`) | `configuration.json` and its `.bak` | `updateConfigurationFile`, `validateConfigurationFile`, `readConfigurationFile` | WebServer, Server, start-up |
| WebServer (`src/Web/WebServer.cpp`) | `m_running`, `m_sessions`, its thread | `start`, `stop`, `handleRequest` and its six routes | Command, Server |
| main | the order of the two servers | start, unwinding | WebServer, Server |
| Socket, Packet, Logger, database functions | descriptors; packet flags | | |

The hard behaviours, and what makes each component correct:

* **Handler.** Three kinds of threads meet at one condition variable, whose predicate reads two flags nobody
  changes under its mutex, and a worker may go on with a packet that was never assigned, whose descriptor may
  by chance be a live connection's. Correct means: no wakeup is lost between `handlePacket` and a worker,
  every accepted connection is processed once and by one worker, the number of active connections is right, a
  pause ends, nobody processes while the pools are resized, and `stop` joins. Of these only the first holds
  without reservation; the second and third hold until the first update.
* **Pool.** `updateLimits` destroys objects that are in use, and an allocator may give a new object an old
  address, so that a late `release` frees somebody else's object. A slot is appended before the constructor of
  its object runs, which may throw. Correct means: counters keep their meaning, exclusive use, no exhaustion
  while there is room.
* **Scaling.** Stale reads, floating-point quotients by zero, a size passed where a limit is meant, and a
  start-up file that nobody validates. Correct means: limits are respected and capacity is not lost.
* **Pipeline.** Nothing is given back when a stage throws; a Forwarder is reused with its old socket. Correct
  means: filtering end to end, one's own answer, each connection settled once.
* **Blacklist.** Unsynchronised lookups and reloads. Correct means: cached and returned verdicts are those of
  the list.
* **Configuration.** Several file operations and four loads, each of which may fail, half way too, crashes
  between them, and a scaling thread that changes the pools at any time. Correct means: the old or the new
  copy survives whole, success is complete, an error changes nothing (which is false).
* **Exchange.** A response comes in pieces cut anywhere, from an origin that may stop at any moment, with a
  length that may be missing, wrong, or spelled otherwise than the code looks for. Correct means: the client
  gets the page whole unless the transfer was cut, it can tell how long it is, and no response keeps a worker.
* **VirusTotal.** Flag and keys are read apart, a failed load leaves half of them, the start accepts a list
  without keys, error replies are no records and records may have gaps. Correct means: verdicts come from
  records, hosts go unasked only when VirusTotal is off.
* **Web interface and main.** One thread for all clients, with blocking calls; sessions in memory; main joins
  that thread when the proxy cannot start. Correct means: updates are not cut by an orderly end, only a
  session changes the files, the join ends.

`PROJECT.json` lists 40 such hazards with the line where each bites and the properties about it.

## 2. Modules

| module | models | state and actions against the code |
|---|---|---|
| `Handler` | accept loop, work queue, workers, pause and resume, start-up failure | `pc[w]` is the position in `workerThread`; "waiting" is the condition variable. `Evaluate` locks and tests the predicate, `Block` releases and sleeps, `Return`/`Pop`/`PopNothing` are the three ways out of the locked block, `Dispatch`/`Drop` the second look at `m_paused`; `Disturb` is what a worker does to a connection it has not popped, through a descriptor that was never assigned or that another worker has closed. `Recycle` frees a name for a later client. `ReadQueueEnd`/`CompareQueueBegin` are the two halves of the unlocked `empty()` |
| `Service` | the abstract promise: one line, one service per client, losses only in maintenance, no client's service in another's connection before the first one | `Handler` implements it with line <- queue, serving <- packets in hand, maintenance <- `m_paused`, changed <- an update has begun |
| `Pool` | the operators of `Pool.hpp` on a record | every call holds `m_mutex` throughout, so each is one step of its caller; `WithNullSlot` and `ResizeThrown` are what a constructor that throws leaves behind |
| `PoolUse` | threads that use one pool, and resizes at any moment | `AcquireFree`, `AcquireNew`, `AcquireThrows`, `Release`, `Lose` (the catch of `processPacket`), `UpdateLimits`, `UpdateLimitsThrows`; the abstract specification for `Scaling` and `Pipeline` |
| `Scaling` | `updatePoolSize` beside users and operator | `StartUp` applies the file as the constructor of Handler does; `ReadSize`, `ReadMax`, then `ScaleUp`/`ScaleDown`/`LeaveAlone` on the values read; implements `PoolUse` |
| `Pipeline` | `processPacket` with the four stages and pools | `phase[w]` is acquire, execute, (receive,) release; a stage is an action per branch of `execute`; instantiates `PoolUse` once per stage |
| `Blacklist` | `isAllowed` against `loadFromConfig` | one action per step another thread can tell apart; a race gives any value it can give |
| `ConfigFile` | request, backup, write, read-back, restore, loads, crash, start | one action per file operation and loader; `call` is 1 for the write by `WebServer`, 2 for the second write by `Server`; `ConfigurePoolsFails` leaves the pools half resized, `ScalePools` is the scaling thread |
| `Web` | `main`, `WebServer::start`/`stop`, the thread of the interface and its routes | extends `ConfigFile` and lets its actions run only from the web thread, for an update in a session; `main` walks web, listen, serving or joining. Implements `ConfigFile` |
| `Exchange` | one Forwarder and its origins | `OriginSends`/`OriginEnds` are the environment; `RecvHead` and `RecvBody` are one turn of the loop before and after the head is complete, `RecvEnds` the `recv` that returns no bytes, `Deliver` the rest of `execute` |
| `VirusTotal` | Resolver, APIKeyManager, Api and VirustotalAPI | `ReadEnabled`, `ReadKeys`, `Send`, then `RequestFails`, `Answer` by the service or `AnswerInstead` by something on the way to it, then `Parse` or `Abort`; `Reload` is `loadFromConfig`, in one step because it holds the manager's mutex |
| `MC...` | instances for TLC | model values, small loads, limits and lists, symmetry |
| `HandlerProofs`, `PoolProofs`, `PoolUseProofs`, `PipelineProofs`, `WebProofs`, `ExchangeProofs`, `VirusTotalProofs`, `BlacklistProofs` | theorems; `PoolUseProofs` is about `PoolUse` and `Scaling`, `WebProofs` about `ConfigFile` and `Web` | section 5 |

Definitions marked "Mutant" are wrong versions of the definition that follows them. No specification uses
them: each shows that some property would notice that mistake in the code.

How the data is abstracted: a packet is its connection; a configuration is a value that is valid or not and
loadable or not; a pattern is the set of hosts it matches; an address is a model value, reused freely;
`m_available_count` is an integer, because the code only uses its difference from `m_total_count`;
`m_active_connections` keeps its width (`CountMod` values, 8 in the runs, 2^64 in the code). The brief locks
of the metrics at the end of `processPacket` change nothing any other module reads and are not steps. A size
has `Word` values (6 in the runs, 2^64 in the code), which matters once failed constructions have taken
`m_total_count` below zero. A response is the lengths of its head and body, the length a client reads in it,
the lengths the receive loop may find in it, and the same twice over for gzip: what the body is, and whether
`execute` finds the header that says so. A host is what VirusTotal's record says of it, gaps and odd fields
included; the service grants each key a number of requests a minute.

Where the code is undefined, the model has the outcomes the build can produce. The descriptor of a made-up
packet (`Garbage`) may be any accepted connection, or none; so may one that another worker has closed through
such a packet (`Loose`), from then on. The data races of the blacklist give any value a race can give.
A null pointer instead of a Resolver works like any other: `Resolver::execute` is not virtual and reads no
member of its object.

## 3. Runs

| run | question | answer |
|---|---|---|
| `Handler_service` | are wakeups lost, packets duplicated, what needs a pause; is the queue served, does a pause end, does `stop` join, do the threads implement `Service`? | no wakeup is lost, everything that goes wrong needs a pause; the liveness holds except with all workers gone or inside `processPacket` for ever, for the pause also with clients that never stop coming, for the join with a worker caught between predicate and wait |
| `Handler_ProcessingCompleteWhenResizing` | is nothing processed during a resize? | violated |
| `Handler_ProcessingResumes` | does somebody serve the queue after an update? | violated |
| `Scaling_safety` | counters, exclusive use and room in a pool; limits, capacity, who raises the limit; refinement of `PoolUse` | hold, exclusive use until an object in use is destroyed, limits but for the start-up file, the two objects of scaling and constructors that threw |
| `Scaling_ScaleUpScalesUp` | does scaling up in an emergency scale up? | violated |
| `Pipeline_safety` | filtering, own answers, settling; use of each pool | hold, own answers until a Forwarder in use is destroyed |
| `Web_safety` | does the old or the new configuration survive, is success complete, who changes the files, does main end; refinement of `ConfigFile` | yes, with at most one failed operation; a success includes the pools until the scaling thread changes them; the join waits only for clients and for the pause |
| `ConfigFile_ErrorMeansNotUpdated` | does an error leave the file alone? | violated |
| `Blacklist_safety` | are verdicts right, is a failed reload a prefix? | yes, for lookups that overlap no reload |
| `Blacklist_ListedHostsBlocked` | is a listed host blocked after a reload? | violated |
| `Exchange_service` | is a page delivered whole, with a length that fits, and does every exchange end? | yes, except after a cut or with a length that is missing, short or not found; every response that has an end; a decompressed page has no length |
| `VirusTotal_safety` | where do verdicts come from, what does a reload do to a lookup, what kills the process? | from records; nothing unless it failed; an error reply or a record with a gap |

The violated ones state what a comment or a message of the code says; `PROJECT.json` quotes it.

**Bounds.** *Handler*: two workers and two connections at a time, so that one can be in hand while the other
is queued, or both in hand, or one in the hands of a worker that disturbs the other; `Recycle` reuses their
names, so that clients keep coming; one update, which is enough for every loss, made-up packet and departure
of a worker, and which a second one would repeat with fewer workers; `CountMod` 5, one more than workers and
connections, so that the counter wraps. *Scaling*, and with it `PoolUse`: two threads and four addresses, as
many as the largest pool has objects, so that a smaller one can reuse an address or not; loads on both sides
of each threshold, 0/0 and n/0 included; one lost object, and one constructor that throws, after which slots
and count differ; `Word` 6, one more than the slots there can be; start-up files with the initial size below
the limit and above it; the operator's limits include 0 and 1, and resizes are not bounded. *Pipeline*: two
workers and two connections suffice for one client to get what belongs to the other; one resize destroys an
object in use and leaves the pool empty or free to grow again, one exception leaks an object, one constructor
that throws leaves a null slot. *Web*: two good configurations, one of them the default, two invalid ones of
which the start accepts one, one with a bad pattern, one with a bad key; two failures, so that the claims for
at most one are not vacuous, and one crash, since after it everything in memory comes from the file again;
failed starts and orderly ends are not bounded. *Exchange*: pieces of at most 3 bytes, heads of 1, 2 and 4
bytes and bodies of 0 to 5, so that head and body come in one piece or several and end inside, before or at
the end of one; declared lengths of 0, the right one, shorter and longer; lengths the loop does not find or
finds elsewhere; one exchange follows another without bound. *VirusTotal*: two workers, two keys with a quota
of one request, so that the first is refused while the second would not be; one reload, since a lookup reads
the flag once and the keys once; starts with keys and without. *Blacklist*: two workers, two hosts, five lists
of up to three patterns, two reloads. None of these bounds limits what is said of safety: the theorems of
section 5 hold without them.

**Symmetry** is used for workers, connections, hosts and addresses, and only in runs without liveness.
**Deadlock** is not checked where the system may stop: Handler (stopped, or left without workers when no
client comes and no update), Pipeline (finitely many clients), ConfigFile and Web (a process that failed to
start has ended) and VirusTotal (a process that aborted has). It is checked in all other runs.

**Fairness.** Always weak, and only of the program's own threads, for steps that do not wait for anybody
outside the program: each stays enabled until it is taken or until somebody else holds a mutex for a few
instructions. `Handler!Fairness`: every worker's steps around the queue (`WorkerStep`), the push and
notification of the accept loop, drain and resume of the web thread, notify and join in `stop`. The end of
`processPacket` is not among them: the read of `Accepter`, the sends of `Sender` and the request to VirusTotal
have no timeout, and an origin may send for ever. So `QueueServed` and `PauseEnds` except the case that from
some moment on every worker has returned or stays inside `processPacket`, and `PauseEnds` the one that clients
never stop coming, in which the drain loop need never see the queue empty. `FairWebSpec`: main and the web
thread, except where it waits for a client (`Accept`, the read) or for the pause (`PoolStep`, whose end is the
subject of `PauseEnds`). `Exchange!FairSpec`: the worker, whose `recv` returns with what is there or after the
five seconds that `setSocketTimeout` asks for; a response has an end, but nothing is assumed about when the
origin sends it. Nothing is owed to spurious wakeups, new clients, updates, or data on a descriptor that was
never assigned.

## 4. Findings

Five, each a run. A worker that is awake when a pause finds the queue empty returns for good (those asleep in
the wait stay), so that an update may leave nobody. A pause does not wait for packets in hand. A scale-up in
an emergency takes a pool of three objects with a limit of four to two objects, because the new size is passed as
the limit and the constructor's two as the size. A lookup that overlaps a reload scans the emptied list and stores that the listed host is
allowed, in the cache of the new list. And an update that is reported as failed has replaced the file, from
which the proxy then cannot start.

Other weaknesses are built into the properties that hold instead, or into the actions:

* Packets popped during a pause are dropped and the number of active connections is wrong from then on
  (`SoundUntilFirstUpdate` speaks of the time before the first update, `Service` allows losses in
  maintenance); a pause that finds no worker left never ends (`PauseEnds` excepts it).
* A worker whose wait was ended by a pause that is over goes on with a packet that was never assigned
  (`PopNothing`). Its descriptor is usually the one of the worker's last client, which the kernel gives to the
  next: the worker reads, answers and closes a connection that another one serves (`Disturb`).
* The scaling thread asks for two objects under any limit (`WithinLimits` excepts two). It trusts the size it
  finds, so that a start-up file with an initial size above its limit has the limit raised
  (`OnlyOperatorsRaise` excepts it).
* A constructor that throws leaves a slot without an object, which is not counted and is handed out as a null
  pointer (`Ledger` counts them). In the scaling thread, and in the constructor of Handler, nobody catches the
  exception.
* An error reply of VirusTotal, such as the one for a key whose quota is used up, aborts the process
  (`Abort`): `parseResponse` reads the missing member `data` of a const object, which is an assertion in the
  JSON library; so is a record that lacks its attributes, one of the statistics or of the votes. The limit of
  four requests a minute is counted in an object that makes one request, which always takes the first key
  (`AskedAsConfigured`), and whether that request is a GET depends on a member that is never assigned.
* A malicious host whose record has one unexpected field is allowed (`ReplyDecides` excepts `odd`); a load of
  keys that fails, or a start without keys, leaves hosts unasked (`UnaskedOnlyIfOffOrKeyless`).
* A request to the web interface without a member its handler reads aborts the process the same way
  (`Aborted`), also when its body merely comes in a second segment.
* A decompressed page has its new length inside the last header, and two bytes in front of its body
  (`Inflated`). A page without a length, or with one in a spelling `receiveResponse` does not look for, is
  delivered as far as it came with its head, in the second case with a header that promises the client more
  (`LengthIsThere` excepts it); a page that came in one piece with its head waits five seconds
  (`WaitsInVainOnlyForLumps`).
* `Server::start` returns only by an exception, so that `wait`, and the `stop` after it, are never reached;
  the unwinding of main joins the web thread, which a client has to wake (`JoinEnds`).

## 5. Proofs

Every theorem is about the specification the run uses, with its constants left open: any number of threads,
connections, hosts, objects, configurations, failures, crashes and updates. Each follows one argument. A
property is seldom inductive, so an invariant says in addition what each program counter guarantees; a lemma
per action shows that the action keeps it; the theorem puts these together.

| module | theorem | property |
|---|---|---|
| `HandlerProofs` | `TypeCorrect`, `NoPacketStranded`, `PacketsOnce`, `SoundBeforeUpdates` | `TypeOK`, `NoStrandedPacket`, `EachPacketOnce`, `SoundUntilFirstUpdate` |
| | `HandlerImplementsService` | `ImplementsService` |
| `PoolUseProofs` | `PoolTypeCorrect`, `LedgerKept`, `ExclusiveUse`, `NeverExhausted` | `PoolUseTypeOK`, `Ledger`, `ExclusiveUntilTorn`, `RoomForEveryThread` of `PoolUse` |
| | `ScalingWithinLimits`, `OnlyOperatorsDo`, `ScaledPoolSound`, `ScalingUsesPool` | `WithinLimits`, `OnlyOperatorsRaise`, the four above under `Scaling`, `ImplementsPoolUse` |
| `PipelineProofs` | `PipelineTypeCorrect`, `OnlyFiltered`, `SettledOnce`, `OwnAnswers`, `PipelineUsesPools` | `TypeOK`, `Filtered`, `Settled`, `OwnAnswerUntilTorn`, `UsesEachPool` |
| | `StagesExclusive` | `ExclusiveUntilTorn` of `PoolUse`, for the pool of each stage |
| `WebProofs` | `WebTypeCorrect`, `UpdateAllOrNothing`, `SuccessIsSuccess`, `FilesNeedSession`, `WebImplementsConfigFile` | `WebTypeOK`, `OldOrNew`, `SuccessIsComplete`, `FilesChangeInSession`, `ImplementsConfigFile` |
| `ExchangeProofs` | `ExchangeTypeCorrect`, `DeclaredArrivesWhole`, `CodedNeverPartial`, `LengthHonest`, `OnlyLumpsWait` | `TypeOK`, `ShortOnlyIfCut`, `CodedWholeOrNothing`, `LengthIsThere`, `WaitsInVainOnlyForLumps` |
| `VirusTotalProofs` | `VirusTotalTypeCorrect`, `VerdictFollowsReply`, `UnaskedExplained`, `RequestsAsConfigured` | `TypeOK`, `ReplyDecides`, `UnaskedOnlyIfOffOrKeyless`, `AskedAsConfigured` |
| `BlacklistProofs` | `BlacklistTypeCorrect`, `CacheRight`, `VerdictRight`, `ListFromFile` | `TypeOK`, `CacheRightUnlessOverlapped`, `VerdictRightUnlessOverlapped`, `ListIsPrefixOfFile` |

* **Handler.** `IInv` is `TypeOK`; `MutexHeld` (a worker whose pc is inside the locked block owns the mutex,
  so nobody can push between its test of the predicate and its going to sleep); `HandsFilled` (who has a
  packet, by pc); and `NoStrandedPacket` itself. Without `MutexHeld` the property is not inductive: a worker
  about to block on an empty queue would be overtaken by a push and its notification. `EachPacketOnce` needs
  `HandsFilled`, because a worker takes a new packet only with empty hands. `SoundUntilFirstUpdate` needs
  both, and that before the first update nothing is paused (`Unpaused`) and a worker that has passed the
  predicate still finds a packet (`GuardSeesWork`), so that `PopNothing` and `Drop` cannot happen. Its second
  half counts: an accepted connection moves from the queue to a hand and stays in the set counted
  (`PushMoves`, `PopMoves`), and the end of a packet takes one from that set and adds a worker that owes the
  decrement. Until the first update no worker holds a made-up packet and no connection is disturbed, so that
  `Disturb` cannot happen; afterwards the packets still are in one place each, but their connections may be
  used by others, and neither the properties nor the service say otherwise. The refinement maps `Accept` and
  `PopNothing` to a stutter, `Push` to `Arrive`, `Pop` to `Take`, `Finish` to `Complete`, `Drop` to `Lose` (of
  a made-up packet, to a stutter), `Disturb` to `Disturb`, `Recycle` to `Leave`, `Pause` and `Resume` to
  `Maintain`; that `Disturb` comes only after a change is `SoundUntilFirstUpdate`, which the proof uses.
* **Pool and PoolUse.** `PoolProofs` says of each operation of `Pool` what it does to each field and to the
  objects in use; the other two modules cite it. `Booked` (type and ledger) is inductive on its own: a
  constructor that throws adds a slot and no count. `ExclusiveUse` needs `Owned`: besides both, no two objects
  have the same address. A free object can be handed out because every thread's object is marked and has
  another address; a resize that destroys nothing in use keeps both; null pointers, which several threads may
  hold, have no address. `NeverExhausted` needs `Roomy`: the marked objects that are in nobody's hands are no
  more than the lost ones, and slots without an object no more than the constructors that threw. If all
  objects of a full pool are marked, they are these and the ones in hands, which are fewer than the threads as
  long as one of them is asking.
* **Scaling.** Every step is a step of `PoolUse` with limits that are values of a `size_t` (`Sizes`), so
  `Roomy` carries over. What is new is `Ranges` (the values read earlier, however stale, are such values too)
  and `FreshKept` (if no update came between, the limit read is still the pool's, and the size read is no
  larger than what the pool may have, the start-up file's size included); together they give `WithinLimits`
  and `OnlyOperatorsRaise`.
* **Pipeline.** `PipelineInv` adds to the properties: one worker to a connection and none counted while
  somebody works on it (`JobsKept`); an object in hand exactly from acquire to release (`ObjectKept`); a
  connection nobody has begun has no history (`NotBegun`); what stage and phase say of the packet
  (`PacketsKept`: resolved only if allowed, an answer only after the forwarder); until a Forwarder in use is
  destroyed, a worker that receives does so from its own origin and has no other's answer (`AnswerKept`); and,
  per pool, different addresses, objects counted, exclusive use among the workers of that stage until one in
  use is destroyed, and slots without an object among the Resolvers only (`PoolsKept`), and a bound on what is
  lost (`LostKept`). The facts about pools give `OwnAnswerUntilTorn`, and let each step be seen from one stage
  as a step of `PoolUse` or a stutter.
* **ConfigFile and Web.** `UpdateInv` says per step of an update what file and backup hold (`StagesKept`),
  what has been loaded from them (`LoadsKept`) and, with at most one failure so far, which of the two is whole
  (`CopiesKept`). `OldOrNew` alone is not inductive: after the write it is the backup that carries it, which
  the property does not mention. That the pools are complete at a success is a fact about its last step, and
  survives until the next request because only the scaling thread touches them then. `WebInv` adds that the
  thread is in an update only once somebody has logged in, and runs only while main does (`ThreadKept`). The
  refinement of `ConfigFile` is the identity on its variables.
* **Exchange.** `LoopKept` says what the loop knows before and after the head is complete, and that a body
  which is all there came in one piece with its head; `EndKept` why the loop ended, and that the length it
  went by is one the response lets it find; `AnswerKept` what the client was given. Pieces, heads and bodies
  are of any length.
* **VirusTotal.** A history variable holds every setting of the manager during a lookup. `UnderWay` says that
  what a lookup has read was in it at the time, though it may have been loaded again since; `Decided` how each
  verdict came about; `DiedOfGap` what killed the process; `LoadKept` that only a load that failed, or the
  start, leaves no keys.
* **Blacklist.** `Undisturbed` is what is true of a lookup that has overlapped no reload: one list, no growing
  vector under its scan, a verdict that is right when it is stored. `CacheKept` says that from the moment a
  reload has cleared the cache, only overlapped lookups fill it until the reload ends.

The assumptions are the named ones of the modules, which TLC evaluates in the runs: constants that differ from
each other and bounds that are numbers; finitely many threads (`PoolUseAssumption`, `PipelineAssumption`) and
connections; the pairs the operator sets with the initial size not above the limit (`ScalingAssumption`: the
validation of a request refuses others), those of the start-up file being any; a list of keys in a request
that is not empty unless it is malformed (`VirusTotalAssumption`, for the same reason), those at the start
being any; fewer constructors that throw than a `size_t` has values; fewer connections and workers than
`m_active_connections` has values (`CountAssumption`, needed only for `SoundUntilFirstUpdate` and what rests
on it).

Only model-checked: the liveness properties `QueueServed`, `PauseEnds`, `StopJoins`, `JoinEnds` and
`ExchangeEnds`, because liveness under fairness and ENABLED are out of the prover's reach; and that the five
statements of section 4 are false of the code, which one behaviour shows.

## 6. Not modelled

* The parsing of requests, headers and JSON, inflate itself, HTML, logging and the command line: sequential
  code whose results the modules take as choices. The bound of 1024 bytes on a request is part of that.
* The database functions of `Command`: sequential SQLite statements that nothing in the program calls.
* The kind of resource `VirustotalAPI` asks about and its URL, which decide nothing but what the service knows
  of a host.
* Descriptors are connections, so that their 16 bits in a packet are not modelled: the process would have to
  hold 65536 of them.
* Assets, benchmark and installation scripts are no part of the program's logic.

## 7. Plan

Done, in this order: Handler with Service, Pool and PoolUse, Scaling, Pipeline, ConfigFile, Blacklist; the
proofs of Handler and PoolUse; Exchange, VirusTotal, Web on top of ConfigFile; the proofs of every other
module and of the remaining invariants of Handler and PoolUse.

Next, consequences that no run states: the ledger of each stage's pool in the pipeline, and that it is not
exhausted while it has room (from `UsesEachPool` and the theorems of `PoolUse`); for `Service`, that what is
served was accepted once, from `ImplementsService`.

A composition of Handler and Pipeline, in which pause, resize and pipeline meet in one state, is beyond TLC's
reach at a size where anything happens (two workers, two connections and one resize of Pipeline alone are most
of a run); the two meet in `PoolUse` and `Service` instead.
