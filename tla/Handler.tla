------------------------------ MODULE Handler ------------------------------
(***************************************************************************)
(* The thread structure of the proxy: the accept loop of Server pushes     *)
(* connections on the work queue of Handler, worker threads pop and        *)
(* process them, and the thread of the web interface pauses the workers to *)
(* resize the pools and resumes them.  The constructor of Server may fail  *)
(* after the workers have started; the destructor of Handler then stops    *)
(* them.                                                                   *)
(*                                                                         *)
(* A condition variable is the set of workers whose pc is "waiting".  The  *)
(* predicate of the wait is evaluated under the mutex, and blocking        *)
(* releases the mutex; a notification sent without the mutex may fall      *)
(* between the two.  What processPacket does with a connection is the      *)
(* subject of Pipeline; here it takes a while, perhaps for ever, and ends  *)
(* with a decrement of the number of active connections.                   *)
(*                                                                         *)
(* A packet is the descriptor of its connection.  A packet that was never  *)
(* popped (PopNothing) holds whatever its stack slot held, most often the  *)
(* descriptor of the worker's last connection, which the kernel gives to   *)
(* the next client: the worker then reads, answers and closes a connection *)
(* that is not its own, and whoever holds that one is left with a          *)
(* descriptor the kernel may give away again.                              *)
(***************************************************************************)
EXTENDS Integers, Sequences, FiniteSets, SequencesExt

CONSTANTS
  Workers,     \* the worker threads (src/src/Handler.cpp:147)
  Conns,       \* the connections there can be at a time
  Nobody,      \* the queue mutex is free
  NoPacket,    \* a thread has no packet in its hands
  Garbage,     \* a packet whose client_socket was never assigned
  CountMod,    \* number of values of m_active_connections (2^64 in C++)
  MaxUpdates   \* bound: number of configuration updates

ASSUME HandlerAssumption ==
  /\ Nobody \notin Workers
  /\ NoPacket \notin Conns /\ Garbage \notin Conns /\ NoPacket # Garbage
  /\ CountMod \in Nat \ {0}
  /\ MaxUpdates \in Nat

\* m_active_connections has room for all there is to count: it has 64 bits, and
\* every connection takes a descriptor.
ASSUME CountAssumption ==
  /\ IsFiniteSet(Workers) /\ IsFiniteSet(Conns)
  /\ Cardinality(Conns) + Cardinality(Workers) < CountMod

VARIABLES
  queue,     \* m_work_queue
  mutex,     \* owner of m_queue_mutex across steps
  running,   \* m_running
  paused,    \* m_paused
  pc,        \* where each worker is in workerThread
  packet,    \* the packet each worker holds
  active,    \* m_active_connections
  acceptor,  \* where the accept loop is
  pending,   \* the connection the accept loop is queueing
  web,       \* where the web thread is in updatePoolConfiguration
  ahead,     \* packets still in front of the queue end the web thread read
  boot,      \* life of the Handler object
  arrived,   \* history: connections accepted
  finished,  \* history: connections whose processing ended
  dropped,   \* history: connections popped and not processed
  disturbed, \* history: connections a worker used that had not popped them
  updates    \* history: number of configuration updates begun

queueVars  == <<queue, mutex>>
workerVars == <<pc, packet>>
acceptVars == <<acceptor, pending, arrived>>
webVars    == <<web, updates, paused>>
bootVars   == <<boot, running>>
doneVars   == <<finished, dropped, disturbed>>
vars == <<queueVars, workerVars, acceptVars, webVars, ahead, bootVars,
          doneVars, active>>

WorkerPC == {"loop", "acquire", "prep", "waiting", "guard", "dispatch",
             "processing", "counting", "subtract", "exited"}
WebPC    == {"idle", "draining", "comparing", "resizing", "resuming"}
BootPC   == {"constructing", "serving", "stopping", "joining", "stopped"}

Alive(w) == pc[w] # "exited"

(***************************************************************************)
(* The type of the state.                                                  *)
(***************************************************************************)
TypeOK ==
  /\ queue \in Seq(Conns)
  /\ mutex \in Workers \cup {Nobody}
  /\ running \in BOOLEAN /\ paused \in BOOLEAN
  /\ pc \in [Workers -> WorkerPC]
  /\ packet \in [Workers -> Conns \cup {NoPacket, Garbage}]
  /\ active \in 0 .. CountMod - 1
  /\ acceptor \in {"accepting", "pushing", "notifying"}
  /\ pending \in Conns \cup {NoPacket}
  /\ web \in WebPC
  /\ ahead \in Int
  /\ boot \in BootPC
  /\ arrived \subseteq Conns
  /\ finished \subseteq Conns
  /\ dropped \subseteq Conns
  /\ disturbed \subseteq Conns
  /\ updates \in 0 .. MaxUpdates

Init ==
  /\ queue = <<>> /\ mutex = Nobody
  /\ running = TRUE /\ paused = FALSE
  /\ pc = [w \in Workers |-> "loop"]
  /\ packet = [w \in Workers |-> NoPacket]
  /\ active = 0
  /\ acceptor = "accepting" /\ pending = NoPacket
  /\ web = "idle" /\ ahead = 0
  /\ boot = "constructing"
  /\ arrived = {} /\ finished = {} /\ dropped = {} /\ disturbed = {}
  /\ updates = 0

-----------------------------------------------------------------------------
(***************************************************************************)
(* workerThread.                                                           *)
(***************************************************************************)
Goto(w, l) == pc' = [pc EXCEPT ![w] = l]

\* The condition of the while loop.
Loop(w) ==
  /\ pc[w] = "loop"
  /\ Goto(w, IF running THEN "acquire" ELSE "exited")
  /\ UNCHANGED <<queueVars, packet, acceptVars, webVars, ahead, bootVars,
                 doneVars, active>>

\* Mutant: the predicate forgets the stop.
WorkOrPause == queue # <<>> \/ paused

\* Mutant: a paused worker waits for the end of the pause.
WorkWhenUnpaused == (queue # <<>> /\ ~paused) \/ ~running

\* The predicate of m_queue_cv.wait.
WorkOrSignal == queue # <<>> \/ ~running \/ paused

\* Mutant: the predicate is evaluated and the lock dropped before blocking.
EvaluateUnlocked(w) ==
  /\ pc[w] = "acquire"
  /\ mutex = Nobody
  /\ Goto(w, IF WorkOrSignal THEN "guard" ELSE "prep")
  /\ UNCHANGED <<queueVars, packet, acceptVars, webVars, ahead, bootVars,
                 doneVars, active>>

\* Lock the queue and evaluate the predicate; the mutex stays locked.
Evaluate(w) ==
  /\ pc[w] = "acquire"
  /\ mutex = Nobody
  /\ mutex' = w
  /\ Goto(w, IF WorkOrSignal THEN "guard" ELSE "prep")
  /\ UNCHANGED <<queue, packet, acceptVars, webVars, ahead, bootVars,
                 doneVars, active>>

\* Release the mutex and join the waiters, in one step.
Block(w) ==
  /\ pc[w] = "prep"
  /\ Goto(w, "waiting")
  /\ mutex' = Nobody
  /\ UNCHANGED <<queue, packet, acceptVars, webVars, ahead, bootVars,
                 doneVars, active>>

\* A condition variable may wake a thread nobody notified.
SpuriousWakeup(w) ==
  /\ pc[w] = "waiting"
  /\ Goto(w, "acquire")
  /\ UNCHANGED <<queueVars, packet, acceptVars, webVars, ahead, bootVars,
                 doneVars, active>>

\* The guard after the wait reads m_running and m_paused again.
MustReturn == ~running \/ (paused /\ queue = <<>>)

Return(w) ==
  /\ pc[w] = "guard"
  /\ MustReturn
  /\ Goto(w, "exited")
  /\ mutex' = Nobody
  /\ UNCHANGED <<queue, packet, acceptVars, webVars, ahead, bootVars,
                 doneVars, active>>

\* Mutant: front() without pop().
Peek(w) ==
  /\ pc[w] = "guard"
  /\ ~MustReturn
  /\ queue # <<>>
  /\ packet' = [packet EXCEPT ![w] = Head(queue)]
  /\ Goto(w, "dispatch")
  /\ mutex' = Nobody
  /\ UNCHANGED <<queue, ahead, acceptVars, webVars, bootVars, doneVars, active>>

\* The packets popped since the web thread read the end of the queue outnumber
\* those that were in front of it.
Passed == -1

Pop(w) ==
  /\ pc[w] = "guard"
  /\ ~MustReturn
  /\ queue # <<>>
  /\ packet' = [packet EXCEPT ![w] = Head(queue)]
  /\ queue' = Tail(queue)
  /\ ahead' = IF web = "comparing" /\ ahead # Passed THEN ahead - 1 ELSE ahead
  /\ Goto(w, "dispatch")
  /\ mutex' = Nobody
  /\ UNCHANGED <<acceptVars, webVars, bootVars, doneVars, active>>

\* The pause that ended the wait is over and the queue is empty: the worker
\* goes on with the packet it default-constructed, whose client_socket is
\* indeterminate.
PopNothing(w) ==
  /\ pc[w] = "guard"
  /\ ~MustReturn
  /\ queue = <<>>
  /\ packet' = [packet EXCEPT ![w] = Garbage]
  /\ Goto(w, "dispatch")
  /\ mutex' = Nobody
  /\ UNCHANGED <<queue, acceptVars, webVars, ahead, bootVars, doneVars, active>>

\* if (!m_paused) processPacket(packet): a paused worker loses its packet.
Dispatch(w) ==
  /\ pc[w] = "dispatch"
  /\ ~paused
  /\ Goto(w, "processing")
  /\ UNCHANGED <<queueVars, packet, acceptVars, webVars, ahead, bootVars,
                 doneVars, active>>

\* Mutant: a packet may be lost outside a pause.
DropAnytime(w) ==
  /\ pc[w] = "dispatch"
  /\ Goto(w, "loop")
  /\ packet' = [packet EXCEPT ![w] = NoPacket]
  /\ dropped' = dropped \cup ({packet[w]} \cap Conns)
  /\ UNCHANGED <<queueVars, acceptVars, webVars, ahead, bootVars, finished,
                 disturbed, active>>

Drop(w) ==
  /\ pc[w] = "dispatch"
  /\ paused
  /\ Goto(w, "loop")
  /\ packet' = [packet EXCEPT ![w] = NoPacket]
  /\ dropped' = dropped \cup ({packet[w]} \cap Conns)
  /\ UNCHANGED <<queueVars, acceptVars, webVars, ahead, bootVars, finished,
                 disturbed, active>>

\* Mutant: the error path forgets to decrement.
FinishUncounted(w) ==
  /\ pc[w] = "processing"
  /\ packet[w] \in Conns
  /\ \E l \in {"counting", "loop"} : Goto(w, l)
  /\ finished' = finished \cup {packet[w]}
  /\ packet' = [packet EXCEPT ![w] = NoPacket]
  /\ UNCHANGED <<queueVars, acceptVars, webVars, ahead, bootVars, dropped,
                 disturbed, active>>

\* processPacket ends, normally or by its catch: both decrement.  It may never
\* end: the read of Accepter, the sends of Sender and the request to VirusTotal
\* have no timeout, and an origin may send for ever.
Finish(w) ==
  /\ pc[w] = "processing"
  /\ packet[w] \in Conns
  /\ Goto(w, "counting")
  /\ finished' = finished \cup {packet[w]}
  /\ packet' = [packet EXCEPT ![w] = NoPacket]
  /\ UNCHANGED <<queueVars, acceptVars, webVars, ahead, bootVars, dropped,
                 disturbed, active>>

\* The same for a garbage socket; one that happens to be 0 skips the decrement.
FinishGarbage(w) ==
  /\ pc[w] = "processing"
  /\ packet[w] = Garbage
  /\ \E l \in {"counting", "loop"} : Goto(w, l)
  /\ packet' = [packet EXCEPT ![w] = NoPacket]
  /\ UNCHANGED <<queueVars, acceptVars, webVars, ahead, bootVars, doneVars,
                 active>>

\* The descriptor in the hands of w was never assigned, or another worker has
\* closed it behind the back of w: it may be anybody's.
Loose(w) == packet[w] = Garbage \/ packet[w] \in disturbed

\* Mutant: a worker may use any connection, whatever descriptor it holds.
DisturbAlways(w, c) ==
  /\ pc[w] = "processing"
  /\ c \in arrived \ {packet[w]}
  /\ disturbed' = disturbed \cup {c}
  /\ UNCHANGED <<queueVars, workerVars, acceptVars, webVars, ahead, bootVars,
                 finished, dropped, active>>

\* processPacket reads from, writes to or closes the connection the kernel has
\* under a loose descriptor.
Disturb(w, c) ==
  /\ pc[w] = "processing"
  /\ Loose(w)
  /\ c \in arrived \ {packet[w]}
  /\ disturbed' = disturbed \cup {c}
  /\ UNCHANGED <<queueVars, workerVars, acceptVars, webVars, ahead, bootVars,
                 finished, dropped, active>>

\* decrementActiveConnections: the test and the decrement are two accesses.
TestActive(w) ==
  /\ pc[w] = "counting"
  /\ Goto(w, IF active > 0 THEN "subtract" ELSE "loop")
  /\ UNCHANGED <<queueVars, packet, acceptVars, webVars, ahead, bootVars,
                 doneVars, active>>

\* Mutant: a signed counter that goes below zero instead of wrapping.
SubtractSigned(w) ==
  /\ pc[w] = "subtract"
  /\ active' = active - 1
  /\ Goto(w, "loop")
  /\ UNCHANGED <<queueVars, packet, acceptVars, webVars, ahead, bootVars,
                 doneVars>>

Subtract(w) ==
  /\ pc[w] = "subtract"
  /\ active' = IF active = 0 THEN CountMod - 1 ELSE active - 1
  /\ Goto(w, "loop")
  /\ UNCHANGED <<queueVars, packet, acceptVars, webVars, ahead, bootVars,
                 doneVars>>

-----------------------------------------------------------------------------
(***************************************************************************)
(* The accept loop of Server::start, and handlePacket.                     *)
(***************************************************************************)
Accept(c) ==
  /\ boot = "serving"
  /\ acceptor = "accepting"
  /\ c \notin arrived
  /\ arrived' = arrived \cup {c}
  /\ active' = IF active = CountMod - 1 THEN 0 ELSE active + 1
  /\ pending' = c
  /\ acceptor' = "pushing"
  /\ UNCHANGED <<queueVars, workerVars, webVars, ahead, bootVars, doneVars>>

Push ==
  /\ acceptor = "pushing"
  /\ mutex = Nobody
  /\ queue' = Append(queue, pending)
  /\ pending' = NoPacket
  /\ acceptor' = "notifying"
  /\ UNCHANGED <<mutex, workerVars, arrived, webVars, ahead, bootVars,
                 doneVars, active>>

\* Clients keep coming: the name of a connection that is over may stand for a
\* later one.
Recycle(c) ==
  /\ c \in finished \cup dropped
  /\ arrived' = arrived \ {c}
  /\ finished' = finished \ {c}
  /\ dropped' = dropped \ {c}
  /\ disturbed' = disturbed \ {c}
  /\ UNCHANGED <<queueVars, workerVars, acceptor, pending, webVars, ahead,
                 bootVars, active>>

\* Mutant: handlePacket forgets to notify.
NotifyNobody == UNCHANGED pc

\* notify_one wakes some waiter, if there is one.
NotifyOne ==
  \/ /\ \E w \in Workers : pc[w] = "waiting" /\ Goto(w, "acquire")
  \/ /\ \A w \in Workers : pc[w] # "waiting"
     /\ UNCHANGED pc

Notify ==
  /\ acceptor = "notifying"
  /\ NotifyOne
  /\ acceptor' = "accepting"
  /\ UNCHANGED <<queueVars, packet, pending, arrived, webVars, ahead,
                 bootVars, doneVars, active>>

NotifyAll ==
  pc' = [w \in Workers |-> IF pc[w] = "waiting" THEN "acquire" ELSE pc[w]]

-----------------------------------------------------------------------------
(***************************************************************************)
(* The web thread: pauseProcessing, the updateLimits calls ("resizing"),   *)
(* resumeProcessing.  The emptiness test of the pause reads the queue      *)
(* without its mutex: the end of the queue in one step, its beginning in a *)
(* later one.                                                              *)
(***************************************************************************)
Pause ==
  /\ boot = "serving"
  /\ web = "idle"
  /\ updates < MaxUpdates
  /\ updates' = updates + 1
  /\ paused' = TRUE
  /\ web' = "draining"
  /\ UNCHANGED <<queueVars, workerVars, acceptVars, ahead, bootVars, doneVars,
                 active>>

ReadQueueEnd ==
  /\ web = "draining"
  /\ ahead' = Len(queue)
  /\ web' = "comparing"
  /\ UNCHANGED <<queueVars, workerVars, acceptVars, updates, paused, bootVars,
                 doneVars, active>>

CompareQueueBegin ==
  /\ web = "comparing"
  /\ web' = IF ahead = 0 THEN "resizing" ELSE "draining"
  /\ ahead' = 0
  /\ UNCHANGED <<queueVars, workerVars, acceptVars, updates, paused, bootVars,
                 doneVars, active>>

Resume ==
  /\ web = "resizing"
  /\ paused' = FALSE
  /\ web' = "resuming"
  /\ UNCHANGED <<queueVars, workerVars, acceptVars, updates, ahead, bootVars,
                 doneVars, active>>

ResumeNotify ==
  /\ web = "resuming"
  /\ NotifyAll
  /\ web' = "idle"
  /\ UNCHANGED <<queueVars, packet, acceptVars, updates, paused, ahead,
                 bootVars, doneVars, active>>

-----------------------------------------------------------------------------
(***************************************************************************)
(* The constructor of Server starts the workers (its member handler) and   *)
(* then loads the blacklist and the keys; when that fails, ~Handler stops  *)
(* the workers.  Nothing else ever calls Handler::stop: the Server object  *)
(* is never destroyed.                                                     *)
(***************************************************************************)
Serve ==
  /\ boot = "constructing"
  /\ boot' = "serving"
  /\ UNCHANGED <<queueVars, workerVars, acceptVars, webVars, ahead, running,
                 doneVars, active>>

Stop ==
  /\ boot = "constructing"
  /\ boot' = "stopping"
  /\ running' = FALSE
  /\ UNCHANGED <<queueVars, workerVars, acceptVars, webVars, ahead, doneVars,
                 active>>

StopNotify ==
  /\ boot = "stopping"
  /\ NotifyAll
  /\ boot' = "joining"
  /\ UNCHANGED <<queueVars, packet, acceptVars, webVars, ahead, running,
                 doneVars, active>>

Join ==
  /\ boot = "joining"
  /\ \A w \in Workers : ~Alive(w)
  /\ boot' = "stopped"
  /\ UNCHANGED <<queueVars, workerVars, acceptVars, webVars, ahead, running,
                 doneVars, active>>

-----------------------------------------------------------------------------
\* The steps a worker takes as soon as it runs and gets the mutex.
WorkerStep(w) ==
  \/ Loop(w) \/ Evaluate(w) \/ Block(w) \/ Return(w) \/ Pop(w)
  \/ PopNothing(w) \/ Dispatch(w) \/ Drop(w) \/ TestActive(w) \/ Subtract(w)

\* The steps of a worker that its environment decides about.
Surroundings(w) ==
  \/ SpuriousWakeup(w) \/ Finish(w) \/ FinishGarbage(w)
  \/ \E c \in Conns : Disturb(w, c)

WebStep == ReadQueueEnd \/ CompareQueueBegin \/ Resume \/ ResumeNotify

Next ==
  \/ \E w \in Workers : WorkerStep(w) \/ Surroundings(w)
  \/ \E c \in Conns : Accept(c) \/ Recycle(c)
  \/ Push \/ Notify
  \/ Pause \/ WebStep
  \/ Serve \/ Stop \/ StopNotify \/ Join

\* The operating system runs every thread that can run.  It owes nobody a
\* spurious wakeup, a client, an update, or the end of processPacket.
Fairness ==
  /\ \A w \in Workers : WF_vars(WorkerStep(w))
  /\ WF_vars(Push \/ Notify)
  /\ WF_vars(WebStep)
  /\ WF_vars(StopNotify \/ Join)

Spec == Init /\ [][Next]_vars
FairSpec == Spec /\ Fairness

-----------------------------------------------------------------------------
(***************************************************************************)
(* Properties.                                                             *)
(***************************************************************************)

InHand == {packet[w] : w \in Workers} \cap Conns
InFlight == ({pending} \cap Conns) \cup ToSet(queue) \cup InHand

(***************************************************************************)
(* No lost wakeup on the way from handlePacket to workerThread: when a     *)
(* packet is queued and its notification has been sent, not every live     *)
(* worker is asleep.                                                       *)
(***************************************************************************)
NoStrandedPacket ==
  running /\ queue # <<>> /\ acceptor # "notifying" =>
     \/ \A w \in Workers : ~Alive(w)
     \/ \E w \in Workers : Alive(w) /\ pc[w] # "waiting"

(***************************************************************************)
(* The packet of a connection the accept loop took is in exactly one       *)
(* place: on its way to the queue, once in the queue, in the hands of one  *)
(* worker, finished or dropped.  This is about packets: that nobody else   *)
(* uses the connection is what SoundUntilFirstUpdate says.                 *)
(***************************************************************************)
EachPacketOnce ==
  /\ arrived = InFlight \cup finished \cup dropped
  /\ disturbed \subseteq arrived
  /\ finished \cap dropped = {}
  /\ InFlight \cap (finished \cup dropped) = {}
  /\ InHand \cap ToSet(queue) = {}
  /\ pending \notin InHand \cup ToSet(queue)
  /\ \A i, j \in 1 .. Len(queue) : queue[i] = queue[j] => i = j
  /\ \A v, w \in Workers : packet[v] = packet[w] /\ packet[v] \in Conns => v = w

\* Workers that have finished a packet and not yet decremented.
Owing == {w \in Workers : pc[w] \in {"counting", "subtract"}}

(***************************************************************************)
(* Until the first configuration update the service is sound: no worker of *)
(* a running handler has returned, no packet was dropped or made up, no    *)
(* connection is used by a worker that has not popped it, and the number   *)
(* of active connections is exact.  Everything that goes wrong in this     *)
(* module needs pauseProcessing.                                           *)
(***************************************************************************)
SoundUntilFirstUpdate ==
  updates = 0 =>
     /\ running => \A w \in Workers : Alive(w)
     /\ dropped = {} /\ disturbed = {}
     /\ \A w \in Workers : packet[w] # Garbage
     /\ active = Cardinality(InFlight) + Cardinality(Owing)

\* Nobody is left to look at the queue.
NobodyFree == \A w \in Workers : ~Alive(w) \/ pc[w] = "processing"

(***************************************************************************)
(* The queue is served, however many clients keep coming: a queued packet  *)
(* is eventually popped, unless from some point on for ever each worker    *)
(* has returned or is inside processPacket, which may block.               *)
(***************************************************************************)
QueueServed ==
  \A c \in Conns :
     (c \in ToSet(queue)) ~> (c \notin ToSet(queue) \/ []NobodyFree)

\* Clients never stop coming.
EndlessArrivals == []<><<\E c \in Conns : Accept(c)>>_vars

(***************************************************************************)
(* A pause ends: the web thread leaves the drain loop of pauseProcessing,  *)
(* unless clients never stop coming (the loop waits for a moment at which  *)
(* it sees the queue empty), or for ever each worker has returned or is    *)
(* inside processPacket.                                                   *)
(***************************************************************************)
PauseEnds ==
  \/ EndlessArrivals
  \/ (web = "draining") ~> (web \notin {"draining", "comparing"} \/ []NobodyFree)

(***************************************************************************)
(* The join of Handler::stop ends when no worker was between the predicate *)
(* and the wait as notify_all was called; m_running is cleared without the *)
(* queue mutex, so a worker that was sleeps on.                            *)
(***************************************************************************)
StopJoins ==
  (boot = "joining" /\ \A w \in Workers : pc[w] \notin {"prep", "waiting"})
     ~> (boot = "stopped")

(***************************************************************************)
(* The threads implement the service of module Service: the line is the    *)
(* work queue, connections are lost only while m_paused is set, and one    *)
(* client's service reaches another's connection only after an update.     *)
(***************************************************************************)
Abstract == INSTANCE Service WITH
  Clients <- Conns, line <- queue, serving <- InHand, served <- finished,
  lost <- dropped, disturbed <- disturbed, maintenance <- paused,
  changed <- updates > 0

ImplementsService == Abstract!ServiceSpec

-----------------------------------------------------------------------------
(***************************************************************************)
(* What the comments of Handler.cpp promise of a pause.                    *)
(***************************************************************************)

\* "Wait for current processing to complete": no worker is inside
\* processPacket while updatePoolConfiguration resizes the pools.
ProcessingCompleteWhenResizing ==
  web = "resizing" => \A w \in Workers : pc[w] # "processing"

\* "Resume processing": after an update somebody still serves the queue.
ProcessingResumes ==
  boot = "serving" /\ web = "idle" => \E w \in Workers : Alive(w)
=============================================================================
