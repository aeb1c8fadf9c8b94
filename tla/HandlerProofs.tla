--------------------------- MODULE HandlerProofs ---------------------------
(***************************************************************************)
(* Proofs about Handler, for any number of workers, connections and        *)
(* updates.                                                                *)
(***************************************************************************)
EXTENDS Handler, SequenceTheorems, FiniteSetTheorems, TLAPS

(***************************************************************************)
(* A worker between the lock and the wait or the pop owns the queue mutex, *)
(* and one that is about to block has seen an empty queue that nobody can  *)
(* fill before it blocks.                                                  *)
(***************************************************************************)
MutexHeld ==
  \A w \in Workers :
     /\ pc[w] \in {"prep", "guard"} => mutex = w
     /\ pc[w] = "prep" => queue = <<>>

\* A thread has a connection in its hands exactly where the code gives it one.
HandsFilled ==
  /\ pending \in Conns <=> acceptor = "pushing"
  /\ \A w \in Workers :
       packet[w] \in Conns \cup {Garbage} <=> pc[w] \in {"dispatch", "processing"}

IInv ==
  /\ TypeOK
  /\ MutexHeld
  /\ HandsFilled
  /\ NoStrandedPacket

USE HandlerAssumption
USE DEF queueVars, workerVars, acceptVars, webVars, bootVars, doneVars, Goto

-----------------------------------------------------------------------------
(***************************************************************************)
(* TypeOK is preserved by every step that starts in IInv.                  *)
(***************************************************************************)
LEMMA TypeInit == Init => TypeOK
<1> SUFFICES ASSUME Init PROVE TypeOK
  OBVIOUS
<1>1. queue \in Seq(Conns) /\ mutex \in Workers \cup {Nobody}
  BY DEF Init
<1>2. pc \in [Workers -> WorkerPC]
  BY DEF Init, WorkerPC
<1>3. packet \in [Workers -> Conns \cup {NoPacket, Garbage}]
  BY DEF Init
<1>4. active \in 0 .. CountMod - 1 /\ updates \in 0 .. MaxUpdates /\ ahead \in Int
  BY DEF Init
<1>5. web \in WebPC /\ boot \in BootPC
  BY DEF Init, WebPC, BootPC
<1>6. /\ running \in BOOLEAN /\ paused \in BOOLEAN
      /\ acceptor \in {"accepting", "pushing", "notifying"}
      /\ pending \in Conns \cup {NoPacket}
      /\ arrived \subseteq Conns /\ finished \subseteq Conns
      /\ dropped \subseteq Conns /\ disturbed \subseteq Conns
  BY DEF Init
<1>7. QED
  BY <1>1, <1>2, <1>3, <1>4, <1>5, <1>6 DEF TypeOK

LEMMA TypeWorker ==
  ASSUME TypeOK, NEW w \in Workers,
         WorkerStep(w) \/ Surroundings(w)
  PROVE  TypeOK'
<1>1. CASE Loop(w)
  BY <1>1 DEF TypeOK, WorkerPC, Loop
<1>2. CASE Evaluate(w)
  BY <1>2 DEF TypeOK, WorkerPC, Evaluate
<1>3. CASE Block(w)
  BY <1>3 DEF TypeOK, WorkerPC, Block
<1>4. CASE Return(w)
  BY <1>4 DEF TypeOK, WorkerPC, Return
<1>5. CASE Pop(w)
  BY <1>5, HeadTailProperties DEF TypeOK, WorkerPC, Pop, Passed
<1>6. CASE PopNothing(w)
  BY <1>6 DEF TypeOK, WorkerPC, PopNothing
<1>7. CASE Dispatch(w)
  BY <1>7 DEF TypeOK, WorkerPC, Dispatch
<1>8. CASE Drop(w)
  BY <1>8 DEF TypeOK, WorkerPC, Drop
<1>9. CASE Finish(w)
  BY <1>9 DEF TypeOK, WorkerPC, Finish
<1>10. CASE FinishGarbage(w)
  BY <1>10 DEF TypeOK, WorkerPC, FinishGarbage
<1>11. CASE TestActive(w)
  BY <1>11 DEF TypeOK, WorkerPC, TestActive
<1>12. CASE Subtract(w)
  BY <1>12 DEF TypeOK, WorkerPC, Subtract
<1>13. CASE SpuriousWakeup(w)
  BY <1>13 DEF TypeOK, WorkerPC, SpuriousWakeup
<1>14. ASSUME NEW c \in Conns, Disturb(w, c) PROVE TypeOK'
  BY <1>14 DEF TypeOK, Disturb
<1>15. QED
  BY <1>1, <1>2, <1>3, <1>4, <1>5, <1>6, <1>7, <1>8, <1>9, <1>10, <1>11,
     <1>12, <1>13, <1>14 DEF WorkerStep, Surroundings

LEMMA TypeAcceptor ==
  ASSUME TypeOK, HandsFilled,
         (\E c \in Conns : Accept(c) \/ Recycle(c)) \/ Push \/ Notify
  PROVE  TypeOK'
<1>1. ASSUME NEW c \in Conns, Accept(c) PROVE TypeOK'
  BY <1>1 DEF TypeOK, Accept
<1>2. CASE Push
  BY <1>2, AppendProperties DEF TypeOK, HandsFilled, Push
<1>3. CASE Notify
  BY <1>3 DEF TypeOK, WorkerPC, Notify, NotifyOne
<1>4. ASSUME NEW c \in Conns, Recycle(c) PROVE TypeOK'
  BY <1>4 DEF TypeOK, Recycle
<1>5. QED
  BY <1>1, <1>2, <1>3, <1>4

LEMMA TypeWeb ==
  ASSUME TypeOK, Pause \/ WebStep
  PROVE  TypeOK'
<1>1. CASE Pause
  BY <1>1 DEF TypeOK, WebPC, Pause
<1>2. CASE ReadQueueEnd
  BY <1>2, LenProperties DEF TypeOK, WebPC, ReadQueueEnd
<1>3. CASE CompareQueueBegin
  BY <1>3 DEF TypeOK, WebPC, CompareQueueBegin
<1>4. CASE Resume
  BY <1>4 DEF TypeOK, WebPC, Resume
<1>5. CASE ResumeNotify
  BY <1>5 DEF TypeOK, WebPC, WorkerPC, ResumeNotify, NotifyAll
<1>6. QED
  BY <1>1, <1>2, <1>3, <1>4, <1>5 DEF WebStep

LEMMA TypeBoot ==
  ASSUME TypeOK, Serve \/ Stop \/ StopNotify \/ Join
  PROVE  TypeOK'
<1>1. CASE Serve
  BY <1>1 DEF TypeOK, BootPC, Serve
<1>2. CASE Stop
  BY <1>2 DEF TypeOK, BootPC, Stop
<1>3. CASE StopNotify
  BY <1>3 DEF TypeOK, BootPC, WorkerPC, StopNotify, NotifyAll
<1>4. CASE Join
  BY <1>4 DEF TypeOK, BootPC, Join
<1>5. QED
  BY <1>1, <1>2, <1>3, <1>4

-----------------------------------------------------------------------------
(***************************************************************************)
(* MutexHeld and HandsFilled are preserved: the only steps that fill the   *)
(* queue (Push) or take the mutex (Evaluate) find it free.                 *)
(***************************************************************************)
LEMMA MutexStep ==
  ASSUME TypeOK, MutexHeld, [Next]_vars
  PROVE  MutexHeld'
<1>1. ASSUME NEW w \in Workers, WorkerStep(w) \/ Surroundings(w)
      PROVE  MutexHeld'
  <2>1. CASE Loop(w)
    BY <2>1 DEF TypeOK, MutexHeld, Loop
  <2>2. CASE Evaluate(w)
    BY <2>2 DEF TypeOK, MutexHeld, Evaluate, WorkOrSignal
  <2>3. CASE Block(w)
    BY <2>3 DEF TypeOK, MutexHeld, Block
  <2>4. CASE Return(w)
    BY <2>4 DEF TypeOK, MutexHeld, Return
  <2>5. CASE Pop(w)
    BY <2>5 DEF TypeOK, MutexHeld, Pop
  <2>6. CASE PopNothing(w)
    BY <2>6 DEF TypeOK, MutexHeld, PopNothing
  <2>7. CASE Dispatch(w) \/ Drop(w)
    BY <2>7 DEF TypeOK, MutexHeld, Dispatch, Drop
  <2>8. CASE Finish(w) \/ FinishGarbage(w)
    BY <2>8 DEF TypeOK, MutexHeld, Finish, FinishGarbage
  <2>9. CASE TestActive(w) \/ Subtract(w)
    BY <2>9 DEF TypeOK, MutexHeld, TestActive, Subtract
  <2>10. CASE SpuriousWakeup(w)
    BY <2>10 DEF TypeOK, MutexHeld, SpuriousWakeup
  <2>11. CASE \E c \in Conns : Disturb(w, c)
    BY <2>11 DEF MutexHeld, Disturb
  <2>12. QED
    BY <1>1, <2>1, <2>2, <2>3, <2>4, <2>5, <2>6, <2>7, <2>8, <2>9, <2>10, <2>11
       DEF WorkerStep, Surroundings
<1>2. CASE \E c \in Conns : Accept(c) \/ Recycle(c)
  BY <1>2 DEF MutexHeld, Accept, Recycle
<1>3. CASE Push
  BY <1>3 DEF MutexHeld, Push
<1>4. CASE Notify
  BY <1>4 DEF TypeOK, MutexHeld, Notify, NotifyOne
<1>5. CASE Pause \/ ReadQueueEnd \/ CompareQueueBegin \/ Resume
  BY <1>5 DEF MutexHeld, Pause, ReadQueueEnd, CompareQueueBegin, Resume
<1>6. CASE ResumeNotify \/ StopNotify
  BY <1>6 DEF MutexHeld, ResumeNotify, StopNotify, NotifyAll
<1>7. CASE Serve \/ Stop \/ Join
  BY <1>7 DEF MutexHeld, Serve, Stop, Join
<1>8. CASE UNCHANGED vars
  BY <1>8 DEF MutexHeld, vars
<1>9. QED
  BY <1>1, <1>2, <1>3, <1>4, <1>5, <1>6, <1>7, <1>8 DEF Next, WebStep

LEMMA HandsStep ==
  ASSUME TypeOK, HandsFilled, [Next]_vars
  PROVE  HandsFilled'
<1>1. ASSUME NEW w \in Workers, WorkerStep(w) \/ Surroundings(w)
      PROVE  HandsFilled'
  <2>1. CASE Loop(w) \/ Evaluate(w) \/ Block(w) \/ Return(w)
    BY <2>1 DEF TypeOK, HandsFilled, Loop, Evaluate, Block, Return
  <2>2. CASE Pop(w)
    BY <2>2, HeadTailProperties DEF TypeOK, HandsFilled, Pop
  <2>3. CASE PopNothing(w)
    BY <2>3 DEF TypeOK, HandsFilled, PopNothing
  <2>4. CASE Dispatch(w) \/ Drop(w)
    BY <2>4 DEF TypeOK, HandsFilled, Dispatch, Drop
  <2>5. CASE Finish(w) \/ FinishGarbage(w)
    BY <2>5 DEF TypeOK, HandsFilled, Finish, FinishGarbage
  <2>6. CASE TestActive(w) \/ Subtract(w) \/ SpuriousWakeup(w)
    BY <2>6 DEF TypeOK, HandsFilled, TestActive, Subtract, SpuriousWakeup
  <2>7. CASE \E c \in Conns : Disturb(w, c)
    BY <2>7 DEF HandsFilled, Disturb
  <2>8. QED
    BY <1>1, <2>1, <2>2, <2>3, <2>4, <2>5, <2>6, <2>7 DEF WorkerStep, Surroundings
<1>2. CASE \E c \in Conns : Accept(c) \/ Recycle(c)
  BY <1>2 DEF HandsFilled, Accept, Recycle
<1>3. CASE Push
  BY <1>3 DEF HandsFilled, Push
<1>4. CASE Notify
  BY <1>4 DEF TypeOK, HandsFilled, Notify, NotifyOne
<1>5. CASE Pause \/ ReadQueueEnd \/ CompareQueueBegin \/ Resume
  BY <1>5 DEF HandsFilled, Pause, ReadQueueEnd, CompareQueueBegin, Resume
<1>6. CASE ResumeNotify \/ StopNotify
  BY <1>6 DEF HandsFilled, ResumeNotify, StopNotify, NotifyAll
<1>7. CASE Serve \/ Stop \/ Join
  BY <1>7 DEF HandsFilled, Serve, Stop, Join
<1>8. CASE UNCHANGED vars
  BY <1>8 DEF HandsFilled, vars
<1>9. QED
  BY <1>1, <1>2, <1>3, <1>4, <1>5, <1>6, <1>7, <1>8 DEF Next, WebStep

-----------------------------------------------------------------------------
(***************************************************************************)
(* NoStrandedPacket is preserved: a worker blocks only on an empty queue,  *)
(* returns from a running handler only when the queue is empty, and a push *)
(* is followed by its notification.                                        *)
(***************************************************************************)
LEMMA StrandedStep ==
  ASSUME TypeOK, MutexHeld, NoStrandedPacket, [Next]_vars
  PROVE  NoStrandedPacket'
<1>1. ASSUME NEW w \in Workers, WorkerStep(w) \/ Surroundings(w)
      PROVE  NoStrandedPacket'
  <2>1. CASE Loop(w)
    BY <2>1 DEF TypeOK, NoStrandedPacket, Alive, Loop
  <2>2. CASE Evaluate(w)
    BY <2>2 DEF TypeOK, NoStrandedPacket, Alive, Evaluate
  <2>3. CASE Block(w)
    BY <2>3 DEF TypeOK, MutexHeld, NoStrandedPacket, Alive, Block
  <2>4. CASE Return(w)
    BY <2>4 DEF TypeOK, NoStrandedPacket, Alive, Return, MustReturn
  <2>5. CASE Pop(w) \/ PopNothing(w)
    BY <2>5 DEF TypeOK, NoStrandedPacket, Alive, Pop, PopNothing
  <2>6. CASE Dispatch(w) \/ Drop(w)
    BY <2>6 DEF TypeOK, NoStrandedPacket, Alive, Dispatch, Drop
  <2>7. CASE Finish(w) \/ FinishGarbage(w)
    BY <2>7 DEF TypeOK, NoStrandedPacket, Alive, Finish, FinishGarbage
  <2>8. CASE TestActive(w) \/ Subtract(w) \/ SpuriousWakeup(w)
    BY <2>8 DEF TypeOK, NoStrandedPacket, Alive, TestActive, Subtract, SpuriousWakeup
  <2>9. CASE \E c \in Conns : Disturb(w, c)
    BY <2>9 DEF NoStrandedPacket, Alive, Disturb
  <2>10. QED
    BY <1>1, <2>1, <2>2, <2>3, <2>4, <2>5, <2>6, <2>7, <2>8, <2>9
       DEF WorkerStep, Surroundings
<1>2. CASE \E c \in Conns : Accept(c) \/ Recycle(c)
  BY <1>2 DEF NoStrandedPacket, Alive, Accept, Recycle
<1>3. CASE Push
  BY <1>3 DEF NoStrandedPacket, Push
<1>4. CASE Notify
  BY <1>4 DEF TypeOK, NoStrandedPacket, Alive, Notify, NotifyOne
<1>5. CASE Pause \/ ReadQueueEnd \/ CompareQueueBegin \/ Resume
  BY <1>5 DEF NoStrandedPacket, Alive, Pause, ReadQueueEnd, CompareQueueBegin, Resume
<1>6. CASE ResumeNotify \/ StopNotify
  BY <1>6 DEF NoStrandedPacket, Alive, ResumeNotify, StopNotify, NotifyAll
<1>7. CASE Serve \/ Stop \/ Join
  BY <1>7 DEF NoStrandedPacket, Alive, Serve, Stop, Join
<1>8. CASE UNCHANGED vars
  BY <1>8 DEF NoStrandedPacket, Alive, vars
<1>9. QED
  BY <1>1, <1>2, <1>3, <1>4, <1>5, <1>6, <1>7, <1>8 DEF Next, WebStep

LEMMA Invariance == Spec => []IInv
<1>1. Init => IInv
  BY TypeInit DEF Init, IInv, MutexHeld, HandsFilled, NoStrandedPacket
<1>2. IInv /\ [Next]_vars => IInv'
  <2> SUFFICES ASSUME IInv, [Next]_vars PROVE IInv'
    OBVIOUS
  <2>1. TypeOK'
    <3>1. CASE UNCHANGED vars
      BY <3>1 DEF IInv, TypeOK, vars
    <3>2. CASE Next
      BY <3>2, TypeWorker, TypeAcceptor, TypeWeb, TypeBoot DEF IInv, Next
    <3>3. QED
      BY <3>1, <3>2
  <2>2. QED
    BY <2>1, MutexStep, HandsStep, StrandedStep DEF IInv
<1>3. QED
  BY <1>1, <1>2, PTL DEF Spec

(***************************************************************************)
(* Every reachable state has the type its variables are meant to have: in  *)
(* particular the packet Server pushes and the one a worker processes      *)
(* always is there, and the counter wraps where it would leave its range.  *)
(***************************************************************************)
THEOREM TypeCorrect == Spec => []TypeOK
  BY Invariance, PTL DEF IInv

(***************************************************************************)
(* No lost wakeup between handlePacket and workerThread, however many      *)
(* workers there are and whatever they are paused for in between.          *)
(***************************************************************************)
THEOREM NoPacketStranded == Spec => []NoStrandedPacket
  BY Invariance, PTL DEF IInv

-----------------------------------------------------------------------------
(***************************************************************************)
(* What the two ends of a queue do to the set of its elements.             *)
(***************************************************************************)
Distinct(s) == \A i, j \in 1 .. Len(s) : s[i] = s[j] => i = j

LEMMA SetOfAppend ==
  ASSUME NEW S, NEW s \in Seq(S), NEW c \in S
  PROVE  /\ ToSet(Append(s, c)) = ToSet(s) \cup {c}
         /\ Distinct(s) /\ c \notin ToSet(s) => Distinct(Append(s, c))
<1>1. /\ Len(Append(s, c)) = Len(s) + 1
      /\ DOMAIN Append(s, c) = 1 .. Len(s) + 1
      /\ \A i \in 1 .. Len(s) : Append(s, c)[i] = s[i]
      /\ Append(s, c)[Len(s) + 1] = c
      /\ DOMAIN s = 1 .. Len(s) /\ Len(s) \in Nat
  BY AppendProperties, LenProperties
<1>2. ToSet(Append(s, c)) = ToSet(s) \cup {c}
  BY <1>1 DEF ToSet
<1>3. ASSUME Distinct(s), c \notin ToSet(s) PROVE Distinct(Append(s, c))
  BY <1>1, <1>3 DEF Distinct, ToSet
<1>4. QED
  BY <1>2, <1>3

LEMMA SetOfTail ==
  ASSUME NEW S, NEW s \in Seq(S), s # <<>>
  PROVE  /\ Head(s) \in S /\ Tail(s) \in Seq(S)
         /\ ToSet(s) = ToSet(Tail(s)) \cup {Head(s)}
         /\ Distinct(s) => Distinct(Tail(s)) /\ Head(s) \notin ToSet(Tail(s))
<1>1. /\ Len(Tail(s)) = Len(s) - 1
      /\ DOMAIN Tail(s) = 1 .. Len(s) - 1
      /\ \A i \in 1 .. Len(s) - 1 : Tail(s)[i] = s[i + 1]
      /\ Head(s) = s[1]
      /\ DOMAIN s = 1 .. Len(s) /\ Len(s) \in Nat /\ Len(s) > 0
      /\ Head(s) \in S /\ Tail(s) \in Seq(S)
  BY HeadTailProperties, LenProperties, EmptySeq
<1>2. ToSet(s) = ToSet(Tail(s)) \cup {Head(s)}
  <2>1. ASSUME NEW i \in 1 .. Len(s), i # 1 PROVE s[i] \in ToSet(Tail(s))
    <3>1. i - 1 \in 1 .. Len(s) - 1 /\ Tail(s)[i - 1] = s[i]
      BY <1>1, <2>1
    <3>2. QED
      BY <1>1, <3>1 DEF ToSet
  <2>2. ToSet(s) \subseteq ToSet(Tail(s)) \cup {Head(s)}
    <3>1. SUFFICES ASSUME NEW i \in 1 .. Len(s)
                   PROVE  s[i] \in ToSet(Tail(s)) \cup {Head(s)}
      BY <1>1 DEF ToSet
    <3>2. QED
      BY <1>1, <2>1, <3>1
  <2>3. ToSet(Tail(s)) \subseteq ToSet(s)
    <3>1. ASSUME NEW i \in 1 .. Len(s) - 1 PROVE Tail(s)[i] \in ToSet(s)
      <4>1. i + 1 \in 1 .. Len(s) /\ Tail(s)[i] = s[i + 1]
        BY <1>1
      <4>2. QED
        BY <1>1, <4>1 DEF ToSet
    <3>2. QED
      BY <1>1, <3>1 DEF ToSet
  <2>4. Head(s) \in ToSet(s)
    BY <1>1 DEF ToSet
  <2>5. QED
    BY <2>2, <2>3, <2>4
<1>3. ASSUME Distinct(s) PROVE Distinct(Tail(s)) /\ Head(s) \notin ToSet(Tail(s))
  BY <1>1, <1>3 DEF Distinct, ToSet
<1>4. QED
  BY <1>1, <1>2, <1>3

-----------------------------------------------------------------------------
(***************************************************************************)
(* What a change of one worker's packet does to the packets in hand.       *)
(***************************************************************************)
LEMMA HandTakes ==
  ASSUME TypeOK, NEW w \in Workers, packet[w] \notin Conns,
         NEW x \in Conns \cup {NoPacket, Garbage},
         packet' = [packet EXCEPT ![w] = x]
  PROVE  InHand' = InHand \cup ({x} \cap Conns)
  BY DEF TypeOK, InHand

LEMMA HandGives ==
  ASSUME TypeOK, EachPacketOnce, NEW w \in Workers,
         packet' = [packet EXCEPT ![w] = NoPacket]
  PROVE  InHand' = InHand \ {packet[w]}
  BY DEF TypeOK, InHand, EachPacketOnce

\* A step that moves no connection.
LEMMA OnceUnmoved ==
  ASSUME EachPacketOnce,
         UNCHANGED <<queue, packet, pending, arrived, finished, dropped, disturbed>>
  PROVE  EachPacketOnce'
  BY DEF EachPacketOnce, InFlight, InHand

\* A connection moves from the accept loop to the queue, and from there into
\* the hands of a worker.
LEMMA PushMoves ==
  ASSUME TypeOK, HandsFilled, Push
  PROVE  /\ pending \in Conns /\ InHand' = InHand
         /\ ToSet(queue') = ToSet(queue) \cup {pending}
         /\ InFlight' = InFlight
<1>1. pending \in Conns /\ InHand' = InHand
  BY DEF Push, HandsFilled, InHand
<1>2. ToSet(queue') = ToSet(queue) \cup {pending}
  BY <1>1, SetOfAppend DEF Push, TypeOK
<1>3. InFlight' = InFlight
  BY <1>1, <1>2 DEF Push, InFlight
<1>4. QED
  BY <1>1, <1>2, <1>3

LEMMA PopMoves ==
  ASSUME TypeOK, HandsFilled, NEW w \in Workers, Pop(w)
  PROVE  /\ Head(queue) \in Conns /\ ToSet(queue) = ToSet(queue') \cup {Head(queue)}
         /\ InHand' = InHand \cup {Head(queue)}
         /\ InFlight' = InFlight
<1>1. packet[w] \notin Conns
  BY DEF Pop, HandsFilled
<1>2. Head(queue) \in Conns /\ ToSet(queue) = ToSet(queue') \cup {Head(queue)}
  BY SetOfTail DEF Pop, TypeOK
<1>3. InHand' = InHand \cup {Head(queue)}
  <2>1. packet' = [packet EXCEPT ![w] = Head(queue)]
    BY DEF Pop
  <2>2. InHand' = InHand \cup ({Head(queue)} \cap Conns)
    BY <1>1, <1>2, <2>1, HandTakes
  <2>3. QED
    BY <1>2, <2>2
<1>4. InFlight' = InFlight
  BY <1>2, <1>3 DEF Pop, InFlight
<1>5. QED
  BY <1>2, <1>3, <1>4

LEMMA OnceStep ==
  ASSUME TypeOK, HandsFilled, EachPacketOnce, [Next]_vars
  PROVE  EachPacketOnce'
<1>1. ASSUME NEW w \in Workers, Pop(w) PROVE EachPacketOnce'
  <2>2. Head(queue) \in Conns /\ ToSet(queue) = ToSet(queue') \cup {Head(queue)}
    BY <1>1, PopMoves
  <2>3. Distinct(queue') /\ Head(queue) \notin ToSet(queue')
    BY <1>1, SetOfTail DEF Pop, TypeOK, EachPacketOnce, Distinct
  <2>4. InHand' = InHand \cup {Head(queue)}
    BY <1>1, PopMoves
  <2>5. \A u, v \in Workers : packet'[u] = packet'[v] /\ packet'[u] \in Conns => u = v
    BY <1>1, <2>2 DEF Pop, TypeOK, EachPacketOnce, InHand
  <2>6. InFlight' = InFlight
    BY <1>1, PopMoves
  <2>7. Head(queue) \notin InHand /\ pending \notin InHand' \cup ToSet(queue')
    BY <1>1, <2>2, <2>4 DEF Pop, EachPacketOnce
  <2>8. QED
    BY <1>1, <2>2, <2>3, <2>4, <2>5, <2>6, <2>7 DEF Pop, EachPacketOnce, Distinct
<1>2. ASSUME NEW w \in Workers, PopNothing(w) PROVE EachPacketOnce'
  <2>1. InHand' = InHand
    <3>1. packet[w] \notin Conns
      BY <1>2 DEF PopNothing, HandsFilled
    <3>2. InHand' = InHand \cup ({Garbage} \cap Conns)
      BY <1>2, <3>1, HandTakes DEF PopNothing
    <3>3. QED
      BY <3>2
  <2>2. InFlight' = InFlight
    BY <1>2, <2>1 DEF PopNothing, InFlight
  <2>3. \A u, v \in Workers : packet'[u] = packet'[v] /\ packet'[u] \in Conns => u = v
    BY <1>2 DEF PopNothing, TypeOK, EachPacketOnce
  <2>4. QED
    BY <1>2, <2>1, <2>2, <2>3 DEF PopNothing, EachPacketOnce
<1>3. ASSUME NEW w \in Workers, Drop(w) PROVE EachPacketOnce'
  <2>1. InHand' = InHand \ {packet[w]}
    BY <1>3, HandGives DEF Drop
  <2>2. packet[w] \in Conns => packet[w] \in InHand
    BY DEF InHand
  <2>3. QED
    BY <1>3, <2>1, <2>2 DEF Drop, TypeOK, EachPacketOnce, InFlight
<1>4. ASSUME NEW w \in Workers, Finish(w) PROVE EachPacketOnce'
  <2>1. InHand' = InHand \ {packet[w]}
    BY <1>4, HandGives DEF Finish
  <2>2. packet[w] \in InHand
    BY <1>4 DEF Finish, InHand
  <2>3. QED
    BY <1>4, <2>1, <2>2 DEF Finish, TypeOK, EachPacketOnce, InFlight
<1>5. ASSUME NEW w \in Workers, FinishGarbage(w) PROVE EachPacketOnce'
  <2>1. InHand' = InHand
    BY <1>5, HandGives DEF FinishGarbage, InHand
  <2>2. QED
    BY <1>5, <2>1 DEF FinishGarbage, TypeOK, EachPacketOnce, InFlight
<1>6. ASSUME NEW c \in Conns, Accept(c) PROVE EachPacketOnce'
  <2>1. pending \notin Conns /\ InHand' = InHand
    BY <1>6 DEF Accept, HandsFilled, InHand
  <2>2. QED
    BY <1>6, <2>1 DEF Accept, EachPacketOnce, InFlight
<1>7. CASE Push
  <2>1. pending \in Conns /\ pending \notin ToSet(queue) /\ InHand' = InHand
    BY <1>7 DEF Push, HandsFilled, EachPacketOnce, InHand
  <2>2. ToSet(queue') = ToSet(queue) \cup {pending} /\ Distinct(queue')
    BY <1>7, <2>1, SetOfAppend DEF Push, TypeOK, EachPacketOnce, Distinct
  <2>3. InFlight' = InFlight
    BY <1>7, PushMoves
  <2>4. InHand' \cap ToSet(queue') = {} /\ pending' \notin InHand' \cup ToSet(queue')
    BY <1>7, <2>1, <2>2, SetOfAppend DEF Push, TypeOK, EachPacketOnce, InHand, ToSet
  <2>5. QED
    BY <1>7, <2>1, <2>2, <2>3, <2>4 DEF Push, EachPacketOnce, Distinct
<1>8. ASSUME NEW w \in Workers,
             \/ Loop(w) \/ Evaluate(w) \/ Block(w) \/ Return(w) \/ Dispatch(w)
             \/ TestActive(w) \/ Subtract(w) \/ SpuriousWakeup(w)
      PROVE  EachPacketOnce'
  BY <1>8, OnceUnmoved
     DEF Loop, Evaluate, Block, Return, Dispatch, TestActive, Subtract, SpuriousWakeup
<1>9. CASE \/ Notify \/ Pause \/ WebStep \/ Serve \/ Stop \/ StopNotify \/ Join
           \/ UNCHANGED vars
  BY <1>9, OnceUnmoved
     DEF Notify, Pause, WebStep, ReadQueueEnd, CompareQueueBegin, Resume,
         ResumeNotify, Serve, Stop, StopNotify, Join, vars
<1>10. ASSUME NEW w \in Workers, NEW c \in Conns, Disturb(w, c) PROVE EachPacketOnce'
  <2>1. InFlight' = InFlight /\ InHand' = InHand
    BY <1>10 DEF Disturb, InFlight, InHand
  <2>2. QED
    BY <1>10, <2>1 DEF Disturb, EachPacketOnce
<1>11. ASSUME NEW c \in Conns, Recycle(c) PROVE EachPacketOnce'
  <2>1. InFlight' = InFlight /\ InHand' = InHand
    BY <1>11 DEF Recycle, InFlight, InHand
  <2>2. QED
    BY <1>11, <2>1 DEF Recycle, EachPacketOnce
<1>12. QED
  BY <1>1, <1>2, <1>3, <1>4, <1>5, <1>6, <1>7, <1>8, <1>9, <1>10, <1>11
     DEF Next, WorkerStep, Surroundings

LEMMA OnceInvariance == Spec => [](IInv /\ EachPacketOnce)
<1>1. Init => EachPacketOnce
  BY DEF Init, EachPacketOnce, InFlight, InHand, ToSet
<1>2. IInv /\ EachPacketOnce /\ [Next]_vars => EachPacketOnce'
  BY OnceStep DEF IInv
<1>3. QED
  BY <1>1, <1>2, Invariance, PTL DEF Spec

(***************************************************************************)
(* The threads neither lose nor duplicate a packet on its way from accept  *)
(* to the end of processPacket, for any number of them.  That a worker     *)
(* uses no connection but that of its packet is part of SoundBeforeUpdates,*)
(* and does not hold after an update.                                      *)
(***************************************************************************)
THEOREM PacketsOnce == Spec => []EachPacketOnce
  BY OnceInvariance, PTL

-----------------------------------------------------------------------------
(***************************************************************************)
(* The service before the first update: nobody is paused, a worker that    *)
(* passed the wait has seen a packet, and everything is counted.           *)
(***************************************************************************)
Unpaused == updates = 0 => ~paused

GuardSeesWork ==
  updates = 0 /\ running => \A w \in Workers : pc[w] = "guard" => queue # <<>>

LEMMA UnpausedStep ==
  ASSUME TypeOK, Unpaused, [Next]_vars
  PROVE  Unpaused'
<1>1. CASE UNCHANGED <<updates, paused>>
  BY <1>1 DEF Unpaused
<1>2. CASE Pause
  BY <1>2 DEF Pause, Unpaused, TypeOK
<1>3. CASE Resume
  BY <1>3 DEF Resume, Unpaused
<1>4. QED
  BY <1>1, <1>2, <1>3
  DEF Next, WorkerStep, WebStep, Loop, Evaluate, Block, Return, Pop, PopNothing, Dispatch,
      Drop, Surroundings, Finish, FinishGarbage, Disturb, Recycle, TestActive, Subtract,
      SpuriousWakeup, Accept, Push,
      Notify, ReadQueueEnd, CompareQueueBegin, ResumeNotify, Serve, Stop, StopNotify, Join,
      vars

LEMMA GuardStep ==
  ASSUME TypeOK, MutexHeld, Unpaused, GuardSeesWork, [Next]_vars
  PROVE  GuardSeesWork'
<1>1. ASSUME NEW w \in Workers, Evaluate(w) PROVE GuardSeesWork'
  BY <1>1 DEF Evaluate, WorkOrSignal, Unpaused, GuardSeesWork, MutexHeld, TypeOK
<1>2. ASSUME NEW w \in Workers, Pop(w) PROVE GuardSeesWork'
  BY <1>2 DEF Pop, GuardSeesWork, MutexHeld, TypeOK
<1>3. CASE Push
  <2>1. queue' # <<>>
    BY <1>3, AppendProperties DEF Push, TypeOK
  <2>2. QED
    BY <2>1 DEF GuardSeesWork
<1>4. ASSUME NEW w \in Workers,
             \/ Loop(w) \/ Block(w) \/ Return(w) \/ PopNothing(w) \/ Dispatch(w) \/ Drop(w)
             \/ Surroundings(w) \/ TestActive(w) \/ Subtract(w)
      PROVE  GuardSeesWork'
  BY <1>4 DEF Loop, Block, Return, PopNothing, Dispatch, Drop, Surroundings, Finish,
    FinishGarbage, Disturb, TestActive, Subtract, SpuriousWakeup, GuardSeesWork, TypeOK
<1>5. CASE Notify \/ ResumeNotify \/ StopNotify
  BY <1>5 DEF Notify, NotifyOne, ResumeNotify, StopNotify, NotifyAll, GuardSeesWork, TypeOK
<1>6. CASE (\E c \in Conns : Accept(c) \/ Recycle(c)) \/ ReadQueueEnd
           \/ CompareQueueBegin \/ Resume \/ Serve \/ Stop \/ Join \/ UNCHANGED vars
  BY <1>6 DEF Accept, Recycle, ReadQueueEnd, CompareQueueBegin, Resume, Serve, Stop, Join, vars,
    GuardSeesWork
<1>7. CASE Pause
  BY <1>7 DEF Pause, GuardSeesWork, TypeOK
<1>8. QED
  BY <1>1, <1>2, <1>3, <1>4, <1>5, <1>6, <1>7 DEF Next, WorkerStep, WebStep

\* The claims of SoundUntilFirstUpdate that are not about numbers.
NobodyLost ==
  /\ running => \A w \in Workers : Alive(w)
  /\ dropped = {} /\ disturbed = {}
  /\ \A w \in Workers : packet[w] # Garbage

LEMMA NobodyLostStep ==
  ASSUME TypeOK, Unpaused, GuardSeesWork, updates = 0, NobodyLost, [Next]_vars
  PROVE  NobodyLost'
<1>1. ~paused
  BY DEF Unpaused
<1>2. ASSUME NEW w \in Workers, Loop(w) \/ Return(w) PROVE NobodyLost'
  BY <1>1, <1>2 DEF Loop, Return, MustReturn, NobodyLost, Alive, TypeOK
<1>3. ASSUME NEW w \in Workers, Pop(w) PROVE NobodyLost'
  <2>1. Head(queue) \in Conns
    BY <1>3, SetOfTail DEF Pop, TypeOK
  <2>2. QED
    BY <1>3, <2>1 DEF Pop, NobodyLost, Alive, TypeOK
<1>4. ASSUME NEW w \in Workers, PopNothing(w) PROVE FALSE
  BY <1>4 DEF PopNothing, MustReturn, GuardSeesWork
<1>5. ASSUME NEW w \in Workers, Drop(w) PROVE FALSE
  BY <1>1, <1>5 DEF Drop
<1>6. ASSUME NEW w \in Workers,
             \/ Evaluate(w) \/ Block(w) \/ Dispatch(w) \/ Finish(w) \/ FinishGarbage(w)
             \/ TestActive(w) \/ Subtract(w) \/ SpuriousWakeup(w)
      PROVE  NobodyLost'
  BY <1>6 DEF Evaluate, Block, Dispatch, Finish, FinishGarbage, TestActive, Subtract,
    SpuriousWakeup, NobodyLost, Alive, TypeOK
<1>7. CASE Notify \/ ResumeNotify \/ StopNotify
  BY <1>7 DEF Notify, NotifyOne, ResumeNotify, StopNotify, NotifyAll, NobodyLost, Alive,
    TypeOK
<1>8. CASE (\E c \in Conns : Accept(c) \/ Recycle(c)) \/ Push \/ ReadQueueEnd
           \/ CompareQueueBegin \/ Resume \/ Pause \/ Serve \/ Stop \/ Join
           \/ UNCHANGED vars
  BY <1>8 DEF Accept, Recycle, Push, ReadQueueEnd, CompareQueueBegin, Resume, Pause, Serve, Stop,
    Join, vars, NobodyLost, Alive
<1>9. ASSUME NEW w \in Workers, NEW c \in Conns, Disturb(w, c) PROVE FALSE
  BY <1>9 DEF Disturb, Loose, NobodyLost
<1>10. QED
  BY <1>2, <1>3, <1>4, <1>5, <1>6, <1>7, <1>8, <1>9
     DEF Next, WorkerStep, Surroundings, WebStep

\* m_active_connections counts what is on its way and what is still owed.
Counted == active = Cardinality(InFlight) + Cardinality(Owing)

LEMMA CountsFinite ==
  ASSUME TypeOK
  PROVE  /\ IsFiniteSet(InFlight) /\ IsFiniteSet(Owing)
         /\ Cardinality(InFlight) \in Nat /\ Cardinality(Owing) \in Nat
         /\ Cardinality(InFlight) <= Cardinality(Conns)
         /\ Cardinality(Owing) <= Cardinality(Workers)
         /\ Cardinality(Conns) \in Nat /\ Cardinality(Workers) \in Nat
<1>1. InFlight \in SUBSET Conns
  <2>1. ToSet(queue) \subseteq Conns
    BY LenProperties, ElementOfSeq DEF ToSet, TypeOK
  <2>2. QED
    BY <2>1 DEF InFlight, InHand
<1>2. Owing \in SUBSET Workers
  BY DEF Owing
<1>3. QED
  BY <1>1, <1>2, FS_Subset, FS_CardinalityType, CountAssumption

LEMMA CountUnmoved ==
  ASSUME Counted, active' = active, InFlight' = InFlight, Owing' = Owing
  PROVE  Counted'
  BY DEF Counted

LEMMA FlightUnmoved ==
  ASSUME UNCHANGED <<queue, packet, pending>>
  PROVE  InFlight' = InFlight
  BY DEF InFlight, InHand

LEMMA AcceptCounts ==
  ASSUME TypeOK, HandsFilled, EachPacketOnce, Counted, NEW c \in Conns, Accept(c)
  PROVE  Counted'
<1>1. InFlight' = InFlight \cup {c} /\ c \notin InFlight
  BY DEF Accept, HandsFilled, InFlight, InHand, EachPacketOnce
<1>2. Owing' = Owing
  BY DEF Accept, Owing
<1>3. Cardinality(InFlight') = Cardinality(InFlight) + 1
  BY <1>1, CountsFinite, FS_AddElement
<1>4. InFlight' \in SUBSET Conns
  <2>1. ToSet(queue) \subseteq Conns
    BY LenProperties, ElementOfSeq DEF ToSet, TypeOK
  <2>2. QED
    BY <1>1, <2>1 DEF InFlight, InHand
<1>5. Cardinality(InFlight') <= Cardinality(Conns)
  BY <1>4, FS_Subset, CountAssumption
<1>6. active + 1 < CountMod /\ active \in Nat
  BY <1>3, <1>5, CountsFinite, CountAssumption DEF Counted, TypeOK
<1>7. active' = active + 1
  BY <1>6 DEF Accept
<1>8. QED
  BY <1>2, <1>3, <1>7, CountsFinite DEF Counted

LEMMA FinishCounts ==
  ASSUME TypeOK, EachPacketOnce, Counted, NEW w \in Workers, Finish(w)
  PROVE  Counted'
<1>1. InHand' = InHand \ {packet[w]} /\ packet[w] \in InHand
  BY HandGives DEF Finish, InHand
<1>2. InFlight' = InFlight \ {packet[w]} /\ packet[w] \in InFlight
  BY <1>1 DEF Finish, InFlight, EachPacketOnce
<1>3. Owing' = Owing \cup {w} /\ w \notin Owing
  BY DEF Finish, Owing, TypeOK
<1>4. /\ Cardinality(InFlight') = Cardinality(InFlight) - 1
      /\ Cardinality(Owing') = Cardinality(Owing) + 1
  BY <1>2, <1>3, CountsFinite, FS_AddElement, FS_RemoveElement
<1>5. active' = active
  BY DEF Finish
<1>6. QED
  BY <1>4, <1>5, CountsFinite DEF Counted

LEMMA DecrementCounts ==
  ASSUME TypeOK, Counted, NEW w \in Workers, TestActive(w) \/ Subtract(w)
  PROVE  Counted'
<1>1. w \in Owing
  BY DEF TestActive, Subtract, Owing
<1>2. /\ Cardinality(Owing \ {w}) = Cardinality(Owing) - 1
      /\ Cardinality(Owing \ {w}) \in Nat
  BY <1>1, CountsFinite, FS_RemoveElement, FS_CardinalityType
<1>3. active \in Nat /\ active > 0
  BY <1>2, CountsFinite DEF Counted
<1>4. InFlight' = InFlight
  BY FlightUnmoved DEF TestActive, Subtract
<1>5. CASE TestActive(w)
  <2>1. Owing' = Owing /\ active' = active
    BY <1>3, <1>5 DEF TestActive, Owing, TypeOK
  <2>2. QED
    BY <1>4, <2>1, CountUnmoved
<1>6. CASE Subtract(w)
  <2>1. Owing' = Owing \ {w} /\ active' = active - 1
    BY <1>3, <1>6 DEF Subtract, Owing, TypeOK
  <2>2. QED
    BY <1>2, <1>4, <2>1, CountsFinite DEF Counted
<1>7. QED
  BY <1>5, <1>6

LEMMA CountStep ==
  ASSUME IInv, EachPacketOnce, Unpaused, GuardSeesWork, updates = 0, NobodyLost,
         Counted, [Next]_vars
  PROVE  Counted'
<1>0. TypeOK /\ HandsFilled
  BY DEF IInv
<1>1. CASE (\E c \in Conns : Accept(c)) \/ \E w \in Workers : Finish(w)
  BY <1>0, <1>1, AcceptCounts, FinishCounts
<1>2. CASE \E w \in Workers : TestActive(w) \/ Subtract(w)
  BY <1>0, <1>2, DecrementCounts
<1>3. ASSUME NEW w \in Workers, Pop(w) PROVE Counted'
  <2>1. Owing' = Owing /\ active' = active
    BY <1>0, <1>3 DEF Pop, Owing, TypeOK
  <2>2. QED
    BY <1>0, <1>3, <2>1, PopMoves, CountUnmoved
<1>4. CASE Push
  <2>1. Owing' = Owing /\ active' = active
    BY <1>4 DEF Push, Owing
  <2>2. QED
    BY <1>0, <1>4, <2>1, PushMoves, CountUnmoved
<1>5. ASSUME NEW w \in Workers,
             \/ PopNothing(w) \/ Drop(w) \/ FinishGarbage(w)
             \/ \E c \in Conns : Disturb(w, c)
      PROVE  FALSE
  BY <1>5 DEF PopNothing, MustReturn, Drop, FinishGarbage, Disturb, Loose, Unpaused,
    GuardSeesWork, NobodyLost
<1>6. ASSUME NEW w \in Workers,
             Loop(w) \/ Evaluate(w) \/ Block(w) \/ Return(w) \/ Dispatch(w) \/ SpuriousWakeup(w)
      PROVE  Counted'
  <2>1. Owing' = Owing
    BY <1>0, <1>6 DEF Loop, Evaluate, Block, Return, Dispatch, SpuriousWakeup, Owing, TypeOK
  <2>2. InFlight' = InFlight /\ active' = active
    BY <1>6, FlightUnmoved DEF Loop, Evaluate, Block, Return, Dispatch, SpuriousWakeup
  <2>3. QED
    BY <2>1, <2>2, CountUnmoved
<1>7. CASE Notify \/ ResumeNotify \/ StopNotify
  <2>1. Owing' = Owing
    BY <1>0, <1>7 DEF Notify, NotifyOne, ResumeNotify, StopNotify, NotifyAll, Owing, TypeOK
  <2>2. InFlight' = InFlight /\ active' = active
    BY <1>7, FlightUnmoved DEF Notify, ResumeNotify, StopNotify
  <2>3. QED
    BY <2>1, <2>2, CountUnmoved
<1>8. CASE \/ \E c \in Conns : Recycle(c)
           \/ ReadQueueEnd \/ CompareQueueBegin \/ Resume \/ Pause \/ Serve \/ Stop
           \/ Join \/ UNCHANGED vars
  <2>1. UNCHANGED <<pc, queue, packet, pending, active>>
    BY <1>8 DEF Recycle, ReadQueueEnd, CompareQueueBegin, Resume, Pause, Serve, Stop,
      Join, vars
  <2>2. QED
    BY <2>1, FlightUnmoved, CountUnmoved DEF Owing
<1>9. QED
  BY <1>1, <1>2, <1>3, <1>4, <1>5, <1>6, <1>7, <1>8
     DEF Next, WorkerStep, Surroundings, WebStep

SoundInv == IInv /\ EachPacketOnce /\ Unpaused /\ GuardSeesWork /\ SoundUntilFirstUpdate

LEMMA SoundParts == SoundUntilFirstUpdate <=> (updates = 0 => NobodyLost /\ Counted)
  BY DEF SoundUntilFirstUpdate, NobodyLost, Counted

LEMMA UpdatesGrow ==
  ASSUME TypeOK, [Next]_vars, updates' = 0
  PROVE  updates = 0
<1>1. updates' = updates \/ updates' = updates + 1
  BY DEF Next, WorkerStep, WebStep, Loop, Evaluate, Block, Return, Pop, PopNothing, Dispatch,
      Drop, Surroundings, Finish, FinishGarbage, Disturb, Recycle, TestActive, Subtract,
      SpuriousWakeup, Accept, Push,
      Notify, Pause, ReadQueueEnd, CompareQueueBegin, Resume, ResumeNotify, Serve, Stop,
      StopNotify, Join, vars
<1>2. QED
  BY <1>1 DEF TypeOK

LEMMA SoundInvariance == Spec => []SoundInv
<1>1. Init => Unpaused /\ GuardSeesWork /\ SoundUntilFirstUpdate
  <2> SUFFICES ASSUME Init PROVE Unpaused /\ GuardSeesWork /\ SoundUntilFirstUpdate
    OBVIOUS
  <2>1. Unpaused /\ GuardSeesWork /\ NobodyLost
    BY DEF Init, Unpaused, GuardSeesWork, NobodyLost, Alive
  <2>2. InFlight = {} /\ Owing = {} /\ active = 0
    BY DEF Init, InFlight, InHand, Owing, ToSet
  <2>3. Counted
    BY <2>2, FS_EmptySet DEF Counted
  <2>4. QED
    BY <2>1, <2>3, SoundParts
<1>2. SoundInv /\ [Next]_vars => Unpaused' /\ GuardSeesWork' /\ SoundUntilFirstUpdate'
  <2> SUFFICES ASSUME SoundInv, [Next]_vars
               PROVE  Unpaused' /\ GuardSeesWork' /\ SoundUntilFirstUpdate'
    OBVIOUS
  <2>1. Unpaused' /\ GuardSeesWork'
    BY UnpausedStep, GuardStep DEF SoundInv, IInv
  <2>2. ASSUME updates' = 0 PROVE NobodyLost' /\ Counted'
    <3>1. updates = 0
      BY <2>2, UpdatesGrow DEF SoundInv, IInv
    <3>2. NobodyLost /\ Counted
      BY <3>1, SoundParts DEF SoundInv
    <3>3. QED
      BY <3>1, <3>2, NobodyLostStep, CountStep DEF SoundInv, IInv
  <2>3. SoundUntilFirstUpdate'
    BY <2>2 DEF SoundUntilFirstUpdate, NobodyLost, Counted
  <2>4. QED
    BY <2>1, <2>3
<1>3. QED
  BY <1>1, <1>2, OnceInvariance, PTL DEF Spec, SoundInv

(***************************************************************************)
(* SoundUntilFirstUpdate: until pauseProcessing is called for the first    *)
(* time no worker of a running handler returns, no packet is dropped or    *)
(* made up, no worker uses another's connection, and m_active_connections  *)
(* is exact, for any number of workers and connections that the counter    *)
(* has room for.                                                           *)
(***************************************************************************)
THEOREM SoundBeforeUpdates == Spec => []SoundUntilFirstUpdate
  BY SoundInvariance, PTL DEF SoundInv

-----------------------------------------------------------------------------
(***************************************************************************)
(* Every step of the threads is a step of the service or leaves it alone:  *)
(* Push is an arrival, Pop takes the front of the line, Finish completes,  *)
(* Drop loses, Disturb disturbs, Recycle leaves, and Pause and Resume      *)
(* begin and end the maintenance.                                          *)
(***************************************************************************)
LEMMA ServiceUnmoved ==
  ASSUME UNCHANGED <<queue, packet, finished, dropped, disturbed, paused, updates>>
  PROVE  UNCHANGED Abstract!svars
  BY DEF Abstract!svars, InHand

LEMMA ServiceStep ==
  ASSUME SoundInv, [Next]_vars
  PROVE  [Abstract!ServiceNext]_Abstract!svars
<1>0. IInv /\ EachPacketOnce
  BY DEF SoundInv
<1>1. ASSUME NEW w \in Workers, Pop(w) PROVE Abstract!Take
  <2>1. packet[w] \notin Conns /\ Head(queue) \in Conns
    BY <1>0, <1>1, SetOfTail DEF Pop, IInv, TypeOK, HandsFilled
  <2>2. packet' = [packet EXCEPT ![w] = Head(queue)]
    BY <1>1 DEF Pop
  <2>3. InHand' = InHand \cup ({Head(queue)} \cap Conns)
    BY <1>0, <2>1, <2>2, HandTakes DEF IInv
  <2>4. QED
    BY <1>1, <2>1, <2>3 DEF Pop, Abstract!Take
<1>2. ASSUME NEW w \in Workers, PopNothing(w) PROVE UNCHANGED Abstract!svars
  <2>1. packet[w] \notin Conns
    BY <1>0, <1>2 DEF PopNothing, IInv, HandsFilled
  <2>2. InHand' = InHand \cup ({Garbage} \cap Conns)
    BY <1>0, <1>2, <2>1, HandTakes DEF PopNothing, IInv
  <2>3. QED
    BY <1>2, <2>2 DEF PopNothing, Abstract!svars
<1>3. ASSUME NEW w \in Workers, Drop(w)
      PROVE  Abstract!Lose(packet[w]) \/ UNCHANGED Abstract!svars
  <2>1. InHand' = InHand \ {packet[w]}
    BY <1>0, <1>3, HandGives DEF Drop, IInv
  <2>2. packet[w] \in Conns => packet[w] \in InHand
    BY DEF InHand
  <2>3. packet[w] \notin Conns => packet[w] \notin InHand
    BY DEF InHand
  <2>4. CASE packet[w] \in Conns
    BY <1>3, <2>1, <2>2, <2>4 DEF Drop, Abstract!Lose
  <2>5. CASE packet[w] \notin Conns
    BY <1>3, <2>1, <2>3, <2>5 DEF Drop, Abstract!svars
  <2>6. QED
    BY <2>4, <2>5
<1>4. ASSUME NEW w \in Workers, Finish(w)
      PROVE  packet[w] \in Conns /\ Abstract!Complete(packet[w])
  <2>1. InHand' = InHand \ {packet[w]}
    BY <1>0, <1>4, HandGives DEF Finish, IInv
  <2>2. packet[w] \in Conns /\ packet[w] \in InHand
    BY <1>4 DEF Finish, InHand
  <2>3. QED
    BY <1>4, <2>1, <2>2 DEF Finish, Abstract!Complete
<1>5. ASSUME NEW w \in Workers, FinishGarbage(w) PROVE UNCHANGED Abstract!svars
  <2>1. InHand' = InHand \ {Garbage}
    BY <1>0, <1>5, HandGives DEF FinishGarbage, IInv
  <2>2. Garbage \notin InHand
    BY DEF InHand
  <2>3. QED
    BY <1>5, <2>1, <2>2 DEF FinishGarbage, Abstract!svars
<1>6. CASE Push
  <2>1. pending \in Conns /\ UNCHANGED InHand
    BY <1>0, <1>6 DEF Push, IInv, HandsFilled, InHand
  <2>2. pending \notin ToSet(queue) \cup InHand \cup finished \cup dropped
    BY <1>0, <2>1 DEF EachPacketOnce, InFlight
  <2>3. Abstract!Arrive(pending)
    BY <1>6, <2>1, <2>2
       DEF Push, Abstract!Arrive, Abstract!Known, Abstract!ToSet, ToSet
  <2>4. QED
    BY <2>1, <2>3 DEF Abstract!ServiceNext
<1>7. CASE Pause \/ Resume
  <2>1. InHand' = InHand /\ paused' \in BOOLEAN /\ updates \in Nat
    <3>1. InHand' = InHand /\ paused' \in BOOLEAN
      BY <1>7 DEF Pause, Resume, InHand
    <3>2. updates \in Nat
      BY <1>0 DEF IInv, TypeOK
    <3>3. QED
      BY <3>1, <3>2
  <2>2. paused => updates > 0
    BY <2>1 DEF SoundInv, Unpaused
  <2>3. CASE paused' = paused
    BY <1>7, <2>1, <2>2, <2>3 DEF Pause, Resume, Abstract!svars
  <2>4. CASE paused' # paused
    <3>1. (updates' > 0) = (updates > 0 \/ paused')
      BY <1>7, <2>1 DEF Pause, Resume
    <3>2. Abstract!Maintain(paused')
      BY <1>7, <2>1, <2>4, <3>1 DEF Pause, Resume, Abstract!Maintain
    <3>3. QED
      BY <2>1, <3>2 DEF Abstract!ServiceNext
  <2>5. QED
    BY <2>3, <2>4
<1>8. ASSUME NEW w \in Workers,
             \/ Loop(w) \/ Evaluate(w) \/ Block(w) \/ Return(w) \/ Dispatch(w)
             \/ TestActive(w) \/ Subtract(w) \/ SpuriousWakeup(w)
      PROVE  UNCHANGED Abstract!svars
  BY <1>8, ServiceUnmoved
     DEF Loop, Evaluate, Block, Return, Dispatch, TestActive, Subtract, SpuriousWakeup
<1>9. ASSUME \/ \E c \in Conns : Accept(c)
             \/ Notify \/ ReadQueueEnd \/ CompareQueueBegin \/ ResumeNotify
             \/ Serve \/ Stop \/ StopNotify \/ Join \/ UNCHANGED vars
      PROVE  UNCHANGED Abstract!svars
  BY <1>9, ServiceUnmoved
     DEF Accept, Notify, ReadQueueEnd, CompareQueueBegin, ResumeNotify,
         Serve, Stop, StopNotify, Join, vars
<1>10. ASSUME NEW w \in Workers, Drop(w)
       PROVE  [Abstract!ServiceNext]_Abstract!svars
  <2>1. packet[w] \notin Conns => packet[w] \notin InHand
    BY DEF InHand
  <2>2. Abstract!Lose(packet[w]) => packet[w] \in Conns
    BY <2>1 DEF Abstract!Lose
  <2>3. QED
    BY <1>3, <1>10, <2>2 DEF Abstract!ServiceNext
<1>11. ASSUME NEW w \in Workers, NEW c \in Conns, Disturb(w, c)
       PROVE  Abstract!Disturb(c)
  <2>1. updates \in Nat /\ updates # 0
    BY <1>0, <1>11 DEF Disturb, Loose, SoundInv, SoundUntilFirstUpdate, IInv, TypeOK
  <2>2. InHand' = InHand
    BY <1>11 DEF Disturb, InHand
  <2>3. QED
    BY <1>11, <2>1, <2>2 DEF Disturb, Abstract!Disturb
<1>12. ASSUME NEW c \in Conns, Recycle(c) PROVE Abstract!Leave(c)
  <2>1. InHand' = InHand
    BY <1>12 DEF Recycle, InHand
  <2>2. QED
    BY <1>12, <2>1 DEF Recycle, Abstract!Leave
<1>13. QED
  BY <1>1, <1>2, <1>4, <1>5, <1>6, <1>7, <1>8, <1>9, <1>10, <1>11, <1>12
     DEF Next, WorkerStep, Surroundings, WebStep, Abstract!ServiceNext

(***************************************************************************)
(* The detailed specification implements the abstract one: clients are     *)
(* taken in the order of the queue, once each, a connection is lost only   *)
(* while a configuration update has the workers paused, and only after an  *)
(* update does one client's service reach the connection of another.       *)
(***************************************************************************)
THEOREM HandlerImplementsService == Spec => ImplementsService
<1>1. Init => Abstract!ServiceInit
  BY DEF Init, Abstract!ServiceInit, InHand
<1>2. SoundInv /\ [Next]_vars => [Abstract!ServiceNext]_Abstract!svars
  BY ServiceStep
<1>3. QED
  BY <1>1, <1>2, SoundInvariance, PTL
     DEF Spec, ImplementsService, Abstract!ServiceSpec
=============================================================================
