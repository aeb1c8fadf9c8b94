--------------------------- MODULE ExchangeProofs ---------------------------
(***************************************************************************)
(* Proofs about Exchange, for responses and chunks of any size.            *)
(***************************************************************************)
EXTENDS Exchange, TLAPS

Asked == response # NoResponse

\* What the loop of receiveResponse knows at each of its ends.
LoopKept ==
  /\ pc # "idle" => Asked
  /\ pc \in {"connect", "send", "head"} =>
       length = 0 /\ lump = 0 /\ got < response.head
  /\ pc = "body" =>
       /\ length \in response.found /\ length > 0
       /\ response.head <= lump
       /\ got >= response.head + length => got = lump
  /\ pc \notin {"read", "idle"} => cut = "no"

\* Why it ended: without a cut as much is there as the length says that was
\* found, which is the declared one if the head is understood.
EndKept ==
  /\ pc = "read" /\ cut = "no" =>
       /\ got >= response.head + length
       /\ length \in response.found
  /\ cut = "timeout" /\ length > 0 /\ got >= response.head + length
       => lump >= response.head + length

\* What the client is given stands for what has been received.
AnswerKept ==
  /\ pc # "idle" \/ ~Asked => delivered = Nothing
  /\ delivered \in {Nothing, Fragment, Raw, Inflated}
  /\ delivered.kind = "fragment" => got < response.head
  /\ delivered.kind = "raw" => ~response.marked /\ got >= response.head
  /\ delivered.kind \in {"fragment", "raw"} /\ cut = "no" =>
       /\ got >= response.head + length
       /\ length \in response.found
  /\ delivered.kind = "inflated" => got >= AllOf(response)

ExchangeInv == TypeOK /\ LoopKept /\ EndKept /\ AnswerKept

USE ExchangeAssumption
USE DEF wire, reading, Receiving, Asked

-----------------------------------------------------------------------------
\* The parts of a response, and of the answers made from one.
LEMMA ResponseFields ==
  ASSUME NEW r \in Responses
  PROVE  /\ r.head \in Nat \ {0} /\ r.body \in Nat /\ r.declared \in Nat
         /\ r.found \subseteq Nat /\ r.kept \in Nat /\ r.plain \in Nat
BY DEF ResponseType

LEMMA LowerOfTwo ==
  ASSUME NEW a \in Nat, NEW b \in Nat
  PROVE  Lower(a, b) \in Nat /\ Lower(a, b) <= a /\ Lower(a, b) <= b
BY DEF Lower

\* recv returns at least one byte when one is there, and never one that is not.
LEMMA RecvBytes ==
  ASSUME sent \in Nat, got \in Nat, got < sent
  PROVE  /\ Lower(sent, got + Chunk) \in Nat
         /\ got < Lower(sent, got + Chunk)
         /\ Lower(sent, got + Chunk) <= sent
BY DEF Lower

LEMMA ExchangeInit == Init => ExchangeInv
<1> SUFFICES ASSUME Init PROVE ExchangeInv
  OBVIOUS
<1>1. delivered = Nothing /\ delivered.kind = "none"
  BY DEF Init, Nothing
<1>2. TypeOK
  BY DEF Init, TypeOK, Nothing
<1>3. QED
  BY <1>1, <1>2 DEF Init, ExchangeInv, LoopKept, EndKept, AnswerKept

-----------------------------------------------------------------------------
\* The origin moves only its own side of the connection.
LEMMA OriginStep ==
  ASSUME ExchangeInv, OriginSends \/ OriginEnds
  PROVE  ExchangeInv'
<1>1. UNCHANGED <<response, reading, pc, delivered>>
  BY DEF OriginSends, OriginEnds
<1>2. sent' \in Nat /\ sent <= sent' /\ link' \in {"none", "open", "closed", "reset"}
      /\ (Asked => sent' <= response.head + response.body)
  <2>1. CASE OriginSends
    BY <2>1, ResponseFields DEF OriginSends, ExchangeInv, TypeOK, LoopKept
  <2>2. CASE OriginEnds
    BY <2>2 DEF OriginEnds, ExchangeInv, TypeOK
  <2>3. QED
    BY <2>1, <2>2
<1>3. TypeOK'
  BY <1>1, <1>2 DEF ExchangeInv, TypeOK
<1>4. LoopKept' /\ EndKept' /\ AnswerKept'
  BY <1>1 DEF ExchangeInv, LoopKept, EndKept, AnswerKept, Fragment, Raw,
              Inflated, AllOf, Nothing
<1>5. QED
  BY <1>3, <1>4 DEF ExchangeInv

LEMMA ExecuteStep ==
  ASSUME ExchangeInv, NEW r \in Responses, Execute(r)
  PROVE  ExchangeInv'
<1>1. r.head \in Nat \ {0} /\ r.body \in Nat
  BY ResponseFields
<1>2. delivered' = Nothing /\ delivered'.kind = "none"
  BY DEF Execute, Nothing
<1>3. TypeOK'
  BY <1>1, <1>2 DEF Execute, ExchangeInv, TypeOK, Nothing
<1>4. LoopKept' /\ EndKept'
  BY <1>1 DEF Execute, LoopKept, EndKept
<1>5. AnswerKept'
  BY <1>2 DEF Execute, AnswerKept, Nothing
<1>6. QED
  BY <1>3, <1>4, <1>5 DEF ExchangeInv

LEMMA ConnectStep ==
  ASSUME ExchangeInv, Connect \/ ConnectFails \/ Send
  PROVE  ExchangeInv'
<1>1. UNCHANGED <<response, sent, reading, delivered>> /\ Asked
      /\ pc \in {"connect", "send"}
  BY DEF Connect, ConnectFails, Send, ExchangeInv, LoopKept
<1>2. delivered = Nothing /\ delivered.kind = "none"
  BY <1>1 DEF ExchangeInv, AnswerKept, Nothing
<1>3. pc' \in {"idle", "send", "head"} /\ link' \in {link, "open"}
  BY DEF Connect, ConnectFails, Send
<1>4. TypeOK'
  BY <1>1, <1>3 DEF ExchangeInv, TypeOK
<1>5. LoopKept' /\ EndKept'
  BY <1>1, <1>3 DEF ExchangeInv, LoopKept, EndKept
<1>6. AnswerKept'
  BY <1>1, <1>2 DEF AnswerKept, Nothing
<1>7. QED
  BY <1>4, <1>5, <1>6 DEF ExchangeInv

LEMMA RecvStep ==
  ASSUME ExchangeInv, RecvHead \/ RecvBody \/ RecvEnds
  PROVE  ExchangeInv'
<1>1. UNCHANGED <<wire, delivered>> /\ Asked /\ response \in Responses
      /\ pc \in {"head", "body"}
  BY DEF RecvHead, RecvBody, RecvEnds, ExchangeInv, TypeOK, LoopKept
<1>2. /\ response.head \in Nat \ {0} /\ response.body \in Nat
      /\ response.found \subseteq Nat
  BY <1>1, ResponseFields
<1>3. delivered = Nothing /\ delivered.kind = "none"
  BY <1>1 DEF ExchangeInv, AnswerKept, Nothing
<1>4. AnswerKept'
  BY <1>1, <1>3 DEF AnswerKept, Nothing
<1>5. CASE RecvHead
  <2>1. got' \in Nat /\ got < got' /\ got' <= sent
    BY <1>5, RecvBytes DEF RecvHead, ExchangeInv, TypeOK
  <2>2. TypeOK'
    BY <1>1, <1>2, <1>5, <2>1 DEF RecvHead, ExchangeInv, TypeOK
  <2>3. LoopKept' /\ EndKept'
    BY <1>1, <1>2, <1>5, <2>1 DEF RecvHead, ExchangeInv, TypeOK, LoopKept, EndKept
  <2>4. QED
    BY <1>4, <2>2, <2>3 DEF ExchangeInv
<1>6. CASE RecvBody
  <2>1. got' \in Nat /\ got < got' /\ got' <= sent
    BY <1>6, RecvBytes DEF RecvBody, ExchangeInv, TypeOK
  <2>2. TypeOK'
    BY <1>1, <1>2, <1>6, <2>1 DEF RecvBody, ExchangeInv, TypeOK
  <2>3. LoopKept' /\ EndKept'
    BY <1>1, <1>2, <1>6, <2>1 DEF RecvBody, ExchangeInv, TypeOK, LoopKept, EndKept
  <2>4. QED
    BY <1>4, <2>2, <2>3 DEF ExchangeInv
<1>7. CASE RecvEnds
  <2>1. TypeOK'
    BY <1>1, <1>7 DEF RecvEnds, ExchangeInv, TypeOK
  <2>2. LoopKept' /\ EndKept'
    BY <1>1, <1>2, <1>7 DEF RecvEnds, ExchangeInv, TypeOK, LoopKept, EndKept
  <2>3. QED
    BY <1>4, <2>1, <2>2 DEF ExchangeInv
<1>8. QED
  BY <1>5, <1>6, <1>7

LEMMA DeliverStep ==
  ASSUME ExchangeInv, Deliver
  PROVE  ExchangeInv'
<1>1. UNCHANGED <<wire, reading>> /\ Asked /\ response \in Responses
      /\ pc = "read" /\ pc' = "idle"
  BY DEF Deliver, ExchangeInv, TypeOK, LoopKept
<1>2. /\ response.head \in Nat \ {0} /\ response.body \in Nat
      /\ response.declared \in Nat /\ response.kept \in Nat
      /\ response.plain \in Nat /\ got \in Nat
  BY <1>1, ResponseFields DEF ExchangeInv, TypeOK
<1>3. cut = "no" => got >= response.head + length /\ length \in response.found
  BY <1>1 DEF ExchangeInv, EndKept
<1>4. LoopKept' /\ EndKept'
  BY <1>1 DEF ExchangeInv, LoopKept, EndKept
<1>5. CASE delivered' = Fragment /\ got < response.head
  <2>1. /\ delivered'.kind = "fragment"
        /\ delivered' \in [kind : {"fragment"}, declared : Nat, size : Nat]
    BY <1>2, <1>5 DEF Fragment
  <2>2. TypeOK'
    BY <1>1, <2>1 DEF ExchangeInv, TypeOK
  <2>3. AnswerKept'
    BY <1>1, <1>2, <1>3, <1>5, <2>1 DEF AnswerKept, Fragment
  <2>4. QED
    BY <1>4, <2>2, <2>3 DEF ExchangeInv
<1>6. CASE delivered' = Raw /\ got >= response.head /\ ~response.marked
  <2>1. /\ delivered'.kind = "raw"
        /\ delivered' \in [kind : {"raw"}, declared : Nat, size : Nat]
    BY <1>2, <1>6 DEF Raw
  <2>2. TypeOK'
    BY <1>1, <2>1 DEF ExchangeInv, TypeOK
  <2>3. AnswerKept'
    BY <1>1, <1>2, <1>3, <1>6, <2>1 DEF AnswerKept, Raw
  <2>4. QED
    BY <1>4, <2>2, <2>3 DEF ExchangeInv
<1>7. CASE delivered' = Inflated /\ Inflates
  <2>1. /\ delivered'.kind = "inflated"
        /\ delivered' \in [kind : {"inflated"}, declared : Nat, size : Nat]
    BY <1>2, <1>7 DEF Inflated
  <2>2. TypeOK'
    BY <1>1, <2>1 DEF ExchangeInv, TypeOK
  <2>3. AnswerKept'
    BY <1>1, <1>7, <2>1 DEF AnswerKept, Inflated, Inflates, AllOf
  <2>4. QED
    BY <1>4, <2>2, <2>3 DEF ExchangeInv
<1>8. CASE delivered' = Nothing
  <2>1. /\ delivered'.kind = "none"
        /\ delivered' \in [kind : {"none"}, declared : Nat, size : Nat]
    BY <1>8 DEF Nothing
  <2>2. TypeOK'
    BY <1>1, <2>1 DEF ExchangeInv, TypeOK
  <2>3. AnswerKept'
    BY <1>8, <2>1 DEF AnswerKept
  <2>4. QED
    BY <1>4, <2>2, <2>3 DEF ExchangeInv
<1>9. \/ delivered' = Fragment /\ got < response.head
      \/ delivered' = Raw /\ got >= response.head /\ ~response.marked
      \/ delivered' = Inflated /\ Inflates
      \/ delivered' = Nothing
  <2> HIDE DEF Fragment, Raw, Inflated, Nothing, Inflates
  <2>1. QED
    BY DEF Deliver
<1>10. QED
  BY <1>5, <1>6, <1>7, <1>8, <1>9

LEMMA ExchangeStep == ExchangeInv /\ [Next]_vars => ExchangeInv'
<1> SUFFICES ASSUME ExchangeInv, [Next]_vars PROVE ExchangeInv'
  OBVIOUS
<1>1. CASE UNCHANGED vars
  BY <1>1 DEF vars, ExchangeInv, TypeOK, LoopKept, EndKept, AnswerKept,
              Fragment, Raw, Inflated, AllOf
<1>2. QED
  BY <1>1, OriginStep, ExecuteStep, ConnectStep, RecvStep, DeliverStep
     DEF Next, Step

-----------------------------------------------------------------------------
(***************************************************************************)
(* The invariant decides what a client may have been given.                *)
(***************************************************************************)
LEMMA ExchangeSafe ==
  ASSUME ExchangeInv
  PROVE  /\ ShortOnlyIfCut
         /\ CodedWholeOrNothing
         /\ LengthIsThere
         /\ WaitsInVainOnlyForLumps
<1>1. /\ TypeOK /\ AnswerKept /\ EndKept
      /\ delivered \in {Nothing, Fragment, Raw, Inflated}
  BY DEF ExchangeInv, AnswerKept
<1>2. ~Asked => delivered.kind = "none" /\ delivered.declared <= delivered.size
  BY <1>1 DEF AnswerKept, Nothing
<1>3. Asked => /\ response.head \in Nat \ {0} /\ response.body \in Nat
               /\ response.declared \in Nat /\ response.kept \in Nat
               /\ response.plain \in Nat /\ got \in Nat /\ length \in Nat
               /\ got <= response.head + response.body
  BY <1>1, ResponseFields DEF TypeOK
<1>4. ShortOnlyIfCut
  <2>1. CASE Asked
    BY <1>1, <1>3, <2>1 DEF AnswerKept, ShortOnlyIfCut, AllOf
  <2>2. QED
    BY <1>2, <2>1 DEF ShortOnlyIfCut
<1>5. CodedWholeOrNothing
  BY <1>1, <1>3 DEF AnswerKept, CodedWholeOrNothing, AllOf
<1>6. LengthIsThere
  <2>1. CASE Asked /\ delivered = Raw
    BY <1>1, <1>3, <2>1 DEF AnswerKept, LengthIsThere, Understood, Raw
  <2>2. CASE Asked /\ delivered = Fragment
    BY <1>3, <2>2 DEF LengthIsThere, Fragment
  <2>3. CASE Asked /\ delivered = Inflated
    BY <1>3, <2>3 DEF LengthIsThere, Understood, Inflated
  <2>4. CASE delivered = Nothing
    BY <2>4 DEF LengthIsThere, Nothing
  <2>5. QED
    BY <1>1, <2>1, <2>2, <2>3, <2>4 DEF AnswerKept
<1>7. WaitsInVainOnlyForLumps
  BY <1>1 DEF EndKept, WaitsInVainOnlyForLumps
<1>8. QED
  BY <1>4, <1>5, <1>6, <1>7

\* Every reachable state of an exchange satisfies ExchangeInv.
LEMMA ExchangeInvariant == Spec => []ExchangeInv
BY ExchangeInit, ExchangeStep, PTL DEF Spec

(***************************************************************************)
(* For responses and chunks of any size, the loop never counts more bytes  *)
(* than the origin has sent, nor the origin sends more than its response.  *)
(***************************************************************************)
THEOREM ExchangeTypeCorrect == Spec => []TypeOK
BY ExchangeInvariant, PTL DEF ExchangeInv

(***************************************************************************)
(* However the bytes of a response are cut into chunks of whatever size, a *)
(* response whose length the loop finds arrives whole unless its           *)
(* connection is cut (receiveResponse).                                    *)
(***************************************************************************)
THEOREM DeclaredArrivesWhole == Spec => []ShortOnlyIfCut
BY ExchangeInvariant, ExchangeSafe, PTL

(***************************************************************************)
(* Of a page whose header for gzip is found, no client is given the coded  *)
(* body, or a part of the decompressed one, whatever the response declares *)
(* and however its transfer ends (execute, decompressGzip).                *)
(***************************************************************************)
THEOREM CodedNeverPartial == Spec => []CodedWholeOrNothing
BY ExchangeInvariant, ExchangeSafe, PTL

(***************************************************************************)
(* A client is told a length it does not get only after a cut transfer, or *)
(* when the head spells the length in a way the Forwarder does not find    *)
(* (receiveResponse, removeHeader).                                        *)
(***************************************************************************)
THEOREM LengthHonest == Spec => []LengthIsThere
BY ExchangeInvariant, ExchangeSafe, PTL

(***************************************************************************)
(* The timeout is waited for with the whole body there only when body and  *)
(* end of the head came in one recv.                                       *)
(***************************************************************************)
THEOREM OnlyLumpsWait == Spec => []WaitsInVainOnlyForLumps
BY ExchangeInvariant, ExchangeSafe, PTL
=============================================================================
