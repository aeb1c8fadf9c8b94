------------------------------ MODULE Exchange ------------------------------
(***************************************************************************)
(* One Forwarder and the origins it talks to, one after the other:         *)
(* connect, send the request, read the response (the loop of               *)
(* Forwarder::receiveResponse), and turn a gzip body into a plain one.     *)
(* Module Pipeline takes the whole exchange as one choice; here it is      *)
(* byte by byte.                                                           *)
(*                                                                         *)
(* A response is how long its head and its body are, what its head says,   *)
(* and what the Forwarder makes of that, which is not the same: it looks   *)
(* for the names of headers in one spelling and with one blank only, for   *)
(* the length even in the first bytes of the body.                         *)
(*   declared  the length a client reads from the head, 0 for none         *)
(*   found     the lengths receiveResponse may come up with, depending on  *)
(*             how much is there when the head is: the declared one, 0     *)
(*             when it finds none or stoul does not read it, or the one    *)
(*             of another place with the same words                        *)
(*   kept      the length a client reads after removeHeader: 0, or the     *)
(*             declared one when the header is spelled in small letters    *)
(*   marked    execute finds the header for gzip                           *)
(*   coding    what the body is: a damaged one is one inflate does not get *)
(*             through, such as one in chunks                              *)
(*   plain     the bytes inflate makes of it                               *)
(***************************************************************************)
EXTENDS Naturals

CONSTANTS
  Responses,  \* the responses an origin may send
  Chunk,      \* bytes one recv returns at most: buffer_size - 1
  NoResponse  \* nothing has been asked for yet

ResponseType ==
  [head : Nat \ {0}, body : Nat,
   declared : Nat, found : SUBSET Nat \ {{}}, kept : Nat,
   marked : BOOLEAN, coding : {"none", "gzip", "damaged"}, plain : Nat]

ASSUME ExchangeAssumption ==
  /\ Responses \subseteq ResponseType
  /\ Chunk \in Nat \ {0}
  /\ NoResponse \notin Responses

VARIABLES
  response,  \* what the origin answers when it gets the request
  link,      \* the connection: "none", "open", "closed" by the origin, "reset"
  sent,      \* bytes the origin has sent
  got,       \* full_response.length()
  length,    \* content_length
  pc,        \* where execute is
  cut,       \* why the loop ended: "no" when it saw the end of the response
  delivered, \* what the client will get: [kind, declared, size]
  lump       \* history: bytes there when the head was complete

wire    == <<response, link, sent>>
reading == <<got, length, cut, lump>>
vars    == <<wire, reading, pc, delivered>>

Nothing == [kind |-> "none", declared |-> 0, size |-> 0]

TypeOK ==
  /\ response \in Responses \cup {NoResponse}
  /\ link \in {"none", "open", "closed", "reset"}
  /\ sent \in Nat /\ got \in 0 .. sent /\ lump \in 0 .. got
  /\ response # NoResponse => sent <= response.head + response.body
  /\ length \in Nat
  /\ pc \in {"idle", "connect", "send", "head", "body", "read"}
  /\ cut \in {"no", "closed", "timeout", "reset"}
  /\ delivered \in [kind : {"none", "fragment", "raw", "inflated"},
                    declared : Nat, size : Nat]

Init ==
  /\ response = NoResponse /\ link = "none" /\ sent = 0
  /\ got = 0 /\ length = 0 /\ lump = 0 /\ cut = "no"
  /\ pc = "idle"
  /\ delivered = Nothing

Lower(a, b) == IF a < b THEN a ELSE b

-----------------------------------------------------------------------------
(***************************************************************************)
(* The origin.  It sends as much as it likes when it likes, and may close  *)
(* or break the connection at any moment.                                  *)
(***************************************************************************)
OriginSends ==
  /\ link = "open"
  /\ pc \in {"head", "body", "read"}
  /\ \E n \in sent + 1 .. response.head + response.body : sent' = n
  /\ UNCHANGED <<response, link, reading, pc, delivered>>

OriginEnds ==
  /\ link = "open"
  /\ link' \in {"closed", "reset"}
  /\ UNCHANGED <<response, sent, reading, pc, delivered>>

-----------------------------------------------------------------------------
\* The locals start over; the socket of the last exchange is not read again.
Execute(r) ==
  /\ pc = "idle"
  /\ response' = r
  /\ link' = "none" /\ sent' = 0
  /\ got' = 0 /\ length' = 0 /\ lump' = 0 /\ cut' = "no"
  /\ delivered' = Nothing
  /\ pc' = "connect"

Connect ==
  /\ pc = "connect"
  /\ link' = "open"
  /\ pc' = "send"
  /\ UNCHANGED <<response, sent, reading, delivered>>

ConnectFails ==
  /\ pc = "connect"
  /\ pc' = "idle"
  /\ UNCHANGED <<wire, reading, delivered>>

\* The result of sendRequest is not looked at: when the send fails, the
\* response is waited for all the same, and does not come.
Send ==
  /\ pc = "send"
  /\ pc' = "head"
  /\ UNCHANGED <<wire, reading, delivered>>

Receiving == pc \in {"head", "body"}

\* Mutant: the whole buffer is appended, not what recv put into it.
RecvHeadWholeBuffer ==
  /\ pc = "head"
  /\ got < sent /\ link # "reset"
  /\ got' = got + Chunk
  /\ IF got' >= response.head
     THEN /\ length' \in response.found
          /\ lump' = got'
          /\ pc' = IF length' = 0 THEN "read" ELSE "body"
     ELSE UNCHANGED <<length, lump, pc>>
  /\ UNCHANGED <<wire, cut, delivered>>

\* recv while the head is not complete.  When it becomes complete, only a
\* response no length is found for ends the loop; one that is all there is
\* not noticed before the next recv.
RecvHead ==
  /\ pc = "head"
  /\ got < sent /\ link # "reset"
  /\ got' = Lower(sent, got + Chunk)
  /\ IF got' >= response.head
     THEN /\ length' \in response.found
          /\ lump' = got'
          /\ pc' = IF length' = 0 THEN "read" ELSE "body"
     ELSE UNCHANGED <<length, lump, pc>>
  /\ UNCHANGED <<wire, cut, delivered>>

\* Mutant: the head is counted as body.
RecvBodyFromHead ==
  /\ pc = "body"
  /\ got < sent /\ link # "reset"
  /\ got' = Lower(sent, got + Chunk)
  /\ pc' = IF got' >= length THEN "read" ELSE "body"
  /\ UNCHANGED <<wire, length, cut, lump, delivered>>

\* Mutant: more than the length is waited for.
RecvBodyPast ==
  /\ pc = "body"
  /\ got < sent /\ link # "reset"
  /\ got' = Lower(sent, got + Chunk)
  /\ pc' = IF got' - response.head > length THEN "read" ELSE "body"
  /\ UNCHANGED <<wire, length, cut, lump, delivered>>

RecvBody ==
  /\ pc = "body"
  /\ got < sent /\ link # "reset"
  /\ got' = Lower(sent, got + Chunk)
  /\ pc' = IF got' - response.head >= length THEN "read" ELSE "body"
  /\ UNCHANGED <<wire, length, cut, lump, delivered>>

\* Mutant: the socket has no timeout.
RecvWithoutTimeout ==
  /\ Receiving
  /\ \/ link = "closed" /\ got = sent /\ cut' = "closed"
     \/ link = "reset" /\ cut' = "reset"
  /\ pc' = "read"
  /\ UNCHANGED <<wire, got, length, lump, delivered>>

\* recv returns 0 at the end of the stream, and -1 when the connection is
\* broken or nothing comes for the five seconds of the socket's timeout.
RecvEnds ==
  /\ Receiving
  /\ \/ link = "closed" /\ got = sent /\ cut' = "closed"
     \/ link = "open" /\ got = sent /\ cut' = "timeout"
     \/ link = "reset" /\ cut' = "reset"
  /\ pc' = "read"
  /\ UNCHANGED <<wire, got, length, lump, delivered>>

\* Mutant: what inflate made of a part of the body is taken.
InflatesPart ==
  /\ response.marked /\ response.coding = "gzip"
  /\ got > response.head
  /\ response.plain > 0

\* decompressGzip: inflate gets to the end of the stream, and an empty result
\* counts as a failure.
Inflates ==
  /\ response.marked /\ response.coding = "gzip"
  /\ got >= response.head + response.body
  /\ response.plain > 0

Fragment == [kind |-> "fragment", declared |-> 0, size |-> got]
Raw      == [kind |-> "raw", declared |-> response.declared,
             size |-> got - response.head]

\* Mutant: the header with the length of the coded body is left in.
InflatedOldLength ==
  [kind |-> "inflated", declared |-> response.declared, size |-> response.plain + 2]

\* removeHeader takes both headers out where it finds them.  The new
\* Content-Length goes in before the line break of the last header and becomes
\* a part of that one's value: the client does not see it, and one more line
\* break (2 bytes) in the body.
Inflated == [kind |-> "inflated", declared |-> response.kept,
             size |-> response.plain + 2]

\* A response whose head did not come is handed on as it is, and so is a body
\* whose coding is not recognised; of one that does not decompress nothing is.
Deliver ==
  /\ pc = "read"
  /\ pc' = "idle"
  /\ delivered' = CASE got < response.head -> Fragment
                    [] got >= response.head /\ ~response.marked -> Raw
                    [] got >= response.head /\ Inflates -> Inflated
                    [] OTHER -> Nothing
  /\ UNCHANGED <<wire, reading>>

Step == \/ Connect \/ ConnectFails \/ Send
        \/ RecvHead \/ RecvBody \/ RecvEnds \/ Deliver

Next == OriginSends \/ OriginEnds \/ (\E r \in Responses : Execute(r)) \/ Step

Spec == Init /\ [][Next]_vars

\* The worker is scheduled, and recv returns: with what has come, or after
\* the timeout.  Nothing is assumed of the origin.
FairSpec == Spec /\ WF_vars(Step)

-----------------------------------------------------------------------------
AllOf(r) == r.head + r.body

\* The head is spelled as the Forwarder expects it.
Understood(r) == r.found = {r.declared} /\ r.kept = 0

(***************************************************************************)
(* A client gets less than the origin's response only when the connection  *)
(* was cut, or when the length the loop found was none or too short:       *)
(* however the bytes are cut into chunks, a response whose length it finds *)
(* arrives whole (receiveResponse).                                        *)
(***************************************************************************)
ShortOnlyIfCut ==
  /\ pc = "idle"
  /\ delivered.kind \in {"fragment", "raw"}
  /\ got < AllOf(response)
  => cut # "no" \/ length < response.body

(***************************************************************************)
(* A page whose header for gzip execute finds is delivered decompressed    *)
(* and whole, or not at all, whatever length was found and however its     *)
(* transfer ended: its client gets neither the coded body, without the     *)
(* header that says so, nor a part of the plain one (execute,              *)
(* decompressGzip).  A page with that header in another spelling is handed *)
(* on with it, coded as it is.                                             *)
(***************************************************************************)
CodedWholeOrNothing ==
  pc = "idle" /\ response # NoResponse /\ response.marked =>
     /\ delivered.kind # "raw"
     /\ delivered.kind = "inflated" => got = AllOf(response)

(***************************************************************************)
(* A client is told a length and gets less only when the transfer was cut, *)
(* or when the head spells the length otherwise than the Forwarder expects *)
(* it: a header in small letters, or without the blank, goes to the client *)
(* and is none for the loop, which then takes the first piece for the page *)
(* (receiveResponse), and it stays in the head of a decompressed one       *)
(* (removeHeader).                                                         *)
(***************************************************************************)
LengthIsThere ==
  delivered.declared > delivered.size =>
     \/ delivered.kind = "raw" /\ cut # "no"
     \/ ~Understood(response)

(***************************************************************************)
(* The five seconds of the timeout are waited for in vain, with a body of  *)
(* the length that was found there, only when it came together with the    *)
(* end of the head: a response that comes in pieces after its head is      *)
(* recognised at its last byte.                                            *)
(***************************************************************************)
WaitsInVainOnlyForLumps ==
  /\ cut = "timeout"
  /\ length > 0
  /\ got >= response.head + length
  => lump >= response.head + length

(***************************************************************************)
(* execute ends for every response that has an end, whatever the origin    *)
(* does or does not do: silence and a broken connection keep no worker.    *)
(* An origin that goes on sending, or sends one byte in each five seconds, *)
(* is not one of these.                                                    *)
(***************************************************************************)
ExchangeEnds == (pc # "idle") ~> (pc = "idle")
=============================================================================
