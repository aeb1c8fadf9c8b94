-------------------------- MODULE VirusTotalProofs --------------------------
(***************************************************************************)
(* Proofs about VirusTotal, for any number of workers, hosts, keys and     *)
(* reloads and any quota.                                                  *)
(***************************************************************************)
EXTENDS VirusTotal, SequenceTheorems, TLAPS

\* The manager holds what the last load was to leave, and only a load that
\* failed leaves no keys, or the one at the start.
LoadKept ==
  /\ loaded.enabled = enabled /\ loaded.keys = keys
  /\ keys = <<>> => loaded.failed \/ loaded.start

\* What was configured at some moment of the lookup of w.
WasOn(w)      == \E l \in span[w] : l.enabled
WasKeys(w, q) == \E l \in span[w] : l.keys # <<>> /\ q = l.keys
WasFirst(w, q) == \E l \in span[w] : l.keys # <<>> /\ q = <<l.keys[1]>>
WasUnusable(w) ==
  \E l \in span[w] : ~l.enabled \/ (l.keys = <<>> /\ (l.failed \/ l.start))

\* A lookup on its way: each read is of a value the span holds, although the
\* manager may have been loaded again since.
UnderWay(w) ==
  /\ pc[w] # "idle" => loaded \in span[w] /\ verdict[w] = "none"
  /\ pc[w] \in {"enabled", "keys", "send", "waiting"} => reply[w] = "none"
  /\ pc[w] \in {"keys", "send", "waiting", "parse"} => WasOn(w)
  /\ pc[w] = "send" => WasKeys(w, key[w])
  /\ pc[w] \in {"waiting", "parse"} => WasFirst(w, key[w])
  /\ pc[w] = "parse" => reply[w] # "none"

\* A lookup that has ended with a verdict.
Decided(w) ==
  /\ verdict[w] = "denied" => reply[w] = "record" /\ Malicious(host[w])
  /\ verdict[w] = "cleared" /\ reply[w] = "record" /\ Malicious(host[w])
       => host[w].record = "odd"
  /\ verdict[w] = "cleared" /\ reply[w] = "none" => WasUnusable(w)

DiedOfGap == died => \E w \in Workers : Gaps(w)

VTInv ==
  /\ TypeOK
  /\ span \in [Workers -> SUBSET LoadedType]
  /\ LoadKept
  /\ \A w \in Workers : UnderWay(w) /\ Decided(w)
  /\ DiedOfGap

USE VirusTotalAssumption
USE DEF manager, At, Goto, Decide

-----------------------------------------------------------------------------
(***************************************************************************)
(* The values the steps are built from.                                    *)
(***************************************************************************)
LEMMA SettingFields ==
  ASSUME NEW s \in Settings
  PROVE  /\ s.flag \in {"on", "off", "none"} /\ s.keys \in Seq(Keys)
         /\ s.bad \in BOOLEAN
         /\ s.keys = <<>> => s.bad
BY DEF SettingType

LEMMA HostFields ==
  ASSUME NEW h \in Hosts
  PROVE  /\ h.malicious \in Nat /\ h.suspicious \in Nat
         /\ Blocked(h) <=> Malicious(h)
BY DEF HostType, Blocked, Malicious

\* A load leaves what Result says: no keys only when it failed.
LEMMA ResultFields ==
  ASSUME NEW s \in Settings, loaded \in LoadedType
  PROVE  /\ Result(s) \in LoadedType
         /\ Result(s).keys = <<>> => Result(s).failed
<1>1. /\ s.flag \in {"on", "off", "none"} /\ s.keys \in Seq(Keys)
      /\ s.bad \in BOOLEAN /\ (s.keys = <<>> => s.bad)
  BY SettingFields
<1>2. loaded.enabled \in BOOLEAN
  BY DEF LoadedType
<1>3. Result(s).enabled \in BOOLEAN
  BY <1>1, <1>2 DEF Result
<1>4. Result(s).keys \in Seq(Keys)
  BY <1>1, EmptySeq DEF Result
<1>5. Result(s).failed \in BOOLEAN
  BY DEF Result, Accepted
<1>6. Result(s) \in LoadedType
  BY <1>3, <1>4, <1>5 DEF Result, LoadedType
<1>7. Result(s).keys = <<>> => Result(s).failed
  BY <1>1 DEF Result, Accepted
<1>8. QED
  BY <1>6, <1>7

\* A lookup whose state is left alone may see more values, never fewer.
LEMMA LookupUnmoved ==
  ASSUME NEW w \in Workers, UnderWay(w), Decided(w),
         pc'[w] = pc[w], host'[w] = host[w], key'[w] = key[w],
         reply'[w] = reply[w], verdict'[w] = verdict[w],
         span[w] \subseteq span'[w],
         pc[w] # "idle" => loaded' \in span'[w]
  PROVE  UnderWay(w)' /\ Decided(w)'
<1>1. /\ WasOn(w) => WasOn(w)'
      /\ WasUnusable(w) => WasUnusable(w)'
      /\ WasKeys(w, key[w]) => WasKeys(w, key[w])'
      /\ WasFirst(w, key[w]) => WasFirst(w, key[w])'
  BY DEF WasOn, WasUnusable, WasKeys, WasFirst
<1>2. UnderWay(w)'
  BY <1>1 DEF UnderWay
<1>3. Decided(w)'
  BY <1>1 DEF Decided
<1>4. QED
  BY <1>2, <1>3

\* A step of one worker: the others' lookups are where they were.
LEMMA OneMoves ==
  ASSUME VTInv, NEW w \in Workers, loaded' = loaded,
         \A v \in Workers \ {w} :
            /\ pc'[v] = pc[v] /\ host'[v] = host[v] /\ key'[v] = key[v]
            /\ reply'[v] = reply[v] /\ verdict'[v] = verdict[v]
            /\ span'[v] = span[v],
         UnderWay(w)', Decided(w)'
  PROVE  \A v \in Workers : UnderWay(v)' /\ Decided(v)'
<1>1. ASSUME NEW v \in Workers, v # w
      PROVE  UnderWay(v)' /\ Decided(v)'
  <2>1. UnderWay(v) /\ Decided(v)
    BY DEF VTInv
  <2>2. pc[v] # "idle" => loaded' \in span'[v]
    BY <1>1, <2>1 DEF UnderWay
  <2>3. QED
    BY <1>1, <2>1, <2>2, LookupUnmoved
<1>2. QED
  BY <1>1

LEMMA VTInitial == Init => VTInv
<1> SUFFICES ASSUME Init PROVE VTInv
  OBVIOUS
<1>1. PICK s \in StartSettings : Accepted(s) /\ enabled = (s.flag = "on") /\ keys = s.keys
  BY DEF Init
<1>2. enabled \in BOOLEAN /\ keys \in Seq(Keys)
  BY <1>1 DEF SettingType
<1>3. loaded = [enabled |-> enabled, keys |-> keys, failed |-> FALSE, start |-> TRUE]
  BY DEF Init
<1>4. loaded \in LoadedType /\ LoadKept
  BY <1>2, <1>3 DEF LoadedType, LoadKept
<1>5. /\ reloads \in 0 .. MaxReloads /\ used \in [Keys -> 0 .. Quota]
      /\ died \in BOOLEAN /\ ~died
  <2>1. reloads = 0 /\ used = [k \in Keys |-> 0] /\ died = FALSE
    BY DEF Init
  <2>2. 0 \in 0 .. MaxReloads /\ 0 \in 0 .. Quota
    OBVIOUS
  <2>3. QED
    BY <2>1, <2>2
<1>6. /\ pc \in [Workers -> {"idle", "enabled", "keys", "send", "waiting", "parse"}]
      /\ host \in [Workers -> Hosts]
      /\ key \in [Workers -> Seq(Keys)]
      /\ reply \in [Workers -> {"none", "failed", "error", "no json", "record"}]
      /\ verdict \in [Workers -> {"none", "cleared", "denied"}]
      /\ span \in [Workers -> SUBSET LoadedType]
  BY EmptySeq DEF Init
<1>7. TypeOK
  BY <1>2, <1>4, <1>5, <1>6 DEF TypeOK
<1>8. \A w \in Workers : UnderWay(w) /\ Decided(w)
  BY DEF Init, UnderWay, Decided
<1>9. QED
  BY <1>4, <1>5, <1>6, <1>7, <1>8 DEF VTInv, DiedOfGap

-----------------------------------------------------------------------------
(***************************************************************************)
(* A reload: every lookup on its way sees the new value as well.           *)
(***************************************************************************)
LEMMA ReloadStep ==
  ASSUME VTInv, NEW s \in Settings, Reload(s)
  PROVE  VTInv'
<1>1. /\ Result(s) \in LoadedType
      /\ Result(s).keys = <<>> => Result(s).failed
  BY ResultFields DEF VTInv, TypeOK
<1>2. loaded' = Result(s) /\ UNCHANGED <<used, died, pc, host, key, reply, verdict>>
  BY DEF Reload, Seen
<1>3. span' \in [Workers -> SUBSET LoadedType]
  BY <1>1 DEF VTInv, Reload, Seen
<1>4. LoadKept'
  BY <1>1, <1>2 DEF Reload, LoadKept
<1>5. enabled' \in BOOLEAN /\ keys' \in Seq(Keys) /\ reloads' \in 0 .. MaxReloads
  <2>1. Result(s).enabled \in BOOLEAN /\ Result(s).keys \in Seq(Keys)
    BY <1>1 DEF LoadedType
  <2>2. enabled' = Result(s).enabled /\ keys' = Result(s).keys
    BY DEF Reload
  <2>3. reloads \in 0 .. MaxReloads /\ reloads < MaxReloads /\ reloads' = reloads + 1
    BY DEF Reload, VTInv, TypeOK
  <2>4. QED
    BY <2>1, <2>2, <2>3
<1>6. TypeOK'
  BY <1>1, <1>2, <1>3, <1>5 DEF VTInv, TypeOK
<1>7. ASSUME NEW w \in Workers
      PROVE  UnderWay(w)' /\ Decided(w)'
  <2>1. UnderWay(w) /\ Decided(w)
    BY DEF VTInv
  <2>2. span[w] \subseteq span'[w] /\ (pc[w] # "idle" => loaded' \in span'[w])
    BY DEF Reload, Seen
  <2>3. QED
    BY <1>2, <2>1, <2>2, LookupUnmoved
<1>8. DiedOfGap'
  BY <1>2 DEF VTInv, DiedOfGap, Gaps
<1>9. QED
  BY <1>3, <1>4, <1>6, <1>7, <1>8 DEF VTInv

-----------------------------------------------------------------------------
(***************************************************************************)
(* The steps of a lookup.                                                  *)
(***************************************************************************)
LEMMA AskStep ==
  ASSUME VTInv, NEW w \in Workers, NEW h \in Hosts, Ask(w, h)
  PROVE  VTInv'
<1>1. TypeOK /\ span \in [Workers -> SUBSET LoadedType]
  BY DEF VTInv
<1>2. span' \in [Workers -> SUBSET LoadedType]
  BY <1>1 DEF Ask, TypeOK
<1>3. TypeOK'
  BY <1>1, <1>2 DEF Ask, TypeOK
<1>4. /\ pc'[w] = "enabled" /\ reply'[w] = "none" /\ verdict'[w] = "none"
      /\ span'[w] = {loaded} /\ loaded' = loaded
  BY <1>1 DEF Ask, TypeOK
<1>5. UnderWay(w)' /\ Decided(w)'
  BY <1>4 DEF UnderWay, Decided
<1>6. \A v \in Workers : UnderWay(v)' /\ Decided(v)'
  BY <1>1, <1>4, <1>5, OneMoves DEF Ask, TypeOK
<1>7. LoadKept' /\ DiedOfGap'
  BY DEF Ask, VTInv, LoadKept, DiedOfGap, Gaps
<1>8. QED
  BY <1>2, <1>3, <1>6, <1>7 DEF VTInv

\* A step of one worker between its first and its last that leaves the
\* process alive.
LEMMA WorkerKeeps ==
  ASSUME VTInv, NEW w \in Workers, ~died,
         UNCHANGED <<manager, died, host, span>>, TypeOK',
         \A v \in Workers \ {w} :
            /\ pc'[v] = pc[v] /\ key'[v] = key[v]
            /\ reply'[v] = reply[v] /\ verdict'[v] = verdict[v],
         UnderWay(w)', Decided(w)'
  PROVE  VTInv'
<1>1. \A v \in Workers : UnderWay(v)' /\ Decided(v)'
  BY OneMoves
<1>2. LoadKept' /\ DiedOfGap' /\ span' \in [Workers -> SUBSET LoadedType]
  BY DEF VTInv, LoadKept, DiedOfGap, Gaps
<1>3. QED
  BY <1>1, <1>2 DEF VTInv

LEMMA ReadEnabledStep ==
  ASSUME VTInv, NEW w \in Workers, ReadEnabled(w)
  PROVE  VTInv'
<1>1. TypeOK /\ LoadKept /\ UnderWay(w) /\ Decided(w)
  BY DEF VTInv
<1>2. UNCHANGED <<manager, used, died, host, reply, span>> /\ ~died
      /\ pc[w] = "enabled"
  BY DEF ReadEnabled
<1>3. /\ pc' \in [Workers -> {"idle", "enabled", "keys", "send", "waiting", "parse"}]
      /\ key' \in [Workers -> Seq(Keys)]
      /\ verdict' \in [Workers -> {"none", "cleared", "denied"}]
      /\ \A v \in Workers \ {w} :
           pc'[v] = pc[v] /\ key'[v] = key[v] /\ verdict'[v] = verdict[v]
  <2>1. <<>> \in Seq(Keys)
    BY EmptySeq
  <2>2. CASE enabled
    BY <1>1, <2>1, <2>2 DEF ReadEnabled, TypeOK
  <2>3. CASE ~(enabled)
    BY <1>1, <2>1, <2>3 DEF ReadEnabled, TypeOK
  <2>4. QED
    BY <2>2, <2>3
<1>4. TypeOK'
  BY <1>1, <1>2, <1>3 DEF TypeOK
<1>5. loaded \in span[w] /\ reply[w] = "none" /\ verdict[w] = "none"
  BY <1>1, <1>2 DEF UnderWay
<1>6. ASSUME enabled PROVE UnderWay(w)' /\ Decided(w)'
  <2>1. pc'[w] = "keys" /\ verdict'[w] = "none"
    BY <1>1, <1>5, <1>6 DEF ReadEnabled, TypeOK
  <2>2. WasOn(w)'
    BY <1>1, <1>2, <1>5, <1>6 DEF WasOn, LoadKept
  <2>3. QED
    BY <1>2, <1>5, <2>1, <2>2 DEF UnderWay, Decided
<1>7. ASSUME ~enabled PROVE UnderWay(w)' /\ Decided(w)'
  <2>1. pc'[w] = "idle" /\ verdict'[w] = "cleared"
    BY <1>1, <1>7 DEF ReadEnabled, TypeOK
  <2>2. WasUnusable(w)'
    BY <1>1, <1>2, <1>5, <1>7 DEF WasUnusable, LoadKept
  <2>3. QED
    BY <1>2, <1>5, <2>1, <2>2 DEF UnderWay, Decided
<1>8. QED
  BY <1>2, <1>3, <1>4, <1>6, <1>7, WorkerKeeps

LEMMA ReadKeysStep ==
  ASSUME VTInv, NEW w \in Workers, ReadKeys(w)
  PROVE  VTInv'
<1>1. TypeOK /\ LoadKept /\ UnderWay(w) /\ Decided(w)
  BY DEF VTInv
<1>2. UNCHANGED <<manager, used, died, host, reply, span>> /\ ~died
      /\ pc[w] = "keys"
  BY DEF ReadKeys
<1>3. /\ pc' \in [Workers -> {"idle", "enabled", "keys", "send", "waiting", "parse"}]
      /\ key' \in [Workers -> Seq(Keys)]
      /\ verdict' \in [Workers -> {"none", "cleared", "denied"}]
      /\ \A v \in Workers \ {w} :
           pc'[v] = pc[v] /\ key'[v] = key[v] /\ verdict'[v] = verdict[v]
  <2>1. <<>> \in Seq(Keys)
    BY EmptySeq
  <2>2. CASE keys = <<>>
    BY <1>1, <2>1, <2>2 DEF ReadKeys, TypeOK
  <2>3. CASE ~(keys = <<>>)
    BY <1>1, <2>1, <2>3 DEF ReadKeys, TypeOK
  <2>4. QED
    BY <2>2, <2>3
<1>4. TypeOK'
  BY <1>1, <1>2, <1>3 DEF TypeOK
<1>5. loaded \in span[w] /\ reply[w] = "none" /\ verdict[w] = "none" /\ WasOn(w)
  BY <1>1, <1>2 DEF UnderWay
<1>6. ASSUME keys # <<>> PROVE UnderWay(w)' /\ Decided(w)'
  <2>1. pc'[w] = "send" /\ verdict'[w] = "none" /\ key'[w] = keys
    BY <1>1, <1>5, <1>6 DEF ReadKeys, TypeOK
  <2>2. WasKeys(w, key[w])' /\ WasOn(w)'
    BY <1>1, <1>2, <1>5, <1>6, <2>1 DEF WasKeys, WasOn, LoadKept
  <2>3. QED
    BY <1>2, <1>5, <2>1, <2>2 DEF UnderWay, Decided
<1>7. ASSUME keys = <<>> PROVE UnderWay(w)' /\ Decided(w)'
  <2>1. pc'[w] = "idle" /\ verdict'[w] = "cleared"
    BY <1>1, <1>7 DEF ReadKeys, TypeOK
  <2>2. WasUnusable(w)'
    BY <1>1, <1>2, <1>5, <1>7 DEF WasUnusable, LoadKept
  <2>3. QED
    BY <1>2, <1>5, <2>1, <2>2 DEF UnderWay, Decided
<1>8. QED
  BY <1>2, <1>3, <1>4, <1>6, <1>7, WorkerKeeps

LEMMA SendStep ==
  ASSUME VTInv, NEW w \in Workers, Send(w)
  PROVE  VTInv'
<1>1. TypeOK /\ UnderWay(w) /\ Decided(w)
  BY DEF VTInv
<1>2. UNCHANGED <<manager, used, died, host, reply, verdict, span>> /\ ~died
      /\ pc[w] = "send"
  BY DEF Send
<1>3. PICK l \in span[w] : l.keys # <<>> /\ key[w] = l.keys
  BY <1>1, <1>2 DEF UnderWay, WasKeys
<1>4. l.keys \in Seq(Keys)
  BY <1>1, <1>3 DEF TypeOK, LoadedType
<1>5. Head(key[w]) \in Keys /\ Head(key[w]) = l.keys[1]
  BY <1>3, <1>4, HeadTailProperties
<1>6. pc'[w] = "waiting" /\ key'[w] = <<l.keys[1]>>
  BY <1>1, <1>5 DEF Send, TypeOK
<1>7. TypeOK'
  <2>1. <<Head(key[w])>> \in Seq(Keys)
    BY <1>5
  <2>2. key' = [key EXCEPT ![w] = <<Head(key[w])>>]
    BY DEF Send
  <2>3. key' \in [Workers -> Seq(Keys)]
    BY <1>1, <2>1, <2>2 DEF TypeOK
  <2>4. QED
    BY <1>1, <1>2, <2>3 DEF Send, TypeOK
<1>8. WasFirst(w, key[w])' /\ (WasOn(w) => WasOn(w)')
  BY <1>2, <1>3, <1>6 DEF WasFirst, WasOn
<1>9. UnderWay(w)' /\ Decided(w)'
  BY <1>1, <1>2, <1>6, <1>8 DEF UnderWay, Decided
<1>10. QED
  BY <1>1, <1>2, <1>7, <1>9, WorkerKeeps DEF Send, TypeOK

LEMMA RequestFailsStep ==
  ASSUME VTInv, NEW w \in Workers, RequestFails(w)
  PROVE  VTInv'
<1>1. TypeOK /\ UnderWay(w) /\ Decided(w)
  BY DEF VTInv
<1>2. UNCHANGED <<manager, used, died, host, span>> /\ ~died
  BY DEF RequestFails
<1>3. <<>> \in Seq(Keys)
  BY EmptySeq
<1>4. TypeOK'
  BY <1>1, <1>2, <1>3 DEF RequestFails, TypeOK
<1>5. pc'[w] = "idle" /\ reply'[w] = "failed" /\ verdict'[w] = "cleared"
  BY <1>1 DEF RequestFails, TypeOK
<1>6. UnderWay(w)' /\ Decided(w)'
  BY <1>5 DEF UnderWay, Decided
<1>7. QED
  BY <1>1, <1>2, <1>4, <1>6, WorkerKeeps DEF RequestFails, TypeOK

\* The key a request goes out with is a key.
LEMMA KeyInUse ==
  ASSUME VTInv, NEW w \in Workers, pc[w] = "waiting"
  PROVE  key[w][1] \in Keys
<1>1. PICK l \in span[w] : l.keys # <<>> /\ key[w] = <<l.keys[1]>>
  BY DEF VTInv, UnderWay, WasFirst
<1>2. l.keys \in Seq(Keys)
  BY <1>1 DEF VTInv, TypeOK, LoadedType
<1>3. l.keys[1] \in Keys
  BY <1>1, <1>2, HeadTailProperties
<1>4. QED
  BY <1>1, <1>3

LEMMA AnswerStep ==
  ASSUME VTInv, NEW w \in Workers, Answer(w) \/ AnswerInstead(w)
  PROVE  VTInv'
<1>1. TypeOK /\ UnderWay(w) /\ Decided(w)
  BY DEF VTInv
<1>2. UNCHANGED <<manager, died, host, key, verdict, span>> /\ ~died
      /\ pc[w] = "waiting"
  BY DEF Answer, AnswerInstead
<1>3. used' \in [Keys -> 0 .. Quota]
  <2>1. used \in [Keys -> 0 .. Quota] /\ key[w][1] \in Keys
    BY <1>1, <1>2, KeyInUse DEF TypeOK
  <2>2. CASE used' = used
    BY <2>1, <2>2
  <2>3. CASE Granted(w) /\ used' = [used EXCEPT ![key[w][1]] = @ + 1]
    <3>1. used[key[w][1]] + 1 \in 0 .. Quota
      BY <2>1, <2>3 DEF Granted
    <3>2. QED
      BY <2>1, <2>3, <3>1
  <2>4. QED
    BY <2>2, <2>3 DEF Answer, AnswerInstead
<1>4. PICK r \in {"error", "no json", "record"} : reply' = [reply EXCEPT ![w] = r]
  BY DEF Answer, AnswerInstead, Reply
<1>5. pc' = [pc EXCEPT ![w] = "parse"]
  BY DEF Answer, AnswerInstead
<1>6. TypeOK'
  BY <1>1, <1>2, <1>3, <1>4, <1>5 DEF TypeOK
<1>7. pc'[w] = "parse" /\ reply'[w] = r
  BY <1>1, <1>4, <1>5 DEF TypeOK
<1>8. UnderWay(w)' /\ Decided(w)'
  <2>1. /\ verdict'[w] = "none" /\ loaded' \in span'[w]
        /\ WasOn(w)' /\ WasFirst(w, key[w])'
    BY <1>1, <1>2 DEF UnderWay, WasOn, WasFirst
  <2>2. QED
    BY <1>7, <2>1 DEF UnderWay, Decided
<1>9. QED
  BY <1>1, <1>2, <1>4, <1>5, <1>6, <1>8, WorkerKeeps DEF TypeOK

LEMMA ParseStep ==
  ASSUME VTInv, NEW w \in Workers, Parse(w)
  PROVE  VTInv'
<1> DEFINE v == IF reply[w] = "record" /\ host[w].record # "odd" /\ Blocked(host[w])
                THEN "denied" ELSE "cleared"
<1>1. TypeOK
  BY DEF VTInv
<1>2. UNCHANGED <<manager, used, died, host, reply, span>> /\ ~died
      /\ reply[w] # "none"
  BY DEF Parse, VTInv, UnderWay
<1>3. /\ pc' = [pc EXCEPT ![w] = "idle"] /\ key' = [key EXCEPT ![w] = <<>>]
      /\ verdict' = [verdict EXCEPT ![w] = v]
  BY DEF Parse
<1>4. v \in {"denied", "cleared"} /\ <<>> \in Seq(Keys)
  BY EmptySeq
<1>5. Blocked(host[w]) <=> Malicious(host[w])
  BY <1>1, HostFields DEF TypeOK
<1>6. UnderWay(w)' /\ Decided(w)'
  <2>1. pc'[w] = "idle" /\ verdict'[w] = v /\ reply'[w] = reply[w] /\ host'[w] = host[w]
    BY <1>1, <1>2, <1>3 DEF TypeOK
  <2>2. QED
    BY <1>2, <1>5, <2>1 DEF UnderWay, Decided
<1> HIDE DEF v
<1>7. TypeOK'
  BY <1>1, <1>2, <1>3, <1>4 DEF TypeOK
<1>8. QED
  BY <1>1, <1>2, <1>3, <1>6, <1>7, WorkerKeeps DEF TypeOK

\* The steps that move no lookup: an abort, and the end of a minute.
LEMMA AbortStep ==
  ASSUME VTInv, NEW w \in Workers, Abort(w)
  PROVE  VTInv'
<1>1. UNCHANGED <<manager, used, pc, host, key, reply, verdict, span>>
      /\ Gaps(w) /\ died' \in BOOLEAN
  BY DEF Abort
<1>2. TypeOK' /\ LoadKept' /\ DiedOfGap'
  BY <1>1 DEF VTInv, TypeOK, LoadKept, DiedOfGap, Gaps
<1>3. \A v \in Workers : UnderWay(v)' /\ Decided(v)'
  BY <1>1, LookupUnmoved DEF VTInv, UnderWay
<1>4. QED
  BY <1>1, <1>2, <1>3 DEF VTInv

LEMMA MinuteStep ==
  ASSUME VTInv, MinutePasses \/ UNCHANGED vars
  PROVE  VTInv'
<1>1. UNCHANGED <<manager, died, pc, host, key, reply, verdict, span>>
  BY DEF MinutePasses, vars
<1>2. used' \in [Keys -> 0 .. Quota]
  <2>0. 0 \in 0 .. Quota
    OBVIOUS
  <2>1. used \in [Keys -> 0 .. Quota]
    BY DEF VTInv, TypeOK
  <2>2. used' = [k \in Keys |-> 0] \/ used' = used
    BY DEF MinutePasses, vars
  <2>3. QED
    BY <2>0, <2>1, <2>2
<1>3. TypeOK' /\ LoadKept' /\ DiedOfGap'
  BY <1>1, <1>2 DEF VTInv, TypeOK, LoadKept, DiedOfGap, Gaps
<1>4. \A v \in Workers : UnderWay(v)' /\ Decided(v)'
  BY <1>1, LookupUnmoved DEF VTInv, UnderWay
<1>5. QED
  BY <1>1, <1>3, <1>4 DEF VTInv

LEMMA VTStep == VTInv /\ [Next]_vars => VTInv'
BY ReloadStep, AskStep, ReadEnabledStep, ReadKeysStep, SendStep,
   RequestFailsStep, AnswerStep, ParseStep, AbortStep, MinuteStep
   DEF Next, WorkerStep

\* Every reachable state of the lookups satisfies VTInv.
LEMMA VTInvariant == Spec => []VTInv
BY VTInitial, VTStep, PTL DEF Spec

LEMMA VTSafe ==
  ASSUME VTInv
  PROVE  ReplyDecides /\ UnaskedOnlyIfOffOrKeyless /\ AskedAsConfigured
<1>1. ReplyDecides
  BY DEF VTInv, Decided, DiedOfGap, ReplyDecides
<1>2. UnaskedOnlyIfOffOrKeyless
  BY DEF VTInv, Decided, WasUnusable, UnaskedOnlyIfOffOrKeyless
<1>3. AskedAsConfigured
  BY DEF VTInv, UnderWay, WasOn, WasFirst, AskedAsConfigured
<1>4. QED
  BY <1>1, <1>2, <1>3

-----------------------------------------------------------------------------
(***************************************************************************)
(* For any workers, keys, quota and reloads, what workers and manager hold *)
(* keeps its type, and no key is counted past its quota.                   *)
(***************************************************************************)
THEOREM VirusTotalTypeCorrect == Spec => []TypeOK
BY VTInvariant, PTL DEF VTInv

(***************************************************************************)
(* A verdict is what the reply says, and only an error or a record with a  *)
(* gap ends the process, for any hosts and any number of lookups at a time *)
(* (Resolver::execute, parseResponse).                                     *)
(***************************************************************************)
THEOREM VerdictFollowsReply == Spec => []ReplyDecides
BY VTInvariant, VTSafe, PTL

(***************************************************************************)
(* However reloads and lookups interleave, and whatever file the program   *)
(* was started from, a host is cleared unasked only if at some moment of   *)
(* its lookup VirusTotal was off, or without keys since a load that failed *)
(* or since the start (isEnabled, getKeys, loadFromConfig).                *)
(***************************************************************************)
THEOREM UnaskedExplained == Spec => []UnaskedOnlyIfOffOrKeyless
BY VTInvariant, VTSafe, PTL

(***************************************************************************)
(* A request goes out only if VirusTotal was on at some moment of the      *)
(* lookup, and with the first key of a list of some moment of it           *)
(* (getNextKey).                                                           *)
(***************************************************************************)
THEOREM RequestsAsConfigured == Spec => []AskedAsConfigured
BY VTInvariant, VTSafe, PTL
=============================================================================
