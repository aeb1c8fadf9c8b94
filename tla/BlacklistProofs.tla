-------------------------- MODULE BlacklistProofs --------------------------
(***************************************************************************)
(* Proofs about Blacklist, for any number of workers, hosts, configurations*)
(* and reloads.                                                            *)
(***************************************************************************)
EXTENDS Blacklist, SequenceTheorems, TLAPS

(***************************************************************************)
(* A lookup that has not overlapped a reload sees one list throughout, and *)
(* nobody changes the vector while it scans it.                            *)
(***************************************************************************)
Undisturbed(w) ==
  /\ pc[w] # "idle" => loader = "idle"
  /\ pc[w] \in {"find", "begin", "scan", "store", "storing"} => enabled = TRUE
  /\ pc[w] = "scan" => w \notin shaken
  /\ pc[w] \in {"store", "storing"} => verdict[w] = ~Listed(host[w])
  /\ pc[w] = "done" /\ host[w] \notin stale => verdict[w] = Allowed(host[w])

LookupKept(w) ==
  /\ pc[w] # "idle" => host[w] \in Hosts
  /\ w \notin tainted => Undisturbed(w)

\* From the moment a reload has cleared the cache until it ends, only lookups
\* it overlaps fill it.
CacheKept ==
  /\ loader = "idle" => \A h \in DOMAIN cache \ stale : cache[h] = ~Listed(h)
  /\ loader \in {"enabled", "fill"} => DOMAIN cache \subseteq stale

\* What the loader has taken over from the file.
ListKept ==
  /\ loader \in {"cache", "enabled"} => patterns = <<>>
  /\ loader = "fill" => todo.enabled \in BOOLEAN
  /\ loader \in {"idle", "fill"} => Len(patterns) <= Len(todo.patterns)
  /\ ListIsPrefixOfFile

BlacklistInv ==
  /\ TypeOK
  /\ \A w \in Workers : LookupKept(w)
  /\ CacheKept
  /\ ListKept

USE BlacklistAssumption
USE DEF Goto, Answer, LoadGoto, lookupVars, loadVars, listVars, cacheVars

-----------------------------------------------------------------------------
(***************************************************************************)
(* The values the steps are built from.                                    *)
(***************************************************************************)
LEMMA ConfigFields ==
  ASSUME NEW c \in Configs
  PROVE  c.enabled \in BOOLEAN \cup {NoFlag} /\ c.patterns \in Seq(Patterns)
OBVIOUS

\* A cache is a function from some hosts to verdicts, the empty one included.
Caches == UNION {[known -> BOOLEAN] : known \in SUBSET Hosts}

LEMMA CacheIs ==
  ASSUME NEW c
  PROVE  c \in Caches <=> DOMAIN c \subseteq Hosts /\ c \in [DOMAIN c -> BOOLEAN]
BY DEF Caches

LEMMA EmptyCache == <<>> \in Caches /\ DOMAIN <<>> = {}
<1>1. <<>> \in Seq(BOOLEAN) /\ Len(<<>>) = 0
  BY EmptySeq
<1>2. <<>> \in [1 .. 0 -> BOOLEAN] /\ DOMAIN <<>> = 1 .. 0
  BY <1>1, LenProperties
<1>3. 1 .. 0 = {}
  OBVIOUS
<1>4. QED
  BY <1>2, <1>3 DEF Caches

LEMMA RememberingIs ==
  ASSUME cache \in Caches, NEW h \in Hosts, NEW v \in BOOLEAN
  PROVE  /\ Remembering(h, v) \in Caches
         /\ DOMAIN Remembering(h, v) = DOMAIN cache \cup {h}
         /\ Remembering(h, v)[h] = v
         /\ \A x \in DOMAIN cache \ {h} : Remembering(h, v)[x] = cache[x]
<1> DEFINE c == Remembering(h, v)
<1>1. DOMAIN cache \subseteq Hosts /\ cache \in [DOMAIN cache -> BOOLEAN]
  BY CacheIs
<1>2. /\ DOMAIN c = DOMAIN cache \cup {h}
      /\ c \in [DOMAIN cache \cup {h} -> BOOLEAN]
  BY <1>1 DEF Remembering
<1>3. c \in Caches
  BY <1>1, <1>2 DEF Caches
<1>4. QED
  BY <1>2, <1>3 DEF Remembering

\* A vector of well-formed patterns.
LEMMA WellFormedList ==
  ASSUME NEW p \in Seq(Patterns), \A i \in DOMAIN p : p[i] # Malformed
  PROVE  p \in Seq(SUBSET Hosts)
<1>1. p \in [1 .. Len(p) -> Patterns] /\ Len(p) \in Nat /\ DOMAIN p = 1 .. Len(p)
  BY LenProperties
<1>2. \A i \in 1 .. Len(p) : p[i] \in SUBSET Hosts
  BY <1>1 DEF Patterns
<1>3. p \in [1 .. Len(p) -> SUBSET Hosts]
  BY <1>1, <1>2
<1>4. QED
  BY <1>1, <1>3, SeqDef

-----------------------------------------------------------------------------
(***************************************************************************)
(* Lookups that stay where they are.                                       *)
(***************************************************************************)

\* While the list is left alone; more hosts may have become stale.
LEMMA LookupUnmoved ==
  ASSUME NEW w \in Workers, LookupKept(w),
         pc'[w] = pc[w], host'[w] = host[w], verdict'[w] = verdict[w],
         w \in tainted' <=> w \in tainted, w \in shaken' => w \in shaken,
         UNCHANGED <<loader, enabled, patterns>>, stale \subseteq stale'
  PROVE  LookupKept(w)'
BY DEF LookupKept, Undisturbed, Listed, Allowed

\* While a reload goes on: they all overlap it.
LEMMA LookupLoading ==
  ASSUME NEW w \in Workers, LookupKept(w), loader # "idle",
         UNCHANGED <<pc, host, verdict, tainted>>
  PROVE  LookupKept(w)'
BY DEF LookupKept, Undisturbed

LEMMA BlacklistInit == Init => BlacklistInv
<1> SUFFICES ASSUME Init PROVE BlacklistInv
  OBVIOUS
<1>1. /\ todo \in Configs /\ todo.enabled \in BOOLEAN
      /\ \A i \in DOMAIN todo.patterns : todo.patterns[i] # Malformed
      /\ enabled = todo.enabled /\ patterns = todo.patterns
      /\ todo.patterns \in Seq(Patterns)
  BY ConfigFields DEF Init
<1>2. patterns \in Seq(SUBSET Hosts) /\ Len(patterns) = Len(todo.patterns)
  BY <1>1, WellFormedList
<1>3. cache = <<>> /\ cache \in Caches /\ DOMAIN cache = {}
  BY EmptyCache DEF Init
<1>4. /\ host \in [Workers -> Hosts \cup {NoHost}]
      /\ pc \in [Workers -> Lookup] /\ verdict \in [Workers -> BOOLEAN]
      /\ \A w \in Workers : pc[w] = "idle"
  BY DEF Init, Lookup
<1>5. /\ shaken = {} /\ tainted = {} /\ stale = {} /\ loader = "idle" /\ reloads = 0
      /\ loader \in Load /\ 0 \in 0 .. MaxReloads
  BY DEF Init, Load
<1>6. TypeOK
  BY <1>1, <1>2, <1>3, <1>4, <1>5 DEF TypeOK, Caches
<1>7. \A w \in Workers : LookupKept(w)
  BY <1>4 DEF LookupKept, Undisturbed
<1>8. CacheKept
  BY <1>3, <1>5 DEF CacheKept
<1>9. Len(patterns) \in Nat
  BY <1>2, LenProperties
<1>10. ListKept
  BY <1>1, <1>2, <1>5, <1>9 DEF ListKept, ListIsPrefixOfFile
<1>11. QED
  BY <1>6, <1>7, <1>8, <1>10 DEF BlacklistInv

-----------------------------------------------------------------------------
(***************************************************************************)
(* The steps of a lookup.  All but Store leave list and cache alone.       *)
(***************************************************************************)
LEMMA LookupMoves ==
  ASSUME BlacklistInv, NEW w \in Workers,
         UNCHANGED <<loadVars, listVars, cacheVars>>, TypeOK',
         \A v \in Workers \ {w} :
            /\ pc'[v] = pc[v] /\ host'[v] = host[v] /\ verdict'[v] = verdict[v]
            /\ v \in tainted' <=> v \in tainted
            /\ v \in shaken' => v \in shaken,
         LookupKept(w)'
  PROVE  BlacklistInv'
<1>1. ASSUME NEW v \in Workers, v # w PROVE LookupKept(v)'
  BY <1>1, LookupUnmoved DEF BlacklistInv
<1>2. CacheKept' /\ ListKept'
  BY DEF BlacklistInv, CacheKept, Listed, ListKept, ListIsPrefixOfFile
<1>3. QED
  BY <1>1, <1>2 DEF BlacklistInv

LEMMA AskLeaveStep ==
  ASSUME BlacklistInv, NEW w \in Workers,
         (\E h \in Hosts : Ask(w, h)) \/ Leave(w)
  PROVE  BlacklistInv'
<1>1. TypeOK
  BY DEF BlacklistInv
<1>2. ASSUME NEW h \in Hosts, Ask(w, h) PROVE BlacklistInv'
  <2>1. TypeOK'
    BY <1>1, <1>2 DEF Ask, TypeOK, Lookup
  <2>2. pc'[w] = "enabled" /\ host'[w] = h
    BY <1>1, <1>2 DEF Ask, TypeOK
  <2>3. LookupKept(w)'
    BY <1>2, <2>2 DEF Ask, LookupKept, Undisturbed
  <2>4. QED
    BY <1>1, <1>2, <2>1, <2>3, LookupMoves DEF Ask, TypeOK
<1>3. CASE Leave(w)
  <2>1. TypeOK'
    BY <1>1, <1>3 DEF Leave, TypeOK, Lookup
  <2>2. pc'[w] = "idle"
    BY <1>1, <1>3 DEF Leave, TypeOK
  <2>3. LookupKept(w)'
    BY <2>2 DEF LookupKept, Undisturbed
  <2>4. QED
    BY <1>1, <1>3, <2>1, <2>3, LookupMoves DEF Leave, TypeOK
<1>4. QED
  BY <1>2, <1>3

\* The first two reads of isAllowed.
LEMMA TestStep ==
  ASSUME BlacklistInv, NEW w \in Workers, TestEnabled(w) \/ Find(w)
  PROVE  BlacklistInv'
<1>1. TypeOK /\ LookupKept(w) /\ CacheKept
  BY DEF BlacklistInv
<1>2. /\ UNCHANGED <<host, shaken, tainted, loadVars, listVars, cacheVars>>
      /\ pc[w] \in {"enabled", "find"}
  BY DEF TestEnabled, Find
<1>3. PICK l \in Lookup, v \in BOOLEAN :
         /\ pc' = [pc EXCEPT ![w] = l]
         /\ verdict' = [verdict EXCEPT ![w] = v]
         /\ \/ l = "find" /\ enabled = TRUE
            \/ l = "done" /\ enabled # TRUE /\ v = TRUE
            \/ l = "begin" /\ pc[w] = "find"
            \/ l = "done" /\ pc[w] = "find" /\ host[w] \in DOMAIN cache
                 /\ v = cache[host[w]]
  <2>1. verdict = [verdict EXCEPT ![w] = verdict[w]] /\ verdict[w] \in BOOLEAN
    BY <1>1 DEF TypeOK
  <2>2. ASSUME host[w] \in DOMAIN cache PROVE cache[host[w]] \in BOOLEAN
    <3>1. cache \in Caches
      BY <1>1 DEF TypeOK, Caches
    <3>2. QED
      BY <2>2, <3>1, CacheIs
  <2>3. enabled \in BOOLEAN
    BY <1>1 DEF TypeOK
  <2>4. CASE TestEnabled(w) /\ enabled
    BY <2>1, <2>3, <2>4 DEF TestEnabled, Lookup
  <2>5. CASE TestEnabled(w) /\ ~enabled
    BY <2>3, <2>5 DEF TestEnabled, Lookup
  <2>6. CASE Find(w) /\ host[w] \in DOMAIN cache
    BY <2>2, <2>6 DEF Find, Lookup
  <2>7. CASE Find(w) /\ host[w] \notin DOMAIN cache
    BY <2>1, <2>7 DEF Find, Lookup
  <2>8. QED
    BY <2>4, <2>5, <2>6, <2>7
<1>4. TypeOK'
  BY <1>1, <1>2, <1>3 DEF TypeOK
<1>5. pc'[w] = l /\ verdict'[w] = v /\ host'[w] = host[w] /\ host[w] \in Hosts
  BY <1>1, <1>2, <1>3 DEF TypeOK, LookupKept
<1>6. ASSUME w \notin tainted PROVE Undisturbed(w)'
  <2>1. loader = "idle" /\ (pc[w] = "find" => enabled = TRUE)
    BY <1>1, <1>2, <1>6 DEF LookupKept, Undisturbed
  <2>2. ASSUME l = "done", host[w] \notin stale
        PROVE  v = Allowed(host[w])
    <3>1. CASE enabled # TRUE /\ v = TRUE
      BY <1>1, <3>1 DEF Allowed, TypeOK
    <3>2. CASE pc[w] = "find" /\ host[w] \in DOMAIN cache /\ v = cache[host[w]]
      BY <1>1, <2>1, <2>2, <3>2 DEF CacheKept, Allowed
    <3>3. QED
      BY <1>3, <2>2, <3>1, <3>2
  <2>3. l \in {"find", "begin", "done"} /\ (l # "done" => enabled = TRUE)
    BY <1>3, <2>1
  <2>4. QED
    BY <1>2, <1>5, <2>1, <2>2, <2>3 DEF Undisturbed, Allowed, Listed
<1>7. LookupKept(w)'
  BY <1>2, <1>5, <1>6 DEF LookupKept
<1>8. QED
  BY <1>1, <1>2, <1>3, <1>4, <1>7, LookupMoves DEF TypeOK

\* The scan, and the way to and from it.
LEMMA ScanStep ==
  ASSUME BlacklistInv, NEW w \in Workers,
         Overlook(w) \/ BeginScan(w) \/ BeginStore(w)
  PROVE  BlacklistInv'
<1>1. TypeOK /\ LookupKept(w)
  BY DEF BlacklistInv
<1>2. /\ UNCHANGED <<host, verdict, tainted, loadVars, listVars, cacheVars>>
      /\ shaken' \in {shaken, shaken \ {w}}
      /\ pc[w] \in {"find", "begin", "store"}
  BY DEF Overlook, BeginScan, BeginStore
<1>3. PICK l \in {"begin", "scan", "storing"} :
        /\ pc' = [pc EXCEPT ![w] = l]
        /\ l = "scan" => w \notin shaken'
        /\ l = "storing" => pc[w] = "store"
  BY DEF Overlook, BeginScan, BeginStore
<1>4. TypeOK'
  BY <1>1, <1>2, <1>3 DEF TypeOK, Lookup
<1>5. pc'[w] = l
  BY <1>1, <1>3 DEF TypeOK
<1>6. LookupKept(w)'
  BY <1>1, <1>2, <1>3, <1>5 DEF LookupKept, Undisturbed, Listed, Allowed
<1>7. QED
  BY <1>1, <1>2, <1>3, <1>4, <1>6, LookupMoves DEF TypeOK

LEMMA EndScanStep ==
  ASSUME BlacklistInv, NEW w \in Workers, EndScan(w)
  PROVE  BlacklistInv'
<1>1. TypeOK /\ LookupKept(w)
  BY DEF BlacklistInv
<1>2. /\ UNCHANGED <<host, shaken, tainted, loadVars, listVars, cacheVars>>
      /\ pc[w] = "scan" /\ pc' = [pc EXCEPT ![w] = "store"]
  BY DEF EndScan
<1>3. PICK v \in BOOLEAN :
        /\ verdict' = [verdict EXCEPT ![w] = v]
        /\ w \notin shaken => v = ~Listed(host[w])
  BY DEF EndScan
<1>4. TypeOK'
  BY <1>1, <1>2, <1>3 DEF TypeOK, Lookup
<1>5. pc'[w] = "store" /\ verdict'[w] = v
  BY <1>1, <1>2, <1>3 DEF TypeOK
<1>6. LookupKept(w)'
  BY <1>1, <1>2, <1>3, <1>5 DEF LookupKept, Undisturbed, Listed
<1>7. QED
  BY <1>1, <1>2, <1>3, <1>4, <1>6, LookupMoves DEF TypeOK

(***************************************************************************)
(* The insertion into the cache: by a lookup that has overlapped a reload, *)
(* and then the host is stale, or with what the list says.                 *)
(***************************************************************************)
LEMMA StoreStep ==
  ASSUME BlacklistInv, NEW w \in Workers, Store(w) \/ StoreLost(w)
  PROVE  BlacklistInv'
<1>1. TypeOK /\ LookupKept(w) /\ CacheKept
  BY DEF BlacklistInv
<1>2. /\ UNCHANGED <<host, verdict, shaken, tainted, loadVars, listVars>>
      /\ pc[w] = "storing" /\ pc' = [pc EXCEPT ![w] = "done"]
  BY DEF Store, StoreLost
<1>3. host[w] \in Hosts /\ verdict[w] \in BOOLEAN /\ cache \in Caches
  BY <1>1, <1>2 DEF LookupKept, TypeOK, Caches
<1>a. LET c == Remembering(host[w], verdict[w])
      IN  /\ c \in Caches /\ DOMAIN c = DOMAIN cache \cup {host[w]}
          /\ c[host[w]] = verdict[w]
          /\ \A x \in DOMAIN cache \ {host[w]} : c[x] = cache[x]
  BY <1>3, RememberingIs
<1>4. cache' \in Caches /\ stale' \subseteq Hosts /\ stale \subseteq stale'
  <2>1. stale \subseteq Hosts
    BY <1>1 DEF TypeOK
  <2>2. CASE Store(w)
    BY <1>3, <1>a, <2>1, <2>2 DEF Store
  <2>3. CASE StoreLost(w)
    BY <1>3, <2>1, <2>3 DEF StoreLost
  <2>4. QED
    BY <2>2, <2>3
<1>5. TypeOK'
  BY <1>1, <1>2, <1>4 DEF TypeOK, Caches, Lookup
<1>6. pc'[w] = "done"
  BY <1>1, <1>2 DEF TypeOK
<1>7. LookupKept(w)'
  BY <1>1, <1>2, <1>4, <1>6 DEF LookupKept, Undisturbed, Listed, Allowed
<1>8. ASSUME NEW v \in Workers, v # w PROVE LookupKept(v)'
  <2>1. LookupKept(v) /\ pc'[v] = pc[v]
    BY <1>1, <1>2, <1>8 DEF BlacklistInv, TypeOK
  <2>2. QED
    BY <1>2, <1>4, <2>1, LookupUnmoved
<1>9. CacheKept'
  <2>1. CASE StoreLost(w)
    BY <1>1, <2>1 DEF StoreLost, CacheKept, Listed
  <2>2. CASE Store(w) /\ w \in tainted
    <3>1. stale' = stale \cup {host[w]} /\ DOMAIN cache' = DOMAIN cache \cup {host[w]}
          /\ \A x \in DOMAIN cache \ {host[w]} : cache'[x] = cache[x]
      BY <1>a, <2>2 DEF Store
    <3>2. QED
      BY <1>1, <1>2, <3>1 DEF CacheKept, Listed
  <2>3. CASE Store(w) /\ w \notin tainted
    <3>1. /\ stale' = stale /\ DOMAIN cache' = DOMAIN cache \cup {host[w]}
          /\ cache'[host[w]] = verdict[w]
          /\ \A x \in DOMAIN cache \ {host[w]} : cache'[x] = cache[x]
      BY <1>a, <2>3 DEF Store
    <3>2. loader = "idle" /\ verdict[w] = ~Listed(host[w])
      BY <1>1, <1>2, <2>3 DEF LookupKept, Undisturbed
    <3>3. QED
      BY <1>1, <1>2, <3>1, <3>2 DEF CacheKept, Listed
  <2>4. QED
    BY <2>1, <2>2, <2>3
<1>10. ListKept'
  BY <1>2 DEF BlacklistInv, ListKept, ListIsPrefixOfFile
<1>11. QED
  BY <1>5, <1>7, <1>8, <1>9, <1>10 DEF BlacklistInv

-----------------------------------------------------------------------------
(***************************************************************************)
(* The steps of a reload.                                                  *)
(***************************************************************************)
LEMMA BeginLoadStep ==
  ASSUME BlacklistInv, NEW c \in Configs, BeginLoad(c)
  PROVE  BlacklistInv'
<1>1. TypeOK'
  BY DEF BlacklistInv, TypeOK, BeginLoad, Load
<1>2. ASSUME NEW w \in Workers PROVE LookupKept(w)'
  <2>1. pc'[w] = pc[w] /\ host'[w] = host[w] /\ (pc[w] # "idle" => w \in tainted')
    BY DEF BeginLoad
  <2>2. QED
    BY <2>1 DEF BlacklistInv, LookupKept, Undisturbed
<1>3. CacheKept' /\ ListKept'
  BY DEF BeginLoad, CacheKept, ListKept, ListIsPrefixOfFile
<1>4. QED
  BY <1>1, <1>2, <1>3 DEF BlacklistInv

LEMMA ClearStep ==
  ASSUME BlacklistInv, ClearPatterns \/ ClearCache
  PROVE  BlacklistInv'
<1>1. TypeOK
  BY DEF BlacklistInv
<1>2. <<>> \in Seq(SUBSET Hosts) /\ <<>> \in Caches
  BY EmptySeq, EmptyCache
<1>3. /\ UNCHANGED <<todo, reloads, host, pc, verdict, enabled, tainted>>
      /\ loader \in {"patterns", "cache"} /\ shaken' \subseteq Workers
  BY <1>1 DEF ClearPatterns, ClearCache, Shake, TypeOK
<1>4. \A w \in Workers : LookupKept(w)'
  BY <1>3, LookupLoading DEF BlacklistInv
<1>5. TypeOK'
  BY <1>1, <1>2, <1>3 DEF ClearPatterns, ClearCache, TypeOK, Caches, Load
<1>6. CacheKept' /\ ListKept'
  <2>1. CASE ClearPatterns
    BY <2>1 DEF ClearPatterns, CacheKept, ListKept, ListIsPrefixOfFile
  <2>2. CASE ClearCache
    BY <2>2, EmptyCache
       DEF ClearCache, BlacklistInv, CacheKept, ListKept, ListIsPrefixOfFile
  <2>3. QED
    BY <2>1, <2>2
<1>7. QED
  BY <1>4, <1>5, <1>6 DEF BlacklistInv

LEMMA SetEnabledStep ==
  ASSUME BlacklistInv, SetEnabled
  PROVE  BlacklistInv'
<1>1. TypeOK /\ CacheKept /\ ListKept
  BY DEF BlacklistInv
<1>2. UNCHANGED <<todo, reloads, host, pc, verdict, patterns, cacheVars, shaken, tainted>>
      /\ loader = "enabled"
  BY DEF SetEnabled
<1>3. /\ todo.patterns \in Seq(Patterns) /\ Len(todo.patterns) \in Nat
      /\ patterns = <<>> /\ Len(patterns) = 0 /\ DOMAIN patterns = {}
  BY <1>1, <1>2, ConfigFields, LenProperties, EmptySeq, EmptyCache DEF TypeOK, ListKept
<1>4. \/ todo.enabled \in BOOLEAN /\ enabled' = todo.enabled /\ loader' = "fill"
      \/ todo.enabled \notin BOOLEAN /\ enabled' = enabled /\ loader' = "idle"
  BY DEF SetEnabled
<1>5. \A w \in Workers : LookupKept(w)'
  BY <1>2, LookupLoading DEF BlacklistInv
<1>6. TypeOK'
  BY <1>1, <1>2, <1>4 DEF TypeOK, Load
<1>7. CacheKept'
  BY <1>1, <1>2, <1>4 DEF CacheKept, Listed
<1>8. ListKept'
  BY <1>2, <1>3, <1>4 DEF ListKept, ListIsPrefixOfFile
<1>9. QED
  BY <1>5, <1>6, <1>7, <1>8 DEF BlacklistInv

LEMMA AddPatternStep ==
  ASSUME BlacklistInv, AddPattern
  PROVE  BlacklistInv'
<1>1. TypeOK /\ CacheKept /\ ListKept
  BY DEF BlacklistInv
<1>2. UNCHANGED <<loadVars, enabled, cacheVars, host, pc, verdict, tainted>>
      /\ loader = "fill" /\ shaken' \subseteq Workers
  BY <1>1 DEF AddPattern, Shake, TypeOK
<1>3. /\ todo.patterns \in Seq(Patterns) /\ Len(todo.patterns) \in Nat
      /\ patterns \in Seq(SUBSET Hosts) /\ Len(patterns) \in Nat
      /\ Len(patterns) < Len(todo.patterns) /\ NextPattern # Malformed
  BY <1>1, ConfigFields, LenProperties DEF TypeOK, AddPattern
<1>4. NextPattern \in SUBSET Hosts
  BY <1>3, ElementOfSeq DEF NextPattern, Patterns
<1>5. /\ patterns' \in Seq(SUBSET Hosts) /\ Len(patterns') = Len(patterns) + 1
      /\ \A i \in 1 .. Len(patterns) : patterns'[i] = patterns[i]
      /\ patterns'[Len(patterns) + 1] = NextPattern
  BY <1>3, <1>4, AppendProperties DEF AddPattern
<1>6. \A w \in Workers : LookupKept(w)'
  BY <1>2, LookupLoading DEF BlacklistInv
<1>7. TypeOK'
  BY <1>1, <1>2, <1>5 DEF TypeOK
<1>8. CacheKept'
  BY <1>1, <1>2 DEF CacheKept
<1>9. ListKept'
  <2>1. DOMAIN patterns = 1 .. Len(patterns) /\ DOMAIN patterns' = 1 .. Len(patterns) + 1
    BY <1>3, <1>5, LenProperties
  <2>2. \A i \in DOMAIN patterns' : patterns'[i] = todo'.patterns[i]
    BY <1>1, <1>2, <1>3, <1>5, <2>1 DEF ListKept, ListIsPrefixOfFile, NextPattern
  <2>3. QED
    BY <1>1, <1>2, <1>3, <1>5, <2>2 DEF ListKept, ListIsPrefixOfFile
<1>10. QED
  BY <1>6, <1>7, <1>8, <1>9 DEF BlacklistInv

LEMMA EndLoadStep ==
  ASSUME BlacklistInv, EndLoad
  PROVE  BlacklistInv'
<1>1. TypeOK /\ CacheKept /\ ListKept
  BY DEF BlacklistInv
<1>2. /\ UNCHANGED <<todo, reloads, host, pc, verdict, listVars, cacheVars, shaken, tainted>>
      /\ loader = "fill" /\ loader' = "idle"
  BY DEF EndLoad
<1>3. \A w \in Workers : LookupKept(w)'
  BY <1>2, LookupLoading DEF BlacklistInv
<1>4. TypeOK'
  BY <1>1, <1>2 DEF TypeOK, Load
<1>5. CacheKept'
  BY <1>1, <1>2 DEF CacheKept
<1>6. Len(patterns) \in Nat /\ Len(todo.patterns) \in Nat
  BY <1>1, ConfigFields, LenProperties DEF TypeOK
<1>7. ListKept'
  BY <1>1, <1>2, <1>6 DEF EndLoad, NextPattern, ListKept, ListIsPrefixOfFile
<1>8. QED
  BY <1>3, <1>4, <1>5, <1>7 DEF BlacklistInv

LEMMA StutterStep ==
  ASSUME BlacklistInv, UNCHANGED vars
  PROVE  BlacklistInv'
<1>1. TypeOK' /\ CacheKept' /\ ListKept'
  BY DEF vars, BlacklistInv, TypeOK, CacheKept, Listed, ListKept, ListIsPrefixOfFile
<1>2. \A w \in Workers : LookupKept(w)'
  BY LookupUnmoved DEF vars, BlacklistInv
<1>3. QED
  BY <1>1, <1>2 DEF BlacklistInv

LEMMA BlacklistStep == BlacklistInv /\ [Next]_vars => BlacklistInv'
BY AskLeaveStep, TestStep, ScanStep, EndScanStep, StoreStep, BeginLoadStep,
   ClearStep, SetEnabledStep, AddPatternStep, EndLoadStep, StutterStep
   DEF Next

\* Every reachable state of the blacklist satisfies BlacklistInv.
LEMMA BlacklistInvariant == Spec => []BlacklistInv
BY BlacklistInit, BlacklistStep, PTL DEF Spec

LEMMA BlacklistSafe ==
  ASSUME BlacklistInv
  PROVE  CacheRightUnlessOverlapped /\ VerdictRightUnlessOverlapped
<1>1. CacheRightUnlessOverlapped
  BY DEF BlacklistInv, CacheKept, CacheRightUnlessOverlapped
<1>2. VerdictRightUnlessOverlapped
  BY DEF BlacklistInv, LookupKept, Undisturbed, VerdictRightUnlessOverlapped
<1>3. QED
  BY <1>1, <1>2

-----------------------------------------------------------------------------
(***************************************************************************)
(* For any workers, hosts, files and reloads, list and cache keep their    *)
(* types; no malformed pattern gets into the list.                         *)
(***************************************************************************)
THEOREM BlacklistTypeCorrect == Spec => []TypeOK
BY BlacklistInvariant, PTL DEF BlacklistInv

(***************************************************************************)
(* However many lookups race with each other, only one that overlaps a     *)
(* reload can leave a wrong verdict in the cache (isAllowed).              *)
(***************************************************************************)
THEOREM CacheRight == Spec => []CacheRightUnlessOverlapped
BY BlacklistInvariant, BlacklistSafe, PTL

(***************************************************************************)
(* A lookup that no reload overlaps returns what the list says, unless its *)
(* host was cached by one that a reload did overlap (isAllowed).           *)
(***************************************************************************)
THEOREM VerdictRight == Spec => []VerdictRightUnlessOverlapped
BY BlacklistInvariant, BlacklistSafe, PTL

(***************************************************************************)
(* For files of any length, a reload leaves the patterns of the file up to *)
(* the first that throws, and nothing of the old list (loadFromConfig).    *)
(***************************************************************************)
THEOREM ListFromFile == Spec => []ListIsPrefixOfFile
BY BlacklistInvariant, PTL DEF BlacklistInv, ListKept
=============================================================================
