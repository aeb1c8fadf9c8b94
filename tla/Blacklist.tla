----------------------------- MODULE Blacklist -----------------------------
(***************************************************************************)
(* The blacklist (Blacklist.hpp): workers look hosts up (isAllowed) while  *)
(* the web thread reloads the list (loadFromConfig).  Nothing of it is     *)
(* locked, and the workers are not paused for the reload.                  *)
(*                                                                         *)
(* A pattern is the set of the hosts it matches.  The steps are those at   *)
(* which another thread can tell the difference; where the code races,     *)
(* the reader gets one of the values a race can give it: a scan of         *)
(* m_patterns during which the vector changes may end with either verdict, *)
(* and an insertion into m_cache during another access to it may be lost   *)
(* or overlooked.  (Both are undefined behaviour and may also end the      *)
(* process.)                                                               *)
(***************************************************************************)
EXTENDS Naturals, Sequences, FiniteSets

CONSTANTS
  Workers, Hosts,
  Configs,     \* records [enabled, patterns] the file may hold
  NoHost,      \* a worker looks nothing up
  NoFlag,      \* an "enabled" that is not a boolean
  MaxReloads   \* bound: number of reloads

Malformed == {NoHost}   \* a pattern that is not a regular expression
Patterns == (SUBSET Hosts) \cup {Malformed}

ASSUME BlacklistAssumption ==
  /\ NoHost \notin Hosts
  /\ NoFlag \notin BOOLEAN
  /\ Configs \subseteq [enabled : BOOLEAN \cup {NoFlag}, patterns : Seq(Patterns)]
  /\ MaxReloads \in Nat

VARIABLES
  enabled,   \* m_enabled
  patterns,  \* m_patterns
  cache,     \* m_cache: a function from the hosts it knows to verdicts
  host,      \* the host each worker looks up
  pc,        \* where each worker is in isAllowed
  verdict,   \* what each worker's lookup has found or returned
  shaken,    \* the workers under whose scan m_patterns has changed
  loader,    \* where the web thread is in loadFromConfig
  todo,      \* the configuration the loader works on
  tainted,   \* history: workers whose lookup overlapped a reload
  stale,     \* history: hosts cached by such a lookup since the last clear
  reloads    \* history: number of reloads

lookupVars == <<host, pc, verdict, shaken, tainted>>
loadVars   == <<loader, todo, reloads>>
listVars   == <<enabled, patterns>>
cacheVars  == <<cache, stale>>
vars == <<lookupVars, loadVars, listVars, cacheVars>>

Lookup == {"idle", "enabled", "find", "begin", "scan", "store", "storing", "done"}
Load   == {"idle", "patterns", "cache", "enabled", "fill"}

TypeOK ==
  /\ enabled \in BOOLEAN
  /\ patterns \in Seq(SUBSET Hosts)
  /\ cache \in UNION {[known -> BOOLEAN] : known \in SUBSET Hosts}
  /\ host \in [Workers -> Hosts \cup {NoHost}]
  /\ pc \in [Workers -> Lookup]
  /\ verdict \in [Workers -> BOOLEAN]
  /\ shaken \subseteq Workers /\ tainted \subseteq Workers
  /\ loader \in Load
  /\ todo \in Configs
  /\ stale \subseteq Hosts
  /\ reloads \in 0 .. MaxReloads

Init ==
  /\ todo \in {c \in Configs : /\ c.enabled \in BOOLEAN
                             /\ \A i \in DOMAIN c.patterns : c.patterns[i] # Malformed}
  /\ enabled = todo.enabled /\ patterns = todo.patterns
  /\ cache = <<>>
  /\ host = [w \in Workers |-> NoHost]
  /\ pc = [w \in Workers |-> "idle"]
  /\ verdict = [w \in Workers |-> TRUE]
  /\ shaken = {} /\ tainted = {} /\ stale = {}
  /\ loader = "idle" /\ reloads = 0

-----------------------------------------------------------------------------
(***************************************************************************)
(* isAllowed.                                                              *)
(***************************************************************************)
Listed(h) == \E i \in DOMAIN patterns : h \in patterns[i]

Goto(w, l) == pc' = [pc EXCEPT ![w] = l]

Ask(w, h) ==
  /\ pc[w] = "idle"
  /\ host' = [host EXCEPT ![w] = h]
  /\ tainted' = IF loader = "idle" THEN tainted \ {w} ELSE tainted \cup {w}
  /\ Goto(w, "enabled")
  /\ UNCHANGED <<verdict, shaken, loadVars, listVars, cacheVars>>

Answer(w, allowed) ==
  /\ verdict' = [verdict EXCEPT ![w] = allowed]
  /\ Goto(w, "done")

TestEnabled(w) ==
  /\ pc[w] = "enabled"
  /\ IF enabled THEN Goto(w, "find") /\ UNCHANGED verdict ELSE Answer(w, TRUE)
  /\ UNCHANGED <<host, shaken, tainted, loadVars, listVars, cacheVars>>

\* Somebody else is changing the cache.
CacheBusy(w) == \E v \in Workers \ {w} : pc[v] = "storing"

Find(w) ==
  /\ pc[w] = "find"
  /\ IF host[w] \in DOMAIN cache
     THEN Answer(w, cache[host[w]])
     ELSE Goto(w, "begin") /\ UNCHANGED verdict
  /\ UNCHANGED <<host, shaken, tainted, loadVars, listVars, cacheVars>>

Overlook(w) ==
  /\ pc[w] = "find"
  /\ host[w] \in DOMAIN cache
  /\ CacheBusy(w)
  /\ Goto(w, "begin")
  /\ UNCHANGED <<host, verdict, shaken, tainted, loadVars, listVars, cacheVars>>

BeginScan(w) ==
  /\ pc[w] = "begin"
  /\ shaken' = shaken \ {w}
  /\ Goto(w, "scan")
  /\ UNCHANGED <<host, verdict, tainted, loadVars, listVars, cacheVars>>

\* Mutant: only the first pattern is tried.
EndScanFirst(w) ==
  /\ pc[w] = "scan"
  /\ \E allowed \in BOOLEAN :
       /\ w \notin shaken =>
            allowed = ~(patterns # <<>> /\ host[w] \in Head(patterns))
       /\ verdict' = [verdict EXCEPT ![w] = allowed]
  /\ Goto(w, "store")
  /\ UNCHANGED <<host, shaken, tainted, loadVars, listVars, cacheVars>>

EndScan(w) ==
  /\ pc[w] = "scan"
  /\ \E allowed \in BOOLEAN :
       /\ w \notin shaken => allowed = ~Listed(host[w])
       /\ verdict' = [verdict EXCEPT ![w] = allowed]
  /\ Goto(w, "store")
  /\ UNCHANGED <<host, shaken, tainted, loadVars, listVars, cacheVars>>

BeginStore(w) ==
  /\ pc[w] = "store"
  /\ Goto(w, "storing")
  /\ UNCHANGED <<host, verdict, shaken, tainted, loadVars, listVars, cacheVars>>

Remembering(h, v) ==
  [x \in DOMAIN cache \cup {h} |-> IF x = h THEN v ELSE cache[x]]

Store(w) ==
  /\ pc[w] = "storing"
  /\ cache' = Remembering(host[w], verdict[w])
  /\ stale' = IF w \in tainted THEN stale \cup {host[w]} ELSE stale
  /\ Goto(w, "done")
  /\ UNCHANGED <<host, verdict, shaken, tainted, loadVars, listVars>>

StoreLost(w) ==
  /\ pc[w] = "storing"
  /\ CacheBusy(w)
  /\ Goto(w, "done")
  /\ UNCHANGED <<host, verdict, shaken, tainted, loadVars, listVars, cacheVars>>

\* The accepter uses the verdict and is done with it.
Leave(w) ==
  /\ pc[w] = "done"
  /\ host' = [host EXCEPT ![w] = NoHost]
  /\ tainted' = tainted \ {w}
  /\ Goto(w, "idle")
  /\ UNCHANGED <<verdict, shaken, loadVars, listVars, cacheVars>>

-----------------------------------------------------------------------------
(***************************************************************************)
(* loadFromConfig, after the file has been read.                           *)
(***************************************************************************)
LoadGoto(l) == loader' = l /\ UNCHANGED <<todo, reloads, host, pc, verdict>>

\* m_patterns changes under the workers that scan it.
Shake == shaken' = shaken \cup {w \in Workers : pc[w] = "scan"}

BeginLoad(c) ==
  /\ loader = "idle"
  /\ reloads < MaxReloads
  /\ reloads' = reloads + 1
  /\ todo' = c
  /\ loader' = "patterns"
  /\ tainted' = tainted \cup {w \in Workers : pc[w] # "idle"}
  /\ UNCHANGED <<host, pc, verdict, shaken, listVars, cacheVars>>

\* Mutant: the patterns of the new file are added to the old ones.
KeepPatterns ==
  /\ loader = "patterns"
  /\ LoadGoto("cache")
  /\ UNCHANGED <<patterns, shaken, enabled, cacheVars, tainted>>

ClearPatterns ==
  /\ loader = "patterns"
  /\ patterns' = <<>>
  /\ Shake
  /\ LoadGoto("cache")
  /\ UNCHANGED <<enabled, cacheVars, tainted>>

\* Mutant: the cache survives the reload.
KeepCache ==
  /\ loader = "cache"
  /\ LoadGoto("enabled")
  /\ stale' = {}
  /\ UNCHANGED <<cache, listVars, shaken, tainted>>

ClearCache ==
  /\ loader = "cache"
  /\ cache' = <<>>
  /\ stale' = {}
  /\ LoadGoto("enabled")
  /\ UNCHANGED <<listVars, shaken, tainted>>

\* An "enabled" that is no boolean passes the validation and throws here.
SetEnabled ==
  /\ loader = "enabled"
  /\ IF todo.enabled \in BOOLEAN
     THEN enabled' = todo.enabled /\ LoadGoto("fill")
     ELSE UNCHANGED enabled /\ LoadGoto("idle")
  /\ UNCHANGED <<patterns, cacheVars, shaken, tainted>>

NextPattern == todo.patterns[Len(patterns) + 1]

\* Mutant: a pattern that does not compile is stored all the same.
AddAnyPattern ==
  /\ loader = "fill"
  /\ Len(patterns) < Len(todo.patterns)
  /\ patterns' = Append(patterns, NextPattern)
  /\ Shake
  /\ UNCHANGED <<loadVars, enabled, cacheVars, host, pc, verdict, tainted>>

AddPattern ==
  /\ loader = "fill"
  /\ Len(patterns) < Len(todo.patterns)
  /\ NextPattern # Malformed
  /\ patterns' = Append(patterns, NextPattern)
  /\ Shake
  /\ UNCHANGED <<loadVars, enabled, cacheVars, host, pc, verdict, tainted>>

\* All patterns are in, or the next one throws and the list stays as it is.
EndLoad ==
  /\ loader = "fill"
  /\ \/ Len(patterns) = Len(todo.patterns)
     \/ Len(patterns) < Len(todo.patterns) /\ NextPattern = Malformed
  /\ LoadGoto("idle")
  /\ UNCHANGED <<listVars, cacheVars, shaken, tainted>>

Next ==
  \/ \E w \in Workers :
       \/ \E h \in Hosts : Ask(w, h)
       \/ TestEnabled(w) \/ Find(w) \/ Overlook(w) \/ BeginScan(w) \/ EndScan(w)
       \/ BeginStore(w) \/ Store(w) \/ StoreLost(w) \/ Leave(w)
  \/ \E c \in Configs : BeginLoad(c)
  \/ ClearPatterns \/ ClearCache \/ SetEnabled \/ AddPattern \/ EndLoad

Spec == Init /\ [][Next]_vars

-----------------------------------------------------------------------------
Allowed(h) == ~enabled \/ ~Listed(h)

(***************************************************************************)
(* Only a lookup that overlapped a reload can poison the cache: between    *)
(* reloads, a cached verdict stored by any other lookup is what the list   *)
(* says, though lookups race with each other.                              *)
(***************************************************************************)
CacheRightUnlessOverlapped ==
  loader = "idle" =>
    \A h \in DOMAIN cache \ stale : cache[h] = ~Listed(h)

(***************************************************************************)
(* So every verdict that a lookup free of overlap returns on a host whose  *)
(* cached verdict is not poisoned is right.                                *)
(***************************************************************************)
VerdictRightUnlessOverlapped ==
  \A w \in Workers :
    /\ pc[w] = "done" /\ w \notin tainted /\ loader = "idle"
    /\ host[w] \notin stale
    => verdict[w] = Allowed(host[w])

(***************************************************************************)
(* A reload that is over leaves the list of its file, or, when a pattern   *)
(* threw, exactly the patterns before that one: nothing of the old list.   *)
(* Only the enabled flag of the old one stays when the new one threw.      *)
(***************************************************************************)
ListIsPrefixOfFile ==
  loader \in {"idle", "fill"} =>
    /\ \A i \in DOMAIN patterns : patterns[i] = todo.patterns[i]
    /\ todo.enabled \in BOOLEAN => enabled = todo.enabled
    /\ todo.enabled \notin BOOLEAN => patterns = <<>>
    /\ loader = "idle" /\ Len(patterns) < Len(todo.patterns) =>
          \/ todo.enabled \notin BOOLEAN
          \/ todo.patterns[Len(patterns) + 1] = Malformed

-----------------------------------------------------------------------------
\* "if any pattern matches, block the host": once a reload is over, a host
\* that the list matches is not remembered as allowed.
ListedHostsBlocked ==
  loader = "idle" /\ enabled =>
    \A h \in DOMAIN cache : Listed(h) => ~cache[h]
=============================================================================
