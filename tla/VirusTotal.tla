----------------------------- MODULE VirusTotal -----------------------------
(***************************************************************************)
(* Resolver asks VirusTotal about hosts (Resolver::execute, VirustotalAPI, *)
(* Api) while the web thread reloads the API keys (APIKeyManager).  Flag   *)
(* and keys are read under the manager's mutex, but each on its own.  The  *)
(* Api object is made anew for every host and sends one request: its list  *)
(* of request times is empty, so that waitForRateLimit never waits, and    *)
(* its index is 0, so that getNextKey returns the first key.               *)
(*                                                                         *)
(* The service is external: it knows some hosts, grants every key a number *)
(* of requests a minute, and answers everything else with an error.        *)
(* parseResponse reads the members of a reply through const references,    *)
(* and asks beforehand for few of them: a missing one fails an assertion   *)
(* of the JSON library and the process aborts, one of another type throws. *)
(***************************************************************************)
EXTENDS Naturals, Sequences

CONSTANTS
  Workers,    \* the workers that resolve
  Hosts,      \* the hosts, as the records VirusTotal has on them: HostType
  Keys,       \* API keys
  Settings,   \* the virustotal sections of files that pass the validation
  StartSettings,  \* those of files the program may start from
  Quota,      \* requests a minute the service grants a key
  MaxReloads  \* bound: number of reloads

\* What parseResponse makes of a record: it reads all of a "whole" one and of
\* a "bare" one, which has no statistics; it stops at a field of another type
\* in an "odd" one, and at a missing member in one with a "gap", be it the
\* attributes or one of the statistics or of the votes.
HostType == [known : BOOLEAN, record : {"whole", "bare", "odd", "gap"},
             malicious : Nat, suspicious : Nat]

\* flag: what "enabled" is, "none" when it is no boolean; keys: the entries
\* before the first that is no string; bad: there is such an entry.  A file
\* with no such section leaves the manager as one that is off and has no keys.
SettingType ==
  [flag : {"on", "off", "none"}, keys : Seq(Keys), bad : BOOLEAN]

Accepted(s) == s.flag # "none" /\ ~s.bad

ASSUME VirusTotalAssumption ==
  /\ Hosts \subseteq HostType
  /\ \A h \in Hosts : h.record = "bare" => h.malicious = 0 /\ h.suspicious = 0
  /\ Settings \subseteq SettingType /\ StartSettings \subseteq SettingType
  /\ \A s \in Settings : s.keys = <<>> => s.bad   \* a valid list is not empty
  /\ Quota \in Nat /\ MaxReloads \in Nat

VARIABLES
  enabled,  \* m_enabled
  keys,     \* m_keys
  reloads,  \* number of reloads
  used,     \* requests the service has granted each key this minute
  died,     \* the process has aborted
  pc,       \* where each worker is
  host,     \* the host it asks about
  key,      \* the keys it has read; from the request on, the one it uses
  reply,    \* "none", "failed", "error", "no json" or "record"
  verdict,  \* "none", "cleared" or "denied"
  loaded,   \* history: what the last load was to leave
  span      \* history: the values of loaded during the lookup

manager == <<enabled, keys, reloads, loaded>>
vars    == <<manager, used, died, pc, host, key, reply, verdict, span>>

LoadedType ==
  [enabled : BOOLEAN, keys : Seq(Keys), failed : BOOLEAN, start : BOOLEAN]

TypeOK ==
  /\ enabled \in BOOLEAN /\ keys \in Seq(Keys)
  /\ reloads \in 0 .. MaxReloads
  /\ used \in [Keys -> 0 .. Quota]
  /\ died \in BOOLEAN
  /\ pc \in [Workers -> {"idle", "enabled", "keys", "send", "waiting", "parse"}]
  /\ host \in [Workers -> Hosts]
  /\ key \in [Workers -> Seq(Keys)]
  /\ reply \in [Workers -> {"none", "failed", "error", "no json", "record"}]
  /\ verdict \in [Workers -> {"none", "cleared", "denied"}]
  /\ loaded \in LoadedType
  /\ \A w \in Workers : span[w] \subseteq LoadedType

-----------------------------------------------------------------------------
(***************************************************************************)
(* APIKeyManager::loadFromConfig.  The keys are cleared first; a flag that *)
(* is no boolean leaves the old one with no keys, an entry that is no      *)
(* string the keys before it.                                              *)
(***************************************************************************)
Result(s) ==
  [enabled |-> IF s.flag = "none" THEN loaded.enabled ELSE s.flag = "on",
   keys    |-> IF s.flag = "none" THEN <<>> ELSE s.keys,
   failed  |-> ~Accepted(s),
   start   |-> FALSE]

\* The start reads the file without validating it, and ends with an exception
\* of the load.
Init ==
  /\ \E s \in StartSettings :
       /\ Accepted(s)
       /\ enabled = (s.flag = "on")
       /\ keys = s.keys
  /\ loaded = [enabled |-> enabled, keys |-> keys, failed |-> FALSE, start |-> TRUE]
  /\ reloads = 0
  /\ used = [k \in Keys |-> 0]
  /\ died = FALSE
  /\ pc = [w \in Workers |-> "idle"]
  /\ \E h \in Hosts : host = [w \in Workers |-> h]
  /\ key = [w \in Workers |-> <<>>]
  /\ reply = [w \in Workers |-> "none"]
  /\ verdict = [w \in Workers |-> "none"]
  /\ span = [w \in Workers |-> {}]

Seen(l) ==
  /\ loaded' = l
  /\ span' = [w \in Workers |->
                IF pc[w] = "idle" THEN span[w] ELSE span[w] \cup {l}]

\* Mutant: the flag is read at start-up only.
ReloadKeysOnly(s) ==
  /\ ~died
  /\ reloads < MaxReloads
  /\ reloads' = reloads + 1
  /\ keys' = Result(s).keys
  /\ Seen(Result(s))
  /\ UNCHANGED <<enabled, used, died, pc, host, key, reply, verdict>>

Reload(s) ==
  /\ ~died
  /\ reloads < MaxReloads
  /\ reloads' = reloads + 1
  /\ enabled' = Result(s).enabled
  /\ keys' = Result(s).keys
  /\ Seen(Result(s))
  /\ UNCHANGED <<used, died, pc, host, key, reply, verdict>>

-----------------------------------------------------------------------------
At(w, l) == ~died /\ pc[w] = l

Goto(w, l) == pc' = [pc EXCEPT ![w] = l]

\* The Api object ends with the lookup.
Decide(w, v) ==
  /\ key' = [key EXCEPT ![w] = <<>>]
  /\ verdict' = [verdict EXCEPT ![w] = v]
  /\ Goto(w, "idle")

Ask(w, h) ==
  /\ At(w, "idle")
  /\ Goto(w, "enabled")
  /\ host' = [host EXCEPT ![w] = h]
  /\ reply' = [reply EXCEPT ![w] = "none"]
  /\ verdict' = [verdict EXCEPT ![w] = "none"]
  /\ span' = [span EXCEPT ![w] = {loaded}]
  /\ UNCHANGED <<manager, used, died, key>>

ReadEnabled(w) ==
  /\ At(w, "enabled")
  /\ IF enabled
     THEN Goto(w, "keys") /\ UNCHANGED <<key, verdict>>
     ELSE Decide(w, "cleared")
  /\ UNCHANGED <<manager, used, died, host, reply, span>>

ReadKeys(w) ==
  /\ At(w, "keys")
  /\ IF keys = <<>>
     THEN Decide(w, "cleared")
     ELSE /\ key' = [key EXCEPT ![w] = keys]
          /\ Goto(w, "send")
          /\ UNCHANGED verdict
  /\ UNCHANGED <<manager, used, died, host, reply, span>>

\* Mutant: getNextKey moves on before it reads.
SendNextKey(w) ==
  /\ At(w, "send")
  /\ key' = [key EXCEPT ![w] = <<@[1 + (1 % Len(@))]>>]
  /\ Goto(w, "waiting")
  /\ UNCHANGED <<manager, used, died, host, reply, verdict, span>>

\* fetchUsingKey: no wait, and the first key.
Send(w) ==
  /\ At(w, "send")
  /\ key' = [key EXCEPT ![w] = <<Head(@)>>]
  /\ Goto(w, "waiting")
  /\ UNCHANGED <<manager, used, died, host, reply, verdict, span>>

\* Resolver allows access when the call throws.
RequestFails(w) ==
  /\ At(w, "waiting")
  /\ reply' = [reply EXCEPT ![w] = "failed"]
  /\ Decide(w, "cleared")
  /\ UNCHANGED <<manager, used, died, host, span>>

-----------------------------------------------------------------------------
(***************************************************************************)
(* The service.                                                            *)
(***************************************************************************)
Granted(w) == used[key[w][1]] < Quota

\* The request is a GET, or not: m_operation_type of Api is never set.
Reply(w, get) ==
  IF get /\ Granted(w) /\ host[w].known THEN "record" ELSE "error"

\* Mutant: refused requests are counted too.
AnswerCountingAll(w) ==
  /\ At(w, "waiting")
  /\ \E get \in BOOLEAN : reply' = [reply EXCEPT ![w] = Reply(w, get)]
  /\ used' = [used EXCEPT ![key[w][1]] = @ + 1]
  /\ Goto(w, "parse")
  /\ UNCHANGED <<manager, died, host, key, verdict, span>>

Answer(w) ==
  /\ At(w, "waiting")
  /\ \E get \in BOOLEAN : reply' = [reply EXCEPT ![w] = Reply(w, get)]
  /\ used' = IF Granted(w) THEN [used EXCEPT ![key[w][1]] = @ + 1] ELSE used
  /\ Goto(w, "parse")
  /\ UNCHANGED <<manager, died, host, key, verdict, span>>

\* Something between here and the service answers in its place; an object
\* with no "data" is like an error of the service.
AnswerInstead(w) ==
  /\ At(w, "waiting")
  /\ \E r \in {"no json", "error"} : reply' = [reply EXCEPT ![w] = r]
  /\ Goto(w, "parse")
  /\ UNCHANGED <<manager, used, died, host, key, verdict, span>>

MinutePasses ==
  /\ \E k \in Keys : used[k] > 0
  /\ used' = [k \in Keys |-> 0]
  /\ UNCHANGED <<manager, died, pc, host, key, reply, verdict, span>>

-----------------------------------------------------------------------------
\* Mutant: a host has to be both to be blocked.
BlockedIfBoth(h) == h.malicious > 0 /\ h.suspicious > 0

Blocked(h) == h.malicious > 0 \/ h.suspicious > 0

\* A member that parseResponse does not ask for is missing: "data" in an error.
Gaps(w) ==
  reply[w] = "error" \/ (reply[w] = "record" /\ host[w].record = "gap")

\* Mutant: the statistics are read without asking whether they are there.
AbortUnguarded(w) ==
  /\ At(w, "parse")
  /\ Gaps(w) \/ (reply[w] = "record" /\ host[w].record = "bare")
  /\ died' = TRUE
  /\ UNCHANGED <<manager, used, pc, host, key, reply, verdict, span>>

Abort(w) ==
  /\ At(w, "parse")
  /\ Gaps(w)
  /\ died' = TRUE
  /\ UNCHANGED <<manager, used, pc, host, key, reply, verdict, span>>

\* What cannot be parsed makes parseResponse or Resolver throw, and Resolver
\* allows access; so does it when the statistics are missing.
Parse(w) ==
  /\ At(w, "parse")
  /\ ~Gaps(w)
  /\ Decide(w, IF reply[w] = "record" /\ host[w].record # "odd" /\ Blocked(host[w])
               THEN "denied" ELSE "cleared")
  /\ UNCHANGED <<manager, used, died, host, reply, span>>

WorkerStep(w) ==
  ReadEnabled(w) \/ ReadKeys(w) \/ Send(w) \/ Abort(w) \/ Parse(w)

Next ==
  \/ \E s \in Settings : Reload(s)
  \/ \E w \in Workers :
       \/ \E h \in Hosts : Ask(w, h)
       \/ WorkerStep(w)
       \/ RequestFails(w) \/ Answer(w) \/ AnswerInstead(w)
  \/ MinutePasses

Spec == Init /\ [][Next]_vars

-----------------------------------------------------------------------------
Malicious(h) == h.malicious + h.suspicious > 0

(***************************************************************************)
(* A reply is taken for what it says: a host is denied only on a record    *)
(* against it; it is cleared in spite of one only if a field of that has   *)
(* another type; and the process dies of nothing but an error or a record  *)
(* with a gap, while it survives records without statistics, fields of     *)
(* other types and what is no JSON (Resolver::execute, parseResponse).     *)
(***************************************************************************)
ReplyDecides ==
  /\ \A w \in Workers :
       /\ verdict[w] = "denied" => reply[w] = "record" /\ Malicious(host[w])
       /\ verdict[w] = "cleared" /\ reply[w] = "record" /\ Malicious(host[w])
            => host[w].record = "odd"
  /\ died => \E w \in Workers : Gaps(w)

(***************************************************************************)
(* A host is cleared without being asked about only if at some moment of   *)
(* its lookup VirusTotal was switched off, or had no keys because the last *)
(* load had failed or the program was started without any: a successful    *)
(* reload is never seen half done, although flag and keys are read under   *)
(* two locks (isEnabled, getKeys, loadFromConfig).                         *)
(***************************************************************************)
UnaskedOnlyIfOffOrKeyless ==
  \A w \in Workers :
    verdict[w] = "cleared" /\ reply[w] = "none" =>
       \E l \in span[w] :
         ~l.enabled \/ (l.keys = <<>> /\ (l.failed \/ l.start))

(***************************************************************************)
(* And when it is asked about, VirusTotal was on at some moment of the     *)
(* lookup, and the key is the first one of a list that was configured at   *)
(* some moment of it: the other keys are never used, whatever the quota of *)
(* the first (getNextKey on a new object).                                 *)
(***************************************************************************)
AskedAsConfigured ==
  \A w \in Workers :
    pc[w] \in {"waiting", "parse"} =>
       /\ \E l \in span[w] : l.enabled
       /\ \E l \in span[w] : l.keys # <<>> /\ key[w] = <<l.keys[1]>>
=============================================================================
