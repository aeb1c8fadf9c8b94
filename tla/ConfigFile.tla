----------------------------- MODULE ConfigFile -----------------------------
(***************************************************************************)
(* The life of a configuration: a request of the web interface rewrites    *)
(* configuration.json with a backup (Command::updateConfigurationFile),    *)
(* has the server rewrite it once more (Server::updateConfiguration), and  *)
(* then loads blacklist, API keys and pools from it.  Any file operation   *)
(* may fail, and the process may die between any two steps; it then starts *)
(* again from the file.  The scaling thread changes the pools at any time. *)
(*                                                                         *)
(* A configuration is a value; what the code tells apart is whether it     *)
(* passes validateConfigurationFile, and whether the loaders accept it:    *)
(* a pattern that is no regular expression, or a key that is no string,    *)
(* passes the validation and makes the loader throw half way.  The start   *)
(* of the program validates nothing: of the configurations a request may   *)
(* not bring, it accepts those that its constructors can read.             *)
(***************************************************************************)
EXTENDS Naturals, FiniteSets

CONSTANTS
  Configs,      \* configurations a request may carry
  Invalid,      \* those validateConfigurationFile rejects
  BadPatterns,  \* valid ones Blacklist::loadFromConfig throws on
  BadKeys,      \* valid ones APIKeyManager::loadFromConfig throws on
  Unchecked,    \* invalid ones the start of the program accepts
  Partial,      \* a file, a list or a set of pools that is not all there
  Scaled,       \* pools the scaling thread has changed
  Absent,       \* there is no such file
  MaxFailures,  \* bound: number of operations that fail
  MaxCrashes    \* bound: number of times the process dies

ASSUME ConfigAssumption ==
  /\ Invalid \cup BadPatterns \cup BadKeys \subseteq Configs
  /\ Invalid \cap (BadPatterns \cup BadKeys) = {}
  /\ Unchecked \subseteq Invalid
  /\ Configs \cap {Partial, Absent, Scaled} = {}
  /\ Partial # Absent /\ Partial # Scaled
  /\ MaxFailures \in Nat /\ MaxCrashes \in Nat

Valid == Configs \ Invalid
Loadable == Valid \ (BadPatterns \cup BadKeys)

\* What the program starts from, and what its files may hold.
Startable == Loadable \cup Unchecked
Held == Valid \cup Unchecked

VARIABLES
  file,       \* configuration.json
  bak,        \* configuration.json.bak
  blacklist,  \* what the blacklist in memory was loaded from
  keys,       \* what the API keys in memory were loaded from
  pools,      \* what the pools were configured from
  proc,       \* the process: "up", "down" or "failed" to start
  pc,         \* where the web thread is
  call,       \* 1: called by WebServer, 2: called by Server
  request,    \* the configuration being written
  reply,      \* answer to the last request: "none", "success" or "error"
  failures,   \* number of failed operations
  crashes,    \* number of crashes
  before      \* history: the file when the last request came

disk   == <<file, bak>>
memory == <<blacklist, keys, pools>>
where  == <<proc, pc, call, request, reply, before>>
counts == <<failures, crashes>>
vars   == <<disk, memory, where, counts>>

PCs == {"idle", "validate", "backup", "backing", "open", "write", "verify",
        "restore", "restoring", "remove", "reread", "blacklist", "keys",
        "pools"}

TypeOK ==
  /\ file \in Held \cup {Partial}
  /\ bak \in Held \cup {Partial, Absent}
  /\ blacklist \in Held \cup {Partial}
  /\ keys \in Held \cup {Partial}
  /\ pools \in Held \cup {Partial, Scaled}
  /\ proc \in {"up", "down", "failed"}
  /\ pc \in PCs
  /\ call \in 1 .. 2
  /\ request \in Configs
  /\ reply \in {"none", "success", "error"}
  /\ failures \in 0 .. MaxFailures
  /\ crashes \in 0 .. MaxCrashes
  /\ before \in Held \cup {Partial}

Init ==
  /\ file \in Startable
  /\ bak = Absent
  /\ blacklist = file /\ keys = file /\ pools = file
  /\ proc = "up" /\ pc = "idle" /\ call = 1
  /\ request = file /\ reply = "none" /\ before = file
  /\ failures = 0 /\ crashes = 0

-----------------------------------------------------------------------------
At(l) == proc = "up" /\ pc = l

Goto(l) == pc' = l /\ UNCHANGED <<proc, call, request, reply, before>>

\* The request is answered with an error: a false, or an exception, from
\* anywhere on the way.
GiveUp ==
  /\ pc' = "idle"
  /\ reply' = "error"
  /\ UNCHANGED <<proc, call, request, before>>

Receive(c) ==
  /\ At("idle")
  /\ request' = c
  /\ call' = 1
  /\ before' = file
  /\ reply' = "none"
  /\ pc' = "validate"
  /\ UNCHANGED <<proc, disk, memory, counts>>

\* Mutant: a request is written as it comes.
ValidateNothing ==
  /\ At("validate")
  /\ Goto("backup")
  /\ UNCHANGED <<disk, memory, counts>>

Validate ==
  /\ At("validate")
  /\ IF request \in Valid THEN Goto("backup") ELSE GiveUp
  /\ UNCHANGED <<disk, memory, counts>>

\* Mutant: no backup is made of the file.
NoBackup ==
  /\ At("backup")
  /\ Goto("open")
  /\ UNCHANGED <<disk, memory, counts>>

\* copy_file truncates the backup and then fills it.
Backup ==
  /\ At("backup")
  /\ bak' = Partial
  /\ Goto("backing")
  /\ UNCHANGED <<file, memory, counts>>

BackedUp ==
  /\ At("backing")
  /\ bak' = file
  /\ Goto("open")
  /\ UNCHANGED <<file, memory, counts>>

\* Opening the ofstream truncates the file.
Open ==
  /\ At("open")
  /\ file' = Partial
  /\ Goto("write")
  /\ UNCHANGED <<bak, memory, counts>>

Write ==
  /\ At("write")
  /\ file' = request
  /\ Goto("verify")
  /\ UNCHANGED <<bak, memory, counts>>

\* The state of the stream is not looked at: a failed write goes unnoticed
\* until the file is read back.
WriteFails ==
  /\ At("write")
  /\ failures < MaxFailures
  /\ failures' = failures + 1
  /\ Goto("verify")
  /\ UNCHANGED <<disk, memory, crashes>>

\* Mutant: what was written is not read back.
VerifyNothing ==
  /\ At("verify")
  /\ Goto("remove")
  /\ UNCHANGED <<disk, memory, counts>>

Verify ==
  /\ At("verify")
  /\ Goto(IF file \in Valid THEN "remove" ELSE "restore")
  /\ UNCHANGED <<disk, memory, counts>>

Restore ==
  /\ At("restore")
  /\ IF bak = Absent THEN GiveUp /\ UNCHANGED file
     ELSE file' = Partial /\ Goto("restoring")
  /\ UNCHANGED <<bak, memory, counts>>

Restored ==
  /\ At("restoring")
  /\ file' = bak
  /\ GiveUp
  /\ UNCHANGED <<bak, memory, counts>>

\* The server reads the file back and writes it a second time.
Remove ==
  /\ At("remove")
  /\ bak' = Absent
  /\ Goto(IF call = 1 THEN "reread" ELSE "blacklist")
  /\ UNCHANGED <<file, memory, counts>>

Reread ==
  /\ At("reread")
  /\ IF file \in Valid
     THEN /\ request' = file
          /\ call' = 2
          /\ pc' = "validate"
          /\ UNCHANGED <<proc, reply, before>>
     ELSE GiveUp
  /\ UNCHANGED <<disk, memory, counts>>

\* The loaders read the file, clear what they have and refill it.

LoadBlacklist ==
  /\ At("blacklist")
  /\ IF file \in BadPatterns
     THEN blacklist' = Partial /\ GiveUp
     ELSE blacklist' = file /\ Goto("keys")
  /\ UNCHANGED <<disk, keys, pools, counts>>

\* Mutant: the exception of the loader is swallowed.
LoadKeysAnyway ==
  /\ At("keys")
  /\ keys' = IF file \in BadKeys THEN Partial ELSE file
  /\ Goto("pools")
  /\ UNCHANGED <<disk, blacklist, pools, counts>>

LoadKeys ==
  /\ At("keys")
  /\ IF file \in BadKeys
     THEN keys' = Partial /\ GiveUp
     ELSE keys' = file /\ Goto("pools")
  /\ UNCHANGED <<disk, blacklist, pools, counts>>

ConfigurePools ==
  /\ At("pools")
  /\ pools' = request
  /\ pc' = "idle"
  /\ reply' = "success"
  /\ UNCHANGED <<proc, call, request, before, disk, blacklist, keys, counts>>

\* Mutant: the exception is logged and not thrown on.
PoolsFailQuietly ==
  /\ At("pools")
  /\ failures < MaxFailures
  /\ failures' = failures + 1
  /\ pools' \in {pools, Partial}
  /\ pc' = "idle"
  /\ reply' = "success"
  /\ UNCHANGED <<proc, call, request, before, disk, blacklist, keys, crashes>>

\* The constructor of an object throws: the limit of its pool and the pools
\* before it are set.  Or something throws before the first one is.
ConfigurePoolsFails ==
  /\ At("pools")
  /\ failures < MaxFailures
  /\ failures' = failures + 1
  /\ pools' \in {pools, Partial}
  /\ GiveUp
  /\ UNCHANGED <<disk, blacklist, keys, crashes>>

\* The scaling thread sets the limits and the number of objects of a pool,
\* whatever the web thread is at.
ScalePools ==
  /\ proc = "up"
  /\ pools' = Scaled
  /\ UNCHANGED <<where, disk, blacklist, keys, counts>>

\* Every other file operation throws or returns false when it fails; a copy
\* leaves its target half written, everything else leaves the files alone.
FileOperationFails ==
  /\ proc = "up"
  /\ pc \in {"backup", "backing", "open", "restore", "restoring", "remove",
             "reread", "blacklist", "keys"}
  /\ failures < MaxFailures
  /\ failures' = failures + 1
  /\ GiveUp
  /\ UNCHANGED <<disk, memory, crashes>>

\* The read-back fails although the file is whole.
VerifyFails ==
  /\ At("verify")
  /\ failures < MaxFailures
  /\ failures' = failures + 1
  /\ Goto("restore")
  /\ UNCHANGED <<disk, memory, crashes>>

-----------------------------------------------------------------------------
Crash ==
  /\ proc = "up"
  /\ crashes < MaxCrashes
  /\ crashes' = crashes + 1
  /\ proc' = "down"
  /\ UNCHANGED <<pc, call, request, reply, before, disk, memory, failures>>

\* main ends between two requests.
Exit ==
  /\ At("idle")
  /\ proc' = "down"
  /\ UNCHANGED <<pc, call, request, reply, before, disk, memory, counts>>

\* The constructors of Handler and Server load pools, blacklist and keys from
\* the file; an exception of theirs ends main.  The backup is not looked at.
Start ==
  /\ proc = "down"
  /\ IF file \in Startable
     THEN /\ blacklist' = file /\ keys' = file /\ pools' = file
          /\ proc' = "up" /\ pc' = "idle" /\ reply' = "none"
     ELSE /\ proc' = "failed"
          /\ UNCHANGED <<memory, pc, reply>>
  /\ UNCHANGED <<call, request, before, disk, counts>>

Next ==
  \/ \E c \in Configs : Receive(c)
  \/ Validate \/ Backup \/ BackedUp \/ Open \/ Write \/ WriteFails
  \/ Verify \/ VerifyFails \/ Restore \/ Restored \/ Remove
  \/ Reread \/ LoadBlacklist \/ LoadKeys \/ ConfigurePools
  \/ FileOperationFails \/ ConfigurePoolsFails \/ ScalePools
  \/ Crash \/ Exit \/ Start

Spec == Init /\ [][Next]_vars

-----------------------------------------------------------------------------
\* What can be had from the disk.
Stored == IF file \in Held THEN file ELSE bak

(***************************************************************************)
(* An update is all or nothing: with at most one failed operation there    *)
(* is, at every moment and so after every crash, a whole configuration on  *)
(* the disk, in the file or in its backup, and it is the one from before   *)
(* the request or the requested one, which then is valid; and when no      *)
(* request is being worked on it is the file itself, repaired from the     *)
(* backup if a write failed (updateConfigurationFile).                     *)
(***************************************************************************)
OldOrNew ==
  failures <= 1 => /\ Stored \in Held \cap {before, request}
                   /\ Stored \in Valid \/ Stored = before
                   /\ At("idle") => file = Stored

(***************************************************************************)
(* A reported success is one: until the next request, file, blacklist and  *)
(* keys all are what was asked for, and so are the pools, as long as the   *)
(* scaling thread leaves them alone; no pool is left as an earlier request *)
(* or one that failed half way made it (updateConfiguration,               *)
(* updatePoolConfiguration).                                               *)
(***************************************************************************)
SuccessIsComplete ==
  At("idle") /\ reply = "success" =>
     /\ file = request /\ blacklist = file /\ keys = file
     /\ pools \in {file, Scaled}
     /\ bak = Absent
     /\ file \in Loadable

-----------------------------------------------------------------------------
(***************************************************************************)
(* What messages and comments say of an update.                            *)
(***************************************************************************)

\* "Failed to update configuration": the answer to a request that was not
\* carried out; the file is the one from before it.
ErrorMeansNotUpdated ==
  failures = 0 /\ At("idle") /\ reply = "error" => file = before
=============================================================================
