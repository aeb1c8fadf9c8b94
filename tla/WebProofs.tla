----------------------------- MODULE WebProofs -----------------------------
(***************************************************************************)
(* Proofs about ConfigFile and Web, for any set of configurations and any  *)
(* number of failed operations and crashes.                                *)
(***************************************************************************)
EXTENDS Web, TLAPS

(***************************************************************************)
(* What each step of an update has left behind for the next one, however   *)
(* many operations failed.  Nothing here asks whether the process is up:   *)
(* after a crash the files are as the interrupted step left them.          *)
(***************************************************************************)
Written == {"remove", "reread", "blacklist", "keys", "pools"}

StagesKept ==
  /\ pc \notin {"idle", "validate"} => request \in Valid
  /\ pc \in Written => file = request
  /\ pc \in {"write", "restoring"} => file = Partial
  /\ pc \in {"verify", "restore"} => file \in {request, Partial}
  /\ pc \in Written \ {"remove"} => bak = Absent
  /\ pc = "restoring" => bak # Absent

\* What the loaders have taken from the file, and what is said of it at the end.
LoadsKept ==
  /\ pc \in {"keys", "pools"} => blacklist = file /\ file \notin BadPatterns
  /\ pc = "pools" => keys = file /\ file \notin BadKeys
  /\ pc # "idle" => reply = "none"
  /\ pc = "idle" /\ reply = "success" =>
       /\ file = request /\ blacklist = file /\ keys = file
       /\ pools \in {file, Scaled}
       /\ bak = Absent
       /\ file \in Loadable

\* With at most one failed operation, the file is whole wherever it has not
\* been opened, and its backup wherever it has.
CopiesKept ==
  failures <= 1 =>
    /\ pc \notin {"write", "verify", "restore", "restoring"} =>
         /\ file \in Held \cap {before, request}
         /\ file \in Valid \/ file = before
    /\ pc = "open" => bak = file
    /\ pc \in {"write", "verify", "restore", "restoring"} =>
         /\ bak \in Held \cap {before, request}
         /\ bak \in Valid \/ bak = before
    /\ pc \in {"restore", "restoring"} => failures = 1
    /\ pc = "verify" /\ failures = 0 => file = request

UpdateInv == TypeOK /\ StagesKept /\ LoadsKept /\ CopiesKept

USE ConfigAssumption, WebAssumption
USE DEF Valid, Loadable, Startable, Held, At, Goto, GiveUp, disk, memory, where, counts

-----------------------------------------------------------------------------
(***************************************************************************)
(* UpdateInv is inductive.                                                 *)
(***************************************************************************)
LEMMA UpdateInit == Init => UpdateInv
BY DEF Init, UpdateInv, TypeOK, PCs, StagesKept, LoadsKept, CopiesKept, Written

LEMMA TypeStep ==
  ASSUME TypeOK, StagesKept, [Next]_vars
  PROVE  TypeOK'
<1> USE DEF TypeOK, PCs
<1>1. ASSUME NEW c \in Configs, Receive(c) PROVE TypeOK'
  BY <1>1 DEF Receive
<1>2. CASE Validate \/ Backup \/ BackedUp \/ Open
  BY <1>2 DEF Validate, Backup, BackedUp, Open
<1>3. CASE Write \/ WriteFails
  BY <1>3 DEF Write, WriteFails, StagesKept
<1>4. CASE Verify \/ VerifyFails \/ Restore \/ Restored
  BY <1>4 DEF Verify, VerifyFails, Restore, Restored, StagesKept
<1>5. CASE Remove \/ Reread
  BY <1>5 DEF Remove, Reread
<1>6. CASE LoadBlacklist \/ LoadKeys \/ ConfigurePools
  BY <1>6 DEF LoadBlacklist, LoadKeys, ConfigurePools, StagesKept
<1>7. CASE FileOperationFails \/ ConfigurePoolsFails \/ ScalePools
  BY <1>7 DEF FileOperationFails, ConfigurePoolsFails, ScalePools
<1>8. CASE Crash \/ Exit \/ Start
  BY <1>8 DEF Crash, Exit, Start
<1>9. CASE UNCHANGED vars
  BY <1>9 DEF vars
<1>10. QED
  BY <1>1, <1>2, <1>3, <1>4, <1>5, <1>6, <1>7, <1>8, <1>9 DEF Next

LEMMA StagesStep ==
  ASSUME TypeOK, StagesKept, [Next]_vars
  PROVE  StagesKept'
<1> USE DEF TypeOK, StagesKept, Written
<1>1. ASSUME NEW c \in Configs, Receive(c) PROVE StagesKept'
  BY <1>1 DEF Receive
<1>2. CASE Validate \/ Backup \/ BackedUp \/ Open
  BY <1>2 DEF Validate, Backup, BackedUp, Open
<1>3. CASE Write \/ WriteFails
  BY <1>3 DEF Write, WriteFails
<1>4. CASE Verify \/ VerifyFails \/ Restore \/ Restored
  BY <1>4 DEF Verify, VerifyFails, Restore, Restored
<1>5. CASE Remove \/ Reread
  BY <1>5 DEF Remove, Reread
<1>6. CASE LoadBlacklist \/ LoadKeys \/ ConfigurePools
  BY <1>6 DEF LoadBlacklist, LoadKeys, ConfigurePools
<1>7. CASE FileOperationFails \/ ConfigurePoolsFails \/ ScalePools
  BY <1>7 DEF FileOperationFails, ConfigurePoolsFails, ScalePools
<1>8. CASE Crash \/ Exit \/ Start
  BY <1>8 DEF Crash, Exit, Start
<1>9. CASE UNCHANGED vars
  BY <1>9 DEF vars
<1>10. QED
  BY <1>1, <1>2, <1>3, <1>4, <1>5, <1>6, <1>7, <1>8, <1>9 DEF Next

LEMMA LoadsStep ==
  ASSUME TypeOK, StagesKept, LoadsKept, [Next]_vars
  PROVE  LoadsKept'
<1> USE DEF LoadsKept
<1>1. ASSUME NEW c \in Configs, Receive(c) PROVE LoadsKept'
  BY <1>1 DEF Receive
<1>2. CASE Validate \/ Backup \/ BackedUp \/ Open
  BY <1>2 DEF Validate, Backup, BackedUp, Open
<1>3. CASE Write \/ WriteFails
  BY <1>3 DEF Write, WriteFails
<1>4. CASE Verify \/ VerifyFails \/ Restore \/ Restored
  BY <1>4 DEF Verify, VerifyFails, Restore, Restored
<1>5. CASE Remove \/ Reread
  BY <1>5 DEF Remove, Reread
<1>6. CASE LoadBlacklist \/ LoadKeys \/ ConfigurePools
  BY <1>6 DEF LoadBlacklist, LoadKeys, ConfigurePools, StagesKept, Written, TypeOK
<1>7. CASE FileOperationFails \/ ConfigurePoolsFails \/ ScalePools
  BY <1>7 DEF FileOperationFails, ConfigurePoolsFails, ScalePools
<1>8. CASE Crash \/ Exit \/ Start
  BY <1>8 DEF Crash, Exit, Start
<1>9. CASE UNCHANGED vars
  BY <1>9 DEF vars
<1>10. QED
  BY <1>1, <1>2, <1>3, <1>4, <1>5, <1>6, <1>7, <1>8, <1>9 DEF Next

LEMMA CopiesStep ==
  ASSUME TypeOK, StagesKept, CopiesKept, [Next]_vars
  PROVE  CopiesKept'
<1> USE DEF TypeOK, CopiesKept, StagesKept, Written
<1>1. ASSUME NEW c \in Configs, Receive(c) PROVE CopiesKept'
  BY <1>1 DEF Receive
<1>2. CASE Validate \/ Backup \/ BackedUp \/ Open
  BY <1>2 DEF Validate, Backup, BackedUp, Open
<1>3. CASE Write \/ WriteFails
  BY <1>3 DEF Write, WriteFails
<1>4. CASE Verify \/ VerifyFails \/ Restore \/ Restored
  BY <1>4 DEF Verify, VerifyFails, Restore, Restored
<1>5. CASE Remove \/ Reread
  BY <1>5 DEF Remove, Reread
<1>6. CASE LoadBlacklist \/ LoadKeys \/ ConfigurePools
  BY <1>6 DEF LoadBlacklist, LoadKeys, ConfigurePools
<1>7. CASE FileOperationFails \/ ConfigurePoolsFails \/ ScalePools
  BY <1>7 DEF FileOperationFails, ConfigurePoolsFails, ScalePools
<1>8. CASE Crash \/ Exit \/ Start
  BY <1>8 DEF Crash, Exit, Start
<1>9. CASE UNCHANGED vars
  BY <1>9 DEF vars
<1>10. QED
  BY <1>1, <1>2, <1>3, <1>4, <1>5, <1>6, <1>7, <1>8, <1>9 DEF Next

LEMMA UpdateStep == UpdateInv /\ [Next]_vars => UpdateInv'
BY TypeStep, StagesStep, LoadsStep, CopiesStep DEF UpdateInv

LEMMA UpdateSafe == UpdateInv => OldOrNew /\ SuccessIsComplete
<1>1. UpdateInv => SuccessIsComplete
  BY DEF UpdateInv, LoadsKept, SuccessIsComplete
<1>2. UpdateInv => OldOrNew
  BY DEF UpdateInv, TypeOK, PCs, StagesKept, CopiesKept, Written, OldOrNew, Stored
<1>3. QED
  BY <1>1, <1>2

\* Every reachable state of an update satisfies UpdateInv.
LEMMA UpdateInvariant == Spec => []UpdateInv
BY UpdateInit, UpdateStep, PTL DEF Spec

-----------------------------------------------------------------------------
(***************************************************************************)
(* Around an update: the web thread works on one only for somebody who has *)
(* logged in, and there is no web thread before main starts it or after    *)
(* the process has ended.                                                  *)
(***************************************************************************)
ThreadKept ==
  /\ thread = "handling" => sessions
  /\ main \in {"web", "gone"} => thread = "none"

WebInv == WebTypeOK /\ UpdateInv /\ ThreadKept

USE DEF Hears, Gone, webVars

LEMMA WebInitial == WebInit => WebInv
<1>1. WebInit => UpdateInv
  BY UpdateInit DEF WebInit
<1>2. QED
  BY <1>1 DEF WebInit, Init, WebInv, WebTypeOK, UpdateInv, ThreadKept

(***************************************************************************)
(* Every step of Web is one of ConfigFile or leaves its state alone; main  *)
(* ends by itself only where no update is being worked on, because the     *)
(* thread that would is joined.                                            *)
(***************************************************************************)
LEMMA WebStepImplements ==
  ASSUME WebTypeOK, [WebNext]_allVars
  PROVE  [Next]_vars
<1>1. CASE StartWeb \/ Listen \/ ListenFails \/ WebStep \/ PoolStep \/ Scale
  BY <1>1 DEF StartWeb, Listen, ListenFails, WebStep, PoolStep, Scale, FileStep, Loop,
              Reply, Next
<1>2. CASE ExitMain
  <2>1. At("idle")
    BY <1>2 DEF ExitMain, WebTypeOK
  <2>2. Exit
    BY <1>2, <2>1 DEF ExitMain, Exit
  <2>3. QED
    BY <2>2 DEF Next
<1>3. CASE Killed \/ Aborted \/ Relaunch
  BY <1>3 DEF Killed, Aborted, Relaunch, Next
<1>4. CASE Accept \/ Answered \/ Login
  BY <1>4 DEF Accept, Answered, Login
<1>5. ASSUME NEW c \in Configs, Update(c) PROVE Next
  BY <1>5 DEF Update, Next
<1>6. CASE Reset
  BY <1>6 DEF Reset, Next
<1>7. CASE UNCHANGED allVars
  BY <1>7 DEF allVars
<1>8. QED
  BY <1>1, <1>2, <1>3, <1>4, <1>5, <1>6, <1>7 DEF WebNext, MainStep

LEMMA ThreadStep ==
  ASSUME WebTypeOK, ThreadKept, [WebNext]_allVars
  PROVE  ThreadKept'
<1>1. CASE StartWeb
  BY <1>1 DEF StartWeb, ThreadKept
<1>2. CASE Listen \/ ListenFails
  BY <1>2 DEF Listen, ListenFails, ThreadKept
<1>3. CASE ExitMain \/ Killed \/ Aborted \/ Relaunch
  BY <1>3 DEF ExitMain, Killed, Aborted, Relaunch, Start, ThreadKept, WebTypeOK
<1>4. CASE WebStep \/ PoolStep \/ Scale
  BY <1>4 DEF WebStep, FileStep, PoolStep, Scale, Loop, Reply, ThreadKept
<1>5. CASE Accept \/ Answered \/ Login
  BY <1>5 DEF Accept, Answered, Login, ThreadKept
<1>6. ASSUME NEW c \in Configs, Update(c) PROVE ThreadKept'
  BY <1>6 DEF Update, ThreadKept
<1>7. CASE Reset
  BY <1>7 DEF Reset, ThreadKept
<1>8. CASE UNCHANGED allVars
  BY <1>8 DEF allVars, ThreadKept
<1>9. QED
  BY <1>1, <1>2, <1>3, <1>4, <1>5, <1>6, <1>7, <1>8 DEF WebNext, MainStep

\* The steps of an update leave the process up, and start from one that is.
LEMMA FileStepsUp ==
  ASSUME FileStep \/ PoolStep
  PROVE  /\ proc = "up" /\ proc' = "up" /\ pc # "idle"
         /\ UNCHANGED webVars
BY DEF FileStep, PoolStep, Validate, Backup, BackedUp, Open, Write, WriteFails,
       Verify, VerifyFails, Restore, Restored, Remove, Reread, LoadBlacklist,
       LoadKeys, ConfigurePools, ConfigurePoolsFails, FileOperationFails

LEMMA WebTypeStep ==
  ASSUME WebTypeOK, StagesKept, ThreadKept, [WebNext]_allVars
  PROVE  WebTypeOK'
<1>0. TypeOK'
  BY WebStepImplements, TypeStep DEF WebTypeOK
<1> USE DEF WebTypeOK, ThreadKept
<1>1. CASE MainStep
  BY <1>0, <1>1 DEF MainStep, StartWeb, Listen, ListenFails, ExitMain, vars
<1>2. CASE Killed \/ Aborted \/ Relaunch
  BY <1>0, <1>2 DEF Killed, Aborted, Relaunch, Crash, Start
<1>3. CASE FileStep \/ PoolStep
  BY <1>0, <1>3, FileStepsUp
<1>4. CASE Loop \/ Reply \/ Accept \/ Answered \/ Login \/ Scale
  BY <1>0, <1>4 DEF Scale, ScalePools, Loop, Reply, Accept, Answered, Login, vars
<1>5. ASSUME NEW c \in Configs, Update(c) PROVE WebTypeOK'
  BY <1>0, <1>5 DEF Update, Receive
<1>6. CASE Reset
  BY <1>0, <1>6 DEF Reset, Receive, vars
<1>7. CASE UNCHANGED allVars
  BY <1>0, <1>7 DEF allVars, vars
<1>8. QED
  BY <1>1, <1>2, <1>3, <1>4, <1>5, <1>6, <1>7 DEF WebNext, WebStep

LEMMA WebInvStep == WebInv /\ [WebNext]_allVars => WebInv'
BY WebStepImplements, UpdateStep, ThreadStep, WebTypeStep DEF WebInv, UpdateInv

\* Every reachable state of the web interface satisfies WebInv.
LEMMA WebInvariant == WebSpec => []WebInv
BY WebInitial, WebInvStep, PTL DEF WebSpec

-----------------------------------------------------------------------------
(***************************************************************************)
(* For any configurations and any number of failures and crashes, files,   *)
(* memory and threads keep their types, there is a main exactly while the  *)
(* process is up, and an update is worked on only by a web thread that     *)
(* handles a request (WebServer::start and stop).                          *)
(***************************************************************************)
THEOREM WebTypeCorrect == WebSpec => []WebTypeOK
BY WebInvariant, PTL DEF WebInv

(***************************************************************************)
(* The web interface and main implement ConfigFile: requests are worked on *)
(* one at a time, and only a crash cuts one off.                           *)
(***************************************************************************)
THEOREM WebImplementsConfigFile == WebSpec => ImplementsConfigFile
<1>1. WebInit => Init
  BY DEF WebInit
<1>2. WebInv /\ [WebNext]_allVars => [Next]_vars
  BY WebStepImplements DEF WebInv
<1>3. QED
  BY <1>1, <1>2, WebInvariant, PTL DEF WebSpec, ImplementsConfigFile, Spec

(***************************************************************************)
(* As long as at most one operation has failed, an update is all or        *)
(* nothing at every moment and after any number of crashes, for whatever   *)
(* configurations, the one the program started from included, which        *)
(* nothing has validated (updateConfigurationFile); and so it is in the    *)
(* web interface, which implements ConfigFile.                             *)
(***************************************************************************)
THEOREM UpdateAllOrNothing == (Spec => []OldOrNew) /\ (WebSpec => []OldOrNew)
<1>1. Spec => []OldOrNew
  BY UpdateInvariant, UpdateSafe, PTL
<1>2. WebSpec => []OldOrNew
  BY <1>1, WebImplementsConfigFile DEF ImplementsConfigFile
<1>3. QED
  BY <1>1, <1>2

(***************************************************************************)
(* However many operations fail, those of the pools included, a reported   *)
(* success is one: file, blacklist and keys are what was asked for until   *)
(* the next request, and the pools are until the scaling thread changes    *)
(* them (handleUpdateConfig, updateConfiguration).                         *)
(***************************************************************************)
THEOREM SuccessIsSuccess ==
  (Spec => []SuccessIsComplete) /\ (WebSpec => []SuccessIsComplete)
<1>1. Spec => []SuccessIsComplete
  BY UpdateInvariant, UpdateSafe, PTL
<1>2. WebSpec => []SuccessIsComplete
  BY <1>1, WebImplementsConfigFile DEF ImplementsConfigFile
<1>3. QED
  BY <1>1, <1>2

(***************************************************************************)
(* In every process, the files change only after a login to that process   *)
(* (validateToken).                                                        *)
(***************************************************************************)
THEOREM FilesNeedSession == WebSpec => FilesChangeInSession
<1>1. ASSUME WebInv, [WebNext]_allVars
      PROVE  [disk' # disk => sessions]_allVars
  <2>1. CASE FileStep \/ PoolStep
    <3>1. proc = "up" /\ pc # "idle"
      BY <2>1, FileStepsUp
    <3>2. thread = "handling"
      BY <1>1, <3>1 DEF WebInv, WebTypeOK
    <3>3. QED
      BY <1>1, <3>2 DEF WebInv, ThreadKept
  <2>2. CASE Killed \/ Aborted \/ Relaunch \/ MainStep
    BY <2>2 DEF Killed, Aborted, Relaunch, MainStep, Crash, Start,
                StartWeb, Listen, ListenFails, ExitMain, vars
  <2>3. CASE Loop \/ Reply \/ Accept \/ Answered \/ Login \/ Scale
    BY <2>3 DEF Scale, ScalePools, Loop, Reply, Accept, Answered, Login, vars
  <2>4. CASE (\E c \in Configs : Update(c)) \/ Reset
    BY <2>4 DEF Update, Reset
  <2>5. CASE UNCHANGED allVars
    BY <2>5
  <2>6. QED
    BY <1>1, <2>1, <2>2, <2>3, <2>4, <2>5 DEF WebNext, WebStep
<1>2. QED
  BY <1>1, WebInvariant, PTL DEF WebSpec, FilesChangeInSession
=============================================================================
