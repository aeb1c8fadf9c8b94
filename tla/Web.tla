-------------------------------- MODULE Web --------------------------------
(***************************************************************************)
(* The web interface and main around it: main starts the web server, whose *)
(* thread then takes one connection after the other, and the proxy itself. *)
(* When the proxy cannot listen, main unwinds: the destructor of WebServer *)
(* clears m_running and joins the thread, which may wait in accept or read *)
(* or work on an update of the configuration, as in ConfigFile.            *)
(*                                                                         *)
(* Server::start returns only by an exception: what follows its call in    *)
(* main, the wait for the server included, is never reached.               *)
(***************************************************************************)
EXTENDS ConfigFile

CONSTANT
  Default  \* configuration.default.json

ASSUME WebAssumption == Default \in Configs

VARIABLES
  main,     \* where main is: "gone" when there is no process
  running,  \* m_running of WebServer
  thread,   \* where the web thread is
  sessions  \* somebody has logged in: m_sessions is not empty

webVars == <<main, running, thread, sessions>>
allVars == <<vars, webVars>>

WebTypeOK ==
  /\ TypeOK
  /\ main \in {"web", "listen", "serving", "joining", "gone"}
  /\ running \in BOOLEAN
  /\ thread \in {"none", "loop", "accepting", "reading", "handling", "ended"}
  /\ sessions \in BOOLEAN
  /\ (main = "gone") = (proc # "up")
  /\ At("idle") \/ proc # "up" \/ thread = "handling"

WebInit ==
  /\ Init
  /\ main = "web" /\ running = FALSE /\ thread = "none" /\ sessions = FALSE

-----------------------------------------------------------------------------
(***************************************************************************)
(* main.                                                                   *)
(***************************************************************************)

\* WebServer::start: when the port is taken it logs an error and returns,
\* and the proxy goes on without its interface.
StartWeb ==
  /\ main = "web"
  /\ main' = "listen"
  /\ \/ running' = TRUE /\ thread' = "loop"
     \/ UNCHANGED <<running, thread>>
  /\ UNCHANGED <<vars, sessions>>

Listen ==
  /\ main = "listen"
  /\ main' = "serving"
  /\ UNCHANGED <<vars, running, thread, sessions>>

\* Server::start throws; ~WebServer calls stop.
ListenFails ==
  /\ main = "listen"
  /\ running' = FALSE
  /\ main' = "joining"
  /\ UNCHANGED <<vars, thread, sessions>>

\* Mutant: the thread is not joined.
ExitUnjoined ==
  /\ main = "joining"
  /\ proc' = "down"
  /\ main' = "gone" /\ thread' = "none" /\ sessions' = FALSE
  /\ UNCHANGED <<disk, memory, counts, pc, call, request, reply, before, running>>

\* stop joins the thread if there is one, and main returns 1.
ExitMain ==
  /\ main = "joining"
  /\ thread \in {"none", "ended"}
  /\ proc' = "down"
  /\ main' = "gone" /\ thread' = "none" /\ sessions' = FALSE
  /\ UNCHANGED <<disk, memory, counts, pc, call, request, reply, before, running>>

Gone ==
  /\ main' = "gone" /\ running' = FALSE /\ thread' = "none" /\ sessions' = FALSE

\* At any moment: a signal from outside, SIGPIPE because a client has closed
\* while it was being answered, or an exception the scaling thread does not
\* catch, because a pool could not make an object.
Killed == Crash /\ Gone

Relaunch ==
  /\ Start
  /\ main' = IF proc' = "up" THEN "web" ELSE "gone"
  /\ UNCHANGED <<running, thread, sessions>>

-----------------------------------------------------------------------------
(***************************************************************************)
(* The web thread.                                                         *)
(***************************************************************************)
\* Mutant: the thread does not ask m_running.
LoopForever ==
  /\ thread = "loop"
  /\ thread' = "accepting"
  /\ UNCHANGED <<vars, main, running, sessions>>

Loop ==
  /\ thread = "loop"
  /\ thread' = IF running THEN "accepting" ELSE "ended"
  /\ UNCHANGED <<vars, main, running, sessions>>

\* Waits for a client.
Accept ==
  /\ thread = "accepting"
  /\ thread' \in {"reading", "loop"}
  /\ UNCHANGED <<vars, main, running, sessions>>

\* One read without a timeout takes the request, or what has come of it.
\* The rest of handleRequest is one of the actions below.
Hears == proc = "up" /\ thread = "reading"

\* A connection closed, a static page, an unknown path, and every API request
\* without a valid token.
Answered ==
  /\ Hears
  /\ thread' = "loop"
  /\ UNCHANGED <<vars, main, running, sessions>>

\* A request for the API without the members its handler reads, because it
\* has no body or the body has not come yet: operator[] on a const object.
Aborted == Hears /\ Crash /\ Gone

Login ==
  /\ Hears
  /\ sessions' = TRUE
  /\ thread' = "loop"
  /\ UNCHANGED <<vars, main, running>>

\* Mutant: the token is not looked at.
UpdateUnasked(c) ==
  /\ Hears
  /\ Receive(c)
  /\ thread' = "handling"
  /\ UNCHANGED <<main, running, sessions>>

\* Mutant: the next request is read while the update goes on.
UpdateInBackground(c) ==
  /\ Hears
  /\ sessions
  /\ Receive(c)
  /\ thread' = "loop"
  /\ UNCHANGED <<main, running, sessions>>

Update(c) ==
  /\ Hears
  /\ sessions
  /\ Receive(c)
  /\ thread' = "handling"
  /\ UNCHANGED <<main, running, sessions>>

\* Without the default file the request is answered with an error.
Reset ==
  /\ Hears
  /\ sessions
  /\ \/ Receive(Default) /\ thread' = "handling"
     \/ UNCHANGED vars /\ thread' = "loop"
  /\ UNCHANGED <<main, running, sessions>>

\* The steps of updateConfigurationFile and updateConfiguration.
FileStep ==
  /\ \/ Validate \/ Backup \/ BackedUp \/ Open \/ Write \/ WriteFails
     \/ Verify \/ VerifyFails \/ Restore \/ Restored \/ Remove
     \/ Reread \/ LoadBlacklist \/ LoadKeys
     \/ FileOperationFails
  /\ UNCHANGED webVars

\* Waits in pauseProcessing for as long as packets are queued.
PoolStep == (ConfigurePools \/ ConfigurePoolsFails) /\ UNCHANGED webVars

\* The scaling thread of the proxy, which lives as long as the process.
Scale == ScalePools /\ UNCHANGED webVars

Reply ==
  /\ thread = "handling"
  /\ At("idle")
  /\ thread' = "loop"
  /\ UNCHANGED <<vars, main, running, sessions>>

MainStep == StartWeb \/ Listen \/ ListenFails \/ ExitMain

WebStep == Loop \/ FileStep \/ Reply

WebNext ==
  \/ MainStep \/ Killed \/ Relaunch
  \/ WebStep \/ PoolStep \/ Scale
  \/ Accept \/ Answered \/ Aborted \/ Login
  \/ (\E c \in Configs : Update(c)) \/ Reset

WebSpec == WebInit /\ [][WebNext]_allVars

\* Both threads are scheduled.  Nothing is assumed of the clients, and nothing
\* of the pause of the workers (see Handler).
FairWebSpec == WebSpec /\ WF_allVars(MainStep) /\ WF_allVars(WebStep)

-----------------------------------------------------------------------------
(***************************************************************************)
(* Around the configuration, main and web thread behave as ConfigFile      *)
(* says: one request at a time, and main ends only between two requests,   *)
(* so that only a crash cuts an update (WebServer::stop joins).            *)
(***************************************************************************)
ImplementsConfigFile == Spec

(***************************************************************************)
(* The files change only in a process somebody has logged in to since it   *)
(* started; the sessions of an earlier one are worth nothing               *)
(* (validateToken, m_sessions).                                            *)
(***************************************************************************)
FilesChangeInSession == [][disk' # disk => sessions]_allVars

(***************************************************************************)
(* main ends after a failed start, unless the web thread waits for ever,   *)
(* for a client that does not come or sends nothing, or for the pause of   *)
(* the workers: the socket is closed only after the join.                  *)
(***************************************************************************)
JoinEnds ==
  (main = "joining") ~>
     (main # "joining" \/ [](thread \in {"accepting", "reading"}) \/ []At("pools"))
=============================================================================
