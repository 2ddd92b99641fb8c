----------------------------- MODULE HTTPServer -----------------------------
(***************************************************************************)
(* The HTTP server of the dedicated server (Networking/HTTP/HTTPServer.cpp *)
(* on top of the mongoose daemon): the worker threads, which run           *)
(* ServerCallback for every request, and the game thread, which starts and *)
(* stops the daemon, updates the connection bans and runs the admin's      *)
(* script functions.                                                       *)
(*                                                                         *)
(* mongoose is external.  What is modelled of it is what the code relies   *)
(* on: a worker handles one request at a time, serves a file itself when   *)
(* the callback returns NULL, takes no new request once mg_stop was        *)
(* called, and mg_stop returns when no worker is busy.                     *)
(***************************************************************************)
EXTENDS BanManager

CONSTANT
  FileRoots       \* what the admin lets serve_files be

ASSUME FileRootsAssumption == FileRoots \subseteq BOOLEAN

VARIABLES
  context,        \* m_context, and whether mg_stop is waiting for the workers
  exiting,        \* Dispose has been called: the process is about to end
  serve_files,
  service_active, \* what ServiceStarted of the map download service returns
  pc,             \* per worker: what it does next
  remote_ip,      \* per worker: the client of the request it handles
  ban_element,    \* per worker: the element IPBanned found
  banned          \* per worker: what IPBanned returned

serverVars  == <<context, exiting, serve_files, service_active>>
requestVars == <<pc, remote_ip, ban_element, banned>>
vars        == <<banVars, serverVars, requestVars>>

(* "idle": waiting for a request; "search" and "read": in IPBanned, before *)
(* and after its critical section; "limit" and "add": in AddConnection,    *)
(* before and after its test of the limit; "route": back in the callback;  *)
(* "file": mongoose serves the file itself.                                *)
Steps == {"idle", "search", "read", "limit", "add", "route", "file"}

TypeOK ==
  /\ BanTypeOK
  /\ context \in {"stopped", "running", "stopping"}
  /\ exiting \in BOOLEAN
  /\ serve_files \in BOOLEAN
  /\ service_active \in BOOLEAN
  /\ pc \in [Workers -> Steps]
  /\ remote_ip \in [Workers -> IPs \union {NoIP}]
  /\ ban_element \in [Workers -> Nodes \union {NoNode}]
  /\ banned \in [Workers -> BOOLEAN]

Init ==
  /\ BanInit
  /\ context = "stopped"
  /\ exiting = FALSE
  /\ serve_files = FALSE
  /\ service_active = FALSE
  /\ pc = [w \in Workers |-> "idle"]
  /\ remote_ip = [w \in Workers |-> NoIP]
  /\ ban_element = [w \in Workers |-> NoNode]
  /\ banned = [w \in Workers |-> FALSE]

Goto(w, step) == pc' = [pc EXCEPT ![w] = step]

(* The worker is done with its request; its locals go out of scope.        *)
Return(w) ==
  /\ Goto(w, "idle")
  /\ remote_ip' = [remote_ip EXCEPT ![w] = NoIP]
  /\ ban_element' = [ban_element EXCEPT ![w] = NoNode]
  /\ banned' = [banned EXCEPT ![w] = FALSE]

-----------------------------------------------------------------------------
(***************************************************************************)
(* The worker threads.                                                     *)
(***************************************************************************)

(* mongoose calls ServerCallback with MG_NEW_REQUEST.                      *)
NewRequest(w) ==
  /\ context = "running"
  /\ pc[w] = "idle"
  /\ Goto(w, "search")
  /\ \E ip \in IPs : remote_ip' = [remote_ip EXCEPT ![w] = ip]
  /\ UNCHANGED <<banVars, serverVars, ban_element, banned>>

SearchBans(w) ==
  /\ pc[w] = "search"
  /\ Goto(w, "read")
  /\ \E element \in Nodes \union {NoNode} :
       /\ IPBannedSearch(w, remote_ip[w], element)
       /\ ban_element' = [ban_element EXCEPT ![w] = element]
  /\ UNCHANGED <<serverVars, remote_ip, banned>>

(* IPBanned returns.  A banned client gets the status "unauthorized"; the  *)
(* callback then returns NULL, and mongoose goes on to serve the file, if  *)
(* the server serves files.                                                *)
ReadBan(w) ==
  /\ pc[w] = "read"
  /\ \E verdict \in ReadVerdict(ban_element[w]) :
       IF verdict /\ ~serve_files
         THEN Return(w)
         ELSE /\ Goto(w, IF verdict THEN "file" ELSE "limit")
              /\ banned' = [banned EXCEPT ![w] = verdict]
              /\ ban_element' = [ban_element EXCEPT ![w] = NoNode]
              /\ UNCHANGED remote_ip
  /\ UNCHANGED <<banVars, serverVars>>

(* AddConnection tests the limit before it takes the mutex.                *)
TestLimit(w) ==
  /\ pc[w] = "limit"
  /\ Goto(w, IF max_connections_per_ip = 0 THEN "route" ELSE "add")
  /\ UNCHANGED <<banVars, serverVars, remote_ip, ban_element, banned>>

CountConnection(w) ==
  /\ pc[w] = "add"
  /\ AddConnection(w, remote_ip[w])
  /\ Goto(w, "route")
  /\ UNCHANGED <<serverVars, remote_ip, ban_element, banned>>

(* A service handles the request, or a file is served, or 404.             *)
RouteRequest(w) ==
  /\ pc[w] = "route"
  /\ \/ Return(w)
     \/ /\ serve_files
        /\ Goto(w, "file")
        /\ UNCHANGED <<remote_ip, ban_element, banned>>
  /\ UNCHANGED <<banVars, serverVars>>

ServeFile(w) ==
  /\ pc[w] = "file"
  /\ Return(w)
  /\ UNCHANGED <<banVars, serverVars>>

Worker(w) ==
  \/ SearchBans(w)
  \/ ReadBan(w)
  \/ TestLimit(w)
  \/ CountConnection(w)
  \/ RouteRequest(w)
  \/ ServeFile(w)

-----------------------------------------------------------------------------
(***************************************************************************)
(* The game thread.  It is inside mg_stop while context = "stopping".      *)
(***************************************************************************)
GameRuns == context # "stopping" /\ ~exiting

Update ==
  /\ GameRuns
  /\ UpdateConnectionBans(Game, 1)
  /\ UNCHANGED <<serverVars, requestVars>>

SetBan ==
  /\ GameRuns
  /\ \E max \in Limits, cooldown \in CooldownTimes, forget \in ForgetTimes :
        SetConnectionBan(max, cooldown, forget)
  /\ UNCHANGED <<serverVars, requestVars>>

BanIP ==
  /\ GameRuns
  /\ \E ip \in IPs : AddPermanentBan(Game, ip)
  /\ UNCHANGED <<serverVars, requestVars>>

UnbanIP ==
  /\ GameRuns
  /\ RemovePermanentBan(Game)
  /\ UNCHANGED <<serverVars, requestVars>>

BanlistFile ==
  /\ GameRuns
  /\ LoadBanList(Game)
  /\ UNCHANGED <<serverVars, requestVars>>

SetRoot ==
  /\ GameRuns
  /\ context = "stopped"
  /\ serve_files' \in FileRoots
  /\ UNCHANGED <<banVars, context, exiting, service_active, requestVars>>

(* mg_start may fail, which changes nothing.                               *)
StartServer ==
  /\ GameRuns
  /\ context = "stopped"
  /\ context' = "running"
  /\ UNCHANGED <<banVars, exiting, serve_files, service_active, requestVars>>

(* The map download service starts only under a running HTTP server.       *)
StartService ==
  /\ GameRuns
  /\ context = "running"
  /\ ~service_active
  /\ service_active' = TRUE
  /\ UNCHANGED <<banVars, context, exiting, serve_files, requestVars>>

StopService ==
  /\ GameRuns
  /\ service_active
  /\ service_active' = FALSE
  /\ UNCHANGED <<banVars, context, exiting, serve_files, requestVars>>

(* StopServer refuses while a service is active.                           *)
StopServer ==
  /\ GameRuns
  /\ context = "running"
  /\ ~service_active
  /\ context' = "stopping"
  /\ UNCHANGED <<banVars, exiting, serve_files, service_active, requestVars>>

(* Dispose stops the daemon whatever the services do.                      *)
Dispose ==
  /\ GameRuns
  /\ exiting' = TRUE
  /\ context' = IF context = "running" THEN "stopping" ELSE context
  /\ UNCHANGED <<banVars, serve_files, service_active, requestVars>>

(* mg_stop returns.                                                        *)
StopReturns ==
  /\ context = "stopping"
  /\ \A w \in Workers : pc[w] = "idle"
  /\ context' = "stopped"
  /\ UNCHANGED <<banVars, exiting, serve_files, service_active, requestVars>>

GameThread ==
  \/ Update
  \/ SetBan
  \/ BanIP
  \/ UnbanIP
  \/ BanlistFile
  \/ SetRoot
  \/ StartServer
  \/ StartService
  \/ StopService
  \/ StopServer
  \/ Dispose
  \/ StopReturns

(* The process has ended.                                                  *)
Ended == exiting /\ context = "stopped" /\ UNCHANGED vars

Next ==
  \/ \E w \in Workers : NewRequest(w)
  \/ \E w \in Workers : Worker(w)
  \/ GameThread
  \/ Ended

(* A worker goes on with the request it has, and mg_stop returns when it   *)
(* can.  The game loop calls Update once per frame whatever the script     *)
(* functions of the frame have done, stopping and restarting the daemon    *)
(* included, hence strong fairness.  No client and no admin has to do      *)
(* anything.                                                               *)
Fairness ==
  /\ \A w \in Workers : WF_vars(Worker(w))
  /\ SF_vars(Update)
  /\ WF_vars(StopReturns)

SafetySpec == Init /\ [][Next]_vars
Spec       == SafetySpec /\ Fairness
=============================================================================
