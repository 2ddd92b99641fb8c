------------------------- MODULE MapDownloadClient --------------------------
(***************************************************************************)
(* The map download client (Networking/HTTP/MapDownloadClient.cpp).  The   *)
(* game thread runs Update at every frame; a download runs in a thread of  *)
(* its own, DownloadMap, which finds a server with a definition of the     *)
(* map, downloads the parts, and combines and extracts them.               *)
(*                                                                         *)
(* The two share g_map_download_globals.  The thread holds                 *)
(* g_globals_access_mutex during a pass of its loop, except while it       *)
(* extracts, and the game thread only while it updates the display, so a   *)
(* pass is one step here; the flags stop_download and in_progress are not  *)
(* guarded by the mutex and are read and written in steps of their own.    *)
(*                                                                         *)
(* What the downloads bring is a free choice (HTTPClient and               *)
(* FileDownloader have the requests and the slots).  The settings leave    *)
(* the download enabled, and the download directory can be deleted.        *)
(***************************************************************************)
EXTENDS Naturals

CONSTANTS
  Threads,      \* identities for the threads that run DownloadMap
  NoThread,
  MaxServers,   \* bound: servers in the master server list
  MaxParts,     \* bound: parts of a map
  XmlAttempts,  \* m_attempts.max_attempts of the xml downloaders
  PartAttempts  \* k_max_download_attempts

ASSUME ClientThreadsAssumption == NoThread \notin Threads
ASSUME ClientBoundsAssumption ==
  /\ MaxServers \in Nat /\ MaxParts \in Nat \ {0}
  /\ XmlAttempts \in Nat /\ PartAttempts \in Nat

VARIABLES
  game,          \* the game thread: "ready", "disposed", or in the wait of
                 \* StopDownloadThread: "stopping" or "disposing"
  update_stage,  \* m_map_download_update_stage
  completion,    \* m_download_completion.state
  master_state,  \* m_master_server_list.state, or "completed"
  master,        \* m_master_server_list.downloader
  list_length,   \* length of m_master_server_list.server_list
  handle,        \* the thread of m_download_thread.thread_handle
  pc,            \* per thread: where it is
  return_value,  \* per thread: return_value
  stop_download,
  in_progress,
  stage,         \* m_download_thread.stage
  servers,       \* length of m_servers.server_list_head
  server,        \* the server that server_iterator is at
  definition_state,
  definition,    \* m_map_part_definition.downloader
  parts,         \* number of parts in its map element
  locked,        \* parts are encrypted, and there is no password
  part_state,
  part,          \* m_part_download.downloader
  part_number,   \* the part that part_iterator is at
  saved,         \* the parts saved in the parts_save_directory
  installed      \* the map has been saved in the maps directory

gameVars   == <<game, update_stage, completion>>
masterVars == <<master_state, master, list_length>>
threadVars == <<handle, pc, return_value, stop_download, in_progress>>
sourceVars == <<servers, server, definition_state, definition, parts, locked>>
partVars   == <<part_state, part, part_number, saved>>
vars == <<gameVars, masterVars, threadVars, stage, sourceVars, partVars, installed>>

-----------------------------------------------------------------------------
(***************************************************************************)
(* A downloader: the status, whether it has a request that is "open" or    *)
(* "held" after the answer, and the attempts that failed.                  *)
(***************************************************************************)
Ctor == [status |-> "idle", request |-> "none", attempts |-> 0]

Downloaders(attempts) ==
  [status : {"idle", "in_progress", "cancelled", "failed", "retry", "succeeded"},
   request : {"none", "open", "held"},
   attempts : 0 .. attempts]

Started(d) ==
  {[d EXCEPT !.status = "in_progress", !.request = "open"],
   [d EXCEPT !.status = "failed", !.request = "none"]}

Stopped(d) ==
  [d EXCEPT !.request = "none",
            !.status = IF d.request = "open" THEN "cancelled" ELSE @]

(* Mutant: one attempt too many.                                           *)
RejectedOnceMore(d, attempts) ==
  IF d.attempts <= attempts
    THEN [d EXCEPT !.status = "retry", !.request = "held", !.attempts = @ + 1]
    ELSE [d EXCEPT !.status = "failed", !.request = "held"]

(* Mutant: the attempts are not counted.                                   *)
RejectedUncounted(d, attempts) ==
  IF d.attempts < attempts
    THEN [d EXCEPT !.status = "retry", !.request = "held"]
    ELSE [d EXCEPT !.status = "failed", !.request = "held"]

(* Retry, after a reply that was not accepted.                             *)
Rejected(d, attempts) ==
  IF d.attempts < attempts
    THEN [d EXCEPT !.status = "retry", !.request = "held", !.attempts = @ + 1]
    ELSE [d EXCEPT !.status = "failed", !.request = "held"]

(* An answer, or a time-out while it connects.                             *)
Answers(d, attempts) ==
  {[d EXCEPT !.status = s, !.request = "held"] : s \in {"succeeded", "cancelled"}}
    \union {Rejected(d, attempts), [d EXCEPT !.status = "failed"]}

Updated(d, attempts) ==
  LET now == IF d.status = "retry" THEN {[d EXCEPT !.request = "none"]} \union Started(d)
                                   ELSE {d}
  IN  now \union UNION {Answers(e, attempts) : e \in {e \in now : e.status = "in_progress"}}

(* The state of a stage that waits for a downloader with the status s.     *)
StateFor(s) ==
  IF s = "succeeded" THEN "download_succeeded"
  ELSE IF s \in {"failed", "cancelled"} THEN "download_failed"
  ELSE "downloading"

-----------------------------------------------------------------------------
Init ==
  /\ game = "ready" /\ update_stage = "idle" /\ completion = "begin"
  /\ master_state = "begin" /\ master = Ctor /\ list_length = 0
  /\ handle = NoThread
  /\ pc = [t \in Threads |-> "absent"]
  /\ return_value = [t \in Threads |-> "none"]
  /\ stop_download = FALSE /\ in_progress = FALSE
  /\ stage = "build_server_list"
  /\ servers = 0 /\ server = 0
  /\ definition_state = "begin" /\ definition = Ctor
  /\ parts = 0 /\ locked = FALSE
  /\ part_state = "begin" /\ part = Ctor /\ part_number = 0
  /\ saved = {}
  /\ installed = FALSE

-----------------------------------------------------------------------------
(***************************************************************************)
(* The download thread                                                     *)
(***************************************************************************)
Goto(t, l) == pc' = [pc EXCEPT ![t] = l]

ThreadBegins(t) ==
  /\ pc[t] = "created"
  /\ in_progress' = TRUE
  /\ Goto(t, "test")
  /\ UNCHANGED <<gameVars, masterVars, handle, return_value, stop_download, stage,
                 sourceVars, partVars, installed>>

TestStopFlag(t) ==
  /\ pc[t] = "test"
  /\ stage' = IF stop_download THEN "cancelled" ELSE stage
  /\ Goto(t, "pass")
  /\ UNCHANGED <<gameVars, masterVars, handle, return_value, stop_download,
                 in_progress, sourceVars, partVars, installed>>

(***************************************************************************)
(* The definition.  When a server fails, the next one is asked.            *)
(***************************************************************************)
(* Mutant: the last server is left out.                                    *)
MoveNextServerMutant(s) == s + 1 < servers'

MoveNextServer(s) == s < servers'

DefinitionResult(d, state, result, s) ==
  /\ definition' = d
  /\ IF result = "failed" /\ MoveNextServer(s)
       THEN server' = s + 1 /\ stage' = "map_part_definition" /\ definition_state' = "begin"
       ELSE server' = s /\ stage' = result /\ definition_state' = state

(* ProcessMapPartDefinition, in the callback.                              *)
DefinitionFound(d) ==
  IF d.status = "succeeded" THEN parts' \in 1 .. MaxParts /\ locked' \in BOOLEAN
                            ELSE UNCHANGED <<parts, locked>>

DefinitionBegins(s) ==
  /\ definition_state = "begin"
  /\ \E d \in Started(definition) :
       IF d.status = "failed"
         THEN DefinitionResult(d, "begin", "failed", s) /\ UNCHANGED <<parts, locked>>
         ELSE \E e \in Updated(d, XmlAttempts) :
                /\ DefinitionResult(e, StateFor(e.status), "map_part_definition", s)
                /\ DefinitionFound(e)

DefinitionDownloads(s) ==
  /\ definition_state = "downloading"
  /\ \E e \in Updated(definition, XmlAttempts) :
       /\ DefinitionResult(e, StateFor(e.status), "map_part_definition", s)
       /\ DefinitionFound(e)

DefinitionEnds(s) ==
  /\ \/ /\ definition_state = "download_failed"
        /\ DefinitionResult(Stopped(definition), definition_state, "failed", s)
     \/ /\ definition_state = "download_succeeded"
        /\ DefinitionResult(Stopped(definition), "stage_complete", "map_part_download", s)
  /\ UNCHANGED <<parts, locked>>

UpdateStage_MapPartDefinition(s) ==
  DefinitionBegins(s) \/ DefinitionDownloads(s) \/ DefinitionEnds(s)

(* BuildServerInstanceList: the dedicated server and then the others, as   *)
(* many as the list of the game thread has now.                            *)
ServersAndDefinition ==
  /\ \/ /\ stage = "build_server_list"
        /\ servers' = list_length + 1
        /\ UpdateStage_MapPartDefinition(1)
     \/ /\ stage = "map_part_definition"
        /\ UNCHANGED servers
        /\ UpdateStage_MapPartDefinition(server)
  /\ UNCHANGED partVars

(***************************************************************************)
(* The parts                                                               *)
(***************************************************************************)
PartUpdated(d) ==
  \E e \in Updated(d, PartAttempts) :
    part' = e /\ part_state' = StateFor(e.status) /\ UNCHANGED stage

NoDirectory ==
  /\ part_state = "begin"
  /\ stage' = "failed"
  /\ UNCHANGED partVars

(* Mutant: the list of parts ends one early.                               *)
SetupPartDownloadMutant == part_number + 1 >= parts

(* SetupPartDownload: all parts have been downloaded.                      *)
SetupPartDownload == part_number = parts

PartPrepared ==
  /\ part_state \in {"begin", "prepare_download"}
  /\ IF SetupPartDownload
       THEN /\ part_state' = "stage_complete"
            /\ part_number' = 0
            /\ stage' = "map_archive_extraction"
            /\ UNCHANGED part
       ELSE /\ part_number' = part_number + 1
            /\ \E d \in Started(Ctor) :
                 IF locked \/ d.status = "failed"
                   THEN part' = d /\ part_state' = "ready_to_download" /\ stage' = "failed"
                   ELSE PartUpdated(d)
  /\ UNCHANGED saved

PartDownloads ==
  /\ part_state = "downloading"
  /\ PartUpdated(part)
  /\ UNCHANGED <<part_number, saved>>

(* A part whose request failed, or whose size is wrong, is not retried.    *)
PartGivenUp ==
  /\ part_state = "downloading" /\ part.status = "in_progress"
  /\ part' = [part EXCEPT !.status = "failed", !.request = "held"]
  /\ part_state' = "download_failed"
  /\ UNCHANGED <<part_number, saved, stage>>

PartFailed ==
  /\ part_state = "download_failed"
  /\ part' = Stopped(part)
  /\ stage' = "failed"
  /\ UNCHANGED <<part_state, part_number, saved>>

PartSaved ==
  /\ part_state = "download_succeeded"
  /\ part' = Stopped(part)
  /\ \/ /\ saved' = saved \union {part_number}
        /\ part_state' = "prepare_download"
        /\ UNCHANGED stage
     \/ /\ stage' = "failed"
        /\ part_state' = "part_ready_to_save"
        /\ UNCHANGED saved
  /\ UNCHANGED part_number

UpdateStage_PartDownload ==
  /\ stage = "map_part_download"
  /\ NoDirectory \/ PartPrepared \/ PartDownloads \/ PartGivenUp \/ PartFailed \/ PartSaved
  /\ UNCHANGED sourceVars

(***************************************************************************)
(* A pass of the loop                                                      *)
(***************************************************************************)
DownloadPass(t) ==
  /\ pc[t] = "pass"
  /\ ServersAndDefinition \/ UpdateStage_PartDownload
  /\ Goto(t, "sleep")
  /\ UNCHANGED <<gameVars, masterVars, handle, return_value, stop_download,
                 in_progress, installed>>

ExtractionPass(t) ==
  /\ pc[t] = "pass" /\ stage = "map_archive_extraction"
  /\ Goto(t, "extract")
  /\ UNCHANGED <<gameVars, masterVars, handle, return_value, stop_download,
                 in_progress, stage, sourceVars, partVars, installed>>

(* CombineMapArchive needs the file of every part.  ExtractMapArchive      *)
(* checks the map before it is saved.                                      *)
UpdateStage_ArchiveExtraction(t) ==
  /\ pc[t] = "extract"
  /\ \/ stage' = "failed" /\ UNCHANGED installed
     \/ saved = 1 .. parts /\ stage' = "complete" /\ installed' = TRUE
  /\ Goto(t, "sleep")
  /\ UNCHANGED <<gameVars, masterVars, handle, return_value, stop_download,
                 in_progress, sourceVars, partVars>>

(* Mutant: the flag in_progress is not cleared.                            *)
LastPassMutant(t) ==
  /\ pc[t] = "pass" /\ stage \in {"failed", "cancelled", "complete"}
  /\ return_value' = [return_value EXCEPT ![t] = stage]
  /\ Goto(t, "sleep")
  /\ UNCHANGED <<gameVars, masterVars, handle, stop_download, in_progress, stage,
                 sourceVars, partVars, installed>>

LastPass(t) ==
  /\ pc[t] = "pass" /\ stage \in {"failed", "cancelled", "complete"}
  /\ in_progress' = FALSE
  /\ return_value' = [return_value EXCEPT ![t] = stage]
  /\ Goto(t, "sleep")
  /\ UNCHANGED <<gameVars, masterVars, handle, stop_download, stage, sourceVars,
                 partVars, installed>>

(* The handle of a thread that is not in thread_handle is not kept.        *)
LoopTest(t) ==
  /\ pc[t] = "sleep"
  /\ IF in_progress \/ handle = t
       THEN Goto(t, IF in_progress THEN "test" ELSE "exited") /\ UNCHANGED return_value
       ELSE Goto(t, "absent") /\ return_value' = [return_value EXCEPT ![t] = "none"]
  /\ UNCHANGED <<gameVars, masterVars, handle, stop_download,
                 in_progress, stage, sourceVars, partVars, installed>>

DownloadMap(t) ==
  \/ ThreadBegins(t)
  \/ TestStopFlag(t)
  \/ DownloadPass(t)
  \/ ExtractionPass(t)
  \/ UpdateStage_ArchiveExtraction(t)
  \/ LastPass(t)
  \/ LoopTest(t)

-----------------------------------------------------------------------------
(***************************************************************************)
(* The game thread                                                         *)
(***************************************************************************)
MasterUpdated(d) ==
  \E e \in Updated(d, XmlAttempts) :
    /\ master' = e
    /\ master_state' = StateFor(e.status)
    /\ IF e.status = "succeeded" THEN list_length' \in 0 .. MaxServers
                                 ELSE UNCHANGED list_length

(* Nothing reads the downloader after it has been stopped.                 *)
MasterCompleted ==
  /\ master_state' = "completed"
  /\ master' = Ctor
  /\ UNCHANGED list_length

UpdateStage_MasterServerList ==
  \/ /\ master_state = "begin"
     /\ \E d \in Started(master) :
          IF d.status = "failed"
            THEN MasterCompleted
            ELSE MasterUpdated(d)
  \/ /\ master_state = "downloading"
     /\ MasterUpdated(master)
  \/ /\ master_state \in {"download_failed", "download_succeeded"}
     /\ MasterCompleted
  \/ /\ master_state = "completed"
     /\ UNCHANGED masterVars

StartDownloadThread ==
  \/ \E t \in Threads :
       /\ pc[t] = "absent"
       /\ handle' = t
       /\ pc' = [pc EXCEPT ![t] = "created"]
       /\ update_stage' = "downloading_map"
       /\ UNCHANGED <<return_value, stop_download, in_progress, game, completion>>
  \/ /\ update_stage' = "failed"
     /\ UNCHANGED <<threadVars, game, completion>>

(* Mutant: the failure is not told from the completion.                    *)
StageForMutant(value) ==
  IF value = "cancelled" THEN value ELSE "map_download_completion"

StageFor(value) == IF value = "complete" THEN "map_download_completion" ELSE value

UpdateStage_DownloadingMap ==
  IF pc[handle] = "exited"
    THEN /\ update_stage' = StageFor(return_value[handle])
         /\ handle' = NoThread
         /\ pc' = [pc EXCEPT ![handle] = "absent"]
         /\ return_value' = [return_value EXCEPT ![handle] = "none"]
         /\ UNCHANGED <<stop_download, in_progress, game, completion>>
    ELSE UNCHANGED <<threadVars, gameVars>>

UpdateStage_DownloadCompletion ==
  /\ \/ /\ completion \in {"begin", "reconnect_delay"}
        /\ completion' \in {"reconnect_delay", "reconnect"}
        /\ UNCHANGED update_stage
     \/ /\ completion = "reconnect"
        /\ completion' = "complete"
        /\ update_stage' = "complete"
  /\ UNCHANGED <<threadVars, game>>

(* StopDownloadThread, up to its wait.                                     *)
StopDownloadThread(wait) ==
  /\ stop_download' = TRUE
  /\ game' = wait
  /\ UNCHANGED <<handle, pc, return_value, in_progress, completion>>

UpdateJob(s) ==
  \/ s \in {"idle", "failed"} /\ update_stage' = s /\ UNCHANGED <<threadVars, game, completion>>
  \/ s = "start_download" /\ StartDownloadThread
  \/ s = "downloading_map" /\ UpdateStage_DownloadingMap
  \/ s = "map_download_completion" /\ UpdateStage_DownloadCompletion
  \/ s \in {"cancelled", "complete"} /\ update_stage' = s /\ StopDownloadThread("stopping")

(* Update.  The player may press escape while there is a download.         *)
Update ==
  /\ game = "ready"
  /\ UpdateStage_MasterServerList
  /\ \E s \in {update_stage} \union (IF update_stage = "idle" THEN {} ELSE {"cancelled"}) :
       UpdateJob(s)
  /\ UNCHANGED <<stage, sourceVars, partVars, installed>>

(* ResetMapDownload, after which the next download can be asked for.       *)
ResetMapDownload ==
  /\ update_stage' = "idle" /\ completion' = "begin"
  /\ stop_download' = FALSE /\ in_progress' = FALSE
  /\ handle' = NoThread
  /\ pc' = [t \in Threads |-> IF pc[t] = "exited" THEN "absent" ELSE pc[t]]
  /\ return_value' = [t \in Threads |-> IF pc[t] = "exited" THEN "none" ELSE return_value[t]]
  /\ stage' = "build_server_list"
  /\ servers' = 0 /\ server' = 0
  /\ definition' = Ctor /\ definition_state' = "begin" /\ parts' = 0 /\ locked' = FALSE
  /\ part' = Ctor /\ part_state' = "begin"
  /\ UNCHANGED masterVars

(* Mutant: the iterator over the parts is kept.                            *)
CleanupMapDownloadMutant ==
  /\ game = "stopping" /\ ~in_progress
  /\ game' = "ready"
  /\ saved' = {}
  /\ installed' = FALSE
  /\ ResetMapDownload
  /\ UNCHANGED part_number

(* The rest of Update, after the wait: CleanupMapDownload, which stops     *)
(* both downloaders and deletes the iterators and the parts, and then      *)
(* ResetMapDownload.                                                       *)
CleanupMapDownload ==
  /\ game = "stopping" /\ ~in_progress
  /\ game' = "ready"
  /\ part_number' = 0
  /\ saved' = {}
  /\ installed' = FALSE
  /\ ResetMapDownload

(* AddMapForDownload, which resets what it has set if there is no server   *)
(* to download from.                                                       *)
AddMapForDownload ==
  /\ game = "ready" /\ update_stage = "idle"
  /\ \/ /\ update_stage' = "start_download"
        /\ UNCHANGED <<completion, masterVars, threadVars, stage, sourceVars, partVars>>
     \/ ResetMapDownload /\ UNCHANGED <<part_number, saved>>
  /\ UNCHANGED <<game, installed>>

(* Dispose waits for the thread in the same way, and leaves the rest of    *)
(* the download as it is.                                                  *)
Dispose ==
  /\ game = "ready"
  /\ StopDownloadThread("disposing")
  /\ UNCHANGED <<update_stage, masterVars, stage, sourceVars, partVars, installed>>

Disposed ==
  /\ game = "disposing" /\ ~in_progress
  /\ game' = "disposed"
  /\ master' = Ctor
  /\ list_length' = 0
  /\ UNCHANGED <<update_stage, completion, master_state, threadVars, stage,
                 sourceVars, partVars, installed>>

-----------------------------------------------------------------------------
Next ==
  \/ \E t \in Threads : DownloadMap(t)
  \/ Update
  \/ CleanupMapDownload
  \/ AddMapForDownload
  \/ Dispose
  \/ Disposed

Spec == Init /\ [][Next]_vars

-----------------------------------------------------------------------------
(***************************************************************************)
(* StopDownloadThread waits for in_progress, which the thread sets at its  *)
(* first instruction and clears before its last ones.  A thread that is    *)
(* left over at the reset does no harm if it only has to leave its loop;   *)
(* TimelySpec is the system in which threads are that quick: one that is   *)
(* created begins before it is stopped, and one that has ended is gone     *)
(* when the next one begins.                                               *)
(***************************************************************************)
Timely ==
  \A t \in Threads \ {handle} :
    pc[t] \in {"absent", "exited"} \/ (pc[t] = "sleep" /\ ~in_progress)

TimelyNext ==
  \/ \E t \in Threads : DownloadMap(t) /\ Timely'
  \/ Update /\ Timely'
  \/ CleanupMapDownload /\ Timely'
  \/ AddMapForDownload /\ Timely'
  \/ Dispose /\ Timely'
  \/ Disposed /\ Timely'

TimelySpec == Init /\ [][TimelyNext]_vars

(***************************************************************************)
(* The threads run, and a download that has a request open gets an answer  *)
(* or a time-out some time.                                                *)
(***************************************************************************)
Progress(t) ==
  DownloadPass(t) /\ <<stage, definition, part>>' # <<stage, definition, part>>

Fairness ==
  /\ WF_vars(Update /\ Timely')
  /\ WF_vars(CleanupMapDownload /\ Timely')
  /\ WF_vars(Disposed /\ Timely')
  /\ \A t \in Threads : WF_vars(DownloadMap(t) /\ Timely') /\ SF_vars(Progress(t) /\ Timely')

FairSpec == TimelySpec /\ Fairness

-----------------------------------------------------------------------------
Stages == {"build_server_list", "map_part_definition", "map_part_download",
           "map_archive_extraction", "complete", "failed", "cancelled"}

DownloadStates == {"begin", "downloading", "download_failed", "download_succeeded"}

TypeOK ==
  /\ game \in {"ready", "stopping", "disposing", "disposed"}
  /\ update_stage \in {"idle", "start_download", "downloading_map",
                       "map_download_completion", "failed", "cancelled", "complete"}
  /\ completion \in {"begin", "reconnect_delay", "reconnect", "complete"}
  /\ master_state \in DownloadStates \union {"completed"}
  /\ master \in Downloaders(XmlAttempts)
  /\ list_length \in 0 .. MaxServers
  /\ handle \in Threads \union {NoThread}
  /\ pc \in [Threads -> {"absent", "created", "test", "pass", "extract", "sleep", "exited"}]
  /\ return_value \in [Threads -> {"none", "failed", "cancelled", "complete"}]
  /\ stop_download \in BOOLEAN /\ in_progress \in BOOLEAN
  /\ stage \in Stages
  /\ servers \in 0 .. MaxServers + 1 /\ server \in 0 .. MaxServers + 1
  /\ definition_state \in DownloadStates \union {"stage_complete"}
  /\ definition \in Downloaders(XmlAttempts)
  /\ parts \in 0 .. MaxParts /\ locked \in BOOLEAN
  /\ part_state \in DownloadStates \union
       {"prepare_download", "ready_to_download", "part_ready_to_save", "stage_complete"}
  /\ part \in Downloaders(PartAttempts)
  /\ part_number \in 0 .. MaxParts
  /\ saved \subseteq 1 .. MaxParts
  /\ installed \in BOOLEAN

(* The archive is combined only when every part of it has been saved.      *)
ArchiveComplete ==
  \A t \in Threads : pc[t] = "extract" => parts > 0 /\ saved = 1 .. parts

(* A download fails for want of a definition only when all servers have    *)
(* been asked for it.                                                      *)
AllServersAsked ==
  stage = "failed" /\ definition_state # "stage_complete" => server = servers

(* When the game waits for the next download, nothing is left of the last  *)
(* one: no request, no part, and no thread that would go on.               *)
NothingLeft ==
  game = "ready" /\ update_stage = "idle" =>
    /\ definition.request = "none" /\ part.request = "none"
    /\ saved = {} /\ part_number = 0 /\ server = 0
    /\ ~stop_download /\ ~in_progress /\ stage = "build_server_list"

Phase ==
  IF update_stage = "idle" THEN "idle"
  ELSE IF completion = "complete" THEN "reconnected"
  ELSE IF installed THEN "installed"
  ELSE "asked"

Job == INSTANCE MapJob WITH phase <- Phase

(* The game reconnects only with the map installed, once for each job.     *)
JobKept == Job!Spec

(* The wait for the thread ends.                                           *)
StopReturns == game \in {"stopping", "disposing"} ~> game \in {"ready", "disposed"}

(* A download ends, unless the program does.                               *)
DownloadEnds ==
  update_stage = "downloading_map" ~>
    update_stage # "downloading_map" \/ game = "disposed"

(* What the comment of StopDownloadThread says.                            *)
StopWaitsForThread ==
  [][CleanupMapDownload => \A t \in Threads : pc[t] \in {"absent", "exited"}]_vars
=============================================================================
