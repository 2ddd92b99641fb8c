------------------------- MODULE HTTPClientThreads --------------------------
(***************************************************************************)
(* The threads that share the HTTP client: the game thread, with the       *)
(* version check and the update of the client, and the map download        *)
(* thread, which downloads parts with a downloader of its own and does the *)
(* thinking for it (MapDownloadClient.cpp).                                *)
(*                                                                         *)
(* Of the map download only its use of the client is here; what it does    *)
(* with the parts is in MapDownloadClient.                                 *)
(***************************************************************************)
EXTENDS VersionCheck

CONSTANTS
  Part         \* m_part_download.downloader

ASSUME PartAssumption ==
  Users = Sources \union {Part} /\ Part \notin Sources /\ ManualUsers = {Part}

(* k_max_simultaneous_requests is at least the number of downloaders.      *)
ASSUME SlotsAssumption ==
  IsFiniteSet(Slots) /\ Cardinality(Users) <= Cardinality(Slots)

VARIABLE
  thread     \* the map download thread: "none", or what it does

vars == <<clientVars, downloaderVars, checkVars, thread>>

TypeOK ==
  /\ ClientTypeOK /\ DownloaderTypeOK /\ CheckTypeOK
  /\ thread \in {"none", "begin", "downloading", "ended", "exited"}

Init ==
  /\ Initialize /\ DownloadersInit /\ CheckInit
  /\ thread = "none"

-----------------------------------------------------------------------------
(***************************************************************************)
(* The callback of the part downloader: data that fails the check sum is   *)
(* asked for again, or given up (MapDownloadClient counts the attempts).   *)
(***************************************************************************)
PartReplies == {"succeeded", "retry", "failed"}

PartAnswered(reply) ==
  /\ status' = [status EXCEPT ![Part] = reply]
  /\ is_downloading' = is_downloading \ {Part}
  /\ UNCHANGED <<request_index, document, thread>>

Answered(u) ==
  \/ \E reply \in Replies :
       /\ u \in Sources
       /\ SourceAnswered(u, reply)
       /\ UNCHANGED thread
  \/ \E reply \in PartReplies :
       /\ u = Part
       /\ PartAnswered(reply)
       /\ UNCHANGED processVars

(* ghttpRequestThink by thread t on the identifier kept in the slot s.     *)
Think(t, s) ==
  \/ /\ RequestProgress(t, request_id[s])
     /\ UNCHANGED <<downloaderVars, processVars, thread>>
  \/ /\ RequestComplete(t, request_id[s])
     /\ Answered(user[Target(request_id[s])])

notProcessVars == <<platform, checked_today, in_progress, available, settingsVars,
                    loads, game, next>>

-----------------------------------------------------------------------------
(***************************************************************************)
(* The game thread: Update of the client thinks for the slots in use that  *)
(* are not thought for by hand.                                            *)
(***************************************************************************)
ClientUpdate ==
  /\ game = "idle"
  /\ \E s \in in_use \ manual_think : Think(Game, s)
  /\ UNCHANGED notProcessVars

VersionCheckStep ==
  /\ \/ \E d \in Sources :
          \/ StartSource(d)
          \/ CancelSource(d)
          \/ UpdateVersion(d)
     \/ \E users \in SUBSET {d \in Sources : MayTimeOut(d)} : Update(users)
     \/ /\ TestForUpdate \/ InitializeForNewMap \/ NextDay
        /\ UNCHANGED <<clientVars, downloaderVars>>
  /\ UNCHANGED thread

StartDownloadThread ==
  /\ game = "idle" /\ platform = "user"
  /\ thread = "none"
  /\ thread' = "begin"
  /\ UNCHANGED <<clientVars, downloaderVars, checkVars>>

(* CleanupMapDownload, after the thread: Stop and Dtor of the downloader.  *)
CleanupMapDownload ==
  /\ game = "idle" /\ thread = "exited"
  /\ Stop(Game, Part)
  /\ thread' = "none"
  /\ UNCHANGED checkVars

-----------------------------------------------------------------------------
(***************************************************************************)
(* The download thread.  Each step is one pass of its loop, or the part of *)
(* one that ends where it may wait for the mutex.                          *)
(***************************************************************************)
PartStart ==
  /\ thread = "begin"
  /\ Start(Download, Part)
  /\ thread' = IF status'[Part] = "failed" THEN "ended" ELSE "downloading"
  /\ UNCHANGED checkVars

PartRetry ==
  /\ thread = "downloading" /\ status[Part] = "retry"
  /\ IF request_index[Part] # NoSlot
       THEN /\ CleanupHTTPRequest(Download, Part)
            /\ is_downloading' = is_downloading \ Cancelled(Part)
       ELSE Start(Download, Part)
  /\ UNCHANGED <<checkVars, thread>>

PartUpdate ==
  /\ thread = "downloading" /\ Part \in is_downloading
  /\ \/ /\ Think(Download, request_index[Part])
        /\ UNCHANGED notProcessVars
     \/ /\ MayTimeOut(Part)
        /\ TimedOut({Part})
        /\ UNCHANGED <<clientVars, request_index, document, checkVars, thread>>

PartEnded ==
  /\ thread = "downloading"
  /\ status[Part] \in {"succeeded", "failed", "cancelled"}
  /\ Stop(Download, Part)
  /\ \/ thread' = "ended"
     \/ status[Part] = "succeeded" /\ thread' = "begin"
  /\ UNCHANGED checkVars

(* The thread is stopped by the game thread before it has called Stop.     *)
PartCancelled ==
  /\ thread = "downloading"
  /\ thread' = "ended"
  /\ UNCHANGED <<clientVars, downloaderVars, checkVars>>

ThreadExits ==
  /\ thread = "ended"
  /\ thread' = "exited"
  /\ ThreadEnds(Download)
  /\ UNCHANGED <<downloaderVars, checkVars>>

(* The mutex is left acquired only after slots have been lost, because a   *)
(* check was started anew while the last one was running: the slots are    *)
(* enough for the users otherwise.                                         *)
MutexLeakNeedsLostSlots == mutex # NoThread => LostSlots # {}

(* A dedicated server loses no slot, however often it loads a map, and so  *)
(* never leaves the mutex of the client acquired: it starts no check over  *)
(* a running one (VersionCheckDedi.cpp:40, c_file_downloader.cpp:69).      *)
DedicatedKeepsSlots == platform = "dedi" => LostSlots = {} /\ mutex = NoThread

Next ==
  \/ ClientUpdate
  \/ VersionCheckStep
  \/ StartDownloadThread
  \/ CleanupMapDownload
  \/ PartStart
  \/ PartRetry
  \/ PartUpdate
  \/ PartEnded
  \/ PartCancelled
  \/ ThreadExits

Spec == Init /\ [][Next]_vars

(* The client keeps what RequestSlots promises, whatever its threads do.   *)
PromiseKept == Promise!Spec
=============================================================================
