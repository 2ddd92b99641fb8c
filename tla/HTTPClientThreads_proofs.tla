----------------------- MODULE HTTPClientThreads_proofs -----------------------
(***************************************************************************)
(* Proofs about the HTTP client and its threads, for any number of slots,  *)
(* identifiers, sources and documents. The parts, each on those before:    *)
(*   TypeInv    types, and that a loop over the sources ends at its last   *)
(*                             source;                                     *)
(*   ClientInv  every running request has a slot that holds its identifier *)
(*                             and its downloader, and indexes are not     *)
(*                             shared;                                     *)
(*   LeakInv    the mutex is left acquired only when a slot has been lost. *)
(* ClientInv is also what the refinement of RequestSlots rests on.         *)
(***************************************************************************)
EXTENDS HTTPClientThreads, FiniteSetTheorems, TLAPS

(* The last source that CheckForUpdates starts.                            *)
Reach == IF servers < Last THEN servers ELSE Last

(* The type invariant: a check is never behind the servers it has          *)
(* (StartSource would not leave its loop).                                 *)
TypeInv ==
  /\ TypeOK
  /\ game = "check" => next <= servers

(* What the assumptions say about the names of threads, users and sources. *)
LEMMA Names ==
  /\ Game \in Threads /\ Download \in Threads
  /\ Part \in Users /\ Part \notin Sources
  /\ Sources \subseteq Users
  /\ Users = Sources \union {Part}
  /\ Last \in Nat /\ 1 <= Last /\ Sources = 1 .. Last
<1>1. Last \in Nat
  BY SourcesAssumption, FS_CardinalityType DEF Last
<1>2. 1 <= Last
  BY <1>1, SourcesAssumption DEF Last
<1> QED
  BY <1>1, <1>2, PartAssumption, SourcesAssumption DEF Threads, Last

(* A request that is started keeps the types of the client.                *)
LEMMA GetType ==
  ASSUME ClientTypeOK, NEW t \in Threads, NEW s \in Slots, NEW i \in Ids, NEW u \in Users,
         NEW manual, Get(t, s, i, u, manual)
  PROVE  ClientTypeOK'
  BY DEF ClientTypeOK, Get

(* A slot that is given back keeps the types of the client.                *)
LEMMA AbortType ==
  ASSUME ClientTypeOK, NEW t \in Threads, NEW s \in Slots, HTTPRequestAbort(t, s)
  PROVE  ClientTypeOK'
  BY DEF ClientTypeOK, HTTPRequestAbort

(* Start of a downloader keeps the types, whatever comes of the request.   *)
LEMMA StartType ==
  ASSUME ClientTypeOK, DownloaderTypeOK, NEW t \in Threads, NEW u \in Users, Start(t, u)
  PROVE  ClientTypeOK' /\ DownloaderTypeOK'
<1>1. ASSUME NEW s \in Slots \union {NoSlot}, StartedIn(u, s)
      PROVE  DownloaderTypeOK'
  BY <1>1 DEF StartedIn, DownloaderTypeOK, Statuses
<1>2. ASSUME NEW s \in Slots, NEW i \in Ids, Get(t, s, i, u, u \in ManualUsers)
      PROVE  ClientTypeOK'
  BY <1>2, GetType
<1>3. ASSUME GetRefused(t)
      PROVE  ClientTypeOK'
  BY <1>3 DEF GetRefused, clientVars, ClientTypeOK
<1>4. ASSUME GetFull(t)
      PROVE  ClientTypeOK'
  BY <1>4 DEF GetFull, ClientTypeOK
<1> QED
  BY <1>1, <1>2, <1>3, <1>4 DEF Start

(* CleanupHTTPRequest keeps the types, if no downloader begins to          *)
(* download.                                                               *)
LEMMA CleanupType ==
  ASSUME ClientTypeOK, DownloaderTypeOK, NEW t \in Threads, NEW u \in Users,
         CleanupHTTPRequest(t, u)
  PROVE  /\ ClientTypeOK'
         /\ is_downloading' \subseteq is_downloading => DownloaderTypeOK'
<1>1. CASE request_index[u] = NoSlot
  BY <1>1 DEF CleanupHTTPRequest, clientVars, ClientTypeOK, DownloaderTypeOK
<1>2. CASE request_index[u] # NoSlot
  <2>1. request_index[u] \in Slots
    BY <1>2 DEF DownloaderTypeOK
  <2>2. ClientTypeOK'
    BY <1>2, <2>1, AbortType DEF CleanupHTTPRequest
  <2>3. /\ request_index' \in [Users -> Slots \union {NoSlot}]
        /\ status' \in [Users -> Statuses]
        /\ document' \in [Users -> Documents \union {NoDocument}]
    BY <1>2 DEF CleanupHTTPRequest, DownloaderTypeOK, Statuses
  <2> QED
    BY <2>2, <2>3 DEF DownloaderTypeOK
<1> QED
  BY <1>1, <1>2

(* Stop of a downloader keeps the types.                                   *)
LEMMA StopType ==
  ASSUME ClientTypeOK, DownloaderTypeOK, NEW t \in Threads, NEW u \in Users, Stop(t, u)
  PROVE  ClientTypeOK' /\ DownloaderTypeOK'
  BY CleanupType DEF Stop

(* What a document is after a reply has been parsed into it.               *)
LEMMA ParsedType ==
  ASSUME DownloaderTypeOK, NEW d \in Sources, NEW reply \in Replies
  PROVE  Parsed(d, reply) \in Documents \union {NoDocument}
  BY Names DEF DownloaderTypeOK, Parsed, Replies

(* The callback of a request changes its downloader and what the version   *)
(* check has read, by values of the right type.                            *)
LEMMA AnsweredType ==
  ASSUME TypeOK, NEW u, Answered(u)
  PROVE  /\ DownloaderTypeOK'
         /\ UNCHANGED <<request_index, thread>>
         /\ version' \in [Sources -> 0 .. MaxVersion]
         /\ list_version' \in [Sources -> 0 .. MaxVersion]
         /\ version_url_list' \subseteq Sources /\ received' \subseteq Documents
<1> USE Names
<1>1. ASSUME NEW reply \in Replies, u \in Sources, SourceAnswered(u, reply), UNCHANGED thread
      PROVE  /\ DownloaderTypeOK'
             /\ UNCHANGED <<request_index, thread>>
             /\ version' \in [Sources -> 0 .. MaxVersion]
             /\ list_version' \in [Sources -> 0 .. MaxVersion]
             /\ version_url_list' \subseteq Sources /\ received' \subseteq Documents
  <2>1. Parsed(u, reply) \in Documents \union {NoDocument}
    BY <1>1, ParsedType DEF TypeOK
  <2>2. DownloaderTypeOK'
    BY <1>1, <2>1 DEF SourceAnswered, TypeOK, DownloaderTypeOK, Statuses
  <2>3. \A r \in Documents : r.version \in 1 .. MaxVersion
    BY SourcesAssumption
  <2>4. /\ version' \in [Sources -> 0 .. MaxVersion]
        /\ list_version' \in [Sources -> 0 .. MaxVersion]
    <3>1. CASE UNCHANGED <<version, list_version, version_url_list>>
      BY <3>1 DEF TypeOK, CheckTypeOK
    <3> DEFINE root == Parsed(u, reply)
    <3>2. CASE /\ root \in Documents
               /\ version' = [version EXCEPT ![u] = root.version]
               /\ list_version' = [list_version EXCEPT ![u] =
                                     IF root.list = "none" THEN @ ELSE root.version]
      <4>1. root.version \in 0 .. MaxVersion
        BY <3>2, <2>3, SourcesAssumption
      <4> HIDE DEF root
      <4> QED
        BY <3>2, <4>1 DEF TypeOK, CheckTypeOK
    <3> QED
      BY <1>1, <2>1, <3>1, <3>2 DEF SourceAnswered, ProcessVersionDocument
  <2>5. version_url_list' \subseteq Sources /\ received' \subseteq Documents
    BY <1>1 DEF SourceAnswered, ProcessVersionDocument, TypeOK, CheckTypeOK
  <2> QED
    BY <1>1, <2>2, <2>4, <2>5 DEF SourceAnswered
<1>2. ASSUME NEW reply \in PartReplies, PartAnswered(reply), UNCHANGED processVars
      PROVE  /\ DownloaderTypeOK'
             /\ UNCHANGED <<request_index, thread>>
             /\ version' \in [Sources -> 0 .. MaxVersion]
             /\ list_version' \in [Sources -> 0 .. MaxVersion]
             /\ version_url_list' \subseteq Sources /\ received' \subseteq Documents
  BY <1>2 DEF PartAnswered, PartReplies, processVars, TypeOK, DownloaderTypeOK, CheckTypeOK,
              Statuses
<1> QED
  BY <1>1, <1>2 DEF Answered

(* A think by either thread keeps the type invariant.                      *)
LEMMA ThinkType ==
  ASSUME TypeInv, NEW t \in Threads, NEW s, Think(t, s), UNCHANGED notProcessVars
  PROVE  TypeInv'
<1>1. CASE /\ RequestProgress(t, request_id[s])
           /\ UNCHANGED <<downloaderVars, processVars, thread>>
  BY <1>1 DEF RequestProgress, Target, downloaderVars, processVars, notProcessVars,
              settingsVars, TypeInv, TypeOK, ClientTypeOK, DownloaderTypeOK, CheckTypeOK
<1>2. CASE /\ RequestComplete(t, request_id[s])
           /\ Answered(user[Target(request_id[s])])
  <2>1. ClientTypeOK'
    BY <1>2 DEF RequestComplete, Target, TypeInv, TypeOK, ClientTypeOK
  <2>2. /\ DownloaderTypeOK'
        /\ UNCHANGED <<request_index, thread>>
        /\ version' \in [Sources -> 0 .. MaxVersion]
        /\ list_version' \in [Sources -> 0 .. MaxVersion]
        /\ version_url_list' \subseteq Sources /\ received' \subseteq Documents
    BY <1>2, AnsweredType DEF TypeInv
  <2> QED
    BY <2>1, <2>2 DEF notProcessVars, settingsVars, TypeInv, TypeOK, CheckTypeOK
<1> QED
  BY <1>1, <1>2 DEF Think

(* Where a loop over the sources goes on.                                  *)
LEMMA ContinueType ==
  ASSUME NEW d \in Sources, NEW last \in 1 .. Last, d <= last, Continue(d, last),
         game \in {"idle", "check", "cancel", "finish"}, next = d
  PROVE  /\ next' \in Sources
         /\ game' \in {game, "idle"}
         /\ game' # "idle" => game' = game /\ next' = d + 1 /\ d < last
         /\ game' = game /\ game # "idle" => next' = d + 1 /\ d < last
         /\ game' # game => d = last
  BY Names DEF Continue

(* The source that is started last is one of those there are servers for.  *)
LEMMA ReachType ==
  ASSUME TypeOK
  PROVE  /\ Reach \in 0 .. Last
         /\ \A n \in 1 .. Last : n <= servers => n <= Reach /\ Reach \in 1 .. Last
  BY Names DEF TypeOK, CheckTypeOK, Reach

(* What a new check, or none, makes of the state of the version check.     *)
LEMMA NewCheckType ==
  ASSUME TypeInv, CheckForUpdates \/ CancelAll \/ NoCheck
  PROVE  /\ in_progress' \in BOOLEAN /\ checked_date' \in BOOLEAN
         /\ servers' \in Nat /\ servers_version' \in 0 .. MaxVersion
         /\ game' \in {"idle", "check", "cancel", "finish"} /\ next' \in Sources
         /\ game' = "check" => next' <= servers'
<1>1. CASE CheckForUpdates
  <2>1. /\ in_progress' \in BOOLEAN /\ checked_date' \in BOOLEAN
        /\ servers_version' \in 0 .. MaxVersion
    BY <1>1 DEF CheckForUpdates, TypeInv, TypeOK, CheckTypeOK
  <2>2. /\ game' = "check" /\ next' = 1
        /\ servers' \in Nat /\ servers' >= 1
    BY <1>1 DEF CheckForUpdates, Begin, TypeInv, TypeOK, CheckTypeOK
  <2> QED
    BY <2>1, <2>2, Names
<1>2. CASE CancelAll
  BY <1>2, Names DEF CancelAll, Begin, settingsVars, TypeInv, TypeOK, CheckTypeOK
<1>3. CASE NoCheck
  BY <1>3 DEF NoCheck, settingsVars, TypeInv, TypeOK, CheckTypeOK
<1> QED
  BY <1>1, <1>2, <1>3

(* The steps of the version check keep the type invariant.                 *)
LEMMA VersionCheckType ==
  ASSUME TypeInv, VersionCheckStep
  PROVE  TypeInv'
<1> USE Names
<1>1. ASSUME NEW d \in Sources, StartSource(d)
      PROVE  TypeInv'
  <2>1. ClientTypeOK' /\ DownloaderTypeOK'
    BY <1>1, StartType DEF StartSource, TypeInv, TypeOK
  <2>2. d <= Reach /\ Reach \in 1 .. Last /\ Reach <= servers
    BY <1>1, ReachType DEF StartSource, TypeInv, TypeOK, CheckTypeOK, Reach
  <2>3. /\ next' \in Sources
        /\ game' \in {game, "idle"}
        /\ game' # "idle" => next' = d + 1 /\ d < Reach
    BY <1>1, <2>2, ContinueType DEF StartSource, Reach, TypeInv, TypeOK, CheckTypeOK
  <2>4. in_progress' \in BOOLEAN
    BY <1>1 DEF StartSource
  <2>5. servers' = servers
    BY <1>1 DEF StartSource, settingsVars
  <2>6. game' = "check" => next' <= servers'
    BY <2>2, <2>3, <2>5 DEF TypeInv, TypeOK, CheckTypeOK
  <2> QED
    BY <1>1, <2>1, <2>3, <2>4, <2>6, VersionCheckStep
       DEF StartSource, settingsVars, processVars, VersionCheckStep, TypeInv, TypeOK,
           CheckTypeOK
<1>2. ASSUME NEW d \in Sources, CancelSource(d)
      PROVE  TypeInv'
  <2>1. ClientTypeOK' /\ DownloaderTypeOK'
    BY <1>2, StopType DEF CancelSource, TypeInv, TypeOK
  <2>2. next' \in Sources /\ game' \in {game, "idle"}
    BY <1>2, ContinueType DEF CancelSource, TypeInv, TypeOK, CheckTypeOK
  <2>3. in_progress' \in BOOLEAN
    BY <1>2 DEF CancelSource
  <2> QED
    BY <1>2, <2>1, <2>2, <2>3, VersionCheckStep
       DEF CancelSource, settingsVars, processVars, VersionCheckStep, TypeInv, TypeOK,
           CheckTypeOK
<1>3. ASSUME NEW d \in Sources, UpdateVersion(d)
      PROVE  TypeInv'
  <2>1. ClientTypeOK' /\ DownloaderTypeOK'
    BY <1>3, StopType
       DEF UpdateVersion, TypeInv, TypeOK, clientVars, downloaderVars, ClientTypeOK,
           DownloaderTypeOK
  <2>2. next' \in Sources /\ game' \in {game, "idle"}
    BY <1>3, ContinueType DEF UpdateVersion, TypeInv, TypeOK, CheckTypeOK
  <2>3. /\ available' \in 0 .. MaxVersion
        /\ servers' \in Nat
        /\ servers_version' \in 0 .. MaxVersion
    <3>1. /\ available \in 0 .. MaxVersion /\ servers \in Nat
          /\ servers_version \in 0 .. MaxVersion
          /\ version[d] \in 0 .. MaxVersion /\ list_version[d] \in 0 .. MaxVersion
      BY DEF TypeInv, TypeOK, CheckTypeOK
    <3>2. available' \in {available, version[d]}
      BY <1>3 DEF UpdateVersion, AdoptVersion
    <3>3. /\ servers' \in {servers, 0, 1}
          /\ servers_version' \in {servers_version, list_version[d]}
      BY <1>3 DEF UpdateVersion, AdoptServers
    <3> QED
      BY <3>1, <3>2, <3>3
  <2> QED
    BY <1>3, <2>1, <2>2, <2>3, VersionCheckStep
       DEF UpdateVersion, processVars, VersionCheckStep, TypeInv, TypeOK, CheckTypeOK
<1>4. ASSUME NEW users, Update(users)
      PROVE  TypeInv'
  <2>1. ClientTypeOK' /\ DownloaderTypeOK'
    BY <1>4 DEF Update, TimedOut, clientVars, TypeInv, TypeOK, ClientTypeOK,
                DownloaderTypeOK, Statuses
  <2>2. in_progress' \in BOOLEAN
    BY <1>4 DEF Update
  <2>3. /\ game' \in {"idle", "finish"} /\ next' \in Sources
        /\ checked_date' \in BOOLEAN
    <3>1. CASE in_progress'
      BY <1>4, <3>1 DEF Update, TypeInv, TypeOK, CheckTypeOK
    <3>2. CASE ~in_progress'
      BY <1>4, <3>2 DEF Update, Begin
    <3> QED
      BY <3>1, <3>2
  <2> QED
    BY <1>4, <2>1, <2>2, <2>3, VersionCheckStep
       DEF Update, processVars, VersionCheckStep, TypeInv, TypeOK, CheckTypeOK
<1>5. CASE /\ TestForUpdate \/ InitializeForNewMap \/ NextDay
           /\ UNCHANGED <<clientVars, downloaderVars>>
  <2>1. ClientTypeOK' /\ DownloaderTypeOK'
    BY <1>5 DEF clientVars, downloaderVars, TypeInv, TypeOK, ClientTypeOK, DownloaderTypeOK
  <2>2. DateState \in BOOLEAN
    BY DEF DateState
  <2>3. CASE TestForUpdate
    <3>1. CheckForUpdates \/ NoCheck
      BY <2>3 DEF TestForUpdate
    <3>2. loads' \in 0 .. MaxLoads /\ checked_today' \in BOOLEAN
      BY <2>2, <2>3, SourcesAssumption DEF TestForUpdate
    <3> QED
      BY <2>1, <2>3, <3>1, <3>2, NewCheckType, VersionCheckStep
         DEF TestForUpdate, processVars, VersionCheckStep, TypeInv, TypeOK, CheckTypeOK
  <2>4. CASE InitializeForNewMap
    <3>1. CheckForUpdates \/ CancelAll \/ NoCheck
      BY <2>4 DEF InitializeForNewMap, InitializeForNewMap_User, InitializeForNewMap_Dedi
    <3>2. loads' \in 0 .. MaxLoads
      BY <2>4, SourcesAssumption DEF InitializeForNewMap, TypeInv, TypeOK, CheckTypeOK
    <3>3. checked_today' \in BOOLEAN
      BY <2>2, <2>4 DEF InitializeForNewMap, InitializeForNewMap_User,
                        InitializeForNewMap_Dedi, TypeInv, TypeOK, CheckTypeOK
    <3> QED
      BY <2>1, <2>4, <3>1, <3>2, <3>3, NewCheckType, VersionCheckStep
         DEF InitializeForNewMap, processVars, VersionCheckStep, TypeInv, TypeOK, CheckTypeOK
  <2>5. CASE NextDay
    BY <2>1, <2>5, VersionCheckStep
       DEF NextDay, processVars, VersionCheckStep, TypeInv, TypeOK, CheckTypeOK
  <2> QED
    BY <1>5, <2>3, <2>4, <2>5
<1> QED
  BY <1>1, <1>2, <1>3, <1>4, <1>5 DEF VersionCheckStep

(* Every step keeps the type invariant.                                    *)
LEMMA NextType ==
  ASSUME TypeInv, [Next]_vars
  PROVE  TypeInv'
<1> USE Names
<1>0. ASSUME ClientTypeOK', DownloaderTypeOK', UNCHANGED checkVars,
             thread' \in {"none", "begin", "downloading", "ended", "exited"}
      PROVE  TypeInv'
  BY <1>0 DEF checkVars, TypeInv, TypeOK, CheckTypeOK
<1>1. CASE UNCHANGED vars
  BY <1>0, <1>1 DEF vars, clientVars, downloaderVars, TypeInv, TypeOK, ClientTypeOK,
                    DownloaderTypeOK
<1>2. CASE ClientUpdate
  BY <1>2, ThinkType DEF ClientUpdate
<1>3. CASE VersionCheckStep
  BY <1>3, VersionCheckType
<1>4. CASE StartDownloadThread \/ PartCancelled \/ ThreadExits
  BY <1>0, <1>4 DEF StartDownloadThread, PartCancelled, ThreadExits, ThreadEnds, clientVars,
                    downloaderVars, TypeInv, TypeOK, ClientTypeOK, DownloaderTypeOK
<1>5. CASE CleanupMapDownload
  BY <1>0, <1>5, StopType DEF CleanupMapDownload, TypeInv, TypeOK
<1>6. CASE PartStart
  BY <1>0, <1>6, StartType DEF PartStart, TypeInv, TypeOK
<1>7. CASE PartRetry
  <2>1. CASE Start(Download, Part)
    BY <1>0, <1>7, <2>1, StartType DEF PartRetry, TypeInv, TypeOK
  <2>2. CASE /\ CleanupHTTPRequest(Download, Part)
             /\ is_downloading' = is_downloading \ Cancelled(Part)
    BY <1>0, <1>7, <2>2, CleanupType DEF PartRetry, TypeInv, TypeOK
  <2> QED
    BY <1>7, <2>1, <2>2 DEF PartRetry
<1>8. CASE PartUpdate
  <2>1. CASE Think(Download, request_index[Part]) /\ UNCHANGED notProcessVars
    BY <2>1, ThinkType
  <2>2. CASE /\ TimedOut({Part})
             /\ UNCHANGED <<clientVars, request_index, document, checkVars, thread>>
    BY <1>0, <2>2 DEF TimedOut, clientVars, TypeInv, TypeOK, ClientTypeOK, DownloaderTypeOK,
                      Statuses
  <2> QED
    BY <1>8, <2>1, <2>2 DEF PartUpdate
<1>9. CASE PartEnded
  BY <1>0, <1>9, StopType DEF PartEnded, TypeInv, TypeOK
<1> QED
  BY <1>1, <1>2, <1>3, <1>4, <1>5, <1>6, <1>7, <1>8, <1>9 DEF Next

(* The type invariant holds at first.                                      *)
LEMMA InitType ==
  ASSUME Init
  PROVE  TypeInv
<1>1. ClientTypeOK
  BY DEF Init, Initialize, ClientTypeOK
<1>2. DownloaderTypeOK
  BY DEF Init, DownloadersInit, DownloaderTypeOK, Statuses
<1>3. CheckTypeOK
  <2>1. /\ checked_date \in BOOLEAN /\ checked_today = FALSE /\ in_progress = FALSE
        /\ platform \in Platforms
    BY DEF Init, CheckInit
  <2>2. /\ available \in 0 .. MaxVersion /\ servers_version \in 0 .. MaxVersion
        /\ servers \in Nat /\ loads \in 0 .. MaxLoads /\ next \in Sources
        /\ version_url_list \subseteq Sources /\ received \subseteq Documents /\ game = "idle"
    BY Names, SourcesAssumption DEF Init, CheckInit
  <2>3. /\ version \in [Sources -> 0 .. MaxVersion]
        /\ list_version \in [Sources -> 0 .. MaxVersion]
    BY SourcesAssumption DEF Init, CheckInit
  <2> QED
    BY <2>1, <2>2, <2>3 DEF CheckTypeOK
<1> QED
  BY <1>1, <1>2, <1>3 DEF Init, CheckInit, TypeInv, TypeOK

(* TypeInv is an invariant.                                                *)
LEMMA TypeInvariant == Spec => []TypeInv
<1>1. Init => TypeInv
  BY InitType
<1>2. TypeInv /\ [Next]_vars => TypeInv'
  BY NextType
<1> QED
  BY <1>1, <1>2, PTL DEF Spec

(* Whatever the two threads do, the slots, the downloaders and the version *)
(* check stay in their types; a document never carries the check over its  *)
(* last source (HTTPClient.cpp, c_file_downloader.cpp, VersionCheck.cpp).  *)
THEOREM ClientTypeCorrect == Spec => []TypeOK
<1>1. TypeInv => TypeOK
  BY DEF TypeInv
<1> QED
  BY <1>1, TypeInvariant, PTL

-----------------------------------------------------------------------------
(* The type of the indexes that the downloaders hold.                      *)
IndexTypeOK == request_index \in [Users -> Slots \union {NoSlot}]

(* No slot, request or index changes hands; a request may get on.          *)
Quiet ==
  /\ UNCHANGED <<in_use, manual_think, request_id, user, connection, request_index>>
  /\ state' = state \/ \E s : state' = [state EXCEPT ![s] = "receiving"]

(* A downloader may end, but none begins.                                  *)
Settles == \A v \in Users : status'[v] \in {"idle", "in_progress"} => status'[v] = status[v]

(* What a step of thread t does to the client and the downloaders. Every   *)
(* invariant below is shown of these four cases, not of ten actions.       *)
Effect(t) ==
  \/ \E u \in Users : Start(t, u)
  \/ \E u \in Users :
       /\ CleanupHTTPRequest(t, u)
       /\ \/ is_downloading' = is_downloading \ Cancelled(u)
          \/ is_downloading' = is_downloading \ (Cancelled(u) \union {u})
  \/ \E i \in Ids : RequestComplete(t, i) /\ Answered(user[Target(i)])
  \/ /\ Quiet
     /\ mutex' = mutex \/ mutex' = NoThread
     /\ Settles
     /\ \A v \in is_downloading' : v \in is_downloading /\ status'[v] = status[v]

(* A think either completes a request or is quiet.                         *)
LEMMA ThinkEffect ==
  ASSUME NEW t \in Threads, NEW s, Think(t, s)
  PROVE  Effect(t)
<1>1. CASE RequestProgress(t, request_id[s]) /\ UNCHANGED downloaderVars
  BY <1>1 DEF RequestProgress, downloaderVars, Effect, Quiet, Settles
<1>2. CASE /\ RequestComplete(t, request_id[s])
           /\ Answered(user[Target(request_id[s])])
  <2>1. request_id[s] \in Ids
    BY <1>2 DEF RequestComplete, Target
  <2> QED
    BY <1>2, <2>1 DEF Effect
<1> QED
  BY <1>1, <1>2 DEF Think

(* Time-outs only end downloads.                                           *)
LEMMA TimedOutSettles ==
  ASSUME NEW users, TimedOut(users)
  PROVE  /\ Settles
         /\ \A v \in is_downloading' \intersect Users :
              v \in is_downloading /\ status'[v] = status[v]
  BY DEF TimedOut, Settles

(* Every step is one of the four.                                          *)
LEMMA NextEffect ==
  ASSUME TypeOK, Next
  PROVE  \E t \in Threads : Effect(t)
<1> USE Names
<1>q. ASSUME Quiet, mutex' = mutex, Settles, UNCHANGED <<status, is_downloading>>
      PROVE  \E t \in Threads : Effect(t)
  BY <1>q DEF Effect
<1>1. CASE ClientUpdate
  BY <1>1, ThinkEffect DEF ClientUpdate
<1>2. CASE VersionCheckStep
  <2>1. ASSUME NEW d \in Sources, StartSource(d)
        PROVE  Effect(Game)
    BY <2>1 DEF StartSource, Effect
  <2>2. ASSUME NEW d \in Sources, CancelSource(d)
        PROVE  Effect(Game)
    BY <2>2 DEF CancelSource, Stop, Effect
  <2>3. ASSUME NEW d \in Sources, UpdateVersion(d)
        PROVE  Effect(Game)
    <3>1. CASE Stop(Game, d)
      BY <3>1 DEF Stop, Effect
    <3>2. CASE UNCHANGED <<clientVars, downloaderVars>>
      BY <3>2 DEF clientVars, downloaderVars, Effect, Quiet, Settles
    <3> QED
      BY <2>3, <3>1, <3>2 DEF UpdateVersion
  <2>4. ASSUME NEW users, Update(users)
        PROVE  Effect(Game)
    <3>1. is_downloading' \subseteq Users
      BY <2>4 DEF Update, TimedOut, TypeOK, DownloaderTypeOK
    <3> QED
      BY <2>4, <3>1, TimedOutSettles DEF Update, Effect, Quiet, clientVars
  <2>5. CASE UNCHANGED <<clientVars, downloaderVars>>
    BY <2>5, <1>q DEF clientVars, downloaderVars, Quiet, Settles
  <2> QED
    BY <1>2, <2>1, <2>2, <2>3, <2>4, <2>5 DEF VersionCheckStep
<1>3. CASE StartDownloadThread
  BY <1>3, <1>q DEF StartDownloadThread, clientVars, downloaderVars, Quiet, Settles
<1>4. CASE CleanupMapDownload
  BY <1>4 DEF CleanupMapDownload, Stop, Effect
<1>5. CASE PartStart
  BY <1>5 DEF PartStart, Effect
<1>6. CASE PartRetry
  BY <1>6 DEF PartRetry, Effect
<1>7. CASE PartUpdate
  <2>1. CASE Think(Download, request_index[Part])
    BY <2>1, ThinkEffect
  <2>2. CASE TimedOut({Part}) /\ UNCHANGED <<clientVars, request_index>>
    <3>1. is_downloading' \subseteq Users
      BY <2>2 DEF TimedOut, TypeOK, DownloaderTypeOK
    <3> QED
      BY <2>2, <3>1, TimedOutSettles DEF clientVars, Effect, Quiet
  <2> QED
    BY <1>7, <2>1, <2>2 DEF PartUpdate
<1>8. CASE PartEnded
  BY <1>8 DEF PartEnded, Stop, Effect
<1>9. CASE PartCancelled
  BY <1>9, <1>q DEF PartCancelled, clientVars, downloaderVars, Quiet, Settles
<1>10. CASE ThreadExits
  BY <1>10 DEF ThreadExits, ThreadEnds, downloaderVars, Effect, Quiet, Settles
<1> QED
  BY <1>1, <1>2, <1>3, <1>4, <1>5, <1>6, <1>7, <1>8, <1>9, <1>10 DEF Next

-----------------------------------------------------------------------------
(* A slot that knows a downloader has a request that is running.           *)
UserNeedsRequest == \A s \in Slots : user[s] # NoUser => s \in Open

(* The invariant of the slots. None of its parts is inductive alone: that  *)
(* an abort cancels the request of its own slot needs the identifiers,     *)
(* that it does not strand another needs the users.                        *)
ClientInv ==
  /\ ClientTypeOK /\ IndexTypeOK
  /\ LiveRequestsHeld /\ UserNeedsRequest /\ IndexesExclusive

(* A request that is started is a new one.                                 *)
LEMMA StartOpen ==
  ASSUME ClientInv, NEW t \in Threads, NEW s \in Slots, NEW i \in Ids, NEW u \in Users,
         NEW manual, Get(t, s, i, u, manual)
  PROVE  Open' = Open \union {s}
  BY NullsAssumption DEF ClientInv, ClientTypeOK, Get, Open

(* A request that completes was running, and no other is touched.          *)
LEMMA CompleteOpen ==
  ASSUME ClientInv, NEW t \in Threads, NEW i \in Ids, RequestComplete(t, i)
  PROVE  /\ connection[i] \in Open
         /\ Open' = Open \ {connection[i]}
  BY NullsAssumption
     DEF ClientInv, ClientTypeOK, LiveRequestsHeld, RequestComplete, Target, Open

(* An abort ends at most one request: the one of its slot, if that is      *)
(* still running.                                                          *)
LEMMA AbortOpen ==
  ASSUME ClientInv, NEW t \in Threads, NEW s \in Slots, HTTPRequestAbort(t, s)
  PROVE  /\ CancelledSlot(s) \in Slots \union {NoSlot}
         /\ CancelledSlot(s) # NoSlot => CancelledSlot(s) \in Open
         /\ Open' = Open \ {CancelledSlot(s)}
         /\ s \in Open => CancelledSlot(s) = s
  BY NullsAssumption
     DEF ClientInv, ClientTypeOK, LiveRequestsHeld, HTTPRequestAbort, CancelledSlot,
         Target, Open

(* Start keeps the invariant of the slots.                                 *)
LEMMA StartClientInv ==
  ASSUME ClientInv, NEW t \in Threads, NEW u \in Users, Start(t, u)
  PROVE  ClientInv'
<1>1. CASE \E s \in Slots, i \in Ids :
             Get(t, s, i, u, u \in ManualUsers) /\ StartedIn(u, s)
  <2>1. PICK s \in Slots, i \in Ids :
          Get(t, s, i, u, u \in ManualUsers) /\ StartedIn(u, s)
    BY <1>1
  <2>2. Open' = Open \union {s}
    BY <2>1, StartOpen
  <2>3. ClientTypeOK'
    BY <2>1 DEF ClientInv, ClientTypeOK, Get
  <2>4. IndexTypeOK'
    BY <2>1 DEF ClientInv, IndexTypeOK, StartedIn
  <2>5. LiveRequestsHeld'
    BY <2>1, NullsAssumption DEF ClientInv, ClientTypeOK, LiveRequestsHeld, Get
  <2>6. UserNeedsRequest'
    BY <2>1, <2>2 DEF ClientInv, ClientTypeOK, UserNeedsRequest, Get
  <2>7. IndexesExclusive'
    BY <2>1 DEF ClientInv, IndexTypeOK, IndexesExclusive, Get, StartedIn
  <2> QED
    BY <2>3, <2>4, <2>5, <2>6, <2>7 DEF ClientInv
<1>2. ASSUME StartedIn(u, NoSlot), UNCHANGED <<in_use, manual_think, state, request_id,
                                             user, connection>>,
             mutex' \in Threads \union {NoThread}
      PROVE  ClientInv'
  BY <1>2 DEF ClientInv, ClientTypeOK, IndexTypeOK, LiveRequestsHeld, UserNeedsRequest,
              IndexesExclusive, StartedIn, Open
<1> QED
  BY <1>1, <1>2 DEF Start, GetRefused, GetFull, clientVars, ClientInv, ClientTypeOK

(* CleanupHTTPRequest keeps the invariant of the slots, also when the      *)
(* identifier it cancels has been given to another request.                *)
LEMMA CleanupClientInv ==
  ASSUME ClientInv, NEW t \in Threads, NEW u \in Users, CleanupHTTPRequest(t, u)
  PROVE  ClientInv'
<1>1. CASE request_index[u] = NoSlot
  BY <1>1 DEF CleanupHTTPRequest, clientVars, ClientInv, ClientTypeOK, IndexTypeOK,
              LiveRequestsHeld, UserNeedsRequest, IndexesExclusive, Open
<1>2. CASE request_index[u] # NoSlot
  <2> DEFINE s == request_index[u]
  <2>1. s \in Slots
    BY <1>2 DEF ClientInv, IndexTypeOK
  <2>2. /\ HTTPRequestAbort(t, s)
        /\ request_index' = [request_index EXCEPT ![u] = NoSlot]
    BY <1>2 DEF CleanupHTTPRequest
  <2>3. /\ CancelledSlot(s) \in Slots \union {NoSlot}
        /\ Open' = Open \ {CancelledSlot(s)}
        /\ s \in Open => CancelledSlot(s) = s
    BY <2>1, <2>2, AbortOpen
  <2> HIDE DEF s
  <2>4. ClientTypeOK'
    BY <2>1, <2>2 DEF ClientInv, ClientTypeOK, HTTPRequestAbort
  <2>5. IndexTypeOK'
    BY <2>2 DEF ClientInv, IndexTypeOK
  <2>6. LiveRequestsHeld'
    BY <2>1, <2>2, NullsAssumption
       DEF ClientInv, ClientTypeOK, LiveRequestsHeld, HTTPRequestAbort, CancelledSlot, Target
  <2>7. UserNeedsRequest'
    BY <2>1, <2>2, <2>3 DEF ClientInv, ClientTypeOK, UserNeedsRequest, HTTPRequestAbort
  <2>8. IndexesExclusive'
    BY <2>2 DEF s, ClientInv, IndexTypeOK, IndexesExclusive, HTTPRequestAbort
  <2> QED
    BY <2>4, <2>5, <2>6, <2>7, <2>8 DEF ClientInv
<1> QED
  BY <1>1, <1>2

(* The end of a request keeps the invariant of the slots.                  *)
LEMMA CompleteClientInv ==
  ASSUME ClientInv, NEW t \in Threads, NEW i \in Ids,
         RequestComplete(t, i), UNCHANGED request_index
  PROVE  ClientInv'
<1>1. /\ connection[i] \in Slots
      /\ user' = [user EXCEPT ![connection[i]] = NoUser]
      /\ connection' = [connection EXCEPT ![i] = NoSlot]
      /\ UNCHANGED <<mutex, in_use, manual_think, state, request_id>>
  BY DEF RequestComplete, Target, ClientInv, ClientTypeOK
<1>2. Open' = Open \ {connection[i]}
  BY CompleteOpen
<1>3. ClientTypeOK' /\ IndexTypeOK' /\ IndexesExclusive'
  BY <1>1 DEF ClientInv, ClientTypeOK, IndexTypeOK, IndexesExclusive
<1>4. LiveRequestsHeld'
  BY <1>1, NullsAssumption DEF ClientInv, ClientTypeOK, LiveRequestsHeld
<1>5. UserNeedsRequest'
  BY <1>1, <1>2 DEF ClientInv, ClientTypeOK, UserNeedsRequest
<1> QED
  BY <1>3, <1>4, <1>5 DEF ClientInv

(* Every step keeps the invariant of the slots.                            *)
LEMMA NextClientInv ==
  ASSUME TypeInv, ClientInv, [Next]_vars
  PROVE  ClientInv'
<1>1. CASE UNCHANGED vars
  BY <1>1 DEF vars, clientVars, downloaderVars, ClientInv, ClientTypeOK, IndexTypeOK,
              LiveRequestsHeld, UserNeedsRequest, IndexesExclusive, Open
<1>2. ASSUME NEW t \in Threads, Effect(t)
      PROVE  ClientInv'
  <2>1. CASE Quiet /\ (mutex' = mutex \/ mutex' = NoThread)
    BY <2>1 DEF Quiet, ClientInv, ClientTypeOK, IndexTypeOK, LiveRequestsHeld,
                UserNeedsRequest, IndexesExclusive, Open
  <2> QED
    BY <1>2, <2>1, AnsweredType, StartClientInv, CleanupClientInv, CompleteClientInv
       DEF Effect, TypeInv
<1> QED
  BY <1>1, <1>2, NextEffect DEF TypeInv

(* The invariant of the slots holds at first.                              *)
LEMMA InitClientInv ==
  ASSUME Init
  PROVE  ClientInv
  BY NullsAssumption
     DEF Init, Initialize, DownloadersInit, ClientInv, ClientTypeOK, IndexTypeOK,
         LiveRequestsHeld, UserNeedsRequest, IndexesExclusive, Open

(* ClientInv is an invariant.                                              *)
LEMMA ClientInvariant == Spec => []ClientInv
<1>1. Init => ClientInv
  BY InitClientInv
<1>2. TypeInv /\ ClientInv /\ [Next]_vars => ClientInv'
  BY NextClientInv
<1> QED
  BY <1>1, <1>2, TypeInvariant, PTL DEF Spec

(* A running request reports to a slot that is in use and holds its        *)
(* identifier, for any number of slots, identifiers and downloaders        *)
(* (HTTPClient.cpp:425-447, 500-561).                                      *)
THEOREM LiveRequestsAreHeld == Spec => []LiveRequestsHeld
<1>1. ClientInv => LiveRequestsHeld
  BY DEF ClientInv
<1> QED
  BY <1>1, ClientInvariant, PTL

(* No two downloaders hold the same slot, and an index that is held is one *)
(* of a slot in use (c_file_downloader.cpp:42-48, 62-95).                  *)
THEOREM NoSlotShared == Spec => []IndexesExclusive
<1>1. ClientInv => IndexesExclusive
  BY DEF ClientInv
<1> QED
  BY <1>1, ClientInvariant, PTL

-----------------------------------------------------------------------------
(* Giving a slot back is a GiveBack of RequestSlots, or a                  *)
(* GiveBackAndCancel if another request has its identifier by now.         *)
LEMMA CleanupPromise ==
  ASSUME ClientInv, NEW t \in Threads, NEW u \in Users, CleanupHTTPRequest(t, u)
  PROVE  [Promise!Next]_(Promise!vars)
<1>1. CASE request_index[u] = NoSlot
  BY <1>1 DEF CleanupHTTPRequest, clientVars, Promise!vars, Open
<1>2. CASE request_index[u] # NoSlot
  <2> DEFINE s == request_index[u]
             r == CancelledSlot(s)
  <2>1. s \in Slots /\ s \in in_use
    BY <1>2 DEF ClientInv, IndexTypeOK, IndexesExclusive
  <2>2. HTTPRequestAbort(t, s)
    BY <1>2 DEF CleanupHTTPRequest
  <2>3. /\ r \in Slots \union {NoSlot}
        /\ r # NoSlot => r \in Open
        /\ Open' = Open \ {r}
        /\ s \in Open => r = s
    BY <2>1, <2>2, AbortOpen
  <2>4. /\ in_use' = in_use \ {s}
        /\ user' = [x \in Slots |-> IF x \in {s, r} THEN NoUser ELSE user[x]]
        /\ user \in [Slots -> Users \union {NoUser}]
    BY <2>2 DEF HTTPRequestAbort, ClientInv, ClientTypeOK
  <2>5. s \notin Open => user[s] = NoUser
    BY <2>1 DEF ClientInv, UserNeedsRequest
  <2>6. NoSlot \notin Open
    BY DEF Open
  <2> HIDE DEF s, r
  <2>7. CASE r \in {s, NoSlot}
    <3>1. Promise!GiveBack(s)
      <4>1. Open' = Open \ {s}
        BY <2>3, <2>6, <2>7
      <4>2. user' = [user EXCEPT ![s] = NoUser]
        BY <2>1, <2>4, <2>7, NullsAssumption
      <4> QED
        BY <4>1, <4>2, <2>1, <2>4 DEF Promise!GiveBack
    <3> QED
      BY <3>1, <2>1 DEF Promise!Next
  <2>8. CASE r \notin {s, NoSlot}
    <3>1. user' = [user EXCEPT ![r] = NoUser]
      BY <2>1, <2>3, <2>4, <2>5, <2>8
    <3>2. Promise!GiveBackAndCancel(s, r)
      BY <3>1, <2>1, <2>3, <2>4, <2>8 DEF Promise!GiveBackAndCancel
    <3> QED
      BY <3>2, <2>1, <2>3, <2>8 DEF Promise!Next
  <2> QED
    BY <2>7, <2>8
<1> QED
  BY <1>1, <1>2

(* Starting a downloader is a Take, or nothing that RequestSlots sees.     *)
LEMMA StartPromise ==
  ASSUME ClientInv, NEW t \in Threads, NEW u \in Users, Start(t, u)
  PROVE  [Promise!Next]_(Promise!vars)
<1>1. ASSUME NEW s \in Slots, NEW i \in Ids, Get(t, s, i, u, u \in ManualUsers)
      PROVE  Promise!Next
  <2>1. Open' = Open \union {s}
    BY <1>1, StartOpen
  <2>2. Promise!Take(s, u)
    BY <1>1, <2>1 DEF Get, Promise!Take
  <2> QED
    BY <2>2 DEF Promise!Next
<1>2. CASE UNCHANGED <<in_use, user, connection>>
  BY <1>2 DEF Promise!vars, Open
<1> QED
  BY <1>1, <1>2 DEF Start, GetRefused, GetFull, clientVars

(* Every step is one of RequestSlots or leaves its variables alone.        *)
LEMMA NextPromise ==
  ASSUME TypeInv, ClientInv, [Next]_vars
  PROVE  [Promise!Next]_(Promise!vars)
<1>1. CASE UNCHANGED vars
  BY <1>1 DEF vars, clientVars, Promise!vars, Open
<1>2. ASSUME NEW t \in Threads, Effect(t)
      PROVE  [Promise!Next]_(Promise!vars)
  <2>1. CASE Quiet
    BY <2>1 DEF Quiet, Promise!vars, Open
  <2>2. ASSUME NEW i \in Ids, RequestComplete(t, i)
        PROVE  Promise!Next
    <3>1. /\ connection[i] \in Slots
          /\ user' = [user EXCEPT ![connection[i]] = NoUser]
          /\ UNCHANGED in_use
      BY <2>2 DEF RequestComplete, Target, ClientInv, ClientTypeOK
    <3>2. connection[i] \in Open /\ Open' = Open \ {connection[i]}
      BY <2>2, CompleteOpen
    <3>3. Promise!Answer(connection[i])
      BY <3>1, <3>2 DEF Promise!Answer
    <3> QED
      BY <3>1, <3>3 DEF Promise!Next
  <2> QED
    BY <1>2, <2>1, <2>2, StartPromise, CleanupPromise DEF Effect
<1> QED
  BY <1>1, <1>2, NextEffect DEF TypeInv

(* The client with its two threads implements RequestSlots: a request is   *)
(* answered at most once, to the downloader its slot was taken for, and    *)
(* never after the slot has been given back (HTTPClient.cpp).              *)
THEOREM ClientKeepsPromise == Spec => PromiseKept
<1>1. Init => Promise!Init
  BY DEF Init, Initialize, Promise!Init, Open
<1>2. TypeInv /\ ClientInv /\ [Next]_vars => [Promise!Next]_(Promise!vars)
  BY NextPromise
<1> QED
  BY <1>1, <1>2, TypeInvariant, ClientInvariant, PTL DEF Spec, PromiseKept, Promise!Spec

-----------------------------------------------------------------------------
(* There are finitely many downloaders.                                    *)
LEMMA UsersFinite == IsFiniteSet(Users) /\ Cardinality(Users) \in Nat
<1>1. Users = Sources \union {Part}
  BY PartAssumption
<1>2. IsFiniteSet(Users)
  BY <1>1, SourcesAssumption, FS_AddElement
<1> QED
  BY <1>2, FS_CardinalityType

(* Without a downloader u there are fewer indexes than slots: some slot is *)
(* held by no other downloader.                                            *)
LEMMA SlotLeft ==
  ASSUME NEW f, NEW u \in Users
  PROVE  \E s \in Slots : \A v \in Users \ {u} : f[v] # s
<1> DEFINE S == Users \ {u}
           g == [v \in S |-> f[v]]
           T == {g[v] : v \in S}
<1>1. IsFiniteSet(S) /\ Cardinality(S) = Cardinality(Users) - 1
  BY UsersFinite, FS_RemoveElement
<1>2. g \in Surjection(S, T)
  BY DEF Surjection
<1>3. IsFiniteSet(T) /\ Cardinality(T) <= Cardinality(S)
  BY <1>1, <1>2, FS_Surjection
<1>4. ~(Slots \subseteq T)
  <2>1. SUFFICES ASSUME Slots \in SUBSET T PROVE FALSE
    OBVIOUS
  <2>2. Cardinality(Slots) <= Cardinality(T)
    BY <1>3, <2>1, FS_Subset
  <2>3. Cardinality(Slots) \in Nat /\ Cardinality(T) \in Nat
    BY <1>3, SlotsAssumption, FS_CardinalityType
  <2> QED
    BY <1>1, <1>3, <2>2, <2>3, UsersFinite, SlotsAssumption
<1> QED
  BY <1>4

(* MutexLeakNeedsLostSlots is inductive together with ClientInv.           *)
LeakInv == ClientInv /\ MutexLeakNeedsLostSlots

(* Start finds all slots in use only if a slot in use is held by nobody.   *)
LEMMA StartLeak ==
  ASSUME LeakInv, NEW t \in Threads, NEW u \in Users, Start(t, u)
  PROVE  MutexLeakNeedsLostSlots'
<1>1. ASSUME NEW s \in Slots, NEW i \in Ids,
             Get(t, s, i, u, u \in ManualUsers), StartedIn(u, s)
      PROVE  MutexLeakNeedsLostSlots'
  BY <1>1 DEF LeakInv, ClientInv, IndexTypeOK, MutexLeakNeedsLostSlots, LostSlots, Get,
              StartedIn
<1>2. CASE UNCHANGED clientVars /\ StartedIn(u, NoSlot)
  BY <1>2, NullsAssumption
     DEF LeakInv, ClientInv, ClientTypeOK, IndexTypeOK, MutexLeakNeedsLostSlots, LostSlots,
         StartedIn, clientVars
<1>3. CASE GetFull(t) /\ StartedIn(u, NoSlot)
  <2>1. PICK s \in Slots : \A v \in Users \ {u} : request_index[v] # s
    BY SlotLeft
  <2>2. s \in LostSlots'
    BY <1>3, <2>1, NullsAssumption
       DEF GetFull, StartedIn, LostSlots, LeakInv, ClientInv, IndexTypeOK
  <2> QED
    BY <2>2 DEF MutexLeakNeedsLostSlots
<1> QED
  BY <1>1, <1>2, <1>3 DEF Start, GetRefused

(* Every step keeps LeakInv: a slot that is lost is never given back.      *)
LEMMA NextLeak ==
  ASSUME TypeInv, LeakInv, [Next]_vars
  PROVE  LeakInv'
<1>1. ClientInv'
  BY NextClientInv DEF LeakInv
<1>2. CASE UNCHANGED vars
  BY <1>1, <1>2 DEF vars, clientVars, downloaderVars, LeakInv, MutexLeakNeedsLostSlots,
                    LostSlots
<1>3. ASSUME NEW t \in Threads, Effect(t)
      PROVE  MutexLeakNeedsLostSlots'
  <2>1. CASE Quiet /\ (mutex' = mutex \/ mutex' = NoThread)
    BY <2>1 DEF Quiet, LeakInv, MutexLeakNeedsLostSlots, LostSlots
  <2>2. ASSUME NEW u \in Users, CleanupHTTPRequest(t, u)
        PROVE  MutexLeakNeedsLostSlots'
    <3>1. CASE UNCHANGED <<mutex, in_use, request_index>>
      BY <3>1 DEF LeakInv, MutexLeakNeedsLostSlots, LostSlots
    <3>2. CASE /\ HTTPRequestAbort(t, request_index[u])
               /\ request_index' = [request_index EXCEPT ![u] = NoSlot]
      <4>1. /\ in_use' = in_use \ {request_index[u]}
            /\ mutex' = mutex
            /\ request_index \in [Users -> Slots \union {NoSlot}]
        BY <3>2 DEF HTTPRequestAbort, LeakInv, ClientInv, IndexTypeOK
      <4>2. LostSlots \subseteq Slots
        BY DEF LostSlots, LeakInv, ClientInv, ClientTypeOK
      <4>3. LostSlots \subseteq LostSlots'
        BY <3>2, <4>1, <4>2, NullsAssumption DEF LostSlots
      <4> QED
        BY <4>1, <4>3 DEF LeakInv, MutexLeakNeedsLostSlots
    <3> QED
      BY <2>2, <3>1, <3>2 DEF CleanupHTTPRequest, clientVars
  <2>3. ASSUME NEW i \in Ids, RequestComplete(t, i), UNCHANGED request_index
        PROVE  MutexLeakNeedsLostSlots'
    BY <2>3 DEF RequestComplete, LeakInv, MutexLeakNeedsLostSlots, LostSlots
  <2> QED
    BY <1>3, <2>1, <2>2, <2>3, AnsweredType, StartLeak DEF Effect, TypeInv
<1> QED
  BY <1>1, <1>2, <1>3, NextEffect DEF LeakInv, TypeInv

(* HTTPRequestGet returns without the mutex only after a slot has been     *)
(* lost: with as many slots as downloaders, no other order of requests of  *)
(* the two threads fills the array (HTTPClient.cpp:513-517).               *)
THEOREM MutexLeaksOnlyAfterLostSlots == Spec => []MutexLeakNeedsLostSlots
<1>1. Init => LeakInv
  BY InitClientInv DEF Init, Initialize, LeakInv, MutexLeakNeedsLostSlots
<1>2. TypeInv /\ LeakInv /\ [Next]_vars => LeakInv'
  BY NextLeak
<1>3. LeakInv => MutexLeakNeedsLostSlots
  BY DEF LeakInv
<1> QED
  BY <1>1, <1>2, <1>3, TypeInvariant, PTL DEF Spec

=============================================================================
