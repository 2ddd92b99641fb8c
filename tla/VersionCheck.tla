---------------------------- MODULE VersionCheck ----------------------------
(***************************************************************************)
(* The version check (Networking/VersionCheck*.cpp), run by the game       *)
(* thread: it downloads a document from several servers, finds the newest  *)
(* published version in them and adopts a newer list of servers.           *)
(*                                                                         *)
(* A document stands for a publication number, which is both its version   *)
(* and the version of its list of servers, and for how much of a list it   *)
(* has (Lists).  The installed version is 0.  Only the number of servers   *)
(* in the settings is kept.                                                *)
(***************************************************************************)
EXTENDS FileDownloader

CONSTANTS
  Sources,     \* the downloaders m_xml_sources, 1 .. 3 in the code
  MaxVersion,  \* bound: publications
  MaxLoads,    \* bound: maps that are loaded
  Platforms    \* subset of {"user", "dedi"}

(* Of the list a document has no version, a version without a server,      *)
(* servers of whose urls none can be used, or urls.                        *)
Lists == {"none", "empty", "unusable", "urls"}

ASSUME SourcesAssumption ==
  /\ MaxVersion \in Nat /\ MaxLoads \in Nat \ {0}
  /\ IsFiniteSet(Sources) /\ Sources # {} /\ Sources = 1 .. Cardinality(Sources)
  /\ Sources \subseteq Users \ ManualUsers
  /\ Documents \subseteq [version : 1 .. MaxVersion, list : Lists]

(* One is compiled for players, and one for dedicated servers.             *)
ASSUME PlatformsAssumption == Platforms \subseteq {"user", "dedi"}

VARIABLES
  platform,
  checked_today,
  in_progress,     \* is_request_in_progress
  available,       \* m_available_version
  version,         \* per source: m_version
  list_version,    \* per source: list_version
  version_url_list, \* the sources whose version_url_list has an entry
  servers,         \* settings: the number of servers in m_server_list
  servers_version, \* settings: the version of m_server_list
  checked_date,    \* settings: m_last_checked is today's date
  loads,           \* maps loaded so far
  game,            \* what the game thread does
  next,            \* the source it does it for next
  received         \* history: the documents received

checkVars == <<platform, checked_today, in_progress, available, version,
               list_version, version_url_list, servers, servers_version,
               checked_date, loads, game, next, received>>

settingsVars == <<servers, servers_version, checked_date>>
processVars  == <<version, list_version, version_url_list, received>>

Last == Cardinality(Sources)

CheckTypeOK ==
  /\ platform \in Platforms
  /\ checked_today \in BOOLEAN /\ checked_date \in BOOLEAN /\ in_progress \in BOOLEAN
  /\ available \in 0 .. MaxVersion
  /\ version \in [Sources -> 0 .. MaxVersion]
  /\ list_version \in [Sources -> 0 .. MaxVersion]
  /\ version_url_list \subseteq Sources
  /\ servers \in Nat
  /\ servers_version \in 0 .. MaxVersion
  /\ loads \in 0 .. MaxLoads
  /\ game \in {"idle", "check", "cancel", "finish"}
  /\ next \in Sources
  /\ received \subseteq Documents

(* The settings are those of an earlier session.                           *)
CheckInit ==
  /\ platform \in Platforms
  /\ checked_today = FALSE
  /\ in_progress = FALSE
  /\ available = 0
  /\ version = [d \in Sources |-> 0]
  /\ list_version = [d \in Sources |-> 0]
  /\ version_url_list = {}
  /\ servers \in {0, Last}
  /\ servers_version = 0
  /\ checked_date \in BOOLEAN
  /\ loads = 0
  /\ game = "idle"
  /\ next = 1
  /\ received = {}

Begin(work) == game' = work /\ next' = 1

(* Mutant: the loop is left one source late.                               *)
ContinueMutant(d, last) ==
  IF d > last THEN game' = "idle" /\ next' = 1 ELSE next' = d + 1 /\ UNCHANGED game

(* The loop over the sources goes on behind d, up to the source last.      *)
Continue(d, last) ==
  IF d = last THEN game' = "idle" /\ next' = 1 ELSE next' = d + 1 /\ UNCHANGED game

-----------------------------------------------------------------------------
(***************************************************************************)
(* Starting a check                                                        *)
(***************************************************************************)
DateState == checked_today \/ checked_date

(* CheckForUpdates: the fallback server stands in for an empty list, and   *)
(* the sources are started for the first servers in it.                    *)
CheckForUpdates ==
  /\ Begin("check")
  /\ in_progress' = FALSE
  /\ servers' = IF servers = 0 THEN 1 ELSE servers
  /\ UNCHANGED <<servers_version, checked_date>>

NoCheck == UNCHANGED <<game, next, in_progress, settingsVars>>

(* Mutant: the flag is cleared, but no source is stopped.                  *)
CancelAllMutant ==
  /\ in_progress' = FALSE
  /\ UNCHANGED <<game, next, settingsVars>>

CancelAll ==
  /\ Begin("cancel")
  /\ UNCHANGED <<in_progress, settingsVars>>

(* PostLoad: the settings have been read, before the first map.            *)
TestForUpdate ==
  /\ game = "idle" /\ loads = 0
  /\ checked_today' = DateState
  /\ IF platform = "dedi" /\ ~DateState THEN CheckForUpdates ELSE NoCheck
  /\ loads' = 1
  /\ UNCHANGED <<platform, available, processVars>>

InitializeForNewMap_User(is_in_menu) ==
  /\ platform = "user"
  /\ IF is_in_menu /\ ~checked_today THEN CheckForUpdates
     ELSE IF in_progress THEN CancelAll
     ELSE NoCheck
  /\ UNCHANGED checked_today

(* Mutant: a check is started although one is in progress.                 *)
InitializeForNewMap_DediMutant ==
  /\ platform = "dedi"
  /\ checked_today' = DateState
  /\ IF ~DateState THEN CheckForUpdates ELSE NoCheck

InitializeForNewMap_Dedi ==
  /\ platform = "dedi"
  /\ checked_today' = DateState
  /\ IF ~in_progress /\ ~DateState THEN CheckForUpdates ELSE NoCheck

InitializeForNewMap ==
  /\ game = "idle" /\ 0 < loads /\ loads < MaxLoads
  /\ loads' = loads + 1
  /\ \/ \E is_in_menu \in BOOLEAN : InitializeForNewMap_User(is_in_menu)
     \/ InitializeForNewMap_Dedi
  /\ UNCHANGED <<platform, available, processVars>>

StartSource(d) ==
  /\ game = "check" /\ next = d
  /\ Start(Game, d)
  /\ in_progress' = (in_progress \/ status'[d] = "in_progress")
  /\ Continue(d, IF servers < Last THEN servers ELSE Last)
  /\ UNCHANGED <<platform, checked_today, available, settingsVars, loads,
                 processVars>>

CancelSource(d) ==
  /\ game = "cancel" /\ next = d
  /\ Stop(Game, d)
  /\ Continue(d, Last)
  /\ in_progress' = (in_progress /\ d # Last)
  /\ UNCHANGED <<platform, checked_today, available, settingsVars, loads,
                 processVars>>

-----------------------------------------------------------------------------
(***************************************************************************)
(* Update and UpdateVersion: when no source is in progress any more the    *)
(* check is over, its date is noted and the sources are read in turn.      *)
(***************************************************************************)
Update(users) ==
  /\ game = "idle" /\ in_progress
  /\ TimedOut(users)
  /\ in_progress' = \E d \in Sources : status'[d] = "in_progress"
  /\ IF in_progress'
       THEN UNCHANGED <<game, next, checked_date>>
       ELSE Begin("finish") /\ checked_date' = TRUE
  /\ UNCHANGED <<clientVars, request_index, document, platform, checked_today,
                 available, servers, servers_version, loads, processVars>>

(* A newer list replaces the one in the settings by the first url that the *)
(* source has had in any document, or by none.                             *)
AdoptServers(d) ==
  IF servers_version < list_version[d]
    THEN /\ servers' = IF d \in version_url_list THEN 1 ELSE 0
         /\ servers_version' = list_version[d]
    ELSE UNCHANGED <<servers, servers_version>>

(* Mutant: the comparison is the wrong way round.                          *)
AdoptVersionMutant(d) ==
  available' = IF version[d] < available THEN version[d] ELSE available

AdoptVersion(d) ==
  available' = IF version[d] > available THEN version[d] ELSE available

UpdateVersion(d) ==
  /\ game = "finish" /\ next = d
  /\ IF status[d] # "idle" THEN Stop(Game, d) ELSE UNCHANGED <<clientVars, downloaderVars>>
  /\ IF status'[d] = "succeeded"
       THEN AdoptVersion(d) /\ AdoptServers(d)
       ELSE UNCHANGED <<available, servers, servers_version>>
  /\ Continue(d, Last)
  /\ UNCHANGED <<platform, checked_today, in_progress, checked_date, loads,
                 processVars>>

NextDay ==
  /\ checked_date' = FALSE
  /\ UNCHANGED <<platform, checked_today, in_progress, available, servers,
                 servers_version, loads, game, next, processVars>>

-----------------------------------------------------------------------------
(***************************************************************************)
(* The callback of a source: ProcessVersionDocument stores each version    *)
(* before it looks for what must follow it, and adds the urls of a list to *)
(* those that are there; a download that failed counts as succeeded.       *)
(***************************************************************************)
Replies == Documents \union {Failed, Garbled}

Rejected(d, reply) ==
  /\ XmlStatus(reply) = "succeeded"
  /\ \/ Parsed(d, reply) = NoDocument
     \/ Parsed(d, reply).list \in {"none", "empty"}

ProcessVersionDocument(d, reply) ==
  LET root == Parsed(d, reply) IN
  IF XmlStatus(reply) = "succeeded" /\ root # NoDocument
    THEN /\ version' = [version EXCEPT ![d] = root.version]
         /\ list_version' = [list_version EXCEPT ![d] =
                               IF root.list = "none" THEN @ ELSE root.version]
         /\ version_url_list' =
              version_url_list \union (IF root.list = "urls" THEN {d} ELSE {})
    ELSE UNCHANGED <<version, list_version, version_url_list>>

SourceAnswered(d, reply) ==
  /\ document' = [document EXCEPT ![d] = Parsed(d, reply)]
  /\ ProcessVersionDocument(d, reply)
  /\ status' = [status EXCEPT ![d] = IF Rejected(d, reply) THEN "failed" ELSE "succeeded"]
  /\ is_downloading' = is_downloading \ {d}
  /\ received' = received \union (Documents \intersect {reply})
  /\ UNCHANGED request_index

-----------------------------------------------------------------------------
(* When a check is over, no source that succeeded has a version newer than *)
(* the one that is offered, or a list newer than that of the settings,     *)
(* whatever was cancelled or timed out on the way (VersionCheck.cpp:352).  *)
NewestAdopted ==
  [][game = "finish" /\ game' = "idle" =>
       \A d \in Sources : status'[d] = "succeeded" =>
         version'[d] <= available' /\ list_version'[d] <= servers_version'
    ]_<<checkVars, status>>

(* Between two checks no source holds a slot or waits for an answer.       *)
NothingHeldBetweenChecks ==
  game = "idle" /\ ~in_progress =>
    \A d \in Sources : request_index[d] = NoSlot /\ status[d] # "in_progress"

VersionsOf(documents) == {r.version : r \in documents}

(* A version that is received for the first time is that of a source.      *)
ReceivedVersionsCount ==
  [][\A v \in VersionsOf(received') \ VersionsOf(received) :
       \E d \in Sources : version'[d] = v]_checkVars
=============================================================================
