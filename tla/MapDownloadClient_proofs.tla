----------------------- MODULE MapDownloadClient_proofs -----------------------
(***************************************************************************)
(* Proofs about the map download client, for any number of threads,        *)
(* servers, parts and attempts. They are about TimelySpec, the system in   *)
(* which no thread outlives the wait for it, without its fairness: so they *)
(* hold of FairSpec, which the run checks.                                 *)
(*                                                                         *)
(* One invariant, Inv, carries all theorems. Its parts follow the data of  *)
(* a download through the stages of the thread (StageInv, ExtractInv), the *)
(* result through the return value to the game thread (ThreadInv, JobInv), *)
(* and say what a reset has to leave (IdleInv). The last two theorems say, *)
(* from the same invariant, that a download only goes forward, and that    *)
(* the wait of StopDownloadThread is answered.                             *)
(***************************************************************************)
EXTENDS MapDownloadClient, TLAPS

(* What the flag in_progress tells about the threads, and what a thread    *)
(* that has left its loop has returned.                                    *)
ThreadInv ==
  /\ \A t \in Threads : pc[t] \in {"test", "pass", "extract"} => in_progress
  /\ \A t \in Threads :
       pc[t] = "exited" \/ (pc[t] = "sleep" /\ ~in_progress) => return_value[t] # "none"
  /\ \A t \in Threads : pc[t] \in {"absent", "created"} => return_value[t] = "none"
  /\ update_stage = "downloading_map" => handle \in Threads

(* While parts are downloaded, the saved ones are those before the         *)
(* iterator, or up to it when the next one is prepared.                    *)
PartInv ==
  /\ part_state \in {"begin", "prepare_download", "downloading", "download_failed",
                     "download_succeeded"}
  /\ part_state = "begin" => part_number = 0 /\ saved = {}
  /\ part_state = "prepare_download" => saved = 1 .. part_number /\ part_number <= parts
  /\ part_state \notin {"begin", "prepare_download"} =>
       saved = 1 .. part_number - 1 /\ 1 <= part_number /\ part_number <= parts

(* What each stage of the thread may rely on.                              *)
StageInv ==
  /\ stage \in {"build_server_list", "map_part_definition"} =>
       part_state = "begin" /\ part_number = 0 /\ saved = {}
  /\ stage = "map_part_definition" => 1 <= server /\ server <= servers
  /\ stage \in {"map_part_download", "map_archive_extraction"} =>
       definition_state = "stage_complete"
  /\ definition_state \in {"download_succeeded", "stage_complete"} => parts > 0
  /\ stage = "map_part_download" => PartInv
  /\ stage = "map_archive_extraction" => saved = 1 .. parts
  /\ AllServersAsked

(* No stage follows the extraction while a thread extracts.                *)
ExtractInv == \A t \in Threads : pc[t] = "extract" => stage = "map_archive_extraction"

(* What is left when there is no job.                                      *)
IdleInv ==
  update_stage = "idle" =>
    /\ handle = NoThread /\ ~in_progress
    /\ definition.request = "none" /\ part.request = "none"
    /\ saved = {} /\ part_number = 0 /\ server = 0
    /\ stage = "build_server_list"
    /\ completion = "begin" /\ ~installed
    /\ game = "ready" => ~stop_download

(* Completion is reached only with the map installed, along the stage, the *)
(* return value and the update stage.                                      *)
JobInv ==
  /\ stage = "complete" => installed
  /\ handle \in Threads /\ return_value[handle] = "complete" => installed
  /\ update_stage = "map_download_completion" => installed

(* The inductive invariant, with the assumption Timely on the threads.     *)
Inv == TypeOK /\ Timely /\ ThreadInv /\ StageInv /\ ExtractInv /\ IdleInv /\ JobInv

-----------------------------------------------------------------------------
(* A new downloader has the type of a downloader.                          *)
LEMMA CtorType ==
  ASSUME NEW n \in Nat
  PROVE  Ctor \in Downloaders(n)
  BY DEF Ctor, Downloaders

(* A downloader that is started has the type of one.                       *)
LEMMA StartedType ==
  ASSUME NEW n \in Nat, NEW d \in Downloaders(n), NEW e \in Started(d)
  PROVE  e \in Downloaders(n)
  BY DEF Started, Downloaders

(* A downloader that is stopped has the type of one.                       *)
LEMMA StoppedType ==
  ASSUME NEW n \in Nat, NEW d \in Downloaders(n)
  PROVE  Stopped(d) \in Downloaders(n)
  BY DEF Stopped, Downloaders

(* An answer keeps the attempts in their bound.                            *)
LEMMA AnswersType ==
  ASSUME NEW n \in Nat, NEW d \in Downloaders(n), NEW e \in Answers(d, n)
  PROVE  e \in Downloaders(n)
<1>1. Rejected(d, n) \in Downloaders(n)
  <2>1. d.attempts \in 0 .. n
    BY DEF Downloaders
  <2>2. CASE d.attempts < n
    <3>1. d.attempts + 1 \in 0 .. n
      BY <2>1, <2>2
    <3> QED
      BY <2>2, <3>1 DEF Rejected, Downloaders
  <2>3. CASE ~(d.attempts < n)
    BY <2>3 DEF Rejected, Downloaders
  <2> QED
    BY <2>2, <2>3
<1> QED
  BY <1>1 DEF Answers, Downloaders

(* A pass of a downloader keeps its type.                                  *)
LEMMA UpdatedType ==
  ASSUME NEW n \in Nat, NEW d \in Downloaders(n), NEW e \in Updated(d, n)
  PROVE  e \in Downloaders(n)
<1> DEFINE now == IF d.status = "retry" THEN {[d EXCEPT !.request = "none"]} \union Started(d)
                                        ELSE {d}
<1>1. \A f \in now : f \in Downloaders(n)
  BY StartedType DEF Downloaders
<1>2. e \in now \/ \E f \in now : e \in Answers(f, n)
  BY DEF Updated
<1> HIDE DEF now
<1> QED
  BY <1>1, <1>2, AnswersType

(* A stage goes on to what succeeded only if it did.                       *)
LEMMA StateForType ==
  ASSUME NEW s
  PROVE  /\ StateFor(s) \in {"downloading", "download_failed", "download_succeeded"}
         /\ StateFor(s) = "download_succeeded" => s = "succeeded"
  BY DEF StateFor

-----------------------------------------------------------------------------
(* What becomes of the stage when a server has answered or failed: it      *)
(* fails only at the last server.                                          *)
LEMMA ResultType ==
  ASSUME NEW d \in Downloaders(XmlAttempts),
         NEW state \in DownloadStates \union {"stage_complete"},
         NEW result \in {"map_part_definition", "map_part_download", "failed"},
         NEW s \in Nat, 1 <= s, s <= servers', servers' \in 0 .. MaxServers + 1,
         DefinitionResult(d, state, result, s)
  PROVE  /\ definition' \in Downloaders(XmlAttempts)
         /\ definition_state' \in {state, "begin"}
         /\ stage' \in {"map_part_definition", "map_part_download", "failed"}
         /\ server' \in 0 .. MaxServers + 1
         /\ stage' = "map_part_definition" => 1 <= server' /\ server' <= servers'
         /\ stage' = "failed" => server' = servers'
         /\ stage' = "map_part_download" => result = stage' /\ definition_state' = state
  BY ClientBoundsAssumption DEF DefinitionResult, MoveNextServer

(* The definition stage moves to the parts only with a definition, and     *)
(* fails only at the last server.                                          *)
LEMMA DefinitionStep ==
  ASSUME TypeOK, StageInv, servers' \in 0 .. MaxServers + 1,
         NEW s \in Nat, 1 <= s, s <= servers',
         UpdateStage_MapPartDefinition(s)
  PROVE  /\ definition' \in Downloaders(XmlAttempts)
         /\ definition_state' \in DownloadStates \union {"stage_complete"}
         /\ parts' \in 0 .. MaxParts /\ locked' \in BOOLEAN
         /\ stage' \in {"map_part_definition", "map_part_download", "failed"}
         /\ server' \in 0 .. MaxServers + 1
         /\ stage' = "map_part_definition" => 1 <= server' /\ server' <= servers'
         /\ stage' = "failed" => server' = servers'
         /\ stage' = "map_part_download" => definition_state' = "stage_complete"
         /\ definition_state' \in {"download_succeeded", "stage_complete"} => parts' > 0
<1>1. /\ definition \in Downloaders(XmlAttempts) /\ parts \in 0 .. MaxParts
      /\ locked \in BOOLEAN /\ definition_state \in DownloadStates \union {"stage_complete"}
      /\ XmlAttempts \in Nat /\ MaxParts \in Nat
  BY ClientBoundsAssumption DEF TypeOK
<1>2. ASSUME NEW e \in Downloaders(XmlAttempts),
             DefinitionResult(e, StateFor(e.status), "map_part_definition", s),
             DefinitionFound(e)
      PROVE  /\ definition' \in Downloaders(XmlAttempts)
             /\ definition_state' \in DownloadStates
             /\ parts' \in 0 .. MaxParts /\ locked' \in BOOLEAN
             /\ stage' \in {"map_part_definition", "failed"}
             /\ server' \in 0 .. MaxServers + 1
             /\ stage' = "map_part_definition" => 1 <= server' /\ server' <= servers'
             /\ stage' = "failed" => server' = servers'
             /\ definition_state' \in {"download_succeeded", "stage_complete"} => parts' > 0
  <2>1. StateFor(e.status) \in DownloadStates
    BY StateForType DEF DownloadStates
  <2>2. /\ definition' \in Downloaders(XmlAttempts)
        /\ definition_state' \in {StateFor(e.status), "begin"}
        /\ stage' \in {"map_part_definition", "map_part_download", "failed"}
        /\ server' \in 0 .. MaxServers + 1
        /\ stage' = "map_part_definition" => 1 <= server' /\ server' <= servers'
        /\ stage' = "failed" => server' = servers'
        /\ stage' = "map_part_download" => FALSE
    BY <1>2, <2>1, ResultType
  <2>3. parts' \in 0 .. MaxParts /\ locked' \in BOOLEAN /\ (e.status = "succeeded" => parts' > 0)
    BY <1>1, <1>2 DEF DefinitionFound
  <2> QED
    BY <2>1, <2>2, <2>3, StateForType DEF DownloadStates
<1>3. CASE DefinitionBegins(s)
  <2>1. PICK d \in Started(definition) :
          IF d.status = "failed"
            THEN DefinitionResult(d, "begin", "failed", s) /\ UNCHANGED <<parts, locked>>
            ELSE \E e \in Updated(d, XmlAttempts) :
                   /\ DefinitionResult(e, StateFor(e.status), "map_part_definition", s)
                   /\ DefinitionFound(e)
    BY <1>3 DEF DefinitionBegins
  <2>2. d \in Downloaders(XmlAttempts)
    BY <1>1, StartedType
  <2>3. CASE d.status = "failed"
    BY <1>1, <2>1, <2>2, <2>3, ResultType DEF DownloadStates
  <2>4. CASE d.status # "failed"
    <3>1. PICK e \in Updated(d, XmlAttempts) :
            /\ DefinitionResult(e, StateFor(e.status), "map_part_definition", s)
            /\ DefinitionFound(e)
      BY <2>1, <2>4
    <3>2. e \in Downloaders(XmlAttempts)
      BY <1>1, <2>2, UpdatedType
    <3> QED
      BY <1>2, <3>1, <3>2
  <2> QED
    BY <2>3, <2>4
<1>4. CASE DefinitionDownloads(s)
  <2>1. PICK e \in Updated(definition, XmlAttempts) :
          /\ DefinitionResult(e, StateFor(e.status), "map_part_definition", s)
          /\ DefinitionFound(e)
    BY <1>4 DEF DefinitionDownloads
  <2>2. e \in Downloaders(XmlAttempts)
    BY <1>1, UpdatedType
  <2> QED
    BY <1>2, <2>1, <2>2
<1>5. CASE DefinitionEnds(s)
  <2>1. Stopped(definition) \in Downloaders(XmlAttempts) /\ UNCHANGED <<parts, locked>>
    BY <1>1, <1>5, StoppedType DEF DefinitionEnds
  <2>2. CASE /\ definition_state = "download_failed"
             /\ DefinitionResult(Stopped(definition), definition_state, "failed", s)
    BY <1>1, <2>1, <2>2, ResultType DEF DownloadStates
  <2>3. CASE /\ definition_state = "download_succeeded"
             /\ DefinitionResult(Stopped(definition), "stage_complete", "map_part_download", s)
    BY <1>1, <2>1, <2>3, ResultType DEF StageInv, DownloadStates
  <2> QED
    BY <1>5, <2>2, <2>3 DEF DefinitionEnds
<1> QED
  BY <1>3, <1>4, <1>5 DEF UpdateStage_MapPartDefinition

(* A pass in the first two stages keeps StageInv.                          *)
LEMMA ServersStep ==
  ASSUME TypeOK, StageInv, ServersAndDefinition
  PROVE  /\ servers' \in 0 .. MaxServers + 1
         /\ definition' \in Downloaders(XmlAttempts)
         /\ definition_state' \in DownloadStates \union {"stage_complete"}
         /\ parts' \in 0 .. MaxParts /\ locked' \in BOOLEAN
         /\ stage' \in Stages \ {"map_archive_extraction", "complete"}
         /\ server' \in 0 .. MaxServers + 1
         /\ UNCHANGED partVars
         /\ StageInv'
<1>1. UNCHANGED partVars /\ stage \in {"build_server_list", "map_part_definition"}
  BY DEF ServersAndDefinition
<1>2. part_state = "begin" /\ part_number = 0 /\ saved = {}
  BY <1>1 DEF StageInv
<1>3. PICK s \in Nat : /\ 1 <= s /\ s <= servers' /\ servers' \in 0 .. MaxServers + 1
                       /\ UpdateStage_MapPartDefinition(s)
  BY ClientBoundsAssumption DEF ServersAndDefinition, TypeOK, StageInv
<1>4. /\ definition' \in Downloaders(XmlAttempts)
      /\ definition_state' \in DownloadStates \union {"stage_complete"}
      /\ parts' \in 0 .. MaxParts /\ locked' \in BOOLEAN
      /\ stage' \in {"map_part_definition", "map_part_download", "failed"}
      /\ server' \in 0 .. MaxServers + 1
      /\ stage' = "map_part_definition" => 1 <= server' /\ server' <= servers'
      /\ stage' = "failed" => server' = servers'
      /\ stage' = "map_part_download" => definition_state' = "stage_complete"
      /\ definition_state' \in {"download_succeeded", "stage_complete"} => parts' > 0
  BY <1>3, DefinitionStep
<1>5. StageInv'
  BY <1>1, <1>2, <1>4 DEF partVars, StageInv, PartInv, AllServersAsked
<1> QED
  BY <1>1, <1>3, <1>4, <1>5 DEF Stages

-----------------------------------------------------------------------------
(* A pass of the part downloader keeps its type.                           *)
LEMMA PartUpdatedType ==
  ASSUME NEW d \in Downloaders(PartAttempts), PartUpdated(d)
  PROVE  /\ part' \in Downloaders(PartAttempts)
         /\ part_state' \in {"downloading", "download_failed", "download_succeeded"}
         /\ UNCHANGED stage
  BY UpdatedType, StateForType, ClientBoundsAssumption DEF PartUpdated

(* What holds after a pass in the stage of the parts.                      *)
PartStepPost ==
  /\ part' \in Downloaders(PartAttempts)
  /\ part_state' \in DownloadStates \union
       {"prepare_download", "ready_to_download", "part_ready_to_save", "stage_complete"}
  /\ part_number' \in 0 .. MaxParts
  /\ saved' \subseteq 1 .. MaxParts
  /\ stage' \in {"map_part_download", "map_archive_extraction", "failed"}
  /\ stage' = "map_part_download" => PartInv'
  /\ stage' = "map_archive_extraction" => saved' = 1 .. parts'

(* Preparing the next part, or finding that there is none.                 *)
LEMMA PartPreparedStep ==
  ASSUME TypeOK, PartInv, stage = "map_part_download", UNCHANGED sourceVars, PartPrepared
  PROVE  PartStepPost
<1>1. /\ part \in Downloaders(PartAttempts) /\ part_number \in 0 .. MaxParts
      /\ parts \in 0 .. MaxParts /\ MaxParts \in Nat /\ saved \subseteq 1 .. MaxParts
      /\ saved' = saved /\ parts' = parts
  BY ClientBoundsAssumption DEF TypeOK, PartPrepared, sourceVars
<1>2. saved = 1 .. part_number /\ (part_number <= parts \/ part_number = 0)
  BY DEF PartPrepared, PartInv
<1>3. CASE SetupPartDownload
  BY <1>1, <1>2, <1>3 DEF SetupPartDownload, PartPrepared, PartStepPost
<1>4. CASE ~SetupPartDownload
  <2>1. PICK d \in Started(Ctor) :
          IF locked \/ d.status = "failed"
            THEN part' = d /\ part_state' = "ready_to_download" /\ stage' = "failed"
            ELSE PartUpdated(d)
    BY <1>4 DEF PartPrepared
  <2>2. d \in Downloaders(PartAttempts)
    BY <2>1, CtorType, StartedType, ClientBoundsAssumption
  <2>3. part_number' = part_number + 1 /\ part_number' <= parts /\ part_number' \in 1 .. MaxParts
    BY <1>1, <1>2, <1>4 DEF SetupPartDownload, PartPrepared
  <2>4. CASE PartUpdated(d)
    <3>1. /\ part' \in Downloaders(PartAttempts)
          /\ part_state' \in {"downloading", "download_failed", "download_succeeded"}
          /\ stage' = stage
      BY <2>2, <2>4, PartUpdatedType
    <3>2. saved' = 1 .. part_number' - 1
      BY <1>1, <1>2, <2>3
    <3> QED
      BY <1>1, <2>3, <3>1, <3>2 DEF PartStepPost, PartInv, DownloadStates
  <2>5. CASE part' = d /\ part_state' = "ready_to_download" /\ stage' = "failed"
    BY <1>1, <2>2, <2>3, <2>5 DEF PartStepPost
  <2> QED
    BY <2>1, <2>4, <2>5
<1> QED
  BY <1>3, <1>4

(* A pass in the stage of the parts leaves PartStepPost.                   *)
LEMMA PartStepTypes ==
  ASSUME TypeOK, StageInv, UpdateStage_PartDownload
  PROVE  PartStepPost
<1>1. PartInv /\ stage = "map_part_download" /\ UNCHANGED sourceVars
  BY DEF UpdateStage_PartDownload, StageInv
<1>2. /\ part \in Downloaders(PartAttempts) /\ part_number \in 0 .. MaxParts
      /\ parts \in 0 .. MaxParts /\ MaxParts \in Nat /\ saved \subseteq 1 .. MaxParts
      /\ parts' = parts
  BY <1>1, ClientBoundsAssumption DEF TypeOK, sourceVars
<1>3. Stopped(part) \in Downloaders(PartAttempts)
  BY <1>2, StoppedType, ClientBoundsAssumption
<1>4. CASE NoDirectory
  BY <1>2, <1>4 DEF NoDirectory, partVars, PartStepPost, DownloadStates
<1>5. CASE PartPrepared
  BY <1>1, <1>5, PartPreparedStep
<1>6. CASE PartDownloads
  <2>1. /\ part' \in Downloaders(PartAttempts)
        /\ part_state' \in {"downloading", "download_failed", "download_succeeded"}
        /\ stage' = stage
    BY <1>2, <1>6, PartUpdatedType DEF PartDownloads
  <2> QED
    BY <1>1, <1>2, <1>6, <2>1 DEF PartDownloads, PartInv, PartStepPost, DownloadStates
<1>7. CASE PartGivenUp
  <2>1. part' \in Downloaders(PartAttempts)
    BY <1>2, <1>7 DEF PartGivenUp, Downloaders
  <2> QED
    BY <1>1, <1>2, <1>7, <2>1 DEF PartGivenUp, PartInv, PartStepPost, DownloadStates
<1>8. CASE PartFailed
  BY <1>1, <1>2, <1>3, <1>8 DEF PartFailed, PartStepPost, DownloadStates
<1>9. CASE PartSaved
  <2>1. saved = 1 .. part_number - 1 /\ 1 <= part_number /\ part_number <= parts
    BY <1>1, <1>9 DEF PartSaved, PartInv
  <2>2. 1 .. part_number = (1 .. part_number - 1) \union {part_number}
    BY <1>2, <2>1
  <2> QED
    <3>1. /\ part' = Stopped(part) /\ part_number' = part_number
          /\ part_number \in 1 .. MaxParts
      BY <1>2, <1>9, <2>1 DEF PartSaved
    <3>2. CASE /\ saved' = saved \union {part_number}
               /\ part_state' = "prepare_download"
               /\ stage' = stage
      <4>1. saved' = 1 .. part_number'
        BY <2>1, <2>2, <3>1, <3>2
      <4>2. PartInv'
        BY <1>2, <2>1, <3>1, <3>2, <4>1 DEF PartInv
      <4> QED
        BY <1>1, <1>2, <1>3, <3>1, <3>2, <4>2 DEF PartStepPost
    <3>3. CASE stage' = "failed" /\ part_state' = "part_ready_to_save" /\ saved' = saved
      BY <1>2, <1>3, <3>1, <3>3 DEF PartStepPost
    <3> QED
      BY <1>9, <3>2, <3>3 DEF PartSaved
<1> QED
  BY <1>4, <1>5, <1>6, <1>7, <1>8, <1>9 DEF UpdateStage_PartDownload

(* A pass in the stage of the parts keeps StageInv.                        *)
LEMMA PartStep ==
  ASSUME TypeOK, StageInv, UpdateStage_PartDownload
  PROVE  PartStepPost /\ StageInv'
<1>1. PartStepPost
  BY PartStepTypes
<1>2. UNCHANGED sourceVars /\ definition_state = "stage_complete" /\ stage = "map_part_download"
  BY DEF UpdateStage_PartDownload, StageInv
<1>3. StageInv'
  BY <1>1, <1>2 DEF PartStepPost, StageInv, AllServersAsked, sourceVars
<1> QED
  BY <1>1, <1>3

-----------------------------------------------------------------------------
(* StageInv stays when the sources and the parts do, and the stage stays   *)
(* or is cancelled.                                                        *)
LEMMA StageFrame ==
  ASSUME StageInv, UNCHANGED <<sourceVars, partVars>>, stage' \in {stage, "cancelled"}
  PROVE  StageInv'
<1>1. CASE stage' = stage
  BY <1>1 DEF StageInv, PartInv, AllServersAsked, sourceVars, partVars
<1>2. CASE stage' = "cancelled"
  BY <1>2 DEF StageInv, AllServersAsked, sourceVars, partVars
<1> QED
  BY <1>1, <1>2

(* A thread that is in its loop is the one of the handle, and there is a   *)
(* job.                                                                    *)
LEMMA Awake ==
  ASSUME Inv, NEW t \in Threads, pc[t] \in {"created", "test", "pass", "extract"}
  PROVE  handle = t /\ update_stage # "idle"
  BY ClientThreadsAssumption DEF Inv, Timely, IdleInv

(* A thread that goes on leaves the others where they are.                 *)
LEMMA GotoType ==
  ASSUME TypeOK, NEW t \in Threads, Goto(t, pc'[t]),
         pc'[t] \in {"absent", "created", "test", "pass", "extract", "sleep", "exited"}
  PROVE  /\ pc' \in [Threads -> {"absent", "created", "test", "pass", "extract", "sleep",
                                 "exited"}]
         /\ \A u \in Threads \ {t} : pc'[u] = pc[u]
  BY DEF TypeOK, Goto

(* The first instruction of the thread keeps the invariant.                *)
LEMMA BeginsStep ==
  ASSUME Inv, NEW t \in Threads, Timely', ThreadBegins(t)
  PROVE  Inv'
<1>1. /\ pc' = [pc EXCEPT ![t] = "test"] /\ in_progress' = TRUE /\ pc[t] = "created"
      /\ UNCHANGED <<gameVars, masterVars, handle, return_value, stop_download, stage,
                     sourceVars, partVars, installed>>
  BY DEF ThreadBegins, Goto
<1>2. TypeOK'
  BY <1>1 DEF Inv, TypeOK, gameVars, masterVars, sourceVars, partVars
<1>3. StageInv'
  BY <1>1, StageFrame DEF Inv
<1>4. ThreadInv' /\ ExtractInv'
  BY <1>1 DEF Inv, TypeOK, ThreadInv, ExtractInv, gameVars
<1>5. IdleInv' /\ JobInv'
  BY <1>1, Awake DEF Inv, IdleInv, JobInv, gameVars
<1> QED
  BY <1>2, <1>3, <1>4, <1>5 DEF Inv

(* The test of the flag stop_download keeps it.                            *)
LEMMA TestStep ==
  ASSUME Inv, NEW t \in Threads, Timely', TestStopFlag(t)
  PROVE  Inv'
<1>1. /\ pc' = [pc EXCEPT ![t] = "pass"] /\ pc[t] = "test"
      /\ stage' \in {stage, "cancelled"}
      /\ UNCHANGED <<gameVars, masterVars, handle, return_value, stop_download, in_progress,
                     sourceVars, partVars, installed>>
  BY DEF TestStopFlag, Goto
<1>2. TypeOK'
  BY <1>1 DEF Inv, TypeOK, Stages, gameVars, masterVars, sourceVars, partVars
<1>3. StageInv'
  BY <1>1, StageFrame DEF Inv
<1>4. ThreadInv'
  BY <1>1 DEF Inv, TypeOK, ThreadInv, gameVars
<1>5. ExtractInv'
  BY <1>1, Awake DEF Inv, TypeOK, ExtractInv
<1>6. IdleInv' /\ JobInv'
  BY <1>1, Awake DEF Inv, IdleInv, JobInv, gameVars
<1> QED
  BY <1>2, <1>3, <1>4, <1>5, <1>6 DEF Inv

(* A pass that downloads keeps it.                                         *)
LEMMA PassStep ==
  ASSUME Inv, NEW t \in Threads, Timely', DownloadPass(t)
  PROVE  Inv'
<1>1. /\ pc' = [pc EXCEPT ![t] = "sleep"] /\ pc[t] = "pass" /\ in_progress
      /\ UNCHANGED <<gameVars, masterVars, handle, return_value, stop_download, in_progress,
                     installed>>
  BY DEF DownloadPass, Goto, Inv, ThreadInv
<1>2. TypeOK' /\ StageInv' /\ stage' # "complete"
  <2>1. CASE ServersAndDefinition
    <3>1. /\ servers' \in 0 .. MaxServers + 1
          /\ definition' \in Downloaders(XmlAttempts)
          /\ definition_state' \in DownloadStates \union {"stage_complete"}
          /\ parts' \in 0 .. MaxParts /\ locked' \in BOOLEAN
          /\ stage' \in Stages \ {"map_archive_extraction", "complete"}
          /\ server' \in 0 .. MaxServers + 1
          /\ UNCHANGED partVars
          /\ StageInv'
      BY <2>1, ServersStep DEF Inv
    <3> QED
      BY <1>1, <3>1 DEF Inv, TypeOK, gameVars, masterVars, partVars
  <2>2. CASE UpdateStage_PartDownload
    <3>1. PartStepPost /\ StageInv' /\ UNCHANGED sourceVars
      BY <2>2, PartStep DEF Inv, UpdateStage_PartDownload
    <3> QED
      BY <1>1, <3>1 DEF PartStepPost, Inv, TypeOK, Stages, gameVars, masterVars, sourceVars
  <2> QED
    BY <2>1, <2>2 DEF DownloadPass
<1>3. ThreadInv' /\ ExtractInv'
  BY <1>1, Awake DEF Inv, TypeOK, ThreadInv, ExtractInv, gameVars
<1>4. IdleInv' /\ JobInv'
  BY <1>1, <1>2, Awake DEF Inv, IdleInv, JobInv, gameVars
<1> QED
  BY <1>2, <1>3, <1>4 DEF Inv

(* The pass that lets go of the mutex to extract keeps it.                 *)
LEMMA ExtractionStep ==
  ASSUME Inv, NEW t \in Threads, Timely', ExtractionPass(t)
  PROVE  Inv'
<1>1. /\ pc' = [pc EXCEPT ![t] = "extract"] /\ pc[t] = "pass"
      /\ stage = "map_archive_extraction"
      /\ UNCHANGED <<gameVars, masterVars, handle, return_value, stop_download, in_progress,
                     stage, sourceVars, partVars, installed>>
  BY DEF ExtractionPass, Goto
<1>2. TypeOK'
  BY <1>1 DEF Inv, TypeOK, gameVars, masterVars, sourceVars, partVars
<1>3. StageInv'
  BY <1>1, StageFrame DEF Inv
<1>4. ThreadInv' /\ ExtractInv'
  BY <1>1 DEF Inv, TypeOK, ThreadInv, ExtractInv, gameVars
<1>5. IdleInv' /\ JobInv'
  BY <1>1, Awake DEF Inv, IdleInv, JobInv, gameVars
<1> QED
  BY <1>2, <1>3, <1>4, <1>5 DEF Inv

(* The extraction keeps it: the map is installed when the stage is         *)
(* complete.                                                               *)
LEMMA ExtractStep ==
  ASSUME Inv, NEW t \in Threads, Timely', UpdateStage_ArchiveExtraction(t)
  PROVE  Inv'
<1>1. /\ pc' = [pc EXCEPT ![t] = "sleep"] /\ pc[t] = "extract"
      /\ stage = "map_archive_extraction" /\ in_progress
      /\ \/ stage' = "failed" /\ installed' = installed
         \/ stage' = "complete" /\ installed' = TRUE
      /\ UNCHANGED <<gameVars, masterVars, handle, return_value, stop_download, in_progress,
                     sourceVars, partVars>>
  BY DEF UpdateStage_ArchiveExtraction, Goto, Inv, ExtractInv, ThreadInv
<1>2. TypeOK'
  <2>1. installed' \in BOOLEAN /\ stage' \in Stages
    BY <1>1 DEF Inv, TypeOK, Stages
  <2>2. pc' \in [Threads -> {"absent", "created", "test", "pass", "extract", "sleep", "exited"}]
    BY <1>1 DEF Inv, TypeOK
  <2> QED
    BY <1>1, <2>1, <2>2 DEF Inv, TypeOK, gameVars, masterVars, sourceVars, partVars
<1>3. StageInv'
  BY <1>1 DEF Inv, StageInv, AllServersAsked, sourceVars, partVars
<1>4. ThreadInv' /\ ExtractInv'
  BY <1>1, Awake DEF Inv, TypeOK, ThreadInv, ExtractInv, gameVars
<1>5. IdleInv' /\ JobInv'
  BY <1>1, Awake DEF Inv, IdleInv, JobInv, gameVars
<1> QED
  BY <1>2, <1>3, <1>4, <1>5 DEF Inv

(* The last pass keeps it: what it returns is the stage.                   *)
LEMMA LastStep ==
  ASSUME Inv, NEW t \in Threads, Timely', LastPass(t)
  PROVE  Inv'
<1>1. /\ pc' = [pc EXCEPT ![t] = "sleep"] /\ pc[t] = "pass" /\ in_progress' = FALSE
      /\ stage \in {"failed", "cancelled", "complete"} /\ in_progress
      /\ return_value' = [return_value EXCEPT ![t] = stage]
      /\ UNCHANGED <<gameVars, masterVars, handle, stop_download, stage, sourceVars, partVars,
                     installed>>
  BY DEF LastPass, Goto, Inv, ThreadInv
<1>2. TypeOK'
  <2>1. in_progress' \in BOOLEAN
    BY <1>1
  <2>2. /\ pc' \in [Threads -> {"absent", "created", "test", "pass", "extract", "sleep",
                                "exited"}]
        /\ return_value' \in [Threads -> {"none", "failed", "cancelled", "complete"}]
    BY <1>1 DEF Inv, TypeOK
  <2> QED
    BY <1>1, <2>1, <2>2 DEF Inv, TypeOK, gameVars, masterVars, sourceVars, partVars
<1>3. StageInv'
  BY <1>1, StageFrame DEF Inv
<1>4. \A u \in Threads : u # t => pc[u] \in {"absent", "exited"}
  BY <1>1, Awake DEF Inv, Timely
<1>5. ThreadInv' /\ ExtractInv'
  BY <1>1, <1>4 DEF Inv, TypeOK, ThreadInv, ExtractInv, gameVars
<1>6. IdleInv' /\ JobInv'
  BY <1>1, Awake DEF Inv, TypeOK, IdleInv, JobInv, gameVars
<1> QED
  BY <1>2, <1>3, <1>5, <1>6 DEF Inv

(* The test of the loop keeps it.                                          *)
LEMMA LoopStep ==
  ASSUME Inv, NEW t \in Threads, Timely', LoopTest(t)
  PROVE  Inv'
<1>1. /\ pc[t] = "sleep" /\ pc' = [pc EXCEPT ![t] = pc'[t]]
      /\ \/ pc'[t] = "test" /\ in_progress /\ return_value' = return_value
         \/ pc'[t] = "exited" /\ ~in_progress /\ return_value' = return_value
         \/ /\ pc'[t] = "absent" /\ handle # t
            /\ return_value' = [return_value EXCEPT ![t] = "none"]
      /\ UNCHANGED <<gameVars, masterVars, handle, stop_download, in_progress, stage,
                     sourceVars, partVars, installed>>
  BY DEF LoopTest, Goto, Inv, TypeOK
<1>2. TypeOK'
  BY <1>1 DEF Inv, TypeOK, gameVars, masterVars, sourceVars, partVars
<1>3. StageInv'
  BY <1>1, StageFrame DEF Inv
<1>4. ThreadInv' /\ ExtractInv'
  BY <1>1 DEF Inv, TypeOK, ThreadInv, ExtractInv, gameVars
<1>5. IdleInv' /\ JobInv'
  BY <1>1 DEF Inv, TypeOK, IdleInv, JobInv, gameVars, partVars, sourceVars
<1> QED
  BY <1>2, <1>3, <1>4, <1>5 DEF Inv

(* Every step of a thread keeps it.                                        *)
LEMMA ThreadStep ==
  ASSUME Inv, NEW t \in Threads, Timely', DownloadMap(t)
  PROVE  Inv'
  BY BeginsStep, TestStep, PassStep, ExtractionStep, ExtractStep, LastStep, LoopStep
     DEF DownloadMap

-----------------------------------------------------------------------------
(* The master server list keeps its types.                                 *)
LEMMA MasterType ==
  ASSUME TypeOK, UpdateStage_MasterServerList
  PROVE  /\ master_state' \in DownloadStates \union {"completed"}
         /\ master' \in Downloaders(XmlAttempts)
         /\ list_length' \in 0 .. MaxServers
<1>1. /\ master_state \in DownloadStates \union {"completed"}
      /\ master \in Downloaders(XmlAttempts) /\ list_length \in 0 .. MaxServers
      /\ XmlAttempts \in Nat
  BY ClientBoundsAssumption DEF TypeOK
<1>2. ASSUME NEW d \in Downloaders(XmlAttempts), MasterUpdated(d)
      PROVE  /\ master_state' \in DownloadStates \union {"completed"}
             /\ master' \in Downloaders(XmlAttempts)
             /\ list_length' \in 0 .. MaxServers
  BY <1>1, <1>2, UpdatedType, StateForType DEF MasterUpdated, DownloadStates
<1>3. ASSUME MasterCompleted
      PROVE  /\ master_state' \in DownloadStates \union {"completed"}
             /\ master' \in Downloaders(XmlAttempts)
             /\ list_length' \in 0 .. MaxServers
  BY <1>1, <1>3, CtorType DEF MasterCompleted
<1>4. \A d \in Started(master) : d \in Downloaders(XmlAttempts)
  BY <1>1, StartedType
<1> QED
  BY <1>1, <1>2, <1>3, <1>4 DEF UpdateStage_MasterServerList, masterVars

(* What a job of the game thread may have become after Update.             *)
UpdatePost ==
  /\ game' \in {"ready", "stopping"}
  /\ update_stage' \in {"start_download", "downloading_map", "map_download_completion",
                        "failed", "cancelled", "complete"}
       \union (IF update_stage = "idle" THEN {"idle"} ELSE {})
  /\ update_stage' = "idle" => UNCHANGED <<game, completion, threadVars>>
  /\ completion' \in {"begin", "reconnect_delay", "reconnect", "complete"}
  /\ stop_download' \in BOOLEAN
  /\ in_progress' = in_progress
  /\ \/ UNCHANGED <<handle, pc, return_value>>
     \/ \E t \in Threads :
          /\ pc[t] = "absent" /\ handle' = t
          /\ pc' = [pc EXCEPT ![t] = "created"]
          /\ return_value' = return_value
     \/ /\ handle \in Threads /\ pc[handle] = "exited" /\ handle' = NoThread
        /\ pc' = [pc EXCEPT ![handle] = "absent"]
        /\ return_value' = [return_value EXCEPT ![handle] = "none"]
        /\ update_stage' # "downloading_map"
  /\ update_stage' = "downloading_map" => handle' \in Threads
  /\ update_stage' = "map_download_completion" => installed

(* Update leaves UpdatePost, whatever its stage and whether or not the     *)
(* player cancels.                                                         *)
LEMMA UpdatePostHolds ==
  ASSUME Inv, game = "ready", NEW s \in {update_stage, "cancelled"},
         s = "cancelled" => update_stage # "idle", UpdateJob(s)
  PROVE  UpdatePost
<1>1. /\ update_stage \in {"idle", "start_download", "downloading_map",
                           "map_download_completion", "failed", "cancelled", "complete"}
      /\ completion \in {"begin", "reconnect_delay", "reconnect", "complete"}
      /\ stop_download \in BOOLEAN
  BY DEF Inv, TypeOK
<1>2. CASE s \in {"idle", "failed"}
  BY <1>1, <1>2 DEF UpdateJob, UpdatePost, threadVars
<1>3. CASE s = "start_download"
  BY <1>1, <1>3 DEF UpdateJob, StartDownloadThread, UpdatePost, threadVars
<1>4. CASE s = "downloading_map"
  <2>1. /\ handle \in Threads /\ update_stage = s
        /\ pc[handle] = "exited" => return_value[handle] \in {"failed", "cancelled", "complete"}
    BY <1>4 DEF Inv, TypeOK, ThreadInv
  <2>2. CASE pc[handle] = "exited"
    <3>1. /\ update_stage' \in {"failed", "cancelled", "map_download_completion"}
          /\ update_stage' = "map_download_completion" => installed
      BY <1>4, <2>1, <2>2 DEF UpdateJob, UpdateStage_DownloadingMap, StageFor, Inv, JobInv
    <3> QED
      BY <1>1, <1>4, <2>1, <2>2, <3>1 DEF UpdateJob, UpdateStage_DownloadingMap, UpdatePost
  <2>3. CASE pc[handle] # "exited"
    BY <1>1, <1>4, <2>1, <2>3
       DEF UpdateJob, UpdateStage_DownloadingMap, UpdatePost, threadVars, gameVars
  <2> QED
    BY <2>2, <2>3
<1>5. CASE s = "map_download_completion"
  BY <1>1, <1>5 DEF UpdateJob, UpdateStage_DownloadCompletion, UpdatePost, threadVars,
                    Inv, JobInv
<1>6. CASE s \in {"cancelled", "complete"}
  BY <1>1, <1>6 DEF UpdateJob, StopDownloadThread, UpdatePost
<1> QED
  BY <1>1, <1>2, <1>3, <1>4, <1>5, <1>6

(* Update keeps the invariant.                                             *)
LEMMA UpdateStep ==
  ASSUME Inv, Timely', Update
  PROVE  Inv'
<1>1. UpdatePost
  BY UpdatePostHolds DEF Update
<1>2. UNCHANGED <<stage, sourceVars, partVars, installed>> /\ game = "ready"
  BY DEF Update
<1>3. /\ master_state' \in DownloadStates \union {"completed"}
      /\ master' \in Downloaders(XmlAttempts) /\ list_length' \in 0 .. MaxServers
  BY MasterType DEF Update, Inv
<1>4. /\ handle' \in Threads \union {NoThread}
      /\ pc' \in [Threads -> {"absent", "created", "test", "pass", "extract", "sleep",
                              "exited"}]
      /\ return_value' \in [Threads -> {"none", "failed", "cancelled", "complete"}]
  BY <1>1 DEF UpdatePost, Inv, TypeOK
<1>5. TypeOK'
  <2>1. /\ game' \in {"ready", "stopping", "disposing", "disposed"}
        /\ update_stage' \in {"idle", "start_download", "downloading_map",
                              "map_download_completion", "failed", "cancelled", "complete"}
        /\ completion' \in {"begin", "reconnect_delay", "reconnect", "complete"}
        /\ stop_download' \in BOOLEAN /\ in_progress' \in BOOLEAN
    BY <1>1 DEF UpdatePost, Inv, TypeOK
  <2> QED
    BY <1>2, <1>3, <1>4, <2>1 DEF Inv, TypeOK, sourceVars, partVars
<1>6. StageInv'
  BY <1>2, StageFrame DEF Inv
<1>7. ThreadInv' /\ ExtractInv'
  BY <1>1, <1>2 DEF UpdatePost, Inv, TypeOK, ThreadInv, ExtractInv
<1>8. IdleInv'
  BY <1>1, <1>2 DEF UpdatePost, Inv, IdleInv, threadVars, sourceVars, partVars
<1>9. JobInv'
  BY <1>1, <1>2, ClientThreadsAssumption DEF UpdatePost, Inv, TypeOK, ThreadInv, JobInv
<1> QED
  BY <1>5, <1>6, <1>7, <1>8, <1>9 DEF Inv

(* A reset keeps it, once the flag in_progress is clear.                   *)
LEMMA ResetStep ==
  ASSUME Inv, Timely', ~in_progress, ResetMapDownload,
         game' \in {"ready", "stopping", "disposing", "disposed"},
         part_number' = 0, saved' = {}, installed' = FALSE
  PROVE  Inv'
<1>1. /\ update_stage' = "idle" /\ completion' = "begin"
      /\ stop_download' = FALSE /\ in_progress' = FALSE
      /\ handle' = NoThread
      /\ pc' = [t \in Threads |-> IF pc[t] = "exited" THEN "absent" ELSE pc[t]]
      /\ return_value' = [t \in Threads |-> IF pc[t] = "exited" THEN "none" ELSE return_value[t]]
      /\ stage' = "build_server_list" /\ servers' = 0 /\ server' = 0
      /\ definition' = Ctor /\ definition_state' = "begin" /\ parts' = 0 /\ locked' = FALSE
      /\ part' = Ctor /\ part_state' = "begin"
      /\ UNCHANGED masterVars
  BY DEF ResetMapDownload
<1>2. TypeOK'
  <2>1. /\ definition' \in Downloaders(XmlAttempts) /\ part' \in Downloaders(PartAttempts)
        /\ 0 \in 0 .. MaxServers + 1 /\ 0 \in 0 .. MaxParts
    BY <1>1, CtorType, ClientBoundsAssumption
  <2>2. /\ stop_download' \in BOOLEAN /\ in_progress' \in BOOLEAN /\ locked' \in BOOLEAN
        /\ installed' \in BOOLEAN
    BY <1>1
  <2>3. /\ pc' \in [Threads -> {"absent", "created", "test", "pass", "extract", "sleep",
                                "exited"}]
        /\ return_value' \in [Threads -> {"none", "failed", "cancelled", "complete"}]
    BY <1>1 DEF Inv, TypeOK
  <2> QED
    BY <1>1, <2>1, <2>2, <2>3 DEF Inv, TypeOK, Stages, DownloadStates, masterVars
<1>3. StageInv'
  BY <1>1 DEF StageInv, AllServersAsked
<1>4. ThreadInv' /\ ExtractInv'
  BY <1>1 DEF Inv, TypeOK, ThreadInv, ExtractInv
<1>5. IdleInv' /\ JobInv'
  BY <1>1, ClientThreadsAssumption DEF IdleInv, JobInv, Ctor
<1> QED
  BY <1>2, <1>3, <1>4, <1>5 DEF Inv

(* Every timely step keeps the invariant.                                  *)
LEMMA NextStep ==
  ASSUME Inv, [TimelyNext]_vars
  PROVE  Inv'
<1>1. CASE UNCHANGED vars
  BY <1>1 DEF vars, gameVars, masterVars, threadVars, sourceVars, partVars, Inv, TypeOK,
              Timely, ThreadInv, StageInv, PartInv, AllServersAsked, ExtractInv, IdleInv,
              JobInv
<1>2. CASE CleanupMapDownload /\ Timely'
  BY <1>2, ResetStep DEF CleanupMapDownload
<1>3. CASE AddMapForDownload /\ Timely'
  <2>1. CASE ResetMapDownload /\ UNCHANGED <<part_number, saved, game, installed>>
    BY <1>3, <2>1, ResetStep DEF AddMapForDownload, Inv, TypeOK, IdleInv
  <2>2. CASE /\ update_stage' = "start_download"
             /\ UNCHANGED <<completion, masterVars, threadVars, stage, sourceVars, partVars,
                            game, installed>>
    <3>1. StageInv'
      BY <2>2, StageFrame DEF Inv
    <3>2. TypeOK'
      BY <2>2 DEF Inv, TypeOK, masterVars, threadVars, sourceVars, partVars
    <3> QED
      BY <1>3, <2>2, <3>1, <3>2
         DEF Inv, ThreadInv, ExtractInv, IdleInv, JobInv, threadVars
  <2> QED
    BY <1>3, <2>1, <2>2 DEF AddMapForDownload
<1>4. CASE Dispose /\ Timely'
  <2>1. /\ game' = "disposing" /\ stop_download' = TRUE
        /\ UNCHANGED <<handle, pc, return_value, in_progress, completion, update_stage,
                       masterVars, stage, sourceVars, partVars, installed>>
    BY <1>4 DEF Dispose, StopDownloadThread
  <2>2. StageInv'
    BY <2>1, StageFrame DEF Inv
  <2>3. TypeOK'
    <3>1. stop_download' \in BOOLEAN
      BY <2>1
    <3> QED
      BY <2>1, <3>1 DEF Inv, TypeOK, masterVars, sourceVars, partVars
  <2> QED
    BY <1>4, <2>1, <2>2, <2>3
       DEF Inv, ThreadInv, ExtractInv, IdleInv, JobInv, sourceVars, partVars
<1>5. CASE Disposed /\ Timely'
  <2>1. /\ game' = "disposed" /\ master' = Ctor /\ list_length' = 0
        /\ UNCHANGED <<update_stage, completion, master_state, threadVars, stage,
                       sourceVars, partVars, installed>>
    BY <1>5 DEF Disposed
  <2>2. StageInv'
    BY <2>1, StageFrame DEF Inv
  <2>3. master' \in Downloaders(XmlAttempts) /\ list_length' \in 0 .. MaxServers
    BY <2>1, CtorType, ClientBoundsAssumption
  <2>4. TypeOK'
    BY <2>1, <2>3 DEF Inv, TypeOK, threadVars, sourceVars, partVars
  <2> QED
    BY <1>5, <2>1, <2>2, <2>4
       DEF Inv, ThreadInv, ExtractInv, IdleInv, JobInv, threadVars, sourceVars, partVars
<1> QED
  BY <1>1, <1>2, <1>3, <1>4, <1>5, ThreadStep, UpdateStep DEF TimelyNext

(* The invariant holds at first.                                           *)
LEMMA InitStep ==
  ASSUME Init
  PROVE  Inv
<1>1. Ctor \in Downloaders(XmlAttempts) /\ Ctor \in Downloaders(PartAttempts)
  BY CtorType, ClientBoundsAssumption
<1>2. /\ 0 \in 0 .. MaxServers + 1 /\ 0 \in 0 .. MaxParts /\ 0 \in 0 .. MaxServers
  BY ClientBoundsAssumption
<1>3. TypeOK
  BY <1>1, <1>2 DEF Init, TypeOK, Stages, DownloadStates
<1>4. Timely /\ ThreadInv /\ ExtractInv
  BY DEF Init, Timely, ThreadInv, ExtractInv
<1>5. StageInv
  BY DEF Init, StageInv, AllServersAsked
<1>6. IdleInv /\ JobInv
  BY ClientThreadsAssumption DEF Init, IdleInv, JobInv, Ctor
<1> QED
  BY <1>3, <1>4, <1>5, <1>6 DEF Inv

(* Inv is an invariant of timely behaviours.                               *)
LEMMA Invariant == TimelySpec => []Inv
<1>1. Init => Inv
  BY InitStep
<1>2. Inv /\ [TimelyNext]_vars => Inv'
  BY NextStep
<1> QED
  BY <1>1, <1>2, PTL DEF TimelySpec

(* The state of a download keeps its types: no iterator leaves its list    *)
(* and no downloader makes more attempts than it may                       *)
(* (MapDownloadClient.cpp).                                                *)
THEOREM DownloadTypeCorrect == TimelySpec => []TypeOK
<1>1. Inv => TypeOK
  BY DEF Inv
<1> QED
  BY <1>1, Invariant, PTL

(* The archive is combined only when all parts of the map have been saved, *)
(* for any number of servers, parts and attempts                           *)
(* (MapDownloadClient.cpp:1226-1335, 1887-2033).                           *)
THEOREM ArchivesAreComplete == TimelySpec => []ArchiveComplete
<1>1. Inv => ArchiveComplete
  BY DEF Inv, ExtractInv, StageInv, ArchiveComplete
<1> QED
  BY <1>1, Invariant, PTL

(* A download fails for want of a definition only at the last server       *)
(* (MapDownloadClient.cpp:1791-1863, 2072-2084).                           *)
THEOREM EveryServerAsked == TimelySpec => []AllServersAsked
<1>1. Inv => AllServersAsked
  BY DEF Inv, StageInv
<1> QED
  BY <1>1, Invariant, PTL

(* A download leaves nothing for the next one, however it ended            *)
(* (MapDownloadClient.cpp:1586-1664, 2326-2340).                           *)
THEOREM NothingIsLeft == TimelySpec => []NothingLeft
<1>1. Inv => NothingLeft
  BY DEF Inv, IdleInv, NothingLeft
<1> QED
  BY <1>1, Invariant, PTL

-----------------------------------------------------------------------------
(* A step that leaves these alone leaves the phase of the job alone.       *)
PhaseKept == UNCHANGED <<update_stage, completion, installed>>

(* Every timely step is one of MapJob or leaves the phase alone.           *)
LEMMA NextJob ==
  ASSUME Inv, [TimelyNext]_vars
  PROVE  [Job!Next]_Phase
<1>1. ASSUME PhaseKept
      PROVE  Phase' = Phase
  BY <1>1 DEF PhaseKept, Phase
<1>2. CASE UNCHANGED vars
  BY <1>1, <1>2 DEF vars, gameVars, PhaseKept
<1>3. ASSUME NEW t \in Threads, DownloadMap(t)
      PROVE  [Job!Next]_Phase
  <2>1. CASE UpdateStage_ArchiveExtraction(t)
    <3>1. update_stage # "idle" /\ UNCHANGED <<update_stage, completion>>
      BY <2>1, Awake DEF UpdateStage_ArchiveExtraction, gameVars, Inv, ExtractInv, IdleInv
    <3>2. installed' = installed \/ installed' = TRUE
      BY <2>1 DEF UpdateStage_ArchiveExtraction
    <3> QED
      BY <3>1, <3>2 DEF Phase, Job!Next, Job!Install
  <2>2. CASE ~UpdateStage_ArchiveExtraction(t)
    BY <1>1, <1>3, <2>2
       DEF DownloadMap, ThreadBegins, TestStopFlag, DownloadPass, ExtractionPass, LastPass,
           LoopTest, gameVars, PhaseKept
  <2> QED
    BY <2>1, <2>2
<1>4. CASE Update
  <2>1. PICK s \in {update_stage, "cancelled"} :
          UpdateJob(s) /\ (s = "cancelled" => update_stage # "idle")
    BY <1>4 DEF Update, Inv, TypeOK
  <2>2. installed' = installed /\ game = "ready"
    BY <1>4 DEF Update
  <2>3. UpdatePost
    BY <2>1, <2>2, UpdatePostHolds
  <2>4. CASE update_stage = "idle"
    <3>1. s = "idle" /\ PhaseKept
      BY <2>1, <2>2, <2>4 DEF UpdateJob, PhaseKept
    <3> QED
      BY <1>1, <3>1
  <2>5. CASE update_stage # "idle"
    <3>1. update_stage' # "idle"
      BY <2>3, <2>5 DEF UpdatePost
    <3>2. CASE completion' = completion
      BY <2>2, <2>5, <3>1, <3>2 DEF Phase
    <3>3. CASE completion' # completion
      <4>1. s = "map_download_completion" /\ update_stage = s
        BY <2>1, <3>3 DEF UpdateJob, StartDownloadThread, UpdateStage_DownloadingMap,
                          StopDownloadThread, gameVars, Inv, TypeOK
      <4>2. installed /\ completion # "complete"
        BY <2>1, <3>3, <4>1
           DEF UpdateJob, UpdateStage_DownloadCompletion, Inv, JobInv
      <4>3. Phase = "installed" /\ Phase' \in {"installed", "reconnected"}
        BY <2>2, <2>5, <3>1, <4>2 DEF Phase
      <4> QED
        BY <4>3 DEF Job!Next, Job!Reconnect
    <3> QED
      BY <3>2, <3>3
  <2> QED
    BY <2>4, <2>5
<1>5. CASE CleanupMapDownload
  <2>1. Phase' = "idle"
    BY <1>5 DEF CleanupMapDownload, ResetMapDownload, Phase
  <2> QED
    BY <2>1 DEF Job!Next, Job!End
<1>6. CASE AddMapForDownload
  <2>1. Phase = "idle" /\ completion = "begin" /\ ~installed /\ ~installed'
    BY <1>6 DEF AddMapForDownload, Phase, Inv, IdleInv
  <2>2. Phase' \in {"idle", "asked"}
    BY <1>6, <2>1 DEF AddMapForDownload, ResetMapDownload, Phase
  <2> QED
    BY <2>1, <2>2 DEF Job!Next, Job!Ask
<1>7. CASE Dispose \/ Disposed
  BY <1>1, <1>7 DEF Dispose, StopDownloadThread, Disposed, PhaseKept
<1> QED
  BY <1>2, <1>3, <1>4, <1>5, <1>6, <1>7 DEF TimelyNext

(* The client implements MapJob: the game reconnects only with the map     *)
(* installed, and once for each job (MapDownloadClient.cpp:2168-2348).     *)
THEOREM JobIsKept == TimelySpec => JobKept
<1>1. Init => Job!Init
  BY DEF Init, Phase, Job!Init
<1>2. Inv /\ [TimelyNext]_vars => [Job!Next]_Phase
  BY NextJob
<1> QED
  BY <1>1, <1>2, Invariant, PTL DEF TimelySpec, JobKept, Job!Spec
-----------------------------------------------------------------------------
(***************************************************************************)
(* The progress of a download. A rank for each part of its place: the      *)
(* stage, the server, the state of its definition, the part, its state,    *)
(* and the attempts of a downloader.                                       *)
(***************************************************************************)
StageRank(s) ==
  CASE s = "build_server_list" -> 0
    [] s = "map_part_definition" -> 1
    [] s = "map_part_download" -> 2
    [] s = "map_archive_extraction" -> 3
    [] s \in {"failed", "complete"} -> 4
    [] s = "cancelled" -> 5

DefinitionRank(s) ==
  CASE s = "begin" -> 0
    [] s = "downloading" -> 1
    [] OTHER -> 2

PartRank(s) ==
  CASE s = "begin" -> 0
    [] s = "downloading" -> 1
    [] s \in {"download_failed", "download_succeeded"} -> 2
    [] OTHER -> 3

(* A downloader that has to try again gives its request up, and then       *)
(* starts another one.                                                     *)
TryRank(d) ==
  CASE d.status = "retry" /\ d.request # "none" -> 0
    [] d.status = "retry" /\ d.request = "none" -> 1
    [] d.status = "in_progress" -> 2
    [] OTHER -> 3

Tries(d, e) ==
  \/ e.attempts > d.attempts
  \/ e.attempts = d.attempts /\ TryRank(e) > TryRank(d)

DefinitionForward ==
  \/ server' > server
  \/ /\ server' = server
     /\ \/ DefinitionRank(definition_state') > DefinitionRank(definition_state)
        \/ /\ definition_state = "downloading" /\ definition_state' = "downloading"
           /\ Tries(definition, definition')

PartForward ==
  \/ part_number' > part_number
  \/ /\ part_number' = part_number
     /\ \/ PartRank(part_state') > PartRank(part_state)
        \/ /\ part_state = "downloading" /\ part_state' = "downloading"
           /\ Tries(part, part')

place == <<stage, sourceVars, partVars>>

Forward ==
  \/ StageRank(stage') > StageRank(stage)
  \/ /\ stage' = stage
     /\ \/ stage = "map_part_definition" /\ DefinitionForward /\ UNCHANGED partVars
        \/ stage = "map_part_download" /\ PartForward /\ UNCHANGED sourceVars

(* A pass that leaves a stage waiting for its downloader leaves the        *)
(* downloader as it is, or it is one try further.                          *)
LEMMA UpdatedTries ==
  ASSUME NEW n \in Nat, NEW d \in Downloaders(n), NEW e \in Updated(d, n),
         StateFor(e.status) = "downloading"
  PROVE  e = d \/ Tries(d, e)
<1>1. e.status \notin {"succeeded", "failed", "cancelled"} /\ d.attempts \in Nat
  BY DEF StateFor, Downloaders
<1>2. CASE d.status = "retry"
  <2>1. PICK f \in {[d EXCEPT !.request = "none"]} \union Started(d) :
          \/ e = f
          \/ f.status = "in_progress" /\ e \in Answers(f, n)
    BY <1>2 DEF Updated
  <2>2. CASE e = f
    <3>1. e = [d EXCEPT !.request = "none"]
          \/ e = [d EXCEPT !.status = "in_progress", !.request = "open"]
      BY <1>1, <2>1, <2>2 DEF Started, Downloaders
    <3>2. CASE e = [d EXCEPT !.request = "none"] /\ d.request = "none"
      BY <3>2 DEF Downloaders
    <3>3. CASE e = [d EXCEPT !.request = "none"] /\ d.request # "none"
      <4>1. TryRank(e) = 1 /\ TryRank(d) = 0 /\ e.attempts = d.attempts
        BY <1>2, <3>3 DEF TryRank, Downloaders
      <4> QED
        BY <4>1 DEF Tries
    <3>4. CASE e = [d EXCEPT !.status = "in_progress", !.request = "open"]
      <4>1. TryRank(e) = 2 /\ TryRank(d) \in {0, 1} /\ e.attempts = d.attempts
        BY <1>2, <3>4 DEF TryRank, Downloaders
      <4> QED
        BY <4>1 DEF Tries
    <3> QED
      BY <3>1, <3>2, <3>3, <3>4
  <2>3. CASE f.status = "in_progress" /\ e \in Answers(f, n)
    <3>1. f.attempts = d.attempts /\ f.status = "in_progress"
      BY <1>2, <2>1, <2>3 DEF Started, Downloaders
    <3>2. e = Rejected(f, n) /\ e.attempts = f.attempts + 1
      BY <1>1, <2>1, <2>3 DEF Answers, Rejected, Started, Downloaders
    <3> QED
      BY <1>1, <3>1, <3>2 DEF Tries
  <2> QED
    BY <2>1, <2>2, <2>3
<1>3. CASE d.status # "retry"
  <2>1. e = d \/ (d.status = "in_progress" /\ e \in Answers(d, n))
    BY <1>3 DEF Updated
  <2>2. ASSUME e \in Answers(d, n)
        PROVE  e.attempts = d.attempts + 1
    BY <1>1, <2>2 DEF Answers, Rejected, Downloaders
  <2> QED
    BY <1>1, <2>1, <2>2 DEF Tries
<1> QED
  BY <1>2, <1>3

(* A result of the definition that has not ended the stage asks the next   *)
(* server, or leaves the same one with the state it came to.               *)
LEMMA ResultPlace ==
  ASSUME NEW d, NEW state, NEW result \in {"map_part_definition", "map_part_download", "failed"},
         NEW s \in Nat, DefinitionResult(d, state, result, s)
  PROVE  \/ stage' \in {"map_part_download", "failed"}
         \/ stage' = "map_part_definition" /\ server' > s
         \/ /\ stage' = "map_part_definition" /\ server' = s
            /\ definition' = d /\ definition_state' = state
            /\ result = "map_part_definition"
  BY DEF DefinitionResult

(* A pass in the first two stages goes forward or waits for its request.   *)
LEMMA ServersForward ==
  ASSUME TypeOK, ServersAndDefinition
  PROVE  Forward \/ UNCHANGED place
<1>1. /\ definition \in Downloaders(XmlAttempts) /\ XmlAttempts \in Nat
      /\ server \in Nat
  BY ClientBoundsAssumption DEF TypeOK
<1>2. UNCHANGED partVars
  BY DEF ServersAndDefinition
<1>3. CASE stage = "build_server_list"
  <2>1. UpdateStage_MapPartDefinition(1)
    BY <1>3 DEF ServersAndDefinition
  <2>2. stage' \in {"map_part_definition", "map_part_download", "failed"}
    BY <2>1 DEF UpdateStage_MapPartDefinition, DefinitionBegins, DefinitionDownloads,
                DefinitionEnds, DefinitionResult
  <2> QED
    BY <1>3, <2>2 DEF Forward, StageRank
<1>4. CASE stage = "map_part_definition"
  <2>1. UpdateStage_MapPartDefinition(server) /\ UNCHANGED servers
    BY <1>4 DEF ServersAndDefinition
  <2>2. ASSUME stage' \in {"map_part_download", "failed"}
               \/ (stage' = "map_part_definition" /\ server' > server)
        PROVE  Forward
    BY <1>2, <1>4, <2>2 DEF Forward, StageRank, DefinitionForward
  <2>3. ASSUME stage' = "map_part_definition", server' = server,
               \/ DefinitionRank(definition_state') > DefinitionRank(definition_state)
               \/ /\ definition_state = "downloading" /\ definition_state' = "downloading"
                  /\ Tries(definition, definition')
        PROVE  Forward
    BY <1>2, <1>4, <2>3 DEF Forward, DefinitionForward
  <2>4. CASE DefinitionBegins(server)
    <3>1. PICK d \in Started(definition) :
            IF d.status = "failed"
              THEN DefinitionResult(d, "begin", "failed", server) /\ UNCHANGED <<parts, locked>>
              ELSE \E e \in Updated(d, XmlAttempts) :
                     /\ DefinitionResult(e, StateFor(e.status), "map_part_definition", server)
                     /\ DefinitionFound(e)
      BY <2>4 DEF DefinitionBegins
    <3>2. CASE d.status = "failed"
      BY <1>1, <2>2, <3>1, <3>2, ResultPlace
    <3>3. CASE d.status # "failed"
      <4>1. PICK e \in Updated(d, XmlAttempts) :
              DefinitionResult(e, StateFor(e.status), "map_part_definition", server)
        BY <3>1, <3>3
      <4>2. DefinitionRank(StateFor(e.status)) > DefinitionRank(definition_state)
        BY <2>4 DEF DefinitionBegins, DefinitionRank, StateFor
      <4> QED
        BY <1>1, <2>2, <2>3, <4>1, <4>2, ResultPlace
    <3> QED
      BY <3>2, <3>3
  <2>5. CASE DefinitionDownloads(server)
    <3>1. PICK e \in Updated(definition, XmlAttempts) :
            /\ DefinitionResult(e, StateFor(e.status), "map_part_definition", server)
            /\ DefinitionFound(e)
      BY <2>5 DEF DefinitionDownloads
    <3>2. definition_state = "downloading"
      BY <2>5 DEF DefinitionDownloads
    <3>3. CASE StateFor(e.status) = "downloading"
      <4>1. e = definition \/ Tries(definition, e)
        BY <1>1, <3>3, UpdatedTries
      <4>2. UNCHANGED <<parts, locked>>
        BY <3>1, <3>3 DEF DefinitionFound, StateFor
      <4>3. \/ stage' \in {"map_part_download", "failed"}
            \/ stage' = "map_part_definition" /\ server' > server
            \/ /\ stage' = "map_part_definition" /\ server' = server
               /\ definition' = e /\ definition_state' = StateFor(e.status)
        BY <1>1, <3>1, ResultPlace
      <4> QED
        BY <1>2, <1>4, <2>1, <2>2, <2>3, <3>2, <3>3, <4>1, <4>2, <4>3 DEF place, sourceVars
    <3>4. CASE StateFor(e.status) # "downloading"
      <4>1. DefinitionRank(StateFor(e.status)) > DefinitionRank(definition_state)
        BY <3>2, <3>4 DEF DefinitionRank, StateFor
      <4> QED
        BY <1>1, <2>2, <2>3, <3>1, <4>1, ResultPlace
    <3> QED
      BY <3>3, <3>4
  <2>6. CASE DefinitionEnds(server)
    BY <1>1, <2>2, <2>6 DEF DefinitionEnds, DefinitionResult
  <2> QED
    BY <2>1, <2>4, <2>5, <2>6 DEF UpdateStage_MapPartDefinition
<1> QED
  BY <1>3, <1>4 DEF ServersAndDefinition

(* A pass in the stage of the parts goes forward or waits for its request. *)
LEMMA PartsForward ==
  ASSUME TypeOK, UpdateStage_PartDownload
  PROVE  Forward \/ UNCHANGED place
<1>1. /\ part \in Downloaders(PartAttempts) /\ PartAttempts \in Nat
      /\ part_number \in Nat
  BY ClientBoundsAssumption DEF TypeOK
<1>2. stage = "map_part_download" /\ UNCHANGED sourceVars
  BY DEF UpdateStage_PartDownload
<1>3. ASSUME stage' \in {"failed", "map_archive_extraction"}
      PROVE  Forward
  BY <1>2, <1>3 DEF Forward, StageRank
<1>4. ASSUME stage' = stage, PartForward
      PROVE  Forward
  BY <1>2, <1>4 DEF Forward
<1>5. CASE NoDirectory \/ PartFailed
  BY <1>3, <1>5 DEF NoDirectory, PartFailed
<1>6. CASE PartPrepared
  <2>1. CASE SetupPartDownload
    BY <1>3, <1>6, <2>1 DEF PartPrepared
  <2>2. CASE ~SetupPartDownload
    <3>1. part_number' > part_number
      BY <1>1, <1>6, <2>2 DEF PartPrepared
    <3>2. stage' = "failed" \/ stage' = stage
      BY <1>6, <2>2 DEF PartPrepared, PartUpdated
    <3> QED
      BY <1>3, <1>4, <3>1, <3>2 DEF PartForward
  <2> QED
    BY <2>1, <2>2
<1>7. CASE PartDownloads
  <2>1. PICK e \in Updated(part, PartAttempts) :
          part' = e /\ part_state' = StateFor(e.status) /\ UNCHANGED stage
    BY <1>7 DEF PartDownloads, PartUpdated
  <2>2. part_state = "downloading" /\ UNCHANGED <<part_number, saved>>
    BY <1>7 DEF PartDownloads
  <2>3. CASE StateFor(e.status) = "downloading"
    <3>1. e = part \/ Tries(part, e)
      BY <1>1, <2>3, UpdatedTries
    <3> QED
      BY <1>2, <1>4, <2>1, <2>2, <2>3, <3>1 DEF PartForward, place, partVars
  <2>4. CASE StateFor(e.status) # "downloading"
    <3>1. PartRank(part_state') > PartRank(part_state)
      BY <2>1, <2>2, <2>4 DEF PartRank, StateFor
    <3> QED
      BY <1>4, <2>1, <2>2, <3>1 DEF PartForward
  <2> QED
    BY <2>3, <2>4
<1>8. CASE PartGivenUp
  <2>1. PartRank(part_state') > PartRank(part_state)
    BY <1>8 DEF PartGivenUp, PartRank
  <2> QED
    BY <1>4, <1>8, <2>1 DEF PartGivenUp, PartForward
<1>9. CASE PartSaved
  <2>1. CASE stage' = "failed"
    BY <1>3, <2>1
  <2>2. CASE stage' # "failed"
    <3>1. PartRank(part_state') > PartRank(part_state)
      BY <1>9, <2>2 DEF PartSaved, PartRank
    <3> QED
      BY <1>4, <1>9, <2>2, <3>1 DEF PartSaved, PartForward
  <2> QED
    BY <2>1, <2>2
<1> QED
  BY <1>5, <1>6, <1>7, <1>8, <1>9 DEF UpdateStage_PartDownload

(* A step of the thread goes forward or leaves the place of the download.  *)
LEMMA ThreadForward ==
  ASSUME Inv, NEW t \in Threads, DownloadMap(t)
  PROVE  Forward \/ UNCHANGED place
<1>1. CASE ThreadBegins(t) \/ ExtractionPass(t) \/ LastPass(t) \/ LoopTest(t)
  BY <1>1 DEF ThreadBegins, ExtractionPass, LastPass, LoopTest, place
<1>2. CASE TestStopFlag(t)
  <2>1. stage' = stage \/ stage' = "cancelled"
    BY <1>2 DEF TestStopFlag
  <2>2. CASE stage' = stage
    BY <1>2, <2>2 DEF TestStopFlag, place
  <2>3. CASE stage' = "cancelled" /\ stage # "cancelled"
    BY <2>3 DEF Forward, StageRank, Inv, TypeOK, Stages
  <2> QED
    BY <2>1, <2>2, <2>3
<1>3. CASE DownloadPass(t)
  BY <1>3, ServersForward, PartsForward DEF DownloadPass, Inv
<1>4. CASE UpdateStage_ArchiveExtraction(t)
  <2>1. stage = "map_archive_extraction" /\ stage' \in {"failed", "complete"}
    BY <1>4 DEF UpdateStage_ArchiveExtraction, Inv, ExtractInv
  <2> QED
    BY <2>1 DEF Forward, StageRank
<1> QED
  BY <1>1, <1>2, <1>3, <1>4 DEF DownloadMap

(* The place of a download never goes back: until the game thread resets   *)
(* it, every step leaves it alone, or takes the stage forward, or with the *)
(* stage the server, the part, the state of its download, or the attempts. *)
(* All of these are bounded, so no download asks its servers in a circle,  *)
(* downloads a part again or retries for ever                              *)
(* (MapDownloadClient.cpp:1226-1335, 1791-2033).                           *)
DownloadForward ==
  [][Forward \/ UNCHANGED place \/ CleanupMapDownload \/ AddMapForDownload]_vars

(* The place never goes back, for any number of threads, servers, parts    *)
(* and attempts (MapDownloadClient.cpp:1226-1335, 1791-2033).              *)
THEOREM DownloadGoesForward == TimelySpec => DownloadForward
<1>1. Inv /\ [TimelyNext]_vars =>
        [Forward \/ UNCHANGED place \/ CleanupMapDownload \/ AddMapForDownload]_vars
  <2> SUFFICES ASSUME Inv, TimelyNext
               PROVE  Forward \/ UNCHANGED place \/ CleanupMapDownload \/ AddMapForDownload
    OBVIOUS
  <2>1. CASE Update \/ Dispose \/ Disposed
    BY <2>1 DEF Update, Dispose, Disposed, place
  <2> QED
    BY <2>1, ThreadForward DEF TimelyNext
<1> QED
  BY <1>1, Invariant, PTL DEF TimelySpec, DownloadForward

-----------------------------------------------------------------------------
(* The wait of StopDownloadThread (MapDownloadClient.cpp:2149-2157): while *)
(* it waits there is one thread in the loop, that of the handle, which the *)
(* flag is going to stop.                                                  *)
Loop == {"test", "pass", "extract", "sleep"}

WaitInv ==
  /\ in_progress => handle \in Threads /\ pc[handle] \in Loop
  /\ update_stage = "start_download" => handle = NoThread
  /\ game \in {"stopping", "disposing"} => stop_download

(* The game thread is in the wait of StopDownloadThread.                   *)
Waits == game \in {"stopping", "disposing"} /\ in_progress

(* How many steps the thread has left once the flag is set: those to the   *)
(* test, which turns the stage into cancelled, and the pass after it.      *)
StepsToEnd ==
  CASE pc[handle] = "pass" /\ stage \in {"failed", "cancelled", "complete"} -> 1
    [] pc[handle] = "test" -> 2
    [] pc[handle] = "sleep" -> 3
    [] pc[handle] = "extract" -> 4
    [] OTHER -> 5

NearerToEnd == ~in_progress' \/ StepsToEnd' < StepsToEnd

(* While StopDownloadThread waits nobody else does anything, and every     *)
(* step of the thread takes it nearer to the end of the wait: it is there  *)
(* after five steps or fewer, wherever the flag has met it, so a download  *)
(* delays the game by two passes at most, however much of it is left       *)
(* (MapDownloadClient.cpp:2044-2125, 2149-2157).                           *)
StopAnswered == [][Waits => DownloadMap(handle) /\ NearerToEnd]_vars

(* A step of a thread keeps the invariant of the wait.                     *)
LEMMA ThreadKeepsWait ==
  ASSUME Inv, WaitInv, NEW t \in Threads, DownloadMap(t), Timely'
  PROVE  WaitInv'
<1>1. pc \in [Threads -> {"absent", "created", "test", "pass", "extract", "sleep", "exited"}]
  BY DEF Inv, TypeOK
<1>2. UNCHANGED <<gameVars, handle, stop_download>>
  BY DEF DownloadMap, ThreadBegins, TestStopFlag, DownloadPass, ExtractionPass,
         UpdateStage_ArchiveExtraction, LastPass, LoopTest
<1>3. UNCHANGED <<game, update_stage>>
  BY <1>2 DEF gameVars
<1>4. CASE ThreadBegins(t)
  <2>1. pc[t] = "created" /\ in_progress' /\ pc' = [pc EXCEPT ![t] = "test"]
    BY <1>4 DEF ThreadBegins, Goto
  <2>2. handle = t /\ update_stage # "idle"
    BY <2>1, Awake
  <2> QED
    BY <1>1, <1>3, <1>2, <2>1, <2>2 DEF WaitInv, Loop
<1>5. CASE LastPass(t)
  BY <1>2, <1>3, <1>5 DEF LastPass, WaitInv
<1>6. CASE LoopTest(t)
  BY <1>1, <1>2, <1>3, <1>6 DEF LoopTest, Goto, WaitInv, Loop
<1>7. CASE TestStopFlag(t) \/ DownloadPass(t) \/ ExtractionPass(t)
           \/ UpdateStage_ArchiveExtraction(t)
  <2>1. /\ UNCHANGED in_progress
        /\ pc'[t] \in {"pass", "extract", "sleep"} /\ pc' = [pc EXCEPT ![t] = pc'[t]]
    BY <1>1, <1>7 DEF TestStopFlag, DownloadPass, ExtractionPass,
                      UpdateStage_ArchiveExtraction, Goto
  <2> QED
    BY <1>1, <1>2, <1>3, <2>1 DEF WaitInv, Loop
<1> QED
  BY <1>4, <1>5, <1>6, <1>7 DEF DownloadMap

(* A step of the game thread keeps it: it sets the flag before it waits,   *)
(* and changes the handle only when no thread is in the loop.              *)
LEMMA GameKeepsWait ==
  ASSUME Inv, WaitInv,
         Update \/ CleanupMapDownload \/ AddMapForDownload \/ Dispose \/ Disposed
  PROVE  WaitInv'
<1>1. CASE Update
  <2>1. PICK s \in {update_stage, "cancelled"} : UpdateJob(s)
    BY <1>1 DEF Update
  <2>2. game = "ready"
    BY <1>1 DEF Update
  <2>3. CASE s \in {"idle", "failed", "map_download_completion"}
    <3>1. UNCHANGED threadVars /\ game' = game /\ update_stage' # "start_download"
      BY <2>1, <2>3 DEF UpdateJob, UpdateStage_DownloadCompletion
    <3> QED
      BY <2>2, <3>1 DEF WaitInv, threadVars
  <2>4. CASE s = "start_download"
    <3>1. ~in_progress /\ in_progress' = in_progress /\ game' = game
      BY <2>1, <2>4, ClientThreadsAssumption
         DEF UpdateJob, StartDownloadThread, WaitInv, threadVars
    <3>2. update_stage' # "start_download"
      BY <2>1, <2>4 DEF UpdateJob, StartDownloadThread
    <3> QED
      BY <2>2, <3>1, <3>2 DEF WaitInv
  <2>5. CASE s = "downloading_map"
    <3>1. update_stage = "downloading_map" /\ handle \in Threads
      BY <2>1, <2>5 DEF Inv, ThreadInv
    <3>2. CASE pc[handle] = "exited"
      <4>1. ~in_progress
        BY <3>2 DEF WaitInv, Loop
      <4>2. in_progress' = in_progress /\ game' = game /\ handle' = NoThread
        BY <2>1, <2>5, <3>2 DEF UpdateJob, UpdateStage_DownloadingMap
      <4> QED
        BY <2>2, <4>1, <4>2 DEF WaitInv
    <3>3. CASE pc[handle] # "exited"
      BY <2>1, <2>2, <2>5, <3>1, <3>3
         DEF UpdateJob, UpdateStage_DownloadingMap, WaitInv, threadVars, gameVars
    <3> QED
      BY <3>2, <3>3
  <2>6. CASE s \in {"cancelled", "complete"}
    BY <2>1, <2>6 DEF UpdateJob, StopDownloadThread, WaitInv
  <2> QED
    BY <2>1, <2>3, <2>4, <2>5, <2>6 DEF UpdateJob
<1>2. CASE CleanupMapDownload
  BY <1>2 DEF CleanupMapDownload, ResetMapDownload, WaitInv
<1>3. CASE AddMapForDownload
  <2>1. game' = "ready" /\ update_stage = "idle"
    BY <1>3 DEF AddMapForDownload
  <2>2. CASE ResetMapDownload
    BY <2>1, <2>2 DEF ResetMapDownload, WaitInv
  <2>3. CASE UNCHANGED threadVars
    BY <2>1, <2>3 DEF WaitInv, threadVars, Inv, IdleInv
  <2> QED
    BY <1>3, <2>2, <2>3 DEF AddMapForDownload
<1>4. CASE Dispose
  BY <1>4 DEF Dispose, StopDownloadThread, WaitInv
<1>5. CASE Disposed
  BY <1>5 DEF Disposed, WaitInv, threadVars
<1> QED
  BY <1>1, <1>2, <1>3, <1>4, <1>5

(* While it waits only the thread that is waited for makes a step, and     *)
(* every one takes it nearer to its end.                                   *)
LEMMA StopStep ==
  ASSUME Inv, WaitInv, TimelyNext, Waits
  PROVE  DownloadMap(handle) /\ NearerToEnd
<1>1. stop_download /\ handle \in Threads /\ pc[handle] \in Loop
  BY DEF WaitInv, Waits
<1>2. PICK t \in Threads : DownloadMap(t) /\ Timely'
  BY DEF TimelyNext, Waits, Update, CleanupMapDownload, AddMapForDownload, Dispose, Disposed
<1>3. /\ pc \in [Threads -> {"absent", "created", "test", "pass", "extract", "sleep",
                             "exited"}]
      /\ handle' = handle
  BY <1>2 DEF Inv, TypeOK, DownloadMap, ThreadBegins, TestStopFlag, DownloadPass,
              ExtractionPass, UpdateStage_ArchiveExtraction, LastPass, LoopTest
<1>4. t = handle
  <2>1. \A u \in Threads \ {handle} : pc[u] \in {"absent", "exited"}
    BY DEF Inv, Timely, Waits
  <2>2. pc[t] \notin {"absent", "exited"}
    BY <1>2 DEF DownloadMap, ThreadBegins, TestStopFlag, DownloadPass, ExtractionPass,
                UpdateStage_ArchiveExtraction, LastPass, LoopTest
  <2> QED
    BY <2>1, <2>2
<1> DEFINE over == {"failed", "cancelled", "complete"}
<1>5. CASE TestStopFlag(t)
  <2>1. pc[t] = "test" /\ pc'[t] = "pass" /\ stage' = "cancelled"
    BY <1>1, <1>3, <1>5 DEF TestStopFlag, Goto
  <2> QED
    BY <1>3, <1>4, <1>2, <2>1 DEF NearerToEnd, StepsToEnd
<1>6. CASE DownloadPass(t)
  <2>1. pc[t] = "pass" /\ pc'[t] = "sleep"
    BY <1>3, <1>6 DEF DownloadPass, Goto
  <2>2. stage \notin over
    BY <1>6 DEF DownloadPass, ServersAndDefinition, UpdateStage_PartDownload
  <2> QED
    BY <1>3, <1>4, <1>2, <2>1, <2>2 DEF NearerToEnd, StepsToEnd
<1>7. CASE ExtractionPass(t)
  <2>1. pc[t] = "pass" /\ pc'[t] = "extract" /\ stage \notin over
    BY <1>3, <1>7 DEF ExtractionPass, Goto
  <2> QED
    BY <1>3, <1>4, <1>2, <2>1 DEF NearerToEnd, StepsToEnd
<1>8. CASE UpdateStage_ArchiveExtraction(t)
  <2>1. pc[t] = "extract" /\ pc'[t] = "sleep"
    BY <1>3, <1>8 DEF UpdateStage_ArchiveExtraction, Goto
  <2> QED
    BY <1>3, <1>4, <1>2, <2>1 DEF NearerToEnd, StepsToEnd
<1>9. CASE LastPass(t)
  BY <1>2, <1>4, <1>9 DEF LastPass, NearerToEnd
<1>10. CASE LoopTest(t)
  <2>1. pc[t] = "sleep" /\ pc'[t] = "test"
    BY <1>3, <1>10 DEF LoopTest, Goto, Waits
  <2> QED
    BY <1>3, <1>4, <1>2, <2>1 DEF NearerToEnd, StepsToEnd
<1>11. ~ThreadBegins(t)
  BY <1>1, <1>4 DEF ThreadBegins, Loop
<1> QED
  BY <1>2, <1>5, <1>6, <1>7, <1>8, <1>9, <1>10, <1>11 DEF DownloadMap

(* The wait of StopDownloadThread is answered within five steps of the     *)
(* thread, for any number of threads, servers, parts and attempts          *)
(* (MapDownloadClient.cpp:2044-2125, 2149-2157).                           *)
THEOREM StopIsAnswered == TimelySpec => StopAnswered
<1>1. Init => WaitInv
  BY DEF Init, WaitInv
<1>2. Inv /\ WaitInv /\ [TimelyNext]_vars => WaitInv'
  <2>1. CASE UNCHANGED vars
    BY <2>1 DEF WaitInv, vars, gameVars, threadVars
  <2> QED
    BY <2>1, ThreadKeepsWait, GameKeepsWait DEF TimelyNext
<1>3. Inv /\ WaitInv /\ [TimelyNext]_vars =>
        [Waits => DownloadMap(handle) /\ NearerToEnd]_vars
  BY StopStep
<1> QED
  BY <1>1, <1>2, <1>3, Invariant, PTL DEF TimelySpec, StopAnswered
=============================================================================
