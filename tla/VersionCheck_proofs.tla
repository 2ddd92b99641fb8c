------------------------- MODULE VersionCheck_proofs --------------------------
(***************************************************************************)
(* Proofs about the version check, for any number of sources and           *)
(* documents, with the map download thread beside it. The parts, each on   *)
(* those before:                                                           *)
(*   HeldInv     a downloader that is in progress has a running request;   *)
(*   CheckInv    what the loops of the check have cleared and adopted so   *)
(*                             far, by the source they are at;             *)
(*   OffersPublished and OffersGrow                                        *)
(*               what is offered was published, and is replaced by newer;  *)
(*   RestartInv  who is started while it still holds a slot, and so how    *)
(*               slots are lost (SlotsLostByRestart, DedicatedKeepsSlots). *)
(* HeldInv is what the other thread must not break: its steps may cancel   *)
(* the request of a source, never complete it.                             *)
(***************************************************************************)
EXTENDS HTTPClientThreads_proofs

(* The request of downloader u is running and will answer to u.            *)
Waiting(u) == request_index[u] \in Open /\ user[request_index[u]] = u

(* The invariant of the downloaders: one that says it is in progress has a *)
(* running request, and an idle one holds no slot.                         *)
HeldInv ==
  /\ ClientInv
  /\ \A u \in is_downloading : status[u] = "in_progress"
  /\ \A u \in Users : status[u] = "in_progress" => Waiting(u)
  /\ \A u \in Users : status[u] = "idle" => request_index[u] = NoSlot

(* Start keeps the invariant: the slot it gets was held by nobody.         *)
LEMMA StartHeld ==
  ASSUME TypeInv, HeldInv, NEW t \in Threads, NEW u \in Users, Start(t, u)
  PROVE  HeldInv'
<1>1. ClientInv'
  BY StartClientInv DEF HeldInv
<1>2. /\ status \in [Users -> Statuses] /\ request_index \in [Users -> Slots \union {NoSlot}]
      /\ is_downloading \subseteq Users /\ user \in [Slots -> Users \union {NoUser}]
  BY DEF TypeInv, TypeOK, ClientTypeOK, DownloaderTypeOK
<1>3. NoSlot \notin Open
  BY DEF Open
<1>4. ASSUME NEW s \in Slots, NEW i \in Ids, Get(t, s, i, u, u \in ManualUsers),
             StartedIn(u, s)
      PROVE  HeldInv'
  <2>1. Open' = Open \union {s}
    BY <1>4, StartOpen DEF HeldInv
  <2>2. \A v \in Users : request_index[v] # s
    BY <1>4, NullsAssumption DEF HeldInv, ClientInv, IndexesExclusive, Get
  <2>3. /\ request_index' = [request_index EXCEPT ![u] = s]
        /\ user' = [user EXCEPT ![s] = u]
        /\ status' = [status EXCEPT ![u] = "in_progress"]
        /\ is_downloading' = is_downloading \union {u}
    BY <1>4, NullsAssumption DEF StartedIn, Get
  <2>4. ASSUME NEW v \in Users, status'[v] = "in_progress"
        PROVE  Waiting(v)'
    <3>1. CASE v = u
      BY <1>2, <2>1, <2>3, <3>1 DEF Waiting
    <3>2. CASE v # u
      BY <1>2, <1>3, <2>1, <2>2, <2>3, <2>4, <3>2 DEF Waiting, HeldInv
    <3> QED
      BY <3>1, <3>2
  <2> QED
    BY <1>1, <1>2, <2>3, <2>4 DEF HeldInv
<1>5. CASE UNCHANGED <<user, connection>> /\ StartedIn(u, NoSlot)
  <2>1. /\ request_index' = [request_index EXCEPT ![u] = NoSlot]
        /\ status' = [status EXCEPT ![u] = "failed"]
        /\ is_downloading' = is_downloading \ {u}
        /\ Open' = Open /\ user' = user
    BY <1>5 DEF StartedIn, Open
  <2> QED
    BY <1>1, <1>2, <2>1 DEF HeldInv, Waiting
<1> QED
  BY <1>4, <1>5 DEF Start, GetRefused, GetFull, clientVars

(* CleanupHTTPRequest keeps it, and the downloader is not in progress      *)
(* after it, even if the call has cancelled the request of another one.    *)
LEMMA CleanupHeld ==
  ASSUME TypeInv, HeldInv, NEW t \in Threads, NEW u \in Users, CleanupHTTPRequest(t, u),
         is_downloading' \subseteq is_downloading \ Cancelled(u)
  PROVE  /\ HeldInv'
         /\ \A v \in Users : status'[v] \in {status[v], "cancelled"}
         /\ request_index' = [request_index EXCEPT ![u] = NoSlot]
         /\ status'[u] # "in_progress"
<1>1. ClientInv'
  BY CleanupClientInv DEF HeldInv
<1>2. /\ status \in [Users -> Statuses] /\ request_index \in [Users -> Slots \union {NoSlot}]
      /\ is_downloading \subseteq Users /\ user \in [Slots -> Users \union {NoUser}]
  BY DEF TypeInv, TypeOK, ClientTypeOK, DownloaderTypeOK
<1>3. NoSlot \notin Open
  BY DEF Open
<1>4. CASE request_index[u] = NoSlot
  <2>1. /\ UNCHANGED <<status, request_index, user>> /\ Open' = Open
        /\ is_downloading' \subseteq is_downloading
    BY <1>4 DEF CleanupHTTPRequest, clientVars, Open
  <2>2. HeldInv'
    BY <1>1, <1>2, <2>1 DEF HeldInv, Waiting
  <2> QED
    BY <1>2, <1>3, <1>4, <2>1, <2>2 DEF HeldInv, Waiting
<1>5. CASE request_index[u] # NoSlot
  <2> DEFINE s == request_index[u]
             r == CancelledSlot(s)
  <2>1. s \in Slots
    BY <1>2, <1>5
  <2>2. /\ HTTPRequestAbort(t, s)
        /\ request_index' = [request_index EXCEPT ![u] = NoSlot]
        /\ status' = [v \in Users |-> IF v \in Cancelled(u) THEN "cancelled" ELSE status[v]]
    BY <1>5 DEF CleanupHTTPRequest
  <2>3. /\ r \in Slots \union {NoSlot}
        /\ Open' = Open \ {r}
        /\ s \in Open => r = s
    BY <2>1, <2>2, AbortOpen DEF HeldInv
  <2>4. user' = [x \in Slots |-> IF x \in {s, r} THEN NoUser ELSE user[x]]
    BY <2>2 DEF HTTPRequestAbort
  <2>5. Cancelled(u) = IF r = NoSlot THEN {} ELSE {user[r]}
    BY <1>5 DEF Cancelled
  <2>6. \A v \in Users : v # u => request_index[v] # s
    BY <1>5 DEF HeldInv, ClientInv, IndexesExclusive
  <2> HIDE DEF r
  <2>7. ASSUME NEW v \in Users, status'[v] = "in_progress"
        PROVE  v # u /\ Waiting(v)'
    <3>1. v \notin Cancelled(u) /\ status[v] = "in_progress"
      BY <2>2, <2>7
    <3>2. Waiting(v)
      BY <3>1 DEF HeldInv
    <3>3. request_index[v] # r
      BY <1>3, <2>5, <3>1, <3>2 DEF Waiting
    <3>4. v # u
      BY <2>3, <3>2, <3>3 DEF Waiting
    <3>5. request_index'[v] = request_index[v] /\ request_index[v] \in Slots
      BY <1>2, <1>3, <2>2, <3>2, <3>4 DEF Waiting
    <3> QED
      BY <2>3, <2>4, <2>6, <3>2, <3>3, <3>4, <3>5 DEF Waiting
  <2>8. \A v \in Users : status'[v] \in {status[v], "cancelled"}
    BY <2>2
  <2>9. \A v \in is_downloading' : status'[v] = "in_progress"
    BY <1>2, <2>2 DEF HeldInv
  <2>10. \A v \in Users : status'[v] = "idle" => request_index'[v] = NoSlot
    BY <1>2, <2>2, <2>8 DEF HeldInv
  <2>11. HeldInv'
    BY <1>1, <2>7, <2>9, <2>10 DEF HeldInv
  <2> QED
    BY <2>2, <2>7, <2>8, <2>11
<1> QED
  BY <1>4, <1>5

(* The answer to a request ends its own downloader only.                   *)
LEMMA AnsweredHeld ==
  ASSUME TypeInv, HeldInv, NEW t \in Threads, NEW i \in Ids,
         RequestComplete(t, i), Answered(user[Target(i)])
  PROVE  /\ HeldInv'
         /\ Settles
         /\ UNCHANGED request_index
<1> DEFINE s == connection[i]
           u == user[s]
<1>1. s \in Slots /\ Target(i) = s
  BY DEF RequestComplete, Target, TypeInv, TypeOK, ClientTypeOK
<1>2. /\ status \in [Users -> Statuses] /\ request_index \in [Users -> Slots \union {NoSlot}]
      /\ is_downloading \subseteq Users /\ user \in [Slots -> Users \union {NoUser}]
  BY DEF TypeInv, TypeOK, ClientTypeOK, DownloaderTypeOK
<1>3. UNCHANGED request_index
  BY AnsweredType DEF TypeInv
<1>4. ClientInv'
  BY <1>3, CompleteClientInv DEF HeldInv
<1>5. Open' = Open \ {s} /\ user' = [user EXCEPT ![s] = NoUser]
  BY <1>1, CompleteOpen DEF HeldInv, RequestComplete
<1>6. /\ u \in Users
      /\ status' = [status EXCEPT ![u] = status'[u]]
      /\ status'[u] \notin {"idle", "in_progress"}
      /\ is_downloading' = is_downloading \ {u}
  BY <1>1, <1>2, Names DEF Answered, SourceAnswered, PartAnswered, PartReplies
<1> HIDE DEF u, s
<1>7. Settles
  BY <1>2, <1>6 DEF Settles
<1>8. ASSUME NEW v \in Users, status'[v] = "in_progress"
      PROVE  Waiting(v)'
  <2>1. v # u /\ status[v] = "in_progress"
    BY <1>2, <1>6, <1>8
  <2>2. Waiting(v) /\ request_index[v] # s
    BY <2>1 DEF HeldInv, Waiting, u
  <2> QED
    BY <1>2, <1>3, <1>5, <2>2, NullsAssumption DEF Waiting
<1>9. HeldInv'
  BY <1>2, <1>3, <1>4, <1>6, <1>7, <1>8 DEF HeldInv, Settles
<1> QED
  BY <1>3, <1>7, <1>9

(* Every step keeps the invariant of the downloaders.                      *)
LEMMA NextHeld ==
  ASSUME TypeInv, HeldInv, [Next]_vars
  PROVE  HeldInv'
<1>0. is_downloading' \subseteq Users
  BY NextType DEF TypeInv, TypeOK, DownloaderTypeOK
<1>1. CASE UNCHANGED vars
  <2>1. ClientInv'
    BY NextClientInv DEF HeldInv
  <2> QED
    BY <1>1, <2>1 DEF vars, clientVars, downloaderVars, HeldInv, Waiting, Open
<1>2. ASSUME NEW t \in Threads, Effect(t)
      PROVE  HeldInv'
  <2>1. CASE /\ Quiet
             /\ Settles
             /\ \A v \in is_downloading' : v \in is_downloading /\ status'[v] = status[v]
    <3>1. ClientInv'
      BY NextClientInv DEF HeldInv
    <3> QED
      BY <1>0, <2>1, <3>1 DEF Quiet, Settles, HeldInv, Waiting, Open
  <2> QED
    BY <1>2, <2>1, StartHeld, CleanupHeld, AnsweredHeld DEF Effect
<1> QED
  BY <1>1, <1>2, NextEffect DEF TypeInv

(* HeldInv is an invariant.                                                *)
LEMMA HeldInvariant == Spec => []HeldInv
<1>1. Init => HeldInv
  BY InitClientInv DEF Init, DownloadersInit, HeldInv
<1>2. TypeInv /\ HeldInv /\ [Next]_vars => HeldInv'
  BY NextHeld
<1> QED
  BY <1>1, <1>2, TypeInvariant, PTL DEF Spec

-----------------------------------------------------------------------------
(* Source d holds no slot and waits for nothing.                           *)
Clear(d) == request_index[d] = NoSlot /\ status[d] # "in_progress"

(* Nothing that source d has is newer than what is offered.                *)
Adopted(d) == version[d] <= available /\ list_version[d] <= servers_version

(* The invariant of the check: which sources are clear, at each place of   *)
(* its loops, and what the last loop has adopted so far.                   *)
CheckInv ==
  /\ game # "finish" => \A d \in Sources : d > Reach => Clear(d)
  /\ game = "idle" /\ ~in_progress => \A d \in Sources : Clear(d)
  /\ game = "check" /\ ~in_progress => \A d \in Sources : d < next => Clear(d)
  /\ game = "cancel" => \A d \in Sources : d < next => Clear(d)
  /\ game = "finish" =>
       /\ ~in_progress
       /\ \A d \in Sources : status[d] # "in_progress"
       /\ \A d \in Sources : d < next => Clear(d)
       /\ \A d \in Sources : d < next /\ status[d] = "succeeded" => Adopted(d)

(* The two invariants together.                                            *)
VersionInv == HeldInv /\ CheckInv

(* No source begins a download or changes its index.                       *)
SourcesSettle ==
  \A d \in Sources :
    /\ request_index'[d] = request_index[d]
    /\ status'[d] = "in_progress" => status[d] = "in_progress"

(* A step in which the sources settle keeps the invariant of the check.    *)
LEMMA SettledCheck ==
  ASSUME CheckInv, SourcesSettle, UNCHANGED <<game, next, in_progress, servers, servers_version, available>>,
         game = "finish" => \A d \in Sources :
           /\ version'[d] = version[d] /\ list_version'[d] = list_version[d]
           /\ status'[d] = "succeeded" => status[d] = "succeeded"
  PROVE  CheckInv'
<1>1. \A d \in Sources : Clear(d) => Clear(d)'
  BY DEF SourcesSettle, Clear
<1>2. Reach' = Reach
  BY DEF Reach, Last
<1> QED
  BY <1>1, <1>2 DEF CheckInv, SourcesSettle, Adopted

(* The download thread thinks for the request of the part: it can only be  *)
(* answered to the part, not to a source.                                  *)
LEMMA OwnAnswer ==
  ASSUME TypeInv, HeldInv, Part \in is_downloading, NEW t \in Threads,
         Think(t, request_index[Part])
  PROVE  /\ UNCHANGED <<request_index, version, list_version>>
         /\ \A d \in Sources : status'[d] = status[d]
<1>1. Waiting(Part)
  BY Names DEF HeldInv
<1>2. PICK i \in Ids : connection[i] = request_index[Part]
  BY <1>1 DEF Waiting, Open
<1>3. request_id[request_index[Part]] = i
  BY <1>1, <1>2 DEF Waiting, Open, HeldInv, ClientInv, LiveRequestsHeld
<1>4. Target(i) = request_index[Part]
  BY <1>2 DEF Target
<1>5. user[Target(i)] = Part
  BY <1>1, <1>4 DEF Waiting
<1>6. CASE UNCHANGED <<downloaderVars, processVars>>
  BY <1>6 DEF downloaderVars, processVars
<1>7. CASE Answered(Part)
  <2>1. PICK reply \in PartReplies : PartAnswered(reply) /\ UNCHANGED processVars
    BY <1>7, Names DEF Answered
  <2>2. Part # 1 /\ \A d \in Sources : d # Part /\ d \in Users
    BY Names
  <2> QED
    BY <2>1, <2>2 DEF PartAnswered, processVars, TypeInv, TypeOK, DownloaderTypeOK
<1> QED
  BY <1>3, <1>5, <1>6, <1>7 DEF Think

(* Start touches no other downloader.                                      *)
LEMMA StartedOthers ==
  ASSUME TypeInv, NEW t \in Threads, NEW u \in Users, Start(t, u)
  PROVE  /\ \A v \in Users \ {u} : request_index'[v] = request_index[v] /\ status'[v] = status[v]
         /\ status'[u] # "in_progress" => request_index'[u] = NoSlot
<1>1. ASSUME NEW s \in Slots \union {NoSlot}, StartedIn(u, s)
      PROVE  /\ \A v \in Users \ {u} :
                  request_index'[v] = request_index[v] /\ status'[v] = status[v]
             /\ status'[u] # "in_progress" => request_index'[u] = NoSlot
  BY <1>1 DEF StartedIn, TypeInv, TypeOK, DownloaderTypeOK
<1> QED
  BY <1>1 DEF Start

(* Stop leaves the downloader without a slot and not in progress.          *)
LEMMA StopHeld ==
  ASSUME TypeInv, HeldInv, NEW t \in Threads, NEW u \in Users, Stop(t, u)
  PROVE  /\ \A v \in Users : status'[v] \in {status[v], "cancelled"}
         /\ request_index' = [request_index EXCEPT ![u] = NoSlot]
         /\ status'[u] # "in_progress"
<1>1. is_downloading' \subseteq is_downloading \ Cancelled(u)
  BY DEF Stop
<1> QED
  BY <1>1, CleanupHeld DEF Stop

(* Stop clears its source, and unclears none.                              *)
LEMMA StopClear ==
  ASSUME TypeInv, HeldInv, NEW t \in Threads, NEW d \in Sources, Stop(t, d)
  PROVE  /\ Clear(d)'
         /\ \A e \in Sources : Clear(e) => Clear(e)'
         /\ \A e \in Sources : status'[e] \in {status[e], "cancelled"}
<1>1. d \in Users /\ Sources \subseteq Users
  BY Names
<1>2. request_index \in [Users -> Slots \union {NoSlot}]
  BY DEF TypeInv, TypeOK, DownloaderTypeOK
<1> QED
  BY <1>1, <1>2, StopHeld DEF Clear

(* The steps of the part downloader may cancel a source, but begin none    *)
(* and change nothing that the check has read.                             *)
LEMMA PartSteps ==
  ASSUME TypeInv, HeldInv,
         CleanupMapDownload \/ PartStart \/ PartRetry \/ PartUpdate \/ PartEnded
  PROVE  /\ SourcesSettle
         /\ UNCHANGED <<game, next, in_progress, servers, servers_version, available,
                      version, list_version>>
         /\ \A d \in Sources : status'[d] \in {status[d], "cancelled"}
<1> USE Names
<1>1. request_index \in [Users -> Slots \union {NoSlot}]
  BY DEF TypeInv, TypeOK, DownloaderTypeOK
<1>2. ASSUME NEW t \in Threads, Stop(t, Part)
      PROVE  /\ SourcesSettle
             /\ \A d \in Sources : status'[d] \in {status[d], "cancelled"}
  <2>1. /\ \A v \in Users : status'[v] \in {status[v], "cancelled"}
        /\ request_index' = [request_index EXCEPT ![Part] = NoSlot]
    BY <1>2, StopHeld
  <2> QED
    BY <1>1, <2>1 DEF SourcesSettle
<1>3. ASSUME Start(Download, Part)
      PROVE  /\ SourcesSettle
             /\ \A d \in Sources : status'[d] \in {status[d], "cancelled"}
  <2>1. \A v \in Users \ {Part} :
          request_index'[v] = request_index[v] /\ status'[v] = status[v]
    BY <1>3, StartedOthers
  <2> QED
    BY <2>1 DEF SourcesSettle
<1>4. CASE CleanupMapDownload \/ PartStart \/ PartEnded
  BY <1>2, <1>3, <1>4 DEF CleanupMapDownload, PartStart, PartEnded, checkVars
<1>5. CASE PartRetry
  <2>1. CASE Start(Download, Part)
    BY <1>3, <1>5, <2>1 DEF PartRetry, checkVars
  <2>2. CASE /\ CleanupHTTPRequest(Download, Part)
             /\ is_downloading' = is_downloading \ Cancelled(Part)
    <3>1. /\ \A v \in Users : status'[v] \in {status[v], "cancelled"}
          /\ request_index' = [request_index EXCEPT ![Part] = NoSlot]
      BY <2>2, CleanupHeld
    <3> QED
      BY <1>1, <1>5, <3>1 DEF PartRetry, SourcesSettle, checkVars
  <2> QED
    BY <1>5, <2>1, <2>2 DEF PartRetry
<1>6. CASE PartUpdate
  <2>1. CASE Think(Download, request_index[Part]) /\ UNCHANGED notProcessVars
    <3>1. /\ UNCHANGED <<request_index, version, list_version>>
          /\ \A d \in Sources : status'[d] = status[d]
      BY <1>6, <2>1, OwnAnswer DEF PartUpdate
    <3> QED
      BY <2>1, <3>1 DEF SourcesSettle, notProcessVars, settingsVars
  <2>2. CASE TimedOut({Part}) /\ UNCHANGED <<request_index, checkVars>>
    BY <2>2 DEF TimedOut, SourcesSettle, checkVars
  <2> QED
    BY <1>6, <2>1, <2>2 DEF PartUpdate
<1> QED
  BY <1>4, <1>5, <1>6

(* Update of the client keeps the invariant of the check.                  *)
LEMMA ClientUpdateCheck ==
  ASSUME TypeInv, VersionInv, ClientUpdate
  PROVE  CheckInv'
<1> USE Names
<1>1. PICK s \in in_use \ manual_think : Think(Game, s)
  BY DEF ClientUpdate
<1>2. SourcesSettle
  <2>1. CASE UNCHANGED downloaderVars
    BY <2>1 DEF downloaderVars, SourcesSettle
  <2>2. CASE /\ RequestComplete(Game, request_id[s])
             /\ Answered(user[Target(request_id[s])])
    <3>1. request_id[s] \in Ids
      BY <2>2 DEF RequestComplete, Target
    <3>2. Settles /\ UNCHANGED request_index
      BY <2>2, <3>1, AnsweredHeld DEF VersionInv
    <3> QED
      BY <3>2 DEF Settles, SourcesSettle
  <2> QED
    BY <1>1, <2>1, <2>2 DEF Think
<1> QED
  BY <1>2, SettledCheck DEF ClientUpdate, notProcessVars, settingsVars, VersionInv

(* Starting a source keeps it.                                             *)
LEMMA StartSourceCheck ==
  ASSUME TypeInv, VersionInv, NEW d \in Sources, StartSource(d)
  PROVE  CheckInv'
<1> USE Names
<1>1. /\ \A e \in Sources : e # d => request_index'[e] = request_index[e] /\ status'[e] = status[e]
      /\ status'[d] # "in_progress" => Clear(d)'
  BY StartedOthers DEF StartSource, Clear
<1>2. /\ game = "check" /\ next = d /\ next \in 1 .. Last
      /\ d <= Reach /\ Reach \in 1 .. Last
  BY ReachType DEF StartSource, TypeInv, TypeOK, CheckTypeOK
<1>3. /\ servers' = servers /\ Reach' = Reach
      /\ ~in_progress' => ~in_progress /\ status'[d] # "in_progress"
  BY DEF StartSource, settingsVars, Reach, Last
<1>4. \/ d = Reach /\ game' = "idle"
      \/ game' = "check" /\ next' = d + 1
  BY <1>2 DEF StartSource, Continue, Reach
<1>5. \A e \in Sources : e # d /\ Clear(e) => Clear(e)'
  BY <1>1 DEF Clear
<1>6. \A e \in Sources : e > Reach => Clear(e)'
  BY <1>2, <1>5 DEF VersionInv, CheckInv
<1>7. ~in_progress' => \A e \in Sources : e <= d => Clear(e)'
  BY <1>1, <1>2, <1>3, <1>5 DEF VersionInv, CheckInv
<1> QED
  BY <1>2, <1>3, <1>4, <1>6, <1>7 DEF CheckInv

(* Cancelling a source keeps it.                                           *)
LEMMA CancelSourceCheck ==
  ASSUME TypeInv, VersionInv, NEW d \in Sources, CancelSource(d)
  PROVE  CheckInv'
<1> USE Names
<1>1. Clear(d)' /\ \A e \in Sources : Clear(e) => Clear(e)'
  BY StopClear DEF CancelSource, VersionInv
<1>2. game = "cancel" /\ next = d /\ next \in 1 .. Last
  BY DEF CancelSource, TypeInv, TypeOK, CheckTypeOK
<1>3. servers' = servers /\ Reach' = Reach
  BY DEF CancelSource, settingsVars, Reach, Last
<1>4. \/ d = Last /\ game' = "idle"
      \/ game' = "cancel" /\ next' = d + 1
  BY <1>2 DEF CancelSource, Continue
<1>5. \A e \in Sources : e > Reach => Clear(e)'
  BY <1>1, <1>2 DEF VersionInv, CheckInv
<1>6. \A e \in Sources : e <= d => Clear(e)'
  BY <1>1, <1>2 DEF VersionInv, CheckInv
<1> QED
  BY <1>2, <1>3, <1>4, <1>5, <1>6 DEF CheckInv

(* Reading a source keeps it, and after the last one the available version *)
(* is the newest.                                                          *)
LEMMA UpdateVersionCheck ==
  ASSUME TypeInv, VersionInv, NEW d \in Sources, UpdateVersion(d)
  PROVE  /\ CheckInv'
         /\ game' = "idle" =>
              \A e \in Sources : status'[e] = "succeeded" => Adopted(e)'
<1> USE Names
<1>1. /\ game = "finish" /\ next = d /\ next \in 1 .. Last
      /\ ~in_progress' /\ UNCHANGED <<version, list_version>>
      /\ \A e \in Sources : version[e] \in Nat /\ list_version[e] \in Nat
      /\ available \in Nat /\ servers_version \in Nat
  BY DEF UpdateVersion, VersionInv, CheckInv, TypeInv, TypeOK, CheckTypeOK, processVars
<1>2. /\ Clear(d)'
      /\ \A e \in Sources : Clear(e) => Clear(e)'
      /\ \A e \in Sources : status'[e] \in {status[e], "cancelled"}
  <2>1. CASE Stop(Game, d)
    BY <2>1, StopClear DEF VersionInv
  <2>2. CASE status[d] = "idle" /\ UNCHANGED downloaderVars
    BY <2>2 DEF downloaderVars, Clear, VersionInv, HeldInv
  <2> QED
    BY <2>1, <2>2 DEF UpdateVersion
<1>3. \/ d = Last /\ game' = "idle"
      \/ game' = "finish" /\ next' = d + 1
  BY <1>1 DEF UpdateVersion, Continue
<1>4. \A e \in Sources : e <= d => Clear(e)'
  BY <1>1, <1>2 DEF VersionInv, CheckInv
<1>5. \A e \in Sources : status'[e] # "in_progress"
  BY <1>1, <1>2 DEF VersionInv, CheckInv
<1>6. /\ available' \in Nat /\ available <= available'
      /\ servers_version' \in Nat /\ servers_version <= servers_version'
      /\ status'[d] = "succeeded" => Adopted(d)'
  <2>1. CASE status'[d] = "succeeded"
    BY <1>1, <2>1 DEF UpdateVersion, AdoptVersion, AdoptServers, Adopted
  <2>2. CASE status'[d] # "succeeded"
    BY <1>1, <2>2 DEF UpdateVersion
  <2> QED
    BY <2>1, <2>2
<1>7. ASSUME NEW e \in Sources, e <= d, status'[e] = "succeeded"
      PROVE  Adopted(e)'
  <2>1. CASE e = d
    BY <1>1, <1>6, <1>7, <2>1
  <2>2. CASE e # d
    <3>1. e < next /\ status[e] = "succeeded"
      BY <1>1, <1>2, <1>7, <2>2
    <3>2. Adopted(e)
      BY <1>1, <3>1 DEF VersionInv, CheckInv
    <3> QED
      BY <1>1, <1>6, <3>2 DEF Adopted
  <2> QED
    BY <2>1, <2>2
<1> QED
  BY <1>1, <1>3, <1>4, <1>5, <1>7 DEF CheckInv

(* Update of the check keeps it: the sources are read only when none is in *)
(* progress.                                                               *)
LEMMA UpdateCheck ==
  ASSUME TypeInv, VersionInv, NEW users, Update(users)
  PROVE  CheckInv'
<1> USE Names
<1>1. SourcesSettle
  BY DEF Update, TimedOut, SourcesSettle
<1>2. /\ game = "idle" /\ servers' = servers /\ Reach' = Reach
      /\ in_progress' = \E d \in Sources : status'[d] = "in_progress"
  BY DEF Update, Reach, Last
<1>3. \A d \in Sources : Clear(d) => Clear(d)'
  BY <1>1 DEF SourcesSettle, Clear
<1>4. CASE in_progress'
  <2>1. game' = "idle"
    BY <1>2, <1>4 DEF Update
  <2> QED
    BY <1>2, <1>3, <1>4, <2>1 DEF VersionInv, CheckInv
<1>5. CASE ~in_progress'
  <2>1. game' = "finish" /\ next' = 1
    BY <1>5 DEF Update, Begin
  <2>2. \A d \in Sources : status'[d] # "in_progress"
    BY <1>2, <1>5
  <2> QED
    BY <1>5, <2>1, <2>2 DEF CheckInv
<1> QED
  BY <1>4, <1>5

(* A new check, a cancellation, or neither keeps it.                       *)
LEMMA NewCheckCheck ==
  ASSUME TypeInv, VersionInv, UNCHANGED <<downloaderVars, version, list_version, available>>,
         game = "idle",
         CheckForUpdates \/ NoCheck \/ (in_progress /\ CancelAll)
  PROVE  CheckInv'
<1> USE Names
<1>1. \A d \in Sources : Clear(d)' <=> Clear(d)
  BY DEF Clear, downloaderVars
<1>2. CASE CheckForUpdates
  <2>1. /\ game' = "check" /\ next' = 1 /\ ~in_progress'
        /\ servers' = IF servers = 0 THEN 1 ELSE servers
    BY <1>2 DEF CheckForUpdates, Begin
  <2>2. servers \in Nat /\ Last' = Last
    BY DEF TypeInv, TypeOK, CheckTypeOK, Last
  <2>3. \A d \in Sources : d > Reach' => d > Reach
    BY <2>1, <2>2 DEF Reach
  <2> QED
    BY <1>1, <2>1, <2>3 DEF VersionInv, CheckInv
<1>3. CASE NoCheck
  <2>1. UNCHANGED <<game, next, in_progress, servers>> /\ Reach' = Reach
    BY <1>3 DEF NoCheck, settingsVars, Reach, Last
  <2> QED
    BY <1>1, <2>1 DEF VersionInv, CheckInv
<1>4. CASE in_progress /\ CancelAll
  <2>1. game' = "cancel" /\ next' = 1 /\ servers' = servers /\ Reach' = Reach
    BY <1>4 DEF CancelAll, Begin, settingsVars, Reach, Last
  <2> QED
    BY <1>1, <2>1 DEF VersionInv, CheckInv
<1> QED
  BY <1>2, <1>3, <1>4

(* The steps of the version check keep it.                                 *)
LEMMA VersionCheckStepCheck ==
  ASSUME TypeInv, VersionInv, VersionCheckStep
  PROVE  CheckInv'
<1>1. CASE /\ TestForUpdate \/ InitializeForNewMap \/ NextDay
           /\ UNCHANGED <<clientVars, downloaderVars>>
  <2>1. CASE TestForUpdate
    BY <1>1, <2>1, NewCheckCheck DEF TestForUpdate, processVars
  <2>2. CASE InitializeForNewMap
    BY <1>1, <2>2, NewCheckCheck
       DEF InitializeForNewMap, InitializeForNewMap_User, InitializeForNewMap_Dedi,
           processVars
  <2>3. CASE NextDay
    BY <1>1, <2>3, SettledCheck
       DEF NextDay, processVars, downloaderVars, SourcesSettle, VersionInv
  <2> QED
    BY <1>1, <2>1, <2>2, <2>3
<1> QED
  BY <1>1, StartSourceCheck, CancelSourceCheck, UpdateVersionCheck, UpdateCheck
     DEF VersionCheckStep

(* Every step keeps VersionInv.                                            *)
LEMMA NextVersion ==
  ASSUME TypeInv, VersionInv, [Next]_vars
  PROVE  VersionInv'
<1>0. HeldInv'
  BY NextHeld DEF VersionInv
<1>1. CASE UNCHANGED <<downloaderVars, checkVars>>
  BY <1>0, <1>1, SettledCheck DEF downloaderVars, checkVars, SourcesSettle, VersionInv
<1>2. CASE CleanupMapDownload \/ PartStart \/ PartRetry \/ PartUpdate \/ PartEnded
  <2>1. /\ SourcesSettle
        /\ UNCHANGED <<game, next, in_progress, servers, servers_version, available,
                      version, list_version>>
        /\ \A d \in Sources : status'[d] \in {status[d], "cancelled"}
    BY <1>2, PartSteps DEF VersionInv
  <2> QED
    BY <1>0, <2>1, SettledCheck DEF VersionInv
<1> QED
  BY <1>0, <1>1, <1>2, ClientUpdateCheck, VersionCheckStepCheck
     DEF Next, StartDownloadThread, PartCancelled, ThreadExits, vars, VersionInv

(* VersionInv is an invariant.                                             *)
LEMMA VersionInvariant == Spec => []VersionInv
<1>1. Init => CheckInv
  <2>1. ASSUME Init, NEW d \in Sources
        PROVE  Clear(d)
    BY <2>1, Names DEF Init, DownloadersInit, Clear
  <2> QED
    BY <2>1 DEF Init, CheckInit, CheckInv
<1>2. Init => HeldInv
  BY InitClientInv DEF Init, DownloadersInit, HeldInv
<1>3. TypeInv /\ VersionInv /\ [Next]_vars => VersionInv'
  BY NextVersion
<1> QED
  BY <1>1, <1>2, <1>3, TypeInvariant, PTL DEF Spec, VersionInv

(* Between two checks no source holds a slot or waits for an answer, also  *)
(* when a map was loaded in the middle of a check or the map download      *)
(* cancelled a source (VersionCheck.cpp:243-322).                          *)
THEOREM ChecksHoldNothingBetween == Spec => []NothingHeldBetweenChecks
<1>1. VersionInv => NothingHeldBetweenChecks
  BY DEF VersionInv, CheckInv, NothingHeldBetweenChecks, Clear
<1> QED
  BY <1>1, VersionInvariant, PTL

(* When the last source has been read, none that succeeded has a version   *)
(* newer than the available one, or a list newer than that of the settings *)
(* (VersionCheck.cpp:350-394).                                             *)
THEOREM NewestIsAdopted == Spec => NewestAdopted
<1>1. ASSUME TypeInv, VersionInv, [Next]_vars, game = "finish", game' = "idle"
      PROVE  \A d \in Sources : status'[d] = "succeeded" => Adopted(d)'
  <2>1. CASE UNCHANGED checkVars
    BY <1>1, <2>1 DEF checkVars
  <2>2. CASE CleanupMapDownload \/ PartStart \/ PartRetry \/ PartUpdate \/ PartEnded
    BY <1>1, <2>2, PartSteps DEF VersionInv
  <2>3. CASE ClientUpdate
    BY <1>1, <2>3 DEF ClientUpdate
  <2>4. CASE VersionCheckStep
    BY <1>1, <2>4, UpdateVersionCheck
       DEF VersionCheckStep, StartSource, CancelSource, Update, TestForUpdate,
           InitializeForNewMap, NextDay
  <2> QED
    BY <1>1, <2>1, <2>2, <2>3, <2>4
       DEF Next, StartDownloadThread, PartCancelled, ThreadExits, vars
<1>2. TypeInv /\ VersionInv /\ [Next]_vars =>
        [game = "finish" /\ game' = "idle" =>
           \A d \in Sources : status'[d] = "succeeded" =>
             version'[d] <= available' /\ list_version'[d] <= servers_version'
        ]_<<checkVars, status>>
  BY <1>1 DEF Adopted
<1> QED
  BY <1>2, TypeInvariant, VersionInvariant, PTL DEF Spec, NewestAdopted

-----------------------------------------------------------------------------
(* What is offered has been published: the available version, the version  *)
(* of the list of servers, and the versions that the sources have, were in *)
(* documents received in this session, or are the installed one, however   *)
(* many checks were cancelled and whatever document a source has kept from *)
(* an earlier one.  The version of a list is that of a document which had  *)
(* one, though perhaps no server in it, and urls are those of a document   *)
(* with urls (VersionCheck.cpp:350-394, VersionCheck.hpp:162-221).         *)
Published      == VersionsOf(received) \union {0}
PublishedLists == VersionsOf({r \in received : r.list # "none"}) \union {0}

OffersPublished ==
  /\ available \in Published /\ servers_version \in PublishedLists
  /\ \A d \in Sources : version[d] \in Published /\ list_version[d] \in PublishedLists
  /\ version_url_list # {} => \E r \in received : r.list = "urls"
  /\ \A d \in Sources : document[d] # NoDocument => document[d] \in received

(* What is offered only gets newer, and it changes only to what a source   *)
(* has whose download succeeded (VersionCheck.cpp:350-394).                *)
OffersGrow ==
  [][/\ available' >= available /\ servers_version' >= servers_version
     /\ available' # available =>
          \E d \in Sources : status'[d] = "succeeded" /\ available' = version[d]
     /\ servers_version' # servers_version =>
          \E d \in Sources : status'[d] = "succeeded" /\ servers_version' = list_version[d]
   ]_vars

(* A source keeps its document or loses it.                                *)
DocumentsKept == \A d \in Sources : document'[d] \in {document[d], NoDocument}

(* What the offers may become when no source is answered.                  *)
OffersFrom ==
  /\ \/ UNCHANGED available
     \/ \E d \in Sources : /\ status'[d] = "succeeded"
                           /\ available' = version[d] /\ version[d] > available
  /\ \/ UNCHANGED servers_version
     \/ \E d \in Sources : /\ status'[d] = "succeeded"
                           /\ servers_version' = list_version[d]
                           /\ servers_version < list_version[d]

(* The step of a source that is answered, and every other step.            *)
AnswerStep ==
  /\ UNCHANGED <<available, servers_version>>
  /\ \E u : Answered(u)

OtherStep == DocumentsKept /\ OffersFrom /\ UNCHANGED processVars

(* Starting and stopping a downloader leaves documents or clears them.     *)
LEMMA DownloaderDocuments ==
  ASSUME NEW t, NEW u, Start(t, u) \/ Stop(t, u) \/ CleanupHTTPRequest(t, u)
  PROVE  DocumentsKept
<1>1. CASE Start(t, u)
  BY <1>1 DEF Start, StartedIn, DocumentsKept
<1>2. CASE CleanupHTTPRequest(t, u)
  BY <1>2, Names DEF CleanupHTTPRequest, DocumentsKept
<1> QED
  BY <1>1, <1>2 DEF Stop

(* The steps of the version check are such steps.                          *)
LEMMA CheckOffers ==
  ASSUME VersionCheckStep
  PROVE  OtherStep
<1>1. ASSUME NEW d \in Sources, StartSource(d) \/ CancelSource(d)
      PROVE  OtherStep
  BY <1>1, DownloaderDocuments
     DEF StartSource, CancelSource, settingsVars, OtherStep, OffersFrom
<1>2. ASSUME NEW d \in Sources, UpdateVersion(d)
      PROVE  OtherStep
  <2>1. DocumentsKept
    <3>1. CASE Stop(Game, d)
      BY <3>1, DownloaderDocuments
    <3>2. CASE UNCHANGED <<clientVars, downloaderVars>>
      BY <3>2 DEF downloaderVars, DocumentsKept
    <3> QED
      BY <1>2, <3>1, <3>2 DEF UpdateVersion
  <2>2. UNCHANGED processVars
    BY <1>2 DEF UpdateVersion
  <2>3. CASE status'[d] = "succeeded"
    BY <1>2, <2>1, <2>2, <2>3 DEF UpdateVersion, AdoptVersion, AdoptServers, OtherStep,
                                  OffersFrom
  <2>4. CASE status'[d] # "succeeded"
    BY <1>2, <2>1, <2>2, <2>4 DEF UpdateVersion, OtherStep, OffersFrom
  <2> QED
    BY <2>3, <2>4
<1>3. ASSUME NEW users, Update(users)
      PROVE  OtherStep
  BY <1>3 DEF Update, OtherStep, OffersFrom, DocumentsKept
<1>4. CASE /\ TestForUpdate \/ InitializeForNewMap \/ NextDay
           /\ UNCHANGED <<clientVars, downloaderVars>>
  <2>1. DocumentsKept
    BY <1>4 DEF downloaderVars, DocumentsKept
  <2>2. CASE NextDay
    BY <2>1, <2>2 DEF NextDay, OtherStep, OffersFrom
  <2>3. CASE TestForUpdate \/ InitializeForNewMap
    <3>1. UNCHANGED <<available, processVars>>
      BY <2>3 DEF TestForUpdate, InitializeForNewMap
    <3>2. CheckForUpdates \/ CancelAll \/ NoCheck
      BY <2>3 DEF TestForUpdate, InitializeForNewMap, InitializeForNewMap_User,
                  InitializeForNewMap_Dedi
    <3>3. UNCHANGED servers_version
      BY <3>2 DEF CheckForUpdates, CancelAll, NoCheck, settingsVars
    <3> QED
      BY <2>1, <3>1, <3>3 DEF OtherStep, OffersFrom
  <2> QED
    BY <1>4, <2>2, <2>3
<1> QED
  BY <1>1, <1>2, <1>3, <1>4 DEF VersionCheckStep

(* Every step is of one of the two kinds.                                  *)
LEMMA NextOffers ==
  ASSUME [Next]_vars
  PROVE  AnswerStep \/ OtherStep
<1>1. ASSUME DocumentsKept, UNCHANGED checkVars
      PROVE  OtherStep
  BY <1>1 DEF OtherStep, OffersFrom, checkVars, processVars
<1>2. ASSUME NEW t, NEW s, Think(t, s), UNCHANGED notProcessVars
      PROVE  AnswerStep \/ OtherStep
  BY <1>2 DEF Think, notProcessVars, settingsVars, downloaderVars, AnswerStep, OtherStep,
              OffersFrom, DocumentsKept
<1>3. CASE UNCHANGED <<document, checkVars>>
  BY <1>1, <1>3 DEF DocumentsKept
<1>4. CASE ClientUpdate
  BY <1>2, <1>4 DEF ClientUpdate
<1>5. CASE PartUpdate
  BY <1>2, <1>3, <1>5 DEF PartUpdate
<1>6. CASE CleanupMapDownload \/ PartStart \/ PartRetry \/ PartEnded
  BY <1>1, <1>6, DownloaderDocuments
     DEF CleanupMapDownload, PartStart, PartRetry, PartEnded
<1> QED
  BY <1>3, <1>4, <1>5, <1>6, CheckOffers
     DEF Next, StartDownloadThread, PartCancelled, ThreadExits, vars, downloaderVars

(* An answer keeps the offers published: what it stores is the version of  *)
(* the document received, or of the one that was there.                    *)
LEMMA AnsweredOffers ==
  ASSUME TypeInv, OffersPublished, AnswerStep
  PROVE  OffersPublished'
<1> USE Names
<1>1. /\ document \in [Users -> Documents \union {NoDocument}]
      /\ version \in [Sources -> 0 .. MaxVersion]
      /\ list_version \in [Sources -> 0 .. MaxVersion]
  BY DEF TypeInv, TypeOK, DownloaderTypeOK, CheckTypeOK
<1>2. PICK u : Answered(u)
  BY DEF AnswerStep
<1>3. CASE UNCHANGED <<document, processVars>>
  BY <1>3 DEF AnswerStep, OffersPublished, Published, PublishedLists, VersionsOf, processVars
<1>4. ASSUME u \in Sources, NEW reply \in Replies, SourceAnswered(u, reply)
      PROVE  OffersPublished'
  <2> DEFINE root == Parsed(u, reply)
  <2>1. /\ received' = received \union (Documents \intersect {reply})
        /\ document' = [document EXCEPT ![u] = root]
        /\ ProcessVersionDocument(u, reply)
    BY <1>4 DEF SourceAnswered
  <2>2. received \subseteq received' /\ UNCHANGED <<available, servers_version>>
    BY <2>1 DEF AnswerStep
  <2>3. root # NoDocument => root \in received'
    <3>1. CASE root = document[u]
      BY <1>4, <2>2, <3>1 DEF OffersPublished
    <3>2. CASE root = NoDocument
      BY <3>2
    <3>3. CASE root = reply /\ reply \in Documents
      BY <2>1, <3>3
    <3> QED
      BY <3>1, <3>2, <3>3 DEF Parsed, Replies
  <2>4. \A d \in Sources : version'[d] # version[d] =>
          root # NoDocument /\ version'[d] = root.version
    BY <1>1, <2>1 DEF ProcessVersionDocument
  <2>5. \A d \in Sources : list_version'[d] # list_version[d] =>
          root # NoDocument /\ root.list # "none" /\ list_version'[d] = root.version
    BY <1>1, <2>1 DEF ProcessVersionDocument
  <2>6. \A d \in Sources : document'[d] \in {document[d], root}
    BY <1>1, <2>1
  <2>7. version_url_list' # version_url_list => root # NoDocument /\ root.list = "urls"
    BY <2>1 DEF ProcessVersionDocument
  <2> HIDE DEF root
  <2>8. \A d \in Sources : version'[d] \in Published' /\ list_version'[d] \in PublishedLists'
    BY <2>2, <2>3, <2>4, <2>5 DEF OffersPublished, Published, PublishedLists, VersionsOf
  <2>9. available' \in Published' /\ servers_version' \in PublishedLists'
    BY <2>2 DEF OffersPublished, Published, PublishedLists, VersionsOf
  <2>10. version_url_list' # {} => \E r \in received' : r.list = "urls"
    BY <2>2, <2>3, <2>7 DEF OffersPublished
  <2>11. \A d \in Sources : document'[d] # NoDocument => document'[d] \in received'
    BY <2>2, <2>3, <2>6 DEF OffersPublished
  <2> QED
    BY <2>8, <2>9, <2>10, <2>11 DEF OffersPublished
<1> QED
  BY <1>2, <1>3, <1>4 DEF Answered, PartAnswered

(* All that is offered has been published, for any number of sources,      *)
(* documents and checks.                                                   *)
THEOREM OffersArePublished == Spec => []OffersPublished
<1>1. Init => OffersPublished
  BY Names DEF Init, DownloadersInit, CheckInit, OffersPublished, Published, PublishedLists
<1>2. TypeInv /\ OffersPublished /\ [Next]_vars => OffersPublished'
  <2>1. ASSUME OffersPublished, OtherStep
        PROVE  OffersPublished'
    BY <2>1 DEF OtherStep, DocumentsKept, OffersFrom, OffersPublished, Published,
                PublishedLists, VersionsOf, processVars
  <2> QED
    BY <2>1, AnsweredOffers, NextOffers
<1> QED
  BY <1>1, <1>2, TypeInvariant, PTL DEF Spec

(* Offers only get newer, and come from a source that succeeded.           *)
THEOREM OffersOnlyGrow == Spec => OffersGrow
<1>1. TypeInv /\ [Next]_vars =>
        [/\ available' >= available /\ servers_version' >= servers_version
         /\ available' # available =>
              \E d \in Sources : status'[d] = "succeeded" /\ available' = version[d]
         /\ servers_version' # servers_version =>
              \E d \in Sources : status'[d] = "succeeded" /\ servers_version' = list_version[d]
        ]_vars
  <2>1. ASSUME TypeInv
        PROVE  /\ available \in Nat /\ servers_version \in Nat
               /\ \A d \in Sources : version[d] \in Nat /\ list_version[d] \in Nat
    BY <2>1, SourcesAssumption DEF TypeInv, TypeOK, CheckTypeOK
  <2> QED
    BY <2>1, NextOffers DEF AnswerStep, OtherStep, OffersFrom
<1> QED
  BY <1>1, TypeInvariant, PTL DEF Spec, OffersGrow
-----------------------------------------------------------------------------
(***************************************************************************)
(* How a slot is lost. CheckForUpdates of a user does not ask whether a    *)
(* check is running, and Start overwrites the index it finds.              *)
(***************************************************************************)

(* A slot is lost only when a user's game starts a source that still holds *)
(* it, and no other slot is lost with it: CheckForUpdates starts the       *)
(* sources whatever they do (VersionCheck.cpp:286-320), and only the       *)
(* dedicated server asks before whether a check is in progress             *)
(* (VersionCheckDedi.cpp:40, VersionCheckClient.cpp:46).                   *)
SlotsLostByRestart ==
  [][\/ LostSlots' \subseteq LostSlots
     \/ \E d \in Sources :
          /\ platform = "user" /\ StartSource(d) /\ request_index[d] # NoSlot
          /\ LostSlots' \subseteq LostSlots \union {request_index[d]}]_vars

(* Who is started with an index: a dedicated server starts its sources     *)
(* when they are clear, and the download thread the part when it holds     *)
(* nothing.                                                                *)
RestartInv ==
  /\ loads = 0 => game = "idle" /\ ~in_progress
  /\ thread \in {"none", "begin"} => request_index[Part] = NoSlot
  /\ platform = "dedi" /\ game = "check" =>
       \A d \in Sources : d >= next => request_index[d] = NoSlot

(* Indexes are given back, but none is lost or taken.                      *)
IndexesKept ==
  /\ \A u \in Users : request_index'[u] \in {request_index[u], NoSlot}
  /\ LostSlots' \subseteq LostSlots

(* Nothing happens to the slots and indexes.                               *)
LEMMA SlotsUnchanged ==
  ASSUME UNCHANGED <<in_use, request_index>>
  PROVE  IndexesKept
  BY DEF IndexesKept, LostSlots

(* Giving a slot back loses none.                                          *)
LEMMA CleanupKeepsIndexes ==
  ASSUME TypeInv, NEW t \in Threads, NEW u \in Users, CleanupHTTPRequest(t, u)
  PROVE  IndexesKept
<1>1. request_index \in [Users -> Slots \union {NoSlot}]
  BY DEF TypeInv, TypeOK, DownloaderTypeOK
<1>2. CASE request_index[u] = NoSlot
  BY <1>2, SlotsUnchanged DEF CleanupHTTPRequest, clientVars
<1>3. CASE request_index[u] # NoSlot
  <2>1. /\ in_use' = in_use \ {request_index[u]}
        /\ request_index' = [request_index EXCEPT ![u] = NoSlot]
    BY <1>3 DEF CleanupHTTPRequest, HTTPRequestAbort
  <2>2. \A v \in Users : request_index'[v] = IF v = u THEN NoSlot ELSE request_index[v]
    BY <1>1, <2>1
  <2>3. LostSlots' \subseteq LostSlots
    BY <2>1, <2>2 DEF LostSlots
  <2> QED
    BY <2>2, <2>3 DEF IndexesKept
<1> QED
  BY <1>2, <1>3

(* Starting a downloader loses the slot it held, if it held one.           *)
LEMMA StartIndexes ==
  ASSUME TypeInv, NEW t \in Threads, NEW u \in Users, Start(t, u)
  PROVE  /\ \A v \in Users \ {u} : request_index'[v] = request_index[v]
         /\ LostSlots' \subseteq LostSlots \union ({request_index[u]} \ {NoSlot})
<1>1. request_index \in [Users -> Slots \union {NoSlot}]
  BY DEF TypeInv, TypeOK, DownloaderTypeOK
<1>2. ASSUME NEW s, StartedIn(u, s), in_use' = in_use \union ({s} \ {NoSlot})
      PROVE  /\ \A v \in Users \ {u} : request_index'[v] = request_index[v]
             /\ LostSlots' \subseteq LostSlots \union ({request_index[u]} \ {NoSlot})
  <2>1. \A v \in Users : request_index'[v] = IF v = u THEN s ELSE request_index[v]
    BY <1>1, <1>2 DEF StartedIn
  <2>2. in_use \subseteq Slots
    BY DEF TypeInv, TypeOK, ClientTypeOK
  <2>3. ASSUME NEW x \in LostSlots', x # request_index[u]
        PROVE  x \in LostSlots
    BY <1>2, <2>1, <2>3 DEF LostSlots
  <2>4. \A x \in LostSlots' : x # NoSlot
    BY <1>2, <2>2, NullsAssumption DEF LostSlots
  <2> QED
    BY <2>1, <2>3, <2>4
<1>3. \A s \in Slots : {s} \ {NoSlot} = {s}
  BY NullsAssumption
<1> QED
  BY <1>2, <1>3 DEF Start, Get, GetRefused, GetFull, clientVars

(* Thinking leaves slots and indexes alone.                                *)
LEMMA ThinkIndexes ==
  ASSUME TypeInv, NEW t, NEW s, Think(t, s)
  PROVE  IndexesKept
  BY SlotsUnchanged, AnsweredType
     DEF Think, RequestProgress, RequestComplete, downloaderVars, TypeInv

(* What a step does to the indexes: it starts a source, or the part, which *)
(* holds nothing then, or it keeps them.                                   *)
LEMMA NextIndexes ==
  ASSUME TypeInv, RestartInv, [Next]_vars
  PROVE  \/ \E d \in Sources : StartSource(d)
         \/ /\ Start(Download, Part) /\ request_index[Part] = NoSlot
            /\ thread' \notin {"none", "begin"} /\ UNCHANGED checkVars
         \/ IndexesKept
<1> USE Names
<1>1. CASE UNCHANGED <<in_use, request_index>>
  BY <1>1, SlotsUnchanged
<1>2. CASE ClientUpdate \/ PartUpdate
  BY <1>1, <1>2, ThinkIndexes DEF ClientUpdate, PartUpdate, clientVars
<1>3. CASE VersionCheckStep
  BY <1>1, <1>3, CleanupKeepsIndexes
     DEF VersionCheckStep, CancelSource, UpdateVersion, Update, Stop, clientVars,
         downloaderVars
<1>4. CASE CleanupMapDownload \/ PartEnded
  BY <1>4, CleanupKeepsIndexes DEF CleanupMapDownload, PartEnded, Stop
<1>5. CASE PartStart
  BY <1>5 DEF PartStart, RestartInv
<1>6. CASE PartRetry
  BY <1>6, CleanupKeepsIndexes DEF PartRetry
<1>7. CASE StartDownloadThread \/ PartCancelled \/ ThreadExits \/ UNCHANGED vars
  BY <1>1, <1>7 DEF StartDownloadThread, PartCancelled, ThreadExits, ThreadEnds, vars,
                    clientVars, downloaderVars
<1> QED
  BY <1>2, <1>3, <1>4, <1>5, <1>6, <1>7 DEF Next

(* Every step keeps RestartInv.                                            *)
LEMMA NextRestart ==
  ASSUME TypeInv, VersionInv, RestartInv, [Next]_vars
  PROVE  RestartInv'
<1> USE Names
<1>0. /\ request_index \in [Users -> Slots \union {NoSlot}]
      /\ loads \in Nat /\ next \in Nat
  BY SourcesAssumption DEF TypeInv, TypeOK, DownloaderTypeOK, CheckTypeOK
<1>1. loads' = 0 => game' = "idle" /\ ~in_progress'
  <2>1. CASE UNCHANGED <<loads, game, in_progress>>
    BY <2>1 DEF RestartInv
  <2>2. CASE VersionCheckStep
    <3>1. CASE TestForUpdate \/ InitializeForNewMap
      BY <1>0, <3>1 DEF TestForUpdate, InitializeForNewMap
    <3>2. CASE NextDay
      BY <3>2 DEF NextDay, RestartInv
    <3>3. ASSUME NEW d \in Sources, StartSource(d) \/ CancelSource(d)
          PROVE  loads' # 0
      BY <3>3 DEF StartSource, CancelSource, RestartInv
    <3>4. ASSUME NEW d \in Sources, UpdateVersion(d)
          PROVE  loads' # 0
      BY <3>4 DEF UpdateVersion, RestartInv
    <3>5. ASSUME NEW users, Update(users)
          PROVE  loads' # 0
      BY <3>5 DEF Update, RestartInv
    <3> QED
      BY <2>2, <3>1, <3>2, <3>3, <3>4, <3>5 DEF VersionCheckStep
  <2> QED
    BY <2>1, <2>2 DEF Next, ClientUpdate, StartDownloadThread, CleanupMapDownload, PartStart,
                      PartRetry, PartUpdate, PartEnded, PartCancelled, ThreadExits,
                      notProcessVars, checkVars, vars
<1>2. thread' \in {"none", "begin"} => request_index'[Part] = NoSlot
  <2>1. CASE thread' \in {"none", "begin"} /\ thread \notin {"none", "begin"}
    <3>1. PICK t \in Threads : Stop(t, Part)
      BY <2>1 DEF Next, ClientUpdate, Think, Answered, PartAnswered, VersionCheckStep,
                  StartDownloadThread, CleanupMapDownload, PartStart, PartRetry, PartUpdate,
                  PartEnded, PartCancelled, ThreadExits, vars
    <3> QED
      BY <1>0, <3>1, StopHeld DEF VersionInv
  <2>2. CASE thread \in {"none", "begin"} /\ \E d \in Sources : StartSource(d)
    BY <1>0, <2>2, StartIndexes DEF StartSource, RestartInv
  <2>3. CASE thread \in {"none", "begin"} /\ IndexesKept
    BY <2>3 DEF IndexesKept, RestartInv
  <2> QED
    BY <2>1, <2>2, <2>3, NextIndexes
<1>3. ASSUME platform' = "dedi", game' = "check", NEW d \in Sources, d >= next'
      PROVE  request_index'[d] = NoSlot
  <2>1. platform = "dedi"
    BY <1>3 DEF Next, ClientUpdate, VersionCheckStep, StartSource, CancelSource,
                UpdateVersion, Update, TestForUpdate, InitializeForNewMap, NextDay,
                StartDownloadThread, CleanupMapDownload, PartStart, PartRetry, PartUpdate,
                PartEnded, PartCancelled, ThreadExits, notProcessVars, checkVars, vars
  <2>2. CASE UNCHANGED <<game, next>>
    <3>1. request_index[d] = NoSlot
      BY <1>3, <2>1, <2>2 DEF RestartInv
    <3>2. CASE \E e \in Sources : StartSource(e)
      BY <1>0, <2>2, <3>2 DEF StartSource, Continue
    <3>3. CASE Start(Download, Part)
      BY <3>1, <3>3, StartIndexes
    <3>4. CASE IndexesKept
      BY <3>1, <3>4 DEF IndexesKept
    <3> QED
      BY <3>2, <3>3, <3>4, NextIndexes
  <2>3. CASE \E e \in Sources : StartSource(e)
    <3>1. PICK e \in Sources : StartSource(e)
      BY <2>3
    <3>2. game = "check" /\ next = e /\ next' = e + 1
      BY <1>3, <3>1 DEF StartSource, Continue
    <3>3. d # e /\ request_index[d] = NoSlot
      BY <1>0, <1>3, <2>1, <3>2 DEF RestartInv
    <3> QED
      BY <3>1, <3>3, StartIndexes DEF StartSource
  <2>4. CASE TestForUpdate /\ UNCHANGED downloaderVars
    <3>1. game = "idle" /\ ~in_progress
      BY <2>4 DEF TestForUpdate, RestartInv
    <3> QED
      BY <2>4, <3>1 DEF VersionInv, CheckInv, Clear, downloaderVars
  <2>5. CASE InitializeForNewMap /\ UNCHANGED downloaderVars
    <3>1. game = "idle" /\ ~in_progress
      BY <1>3, <2>1, <2>5 DEF InitializeForNewMap, InitializeForNewMap_User,
                              InitializeForNewMap_Dedi, NoCheck
    <3> QED
      BY <2>5, <3>1 DEF VersionInv, CheckInv, Clear, downloaderVars
  <2>6. CASE VersionCheckStep
    <3>1. ASSUME NEW e \in Sources, CancelSource(e)
          PROVE  FALSE
      BY <1>3, <3>1 DEF CancelSource, Continue
    <3>2. ASSUME NEW e \in Sources, UpdateVersion(e)
          PROVE  FALSE
      BY <1>3, <3>2 DEF UpdateVersion, Continue
    <3>3. ASSUME NEW users, Update(users)
          PROVE  FALSE
      BY <1>3, <3>3 DEF Update, Begin
    <3> QED
      BY <2>2, <2>3, <2>4, <2>5, <2>6, <3>1, <3>2, <3>3 DEF VersionCheckStep, NextDay
  <2> QED
    BY <2>2, <2>6 DEF Next, ClientUpdate, StartDownloadThread, CleanupMapDownload, PartStart,
                      PartRetry, PartUpdate, PartEnded, PartCancelled, ThreadExits,
                      notProcessVars, checkVars, vars
<1> QED
  BY <1>1, <1>2, <1>3 DEF RestartInv

(* RestartInv is an invariant.                                             *)
LEMMA RestartInvariant == Spec => []RestartInv
<1>1. Init => RestartInv
  BY Names DEF Init, DownloadersInit, CheckInit, RestartInv
<1>2. TypeInv /\ VersionInv /\ RestartInv /\ [Next]_vars => RestartInv'
  BY NextRestart
<1> QED
  BY <1>1, <1>2, TypeInvariant, VersionInvariant, PTL DEF Spec

(* What a step may lose.                                                   *)
LEMMA NextLost ==
  ASSUME TypeInv, RestartInv, [Next]_vars
  PROVE  \/ LostSlots' \subseteq LostSlots
         \/ \E d \in Sources :
              /\ platform = "user" /\ StartSource(d) /\ request_index[d] # NoSlot
              /\ LostSlots' \subseteq LostSlots \union {request_index[d]}
<1> USE Names
<1>1. CASE IndexesKept
  BY <1>1 DEF IndexesKept
<1>2. CASE Start(Download, Part) /\ request_index[Part] = NoSlot
  BY <1>2, StartIndexes
<1>3. CASE \E d \in Sources : StartSource(d)
  <2>1. PICK d \in Sources : StartSource(d)
    BY <1>3
  <2>2. LostSlots' \subseteq LostSlots \union ({request_index[d]} \ {NoSlot})
    BY <2>1, StartIndexes DEF StartSource
  <2>3. platform \in {"user", "dedi"} /\ next = d /\ game = "check" /\ d \in Nat
    BY <2>1, PlatformsAssumption DEF StartSource, TypeInv, TypeOK, CheckTypeOK
  <2>4. platform = "dedi" => request_index[d] = NoSlot
    BY <2>3 DEF RestartInv
  <2> QED
    BY <2>1, <2>2, <2>3, <2>4
<1> QED
  BY <1>1, <1>2, <1>3, NextIndexes

(* Slots are lost in this one way only, for any number of slots, sources,  *)
(* documents and maps.                                                     *)
THEOREM SlotsLostOnlyByRestart == Spec => SlotsLostByRestart
<1>1. TypeInv /\ RestartInv /\ [Next]_vars =>
        [\/ LostSlots' \subseteq LostSlots
         \/ \E d \in Sources :
              /\ platform = "user" /\ StartSource(d) /\ request_index[d] # NoSlot
              /\ LostSlots' \subseteq LostSlots \union {request_index[d]}]_vars
  BY NextLost
<1> QED
  BY <1>1, TypeInvariant, RestartInvariant, PTL DEF Spec, SlotsLostByRestart

(* On a dedicated server the request array never fills up.                 *)
THEOREM DedicatedServerKeepsSlots == Spec => []DedicatedKeepsSlots
<1> DEFINE NoneLost == platform = "dedi" => LostSlots = {}
<1>1. Init => NoneLost
  BY DEF Init, Initialize, LostSlots
<1>2. TypeInv /\ RestartInv /\ NoneLost /\ [Next]_vars => NoneLost'
  <2>1. ASSUME [Next]_vars
        PROVE  platform' = platform
    BY <2>1 DEF Next, ClientUpdate, VersionCheckStep, StartSource, CancelSource,
                UpdateVersion, Update, TestForUpdate, InitializeForNewMap, NextDay,
                StartDownloadThread, CleanupMapDownload, PartStart, PartRetry, PartUpdate,
                PartEnded, PartCancelled, ThreadExits, notProcessVars, checkVars, vars
  <2> QED
    BY <2>1, NextLost
<1>3. MutexLeakNeedsLostSlots /\ NoneLost => DedicatedKeepsSlots
  BY DEF MutexLeakNeedsLostSlots, DedicatedKeepsSlots
<1> QED
  BY <1>1, <1>2, <1>3, TypeInvariant, RestartInvariant, MutexLeaksOnlyAfterLostSlots, PTL
     DEF Spec
=============================================================================
