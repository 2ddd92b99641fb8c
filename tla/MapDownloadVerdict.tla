------------------------- MODULE MapDownloadVerdict -------------------------
(***************************************************************************)
(* What the map download service promises, and the history variables       *)
(* needed to say it.  They observe the steps of module MapDownloadServer   *)
(* and never restrict them.                                                *)
(***************************************************************************)
EXTENDS MapDownloadServer

VARIABLES
  lost,      \* the counters one of whose updates was overwritten by another
  reloaded,  \* definitions were reloaded, whether or not the system was active
  late       \* per worker: its request had passed the test of system_active but
             \* was not counted when StopMapServer saw no request in progress

history == <<lost, reloaded, late>>

HistoryInit ==
  /\ lost = {}
  /\ reloaded = FALSE
  /\ late = [w \in Workers |-> FALSE]

(* A counter is written although it has changed since it was read.         *)
RequestsOverwritten ==
  \E w \in Workers :
    /\ pc[w] \in {"count2", "uncount2"}
    /\ pc'[w] # pc[w]
    /\ reg[w] # requests_in_progress

LocksOverwritten ==
  \E t \in Threads :
    /\ pc[t] \in {"lock2", "unlock", "giveup2"}
    /\ pc'[t] # pc[t]
    /\ reg[t] # lock_count[cur[t]]

HistoryNext ==
  /\ lost' = lost \union (IF RequestsOverwritten THEN {"requests"} ELSE {})
                  \union (IF LocksOverwritten THEN {"locks"} ELSE {})
  /\ reloaded' = (reloaded \/ call' = "reload")
  /\ late' = [w \in Workers |->
                /\ pc'[w] # "idle"
                /\ \/ late[w]
                   \/ /\ pc[Game] = "drain" /\ pc'[Game] = "head"
                      /\ pc[w] \in {"count", "count2"}]

VerdictInit == Init /\ HistoryInit
VerdictNext == Next /\ HistoryNext
VerdictSpec == VerdictInit /\ [][VerdictNext]_<<vars, history>>
FairSpec    == VerdictSpec /\ Fairness

-----------------------------------------------------------------------------
(***************************************************************************)
(* Safety.                                                                 *)
(***************************************************************************)
InProgress(w) ==
  pc[w] \in SearchSteps \union ElementSteps \union {"uncount", "uncount2"}

Unloading == call = "stop" /\ pc[Game] \in {"head", "remove", "busy", "delete", "clear"}

(* As long as no update of it was lost, m_requests_in_progress counts the  *)
(* requests in progress, on every path through ServerCallback.             *)
RequestsCounted ==
  "requests" \notin lost =>
    requests_in_progress = Cardinality({w \in Workers : InProgress(w)})

(* StopMapServer unloads the definitions under no request, except for one  *)
(* that had passed the test of system_active but was not counted yet when  *)
(* StopMapServer found the count to be zero, and unless an update of the   *)
(* count was lost.                                                         *)
StopWaitsForCounted ==
  "requests" \notin lost =>
    \A w \in Workers : Unloading /\ InProgress(w) => late[w]

(* A thread in the middle of a search, holding the mutex of the list, only *)
(* ever touches elements that are allocated and that it holds in the list  *)
(* or that have leaked from it, even while definitions are reloaded.       *)
SearchesLiveElements ==
  \A t \in Threads :
    list_ptr[t] # "none" /\ pc[t] \in ElementSteps => cur[t] \in live

(* A deleted list or element is touched only by a request that             *)
(* StopMapServer did not wait for, by any request if an update of the      *)
(* count of requests was lost, or after a reload.  The game thread never   *)
(* touches one, and lost updates of lock counts alone do no harm.          *)
FaultsExplained ==
  \/ crashed = NoThread
  \/ "requests" \in lost
  \/ reloaded
  \/ crashed # Game /\ late[crashed]

(* From its search to the release, a request uses an allocated element,    *)
(* which is the definition of the map it asked for: nobody deletes it,     *)
(* although between the search and the Lock nothing holds it.  The         *)
(* exceptions are those of FaultsExplained; the pointer of such a request  *)
(* may be to what has been deleted, and to what took its place since.      *)
AnswersRequestedMap ==
  \A w \in Workers :
    list_ptr[w] = "none" /\ pc[w] \in ElementSteps =>
      \/ cur[w] \in live /\ name[cur[w]] = map[w]
      \/ /\ cur[w] = Dangling
         /\ "requests" \in lost \/ reloaded \/ late[w]

(* The service seen as a gate that requests pass.                          *)
AdmittedRequests == {w \in Workers : pc[w] \in {"count", "count2"}}
StopStage ==
  CASE pc[Game] = "drain" -> "waiting"
    [] Unloading          -> "clearing"
    [] OTHER              -> "idle"

Gate == INSTANCE DownloadGate
          WITH open <- system_active, stage <- StopStage,
               admitted <- AdmittedRequests,
               inside <- {w \in Workers : InProgress(w)},
               sound <- "requests" \notin lost

(* The service implements the gate: whatever paths requests take through   *)
(* the callback, none goes in that was not admitted while the system was   *)
(* active, and a stop does not begin to unload before those that were in   *)
(* have left.                                                              *)
GateKept == Gate!Spec

(* "wait until any remaining requests are complete"                        *)
(* (MapDownloadServer.cpp:1142): none is in progress during the unload.    *)
(* The code does not keep it.                                              *)
StopWaitsForAll == \A w \in Workers : Unloading => ~InProgress(w)

(* Definitions are reloaded "without requiring the server to be stopped"   *)
(* (MapDownloadServer.cpp:1259).  The code does not keep it: before any    *)
(* stop, a request can touch what the reload has deleted.                  *)
ReloadIsSafe ==
  (lost = {} /\ \A w \in Workers : ~late[w]) => crashed = NoThread

-----------------------------------------------------------------------------
(***************************************************************************)
(* Liveness, under Fairness.                                               *)
(***************************************************************************)

(* What the liveness properties assume at every state.                     *)
Undisturbed == lost = {} /\ crashed = NoThread

(* StopMapServer returns, unless an update of a counter is lost or a       *)
(* deleted element is touched: the waits for the requests, for the list    *)
(* and for the lock count of each element all end.                         *)
StopReturns ==
  []Undisturbed => (call = "stop" ~> call = "none")

(* The same for a request: it ends, whatever the game thread does.         *)
RequestsEnd ==
  []Undisturbed =>
    \A w \in Workers : pc[w] = "check" ~> pc[w] = "idle"
=============================================================================
