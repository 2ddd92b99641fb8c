------------------------- MODULE MapDownload_proofs -------------------------
(***************************************************************************)
(* Proofs about the map download service, for any number of workers, maps  *)
(* and elements: its type invariant and every safety invariant of module   *)
(* MapDownloadVerdict.  The liveness properties are model-checked only.    *)
(*                                                                         *)
(* Each part adds one inductive invariant to those of the parts before it: *)
(*   TypeInv          types, and what the game thread holds;               *)
(*   RequestsCounted  inductive as it stands;                              *)
(*   StopInv          who may be in progress while the system is stopped;  *)
(*   SearchInv        what a thread touches with the mutex of the list;    *)
(*   PtrInv           what the pointers of the threads point to;           *)
(*   CallInv, SafeInv, CrashInv   why a pointer may dangle.                *)
(***************************************************************************)
EXTENDS MapDownloadVerdict, FiniteSetTheorems, TLAPS

(* The values of a counter, and all that a thread may do next.             *)
Counts == 0 .. Wrap - 1
Steps  == SearchSteps \union ElementSteps \union WorkerSteps \union GameSteps

(* A counter stays a counter, whatever is added or taken.                  *)
LEMMA CountersType ==
  ASSUME NEW n \in Counts
  PROVE  Plus1(n) \in Counts /\ Minus1(n) \in Counts
  BY WrapAssumption, FS_CardinalityType DEF Plus1, Minus1, Counts

(* Below the wrap a counter counts.                                        *)
LEMMA CountersExact ==
  ASSUME NEW n \in Counts
  PROVE  /\ n + 1 < Wrap => Plus1(n) = n + 1
         /\ n > 0 => Minus1(n) = n - 1
  BY WrapAssumption, FS_CardinalityType DEF Plus1, Minus1, Counts

(* What the game thread holds while it removes a definition: it is in the  *)
(* list until RemoveDefinition has taken it out, and then in no list.      *)
GameHolds ==
  /\ pc[Game] \in {"remove", "busy"} => cur[Game] \in definitions
  /\ pc[Game] = "busy" => list_owner = Game
  /\ pc[Game] = "delete" => cur[Game] \in Elements \ definitions

TypeInv == TypeOK /\ GameHolds

(* The end of a search keeps the types.                                    *)
LEMMA SearchedType ==
  ASSUME TypeInv, NEW t \in Threads, NEW e \in Elements \union {NoElement, Dangling},
         Searched(t, e)
  PROVE  /\ pc' \in [Threads -> Steps]
         /\ list_ptr' \in [Threads -> {"none", "live", "dead"}]
         /\ todo' \in [Threads -> SUBSET Elements]
         /\ cur' \in [Threads -> Elements \union {NoElement, Dangling}]
         /\ found' \in [Threads -> Elements \union {NoElement, Dangling}]
         /\ \/ pc'[Game] \notin {"remove", "busy", "delete"}
            \/ pc'[Game] = pc[Game] /\ cur'[Game] = cur[Game]
<1>1. Game \in Threads
  BY DEF Threads
<1>2. pc'= [pc EXCEPT ![t] = pc'[t]] /\ pc'[t] \in {"load", "append", "create", "uncount", "lock"}
  <2>1. CASE t = Game
    BY <2>1 DEF Searched, Goto, TypeInv, TypeOK
  <2>2. CASE t # Game
    BY <2>2 DEF Searched, Goto, TypeInv, TypeOK
  <2> QED
    BY <2>1, <2>2
<1>3. /\ cur' = [cur EXCEPT ![t] = cur'[t]]
      /\ cur'[t] \in Elements \union {NoElement, Dangling}
  BY DEF Searched, TypeInv, TypeOK
<1>4. pc' \in [Threads -> Steps]
  BY <1>2 DEF TypeInv, TypeOK, Steps, SearchSteps, ElementSteps, WorkerSteps, GameSteps
<1>5. cur' \in [Threads -> Elements \union {NoElement, Dangling}]
  BY <1>3 DEF TypeInv, TypeOK
<1>6. /\ list_ptr' \in [Threads -> {"none", "live", "dead"}]
      /\ todo' \in [Threads -> SUBSET Elements]
      /\ found' \in [Threads -> Elements \union {NoElement, Dangling}]
  BY DEF Searched, TypeInv, TypeOK
<1> QED
  BY <1>1, <1>2, <1>3, <1>4, <1>5, <1>6 DEF TypeInv, TypeOK

(* A write of a lock count keeps the types.                                *)
LEMMA WriteLockCountType ==
  ASSUME TypeInv, NEW t \in Threads, NEW step, NEW count \in Counts,
         WriteLockCount(t, step, count)
  PROVE  /\ lock_count' \in [Elements -> 0 .. Wrap - 1]
         /\ reg' \in [Threads -> 0 .. Wrap - 1]
         /\ pc[t] = step
         /\ UNCHANGED <<system_active, requests_in_progress, list_present, definitions,
                       list_owner, live, name, owner, map, list_ptr, todo, found,
                       call, files, created, crashed>>
<1>1. 0 \in Counts
  BY WrapAssumption, FS_CardinalityType DEF Counts
<1>2. lock_count' = [lock_count EXCEPT ![cur[t]] = count] /\ reg' = [reg EXCEPT ![t] = 0]
  BY DEF WriteLockCount
<1>3. lock_count \in [Elements -> Counts] /\ reg \in [Threads -> Counts]
  BY DEF TypeInv, TypeOK, Counts
<1>4. lock_count' \in [Elements -> Counts] /\ reg' \in [Threads -> Counts]
  BY <1>1, <1>2, <1>3
<1> QED
  BY <1>4 DEF Counts, WriteLockCount, At, serviceVars, listVars, gameVars

(* Every step of a search keeps the type invariant.                        *)
LEMMA SearchType ==
  ASSUME TypeInv, NEW t \in Threads, Search(t)
  PROVE  TypeInv'
<1> Game \in Threads /\ NoThread \notin Threads
  BY ThreadsAssumption DEF Threads
<1> USE DEF TypeInv, TypeOK, GameHolds, At, Goto, serviceVars, listVars, heapVars,
            searchVars, gameVars, SearchSteps, ElementSteps, WorkerSteps, GameSteps
<1>0. reg[t] \in Counts /\ Plus1(reg[t]) \in Counts /\ Minus1(reg[t]) \in Counts
  <2>1. reg[t] \in Counts
    BY DEF Counts
  <2> QED
    BY <2>1, CountersType
<1>1. CASE Find(t)
  <2>1. CASE list_present /\ definitions # {}
    BY <1>1, <2>1 DEF Find
  <2>2. CASE ~(list_present /\ definitions # {})
    BY <1>1, <2>2, SearchedType DEF Find, Steps
  <2> QED
    BY <2>1, <2>2
<1>2. CASE LockList(t)
  <2>1. CASE list_owner = NoThread
    BY <1>2, <2>1 DEF LockList, Held
  <2>2. CASE list_owner # NoThread
    BY <1>2, <2>2, SearchedType DEF LockList, Held, Steps
  <2> QED
    BY <2>1, <2>2
<1>3. CASE NextElement(t)
  BY <1>3 DEF NextElement
<1>4. CASE UnlockList(t)
  BY <1>4, SearchedType DEF UnlockList, Freed, Steps
<1>5. CASE Lock(t)
  <2>1. CASE ReadLockCount(t, "lock", "lock2") /\ UNCHANGED found
    BY <2>1 DEF ReadLockCount, Valid
  <2>2. CASE WriteLockCount(t, "lock2", Plus1(reg[t])) /\ Goto(t, "wait") /\ UNCHANGED cur
    BY <1>0, <2>2, WriteLockCountType
  <2> QED
    BY <1>5, <2>1, <2>2 DEF Lock
<1>6. CASE WaitElement(t)
  BY <1>6 DEF WaitElement, Valid
<1>7. CASE Inside(t)
  BY <1>7 DEF Inside, ReadLockCount, Valid
<1>8. CASE Unlock(t)
  BY <1>0, <1>8, WriteLockCountType DEF Unlock
<1>9. CASE ReleaseElement(t)
  BY <1>9 DEF ReleaseElement, Valid, Freed, Leave
<1>10. CASE GiveUp(t)
  <2>1. CASE ReadLockCount(t, "giveup", "giveup2") /\ UNCHANGED found
    BY <2>1 DEF ReadLockCount, Valid
  <2>2. CASE WriteLockCount(t, "giveup2", Minus1(reg[t])) /\ Leave(t)
    BY <1>0, <2>2, WriteLockCountType DEF Leave
  <2> QED
    BY <1>10, <2>1, <2>2 DEF GiveUp
<1>11. CASE Fault(t)
  BY <1>11 DEF Fault
<1> QED
  BY <1>1, <1>2, <1>3, <1>4, <1>5, <1>6, <1>7, <1>8, <1>9, <1>10, <1>11 DEF Search
(* So does every other step of a request.                                  *)
LEMMA WorkerType ==
  ASSUME TypeInv, NEW w \in Workers,
         Request(w) \/ Deny(w) \/ Admit(w) \/ Count(w) \/ Uncount(w)
  PROVE  TypeInv'
<1> Game \in Threads /\ w \in Threads /\ w # Game
  BY ThreadsAssumption DEF Threads
<1> USE DEF TypeInv, TypeOK, GameHolds, At, Goto, serviceVars, listVars, heapVars,
            searchVars, gameVars, SearchSteps, ElementSteps, WorkerSteps, GameSteps
<1>1. CASE Request(w)
  BY <1>1 DEF Request
<1>2. CASE Deny(w)
  BY <1>2 DEF Deny, Done
<1>3. CASE Admit(w)
  BY <1>3 DEF Admit
<1>4. ASSUME NEW step, NEW next \in WorkerSteps, ReadRequests(w, step, next)
      PROVE  TypeInv'
  BY <1>4 DEF ReadRequests
<1>5. ASSUME NEW step, NEW count \in Counts, NEW next \in WorkerSteps \union SearchSteps,
             WriteRequests(w, step, count), Goto(w, next),
             map' \in [Threads -> Maps \union {NoMap}]
      PROVE  TypeInv'
  <2>1. requests_in_progress' \in 0 .. Wrap - 1
    BY <1>5 DEF WriteRequests, Counts
  <2>2. reg' \in [Threads -> 0 .. Wrap - 1]
    BY <1>5, WrapAssumption, FS_CardinalityType DEF WriteRequests
  <2> QED
    BY <1>5, <2>1, <2>2 DEF WriteRequests
<1>6. Plus1(reg[w]) \in Counts /\ Minus1(reg[w]) \in Counts
  <2>1. reg[w] \in Counts
    BY DEF Counts
  <2> QED
    BY <2>1, CountersType
<1>7. CASE Count(w)
  BY <1>4, <1>5, <1>6, <1>7 DEF Count
<1>8. CASE Uncount(w)
  BY <1>4, <1>5, <1>6, <1>8 DEF Uncount, Done
<1> QED
  BY <1>1, <1>2, <1>3, <1>7, <1>8

(* So does every other step of the game thread.                            *)
LEMMA GameType ==
  ASSUME TypeInv,
         \/ StartMapServer \/ ReloadMapPartDefinitions \/ StopMapServer \/ Drained
         \/ GetFirstDefinition \/ LockForRemoval \/ RemoveDefinition \/ DeleteElement
         \/ ClearLists \/ AddMapDefinition \/ CreateList \/ AppendDefinition \/ Loaded
  PROVE  TypeInv'
<1> Game \in Threads /\ NoThread \notin Threads
  BY ThreadsAssumption DEF Threads
<1> USE DEF TypeInv, TypeOK, GameHolds, At, Goto, serviceVars, listVars, heapVars,
            searchVars, gameVars, SearchSteps, ElementSteps, WorkerSteps, GameSteps
<1>1. CASE StartMapServer
  BY <1>1 DEF StartMapServer
<1>2. CASE ReloadMapPartDefinitions
  BY <1>2 DEF ReloadMapPartDefinitions
<1>3. CASE StopMapServer
  BY <1>3 DEF StopMapServer
<1>4. CASE Drained
  BY <1>4 DEF Drained
<1>5. CASE GetFirstDefinition
  BY <1>5 DEF GetFirstDefinition
<1>6. CASE LockForRemoval
  BY <1>6 DEF LockForRemoval
<1>7. CASE RemoveDefinition
  BY <1>7 DEF RemoveDefinition
<1>8. CASE DeleteElement
  <2> DEFINE e == cur[Game]
             Dangle(ptr) == [t \in Threads |->
                               CASE ptr[t] = e /\ t # Game -> Dangling
                                 [] ptr[t] = e /\ t = Game -> NoElement
                                 [] OTHER                  -> ptr[t]]
  <2>1. ASSUME NEW ptr \in [Threads -> Elements \union {NoElement, Dangling}]
        PROVE  Dangle(ptr) \in [Threads -> Elements \union {NoElement, Dangling}]
    OBVIOUS
  <2>2. cur' = Dangle(cur) /\ found' = Dangle(found)
    BY <1>8 DEF DeleteElement
  <2>3. /\ cur' \in [Threads -> Elements \union {NoElement, Dangling}]
        /\ found' \in [Threads -> Elements \union {NoElement, Dangling}]
    <3> HIDE DEF Dangle
    <3> QED
      BY <2>1, <2>2
  <2>4. 0 \in 0 .. Wrap - 1
    BY WrapAssumption, FS_CardinalityType
  <2>5. pc'[Game] = "head" /\ e \in Elements \ definitions /\ live' = live \ {e}
    BY <1>8 DEF DeleteElement
  <2> HIDE DEF Dangle
  <2> QED
    BY <1>8, <2>3, <2>4, <2>5 DEF DeleteElement
<1>9. CASE ClearLists
  BY <1>9 DEF ClearLists
<1>10. CASE AddMapDefinition
  BY <1>10 DEF AddMapDefinition
<1>11. CASE CreateList
  BY <1>11 DEF CreateList
<1>12. CASE AppendDefinition
  BY <1>12 DEF AppendDefinition
<1>13. CASE Loaded
  BY <1>13 DEF Loaded
<1> QED
  BY <1>1, <1>2, <1>3, <1>4, <1>5, <1>6, <1>7, <1>8, <1>9, <1>10, <1>11, <1>12, <1>13

(* The type invariant is inductive.                                        *)
LEMMA NextType ==
  ASSUME TypeInv, [Next]_vars
  PROVE  TypeInv'
<1>1. CASE UNCHANGED vars
  BY <1>1 DEF vars, serviceVars, listVars, heapVars, searchVars, gameVars,
              TypeInv, TypeOK, GameHolds
<1>2. ASSUME NEW w \in Workers, Request(w) \/ Worker(w)
      PROVE  TypeInv'
  BY <1>2, WorkerType, SearchType DEF Worker, Threads
<1>3. CASE StartMapServer \/ ReloadMapPartDefinitions \/ StopMapServer
  BY <1>3, GameType
<1>4. CASE InCall
  BY <1>4, GameType, SearchType DEF InCall, Threads
<1> QED
  BY <1>1, <1>2, <1>3, <1>4 DEF Next, Crashed

(* It holds at the start.                                                  *)
LEMMA InitType ==
  ASSUME Init
  PROVE  TypeInv
<1>1. 0 \in 0 .. Wrap - 1
  BY WrapAssumption, FS_CardinalityType
<1>2. Game \in Threads
  BY DEF Threads
<1> QED
  BY <1>1, <1>2 DEF Init, TypeInv, TypeOK, GameHolds, WorkerSteps

(* The service keeps its state well typed: in particular the list never    *)
(* holds an element that has been deleted (RemoveDefinition before the     *)
(* delete in RemoveMapDefinition, MapDownloadServer.cpp:186-202, 469-483). *)
THEOREM ServiceTypeCorrect == VerdictSpec => []TypeOK
<1>1. VerdictInit => TypeInv
  BY InitType DEF VerdictInit
<1>2. TypeInv /\ [VerdictNext]_<<vars, history>> => TypeInv'
  BY NextType DEF VerdictNext
<1>3. TypeInv => TypeOK
  BY DEF TypeInv
<1> QED
  BY <1>1, <1>2, <1>3, PTL DEF VerdictSpec

-----------------------------------------------------------------------------
(* Where a request is counted.                                             *)
ProgressSteps == SearchSteps \union ElementSteps \union {"uncount", "uncount2"}

(* A step of a search moves its own thread only, and stays in the search   *)
(* or leaves it.                                                           *)
LEMMA SearchKeeps ==
  ASSUME TypeInv, NEW t \in Threads, Search(t)
  PROVE  /\ UNCHANGED <<system_active, requests_in_progress, call>>
         /\ pc[t] \in SearchSteps \union ElementSteps
         /\ \/ pc'[t] \in SearchSteps \union ElementSteps \union {"uncount"}
            \/ t = Game /\ pc'[t] \in {"load", "append", "create"}
         /\ \A u \in Threads \ {t} : pc'[u] = pc[u]
<1> USE DEF TypeInv, TypeOK, At, Goto, serviceVars, gameVars, SearchSteps, ElementSteps
<1>1. ASSUME NEW e, Searched(t, e)
      PROVE  /\ \/ pc'[t] \in {"uncount", "lock"}
                \/ t = Game /\ pc'[t] \in {"load", "append", "create"}
             /\ \A u \in Threads \ {t} : pc'[u] = pc[u]
  BY <1>1 DEF Searched
<1>2. CASE Find(t)
  BY <1>1, <1>2 DEF Find
<1>3. CASE LockList(t)
  BY <1>1, <1>3 DEF LockList
<1>4. CASE NextElement(t)
  BY <1>4 DEF NextElement
<1>5. CASE UnlockList(t)
  BY <1>1, <1>5 DEF UnlockList
<1>6. CASE Lock(t)
  BY <1>6 DEF Lock, ReadLockCount, WriteLockCount
<1>7. CASE WaitElement(t)
  BY <1>7 DEF WaitElement
<1>8. CASE Inside(t)
  BY <1>8 DEF Inside, ReadLockCount
<1>9. CASE Unlock(t)
  BY <1>9 DEF Unlock, WriteLockCount
<1>10. CASE ReleaseElement(t)
  BY <1>10 DEF ReleaseElement, Leave
<1>11. CASE GiveUp(t)
  BY <1>11 DEF GiveUp, ReadLockCount, WriteLockCount, Leave
<1>12. CASE Fault(t)
  BY <1>12 DEF Fault
<1> QED
  BY <1>2, <1>3, <1>4, <1>5, <1>6, <1>7, <1>8, <1>9, <1>10, <1>11, <1>12 DEF Search

(* The requests that the counter should count.                             *)
InProgressSet == {w \in Workers : InProgress(w)}

(* The game thread moves no worker and does not touch the counter.         *)
LEMMA GameKeeps ==
  ASSUME TypeInv,
         \/ StartMapServer \/ ReloadMapPartDefinitions \/ StopMapServer \/ Drained
         \/ GetFirstDefinition \/ LockForRemoval \/ RemoveDefinition \/ DeleteElement
         \/ ClearLists \/ AddMapDefinition \/ CreateList \/ AppendDefinition \/ Loaded
  PROVE  /\ UNCHANGED requests_in_progress
         /\ \A w \in Workers : pc'[w] = pc[w]
<1> \A w \in Workers : w \in Threads /\ w # Game
  BY ThreadsAssumption DEF Threads
<1> QED
  BY DEF TypeInv, TypeOK, serviceVars, Goto, StartMapServer, ReloadMapPartDefinitions,
         StopMapServer, Drained, GetFirstDefinition, LockForRemoval, RemoveDefinition,
         DeleteElement, ClearLists, AddMapDefinition, CreateList, AppendDefinition, Loaded

(* Counting one request more or less, and never up to the wrap.            *)
LEMMA InProgressCard ==
  /\ IsFiniteSet(InProgressSet)
  /\ Cardinality(InProgressSet) \in Nat
  /\ Cardinality(InProgressSet) + 1 < Wrap
  /\ \A w \in Workers :
       /\ w \notin InProgressSet =>
            Cardinality(InProgressSet \union {w}) = Cardinality(InProgressSet) + 1
       /\ w \in InProgressSet =>
            /\ Cardinality(InProgressSet) > 0
            /\ Cardinality(InProgressSet \ {w}) = Cardinality(InProgressSet) - 1
<1>1. IsFiniteSet(Workers) /\ InProgressSet \subseteq Workers
  BY WrapAssumption DEF InProgressSet
<1>2. /\ IsFiniteSet(InProgressSet)
      /\ Cardinality(InProgressSet) <= Cardinality(Workers)
  BY <1>1, FS_Subset
<1>3. Cardinality(InProgressSet) \in Nat /\ Cardinality(Workers) \in Nat
  BY <1>1, <1>2, FS_CardinalityType
<1>4. ASSUME NEW w \in Workers, w \notin InProgressSet
      PROVE  Cardinality(InProgressSet \union {w}) = Cardinality(InProgressSet) + 1
  BY <1>2, <1>4, FS_AddElement
<1>5. ASSUME NEW w \in Workers, w \in InProgressSet
      PROVE  /\ Cardinality(InProgressSet \ {w}) = Cardinality(InProgressSet) - 1
             /\ Cardinality(InProgressSet) > 0
  <2>1. Cardinality(InProgressSet \ {w}) = Cardinality(InProgressSet) - 1
    BY <1>2, <1>5, FS_RemoveElement
  <2>2. Cardinality(InProgressSet \ {w}) \in Nat
    BY <1>2, FS_RemoveElement, FS_CardinalityType
  <2> QED
    BY <1>3, <2>1, <2>2
<1> QED
  BY <1>2, <1>3, <1>4, <1>5, WrapAssumption

(* A step that changes neither the counter nor who is counted.             *)
LEMMA CountKept ==
  ASSUME RequestsCounted, lost \subseteq lost', UNCHANGED requests_in_progress,
         \A w \in Workers : InProgress(w)' = InProgress(w)
  PROVE  RequestsCounted'
<1>1. InProgressSet' = InProgressSet
  BY DEF InProgressSet
<1> QED
  BY <1>1 DEF RequestsCounted, InProgressSet

(* What a step of a request does to its place and to the counter.          *)
LEMMA RequestStep ==
  ASSUME TypeInv, NEW w \in Workers, Request(w) \/ Worker(w)
  PROVE  /\ \A u \in Threads \ {w} : pc'[u] = pc[u]
         /\ UNCHANGED <<system_active, call>>
         /\ \/ /\ pc[w] = "idle" /\ pc'[w] = "check"
               /\ UNCHANGED requests_in_progress
            \/ /\ pc[w] = "check" /\ pc'[w] = "idle"
               /\ UNCHANGED requests_in_progress
            \/ /\ pc[w] = "check" /\ pc'[w] = "count" /\ system_active
               /\ UNCHANGED requests_in_progress
            \/ /\ pc[w] = "count" /\ pc'[w] = "count2"
               /\ UNCHANGED requests_in_progress
            \/ /\ pc[w] = "count2" /\ pc'[w] \in {"find", "uncount"}
               /\ requests_in_progress' = Plus1(reg[w])
            \/ /\ pc[w] \in ProgressSteps /\ pc'[w] \in ProgressSteps
               /\ UNCHANGED requests_in_progress
            \/ /\ pc[w] = "uncount2" /\ pc'[w] = "idle"
               /\ requests_in_progress' = Minus1(reg[w])
<1> w \in Threads /\ w # Game
  BY ThreadsAssumption DEF Threads
<1> USE DEF TypeInv, TypeOK, At, Goto, serviceVars, gameVars, ReadRequests, WriteRequests, Done
<1>1. CASE Request(w)
  BY <1>1 DEF Request
<1>2. CASE Deny(w)
  BY <1>2 DEF Deny
<1>3. CASE Admit(w)
  BY <1>3 DEF Admit
<1>4. CASE Count(w)
  BY <1>4 DEF Count
<1>5. CASE Uncount(w)
  BY <1>5 DEF Uncount, ProgressSteps
<1>6. CASE Search(w)
  BY <1>6, SearchKeeps DEF ProgressSteps
<1> QED
  BY <1>1, <1>2, <1>3, <1>4, <1>5, <1>6 DEF Worker

(* The counter keeps up, or one of its updates is lost.                    *)
LEMMA CountedStep ==
  ASSUME TypeInv, RequestsCounted, [VerdictNext]_<<vars, history>>
  PROVE  RequestsCounted'
<1> lost \subseteq lost'
  BY DEF VerdictNext, HistoryNext, history
<1> USE DEF InProgress, ProgressSteps
<1>1. CASE UNCHANGED vars
  BY <1>1, CountKept DEF vars, serviceVars
<1>2. ASSUME NEW w \in Workers, Request(w) \/ Worker(w), VerdictNext
      PROVE  RequestsCounted'
  <2>1. w \in Threads /\ \A u \in Workers \ {w} : u \in Threads \ {w} /\ pc'[u] = pc[u]
    BY <1>2, RequestStep DEF Threads
  <2>2. CASE InProgress(w)' = InProgress(w) /\ UNCHANGED requests_in_progress
    BY <2>1, <2>2, CountKept
  <2>3. CASE pc[w] \in {"count2", "uncount2"} /\ pc'[w] # pc[w] /\ reg[w] # requests_in_progress
    <3>1. RequestsOverwritten
      BY <2>3 DEF RequestsOverwritten
    <3>2. "requests" \in lost'
      BY <1>2, <3>1 DEF VerdictNext, HistoryNext
    <3> QED
      BY <3>2 DEF RequestsCounted
  <2>4. CASE /\ pc[w] = "count2" /\ pc'[w] \in {"find", "uncount"}
             /\ reg[w] = requests_in_progress
             /\ requests_in_progress' = Plus1(requests_in_progress)
    <3>1. w \notin InProgressSet /\ InProgressSet' = InProgressSet \union {w}
      BY <2>1, <2>4 DEF InProgressSet, SearchSteps, ElementSteps
    <3>2. requests_in_progress \in Counts
      BY DEF TypeInv, TypeOK, Counts
    <3> QED
      BY <2>4, <3>1, <3>2, InProgressCard, CountersExact DEF RequestsCounted, InProgressSet
  <2>5. CASE /\ pc[w] = "uncount2" /\ pc'[w] = "idle"
             /\ reg[w] = requests_in_progress
             /\ requests_in_progress' = Minus1(requests_in_progress)
    <3>1. w \in InProgressSet /\ InProgressSet' = InProgressSet \ {w}
      BY <2>1, <2>5 DEF InProgressSet, SearchSteps, ElementSteps
    <3>2. requests_in_progress \in Counts
      BY DEF TypeInv, TypeOK, Counts
    <3> QED
      BY <2>5, <3>1, <3>2, InProgressCard, CountersExact DEF RequestsCounted, InProgressSet
  <2> QED
    BY <1>2, <2>2, <2>3, <2>4, <2>5, RequestStep DEF SearchSteps, ElementSteps
<1>3. CASE StartMapServer \/ ReloadMapPartDefinitions \/ StopMapServer
  BY <1>3, GameKeeps, CountKept
<1>4. CASE InCall
  <2>1. CASE Search(Game)
    <3>1. \A w \in Workers : w \in Threads \ {Game}
      BY ThreadsAssumption DEF Threads
    <3> QED
      BY <2>1, <3>1, SearchKeeps, CountKept DEF Threads
  <2>2. CASE ~Search(Game)
    BY <1>4, <2>2, GameKeeps, CountKept DEF InCall
  <2> QED
    BY <2>1, <2>2
<1> QED
  BY <1>1, <1>2, <1>3, <1>4 DEF VerdictNext, Next, Crashed, vars

(* At the start there is no request.                                       *)
LEMMA CountedInit ==
  ASSUME VerdictInit
  PROVE  RequestsCounted
<1>1. InProgressSet = {}
  BY DEF VerdictInit, Init, InProgressSet, InProgress, SearchSteps, ElementSteps, Threads
<1>2. Cardinality(InProgressSet) = 0
  BY <1>1, FS_EmptySet
<1> QED
  BY <1>2 DEF RequestsCounted, InProgressSet, VerdictInit, Init

(* As long as none of its updates was lost, m_requests_in_progress is the  *)
(* number of requests in progress (MapDownloadServer.cpp:1021, 1057), for  *)
(* any number of workers.                                                  *)
THEOREM CountKeepsUp == VerdictSpec => []RequestsCounted
<1>1. VerdictInit => TypeInv /\ RequestsCounted
  BY InitType, CountedInit DEF VerdictInit
<1>2. TypeInv /\ RequestsCounted /\ [VerdictNext]_<<vars, history>>
        => (TypeInv /\ RequestsCounted)'
  BY NextType, CountedStep DEF VerdictNext
<1> QED
  BY <1>1, <1>2, PTL DEF VerdictSpec

-----------------------------------------------------------------------------
(* The system is stopped, and the wait for the requests is over.           *)
Inactive == ~system_active /\ pc[Game] # "drain"

(* From the end of the wait to the next start, requests in progress, and   *)
(* those about to be counted, are late ones.                               *)
StopInv ==
  /\ call = "stop" => ~system_active
  /\ late \in [Workers -> BOOLEAN]
  /\ "requests" \notin lost =>
       \A w \in Workers :
         Inactive /\ (InProgress(w) \/ pc[w] \in {"count", "count2"}) => late[w]

(* The game thread comes to be there only by a wait that found no request. *)
LEMMA GameCalls ==
  ASSUME TypeInv,
         \/ StartMapServer \/ ReloadMapPartDefinitions \/ StopMapServer \/ Drained
         \/ GetFirstDefinition \/ LockForRemoval \/ RemoveDefinition \/ DeleteElement
         \/ ClearLists \/ AddMapDefinition \/ CreateList \/ AppendDefinition \/ Loaded
  PROVE  /\ (call = "stop" => ~system_active) => (call' = "stop" => ~system_active')
         /\ Inactive' =>
              \/ Inactive
              \/ requests_in_progress = 0 /\ pc[Game] = "drain" /\ pc'[Game] = "head"
<1> Game \in Threads
  BY DEF Threads
<1> USE DEF TypeInv, TypeOK, serviceVars, gameVars, At, Goto, Inactive
<1>1. CASE StartMapServer \/ ReloadMapPartDefinitions \/ StopMapServer
  BY <1>1 DEF StartMapServer, ReloadMapPartDefinitions, StopMapServer
<1>2. CASE Drained \/ GetFirstDefinition \/ LockForRemoval
  BY <1>2 DEF Drained, GetFirstDefinition, LockForRemoval
<1>3. CASE RemoveDefinition \/ DeleteElement \/ ClearLists
  BY <1>3 DEF RemoveDefinition, DeleteElement, ClearLists
<1>4. CASE AddMapDefinition \/ CreateList
  BY <1>4 DEF AddMapDefinition, CreateList
<1>5. CASE AppendDefinition \/ Loaded
  BY <1>5 DEF AppendDefinition, Loaded
<1> QED
  BY <1>1, <1>2, <1>3, <1>4, <1>5

(* StopInv is inductive, as the counter is right.                          *)
LEMMA StopStep ==
  ASSUME TypeInv, RequestsCounted, StopInv, [VerdictNext]_<<vars, history>>
  PROVE  StopInv'
<1>1. CASE UNCHANGED <<vars, history>>
  BY <1>1 DEF vars, history, serviceVars, gameVars, StopInv, InProgress, Inactive
<1> SUFFICES ASSUME VerdictNext
             PROVE  StopInv'
  BY <1>1
<1>2. late' \in [Workers -> BOOLEAN] /\ lost \subseteq lost'
  BY DEF VerdictNext, HistoryNext
<1>3. \A w \in Workers :
        late'[w] = (/\ pc'[w] # "idle"
                    /\ \/ late[w]
                       \/ /\ pc[Game] = "drain" /\ pc'[Game] = "head"
                          /\ pc[w] \in {"count", "count2"})
  BY DEF VerdictNext, HistoryNext
<1>4. ASSUME NEW w \in Workers, Request(w) \/ Worker(w)
      PROVE  StopInv'
  <2>1. Game \in Threads \ {w} /\ w \in Threads
    BY ThreadsAssumption DEF Threads
  <2>2. Inactive' = Inactive /\ UNCHANGED <<call, system_active>>
    BY <1>4, <2>1, RequestStep DEF Inactive
  <2>3. ASSUME "requests" \notin lost', NEW u \in Workers, Inactive',
               InProgress(u)' \/ pc'[u] \in {"count", "count2"}
        PROVE  late'[u]
    <3>1. pc'[u] # "idle"
      BY <2>3 DEF InProgress, SearchSteps, ElementSteps
    <3>2. InProgress(u) \/ pc[u] \in {"count", "count2"}
      <4>1. CASE u # w
        BY <1>4, <2>3, <4>1, RequestStep DEF InProgress, Threads
      <4>2. CASE u = w
        <5>1. ~system_active
          BY <2>2, <2>3 DEF StopInv, Inactive
        <5> QED
          BY <1>4, <2>3, <4>2, <5>1, <3>1, RequestStep
             DEF InProgress, ProgressSteps, SearchSteps, ElementSteps
      <4> QED
        BY <4>1, <4>2
    <3> QED
      BY <1>2, <1>3, <2>2, <2>3, <3>1, <3>2 DEF StopInv
  <2> QED
    BY <1>2, <2>2, <2>3 DEF StopInv
<1>5. ASSUME \A w \in Workers : pc'[w] = pc[w],
             (call = "stop" => ~system_active) => (call' = "stop" => ~system_active'),
             Inactive' =>
               \/ Inactive
               \/ requests_in_progress = 0 /\ pc[Game] = "drain" /\ pc'[Game] = "head"
      PROVE  StopInv'
  <2>1. ASSUME "requests" \notin lost', NEW w \in Workers, Inactive',
               InProgress(w)' \/ pc'[w] \in {"count", "count2"}
        PROVE  late'[w]
    <3>1. pc'[w] # "idle" /\ (InProgress(w) \/ pc[w] \in {"count", "count2"})
      BY <1>5, <2>1 DEF InProgress, SearchSteps, ElementSteps
    <3>2. CASE Inactive
      BY <1>2, <1>3, <2>1, <3>1, <3>2 DEF StopInv
    <3>3. CASE requests_in_progress = 0 /\ pc[Game] = "drain" /\ pc'[Game] = "head"
      <4>1. Cardinality(InProgressSet) = 0
        BY <1>2, <2>1, <3>3 DEF RequestsCounted, InProgressSet
      <4>2. ~InProgress(w)
        <5>1. w \in InProgressSet => Cardinality(InProgressSet) > 0
          BY InProgressCard
        <5> QED
          BY <4>1, <5>1 DEF InProgressSet
      <4> QED
        BY <1>3, <3>1, <3>3, <4>2
    <3> QED
      BY <1>5, <2>1, <3>2, <3>3
  <2> QED
    BY <1>2, <1>5, <2>1 DEF StopInv
<1>6. CASE StartMapServer \/ ReloadMapPartDefinitions \/ StopMapServer
  BY <1>5, <1>6, GameKeeps, GameCalls
<1>7. CASE InCall
  <2>1. CASE Search(Game)
    <3>1. Game \in Threads /\ \A w \in Workers : w \in Threads \ {Game}
      BY ThreadsAssumption DEF Threads
    <3>2. Inactive' => Inactive
      BY <2>1, <3>1, SearchKeeps DEF Inactive, SearchSteps, ElementSteps
    <3> QED
      BY <1>5, <2>1, <3>1, <3>2, SearchKeeps
  <2>2. CASE ~Search(Game)
    BY <1>5, <1>7, <2>2, GameKeeps, GameCalls DEF InCall
  <2> QED
    BY <2>1, <2>2
<1>8. CASE Crashed
  BY <1>5, <1>8 DEF Crashed, vars, serviceVars, gameVars, Inactive
<1> QED
  BY <1>4, <1>6, <1>7, <1>8 DEF VerdictNext, Next

(* It holds at the start.                                                  *)
LEMMA StopInit ==
  ASSUME VerdictInit
  PROVE  StopInv
  BY DEF VerdictInit, Init, HistoryInit, StopInv, InProgress, SearchSteps, ElementSteps, Threads

(* StopMapServer waits for all requests that are counted                   *)
(* (MapDownloadServer.cpp:1142-1146): what it unloads is used only by      *)
(* requests that slipped between the test of system_active and the count.  *)
THEOREM StopWaits == VerdictSpec => []StopWaitsForCounted
<1>1. VerdictInit => TypeInv /\ RequestsCounted /\ StopInv
  BY InitType, CountedInit, StopInit DEF VerdictInit
<1>2. TypeInv /\ RequestsCounted /\ StopInv /\ [VerdictNext]_<<vars, history>>
        => (TypeInv /\ RequestsCounted /\ StopInv)'
  BY NextType, CountedStep, StopStep DEF VerdictNext
<1>3. StopInv => StopWaitsForCounted
  BY DEF StopInv, Inactive, Unloading, StopWaitsForCounted
<1> QED
  BY <1>1, <1>2, <1>3, PTL DEF VerdictSpec

-----------------------------------------------------------------------------
(* Thread t holds the mutex of a list, or of one that has been cleared.    *)
Scans(t) == list_ptr[t] # "none" /\ pc[t] \in ElementSteps \union {"scan"}

(* The elements it will touch before it lets go.                           *)
Touched(t) == {e \in Elements : e \in todo[t] \/ (pc[t] \in ElementSteps /\ e = cur[t])}

(* They are allocated; the mutex is still with t, or the list has been     *)
(* cleared and they have leaked; and none is about to be deleted.          *)
ScanHolds(t) ==
  /\ pc[t] \in ElementSteps => cur[t] \in Elements
  /\ Touched(t) \subseteq live
  /\ list_ptr[t] = "live" => list_owner = t
  /\ list_ptr[t] = "dead" => Touched(t) \intersect definitions = {}
  /\ pc[Game] = "delete" => cur[Game] \notin Touched(t)

SearchInv == \A t \in Threads : Scans(t) => ScanHolds(t)

(* A step of a search changes the places and pointers of its thread only.  *)
LEMMA SearchLocal ==
  ASSUME TypeInv, NEW t \in Threads, Search(t)
  PROVE  /\ UNCHANGED <<live, definitions>>
         /\ \A u \in Threads \ {t} : /\ list_ptr'[u] = list_ptr[u]
                                     /\ todo'[u] = todo[u] /\ cur'[u] = cur[u]
<1> USE DEF TypeInv, TypeOK, heapVars, listVars, searchVars
<1>1. ASSUME NEW e, Searched(t, e)
      PROVE  /\ \A u \in Threads \ {t} : /\ list_ptr'[u] = list_ptr[u]
                                         /\ todo'[u] = todo[u] /\ cur'[u] = cur[u]
  BY <1>1 DEF Searched
<1>2. CASE Find(t)
  BY <1>1, <1>2 DEF Find
<1>3. CASE LockList(t)
  BY <1>1, <1>3 DEF LockList
<1>4. CASE NextElement(t)
  BY <1>4 DEF NextElement
<1>5. CASE UnlockList(t)
  BY <1>1, <1>5 DEF UnlockList
<1>6. CASE Lock(t)
  BY <1>6 DEF Lock, ReadLockCount, WriteLockCount
<1>7. CASE WaitElement(t)
  BY <1>7 DEF WaitElement
<1>8. CASE Inside(t)
  BY <1>8 DEF Inside, ReadLockCount
<1>9. CASE Unlock(t)
  BY <1>9 DEF Unlock, WriteLockCount
<1>10. CASE ReleaseElement(t)
  BY <1>10 DEF ReleaseElement, Leave
<1>11. CASE GiveUp(t)
  BY <1>11 DEF GiveUp, ReadLockCount, WriteLockCount, Leave
<1>12. CASE Fault(t)
  BY <1>12 DEF Fault
<1> QED
  BY <1>2, <1>3, <1>4, <1>5, <1>6, <1>7, <1>8, <1>9, <1>10, <1>11, <1>12 DEF Search

(* A thread that scans after a step has scanned before, or has just taken  *)
(* the mutex of the list.                                                  *)
LEMMA SearchGoesOn ==
  ASSUME TypeInv, SearchInv, NEW t \in Threads, Search(t), Scans(t)'
  PROVE  \/ /\ Scans(t) /\ Touched(t)' \subseteq Touched(t)
            /\ pc'[t] \in ElementSteps => cur'[t] \in Elements
            /\ UNCHANGED <<list_owner, list_ptr>>
         \/ /\ list_owner = NoThread /\ list_owner' = t /\ pc'[t] = "scan"
            /\ Touched(t)' = definitions /\ list_ptr[t] = "live" /\ UNCHANGED list_ptr
<1> USE DEF TypeInv, TypeOK, At, Goto, heapVars, listVars, searchVars, ElementSteps, Scans,
            Touched, SearchInv, ScanHolds
<1>1. ASSUME NEW e, Searched(t, e)
      PROVE  FALSE
  BY <1>1 DEF Searched
<1>2. CASE Find(t)
  BY <1>1, <1>2 DEF Find
<1>3. CASE LockList(t)
  BY <1>1, <1>3 DEF LockList
<1>4. CASE NextElement(t)
  BY <1>4 DEF NextElement
<1>5. CASE UnlockList(t)
  BY <1>1, <1>5 DEF UnlockList
<1>6. CASE Lock(t)
  BY <1>6 DEF Lock, ReadLockCount, WriteLockCount
<1>7. CASE WaitElement(t)
  BY <1>7 DEF WaitElement
<1>8. CASE Inside(t)
  BY <1>8 DEF Inside, ReadLockCount
<1>9. CASE Unlock(t)
  BY <1>9 DEF Unlock, WriteLockCount
<1>10. CASE ReleaseElement(t)
  BY <1>10 DEF ReleaseElement, Leave
<1>11. CASE GiveUp(t)
  BY <1>11 DEF GiveUp, ReadLockCount, WriteLockCount, Leave
<1>12. CASE Fault(t)
  BY <1>12 DEF Fault
<1> QED
  BY <1>2, <1>3, <1>4, <1>5, <1>6, <1>7, <1>8, <1>9, <1>10, <1>11, <1>12 DEF Search

(* Nobody takes the mutex of the list from another thread by searching.    *)
LEMMA OwnerKept ==
  ASSUME TypeInv, NEW t \in Threads, Search(t), NEW u \in Threads \ {t}, list_owner = u
  PROVE  list_owner' = u
<1> u # NoThread
  BY ThreadsAssumption DEF Threads
<1> QED
  BY DEF Search, Find, LockList, NextElement, UnlockList, Lock, WaitElement, Inside, Unlock,
         ReleaseElement, GiveUp, Fault, ReadLockCount, WriteLockCount, Freed, listVars

(* Searches keep SearchInv.                                                *)
LEMMA SearchStep ==
  ASSUME TypeInv, SearchInv, NEW t \in Threads, Search(t)
  PROVE  SearchInv'
<1>1. /\ UNCHANGED <<live, definitions>>
      /\ \A u \in Threads \ {t} : /\ pc'[u] = pc[u] /\ list_ptr'[u] = list_ptr[u]
                                  /\ todo'[u] = todo[u] /\ cur'[u] = cur[u]
  BY SearchLocal, SearchKeeps
<1>2. pc'[Game] = "delete" => pc[Game] = "delete" /\ cur'[Game] = cur[Game] /\ t # Game
  BY <1>1, SearchKeeps DEF Threads, SearchSteps, ElementSteps
<1>3. ASSUME NEW u \in Threads \ {t}, Scans(u)'
      PROVE  ScanHolds(u)'
  <2>1. Scans(u) /\ ScanHolds(u) /\ Touched(u)' = Touched(u)
    BY <1>1, <1>3 DEF Scans, Touched, SearchInv
  <2> QED
    BY <1>1, <1>2, <2>1, OwnerKept DEF ScanHolds
<1>4. ASSUME Scans(t)'
      PROVE  ScanHolds(t)'
  <2>1. CASE /\ Scans(t) /\ Touched(t)' \subseteq Touched(t)
             /\ pc'[t] \in ElementSteps => cur'[t] \in Elements
             /\ UNCHANGED <<list_owner, list_ptr>>
    BY <1>1, <1>2, <2>1 DEF SearchInv, ScanHolds
  <2>2. CASE /\ list_owner' = t /\ pc'[t] = "scan"
             /\ Touched(t)' = definitions /\ list_ptr[t] = "live" /\ UNCHANGED list_ptr
    BY <1>1, <1>2, <2>2 DEF ScanHolds, TypeInv, TypeOK, GameHolds, ElementSteps
  <2> QED
    BY <1>4, <2>1, <2>2, SearchGoesOn
<1> QED
  BY <1>3, <1>4 DEF SearchInv

(* So do the other steps of requests.                                      *)
LEMMA WorkerKeepsSearch ==
  ASSUME TypeInv, SearchInv, NEW w \in Workers,
         Request(w) \/ Deny(w) \/ Admit(w) \/ Count(w) \/ Uncount(w)
  PROVE  SearchInv'
<1>1. /\ UNCHANGED <<live, definitions, list_owner, list_ptr, todo, cur>>
      /\ \E step \in WorkerSteps \union {"find"} : Goto(w, step)
  BY DEF Request, Deny, Admit, Count, Uncount, ReadRequests, WriteRequests, Done,
         listVars, heapVars, searchVars, WorkerSteps
<1>2. w \in Threads /\ w # Game /\ Game \in Threads
  BY ThreadsAssumption DEF Threads
<1>3. /\ ~Scans(w)' /\ pc'[Game] = pc[Game]
      /\ \A u \in Threads \ {w} : pc'[u] = pc[u]
  BY <1>1, <1>2 DEF Goto, TypeInv, TypeOK, Scans, ElementSteps, WorkerSteps
<1>4. ASSUME NEW u \in Threads, Scans(u)'
      PROVE  ScanHolds(u)'
  <2>1. Scans(u) /\ ScanHolds(u) /\ Touched(u)' = Touched(u)
    BY <1>1, <1>3, <1>4 DEF Scans, Touched, SearchInv
  <2> QED
    BY <1>1, <1>3, <1>4, <2>1 DEF ScanHolds
<1> QED
  BY <1>4 DEF SearchInv

(* So does the game thread: it takes an element out of the list with the   *)
(* mutex of the list, and only then deletes it.                            *)
LEMMA GameKeepsSearch ==
  ASSUME TypeInv, SearchInv,
         \/ StartMapServer \/ ReloadMapPartDefinitions \/ StopMapServer \/ Drained
         \/ GetFirstDefinition \/ LockForRemoval \/ RemoveDefinition \/ DeleteElement
         \/ ClearLists \/ AddMapDefinition \/ CreateList \/ AppendDefinition \/ Loaded
  PROVE  SearchInv'
<1> USE DEF At, Goto, listVars, heapVars, searchVars
<1>0. Game \in Threads /\ NoThread \notin Threads
  BY ThreadsAssumption DEF Threads
<1>1. /\ pc' = [pc EXCEPT ![Game] = pc'[Game]]
      /\ pc'[Game] \in GameSteps \union {"find"}
  BY <1>0 DEF StartMapServer, ReloadMapPartDefinitions, StopMapServer, Drained,
         GetFirstDefinition, LockForRemoval, RemoveDefinition, DeleteElement, ClearLists,
         AddMapDefinition, CreateList, AppendDefinition, Loaded, TypeInv, TypeOK, GameSteps
<1>2. /\ ~Scans(Game)' /\ ~Scans(Game)
      /\ \A u \in Threads \ {Game} : pc'[u] = pc[u]
  BY <1>0, <1>1 DEF TypeInv, TypeOK, Scans, ElementSteps, GameSteps,
         StartMapServer, ReloadMapPartDefinitions, StopMapServer, Drained,
         GetFirstDefinition, LockForRemoval, RemoveDefinition, DeleteElement, ClearLists,
         AddMapDefinition, CreateList, AppendDefinition, Loaded
<1>3. ASSUME NEW u \in Threads \ {Game},
             Touched(u)' = Touched(u), Scans(u)' => Scans(u) /\ ScanHolds(u)',
             Scans(u)'
      PROVE  ScanHolds(u)'
  BY <1>3
<1>4. ASSUME UNCHANGED <<live, definitions, list_owner, list_ptr, todo>>,
             \A u \in Threads \ {Game} : cur'[u] = cur[u],
             pc'[Game] # "delete"
      PROVE  SearchInv'
  <2>1. ASSUME NEW u \in Threads \ {Game}, Scans(u)'
        PROVE  ScanHolds(u)'
    <3>1. Scans(u) /\ ScanHolds(u) /\ Touched(u)' = Touched(u)
      BY <1>2, <1>4, <2>1 DEF Scans, Touched, SearchInv
    <3> QED
      BY <1>2, <1>4, <2>1, <3>1 DEF ScanHolds
  <2> QED
    BY <1>2, <2>1 DEF SearchInv
<1>5. CASE StartMapServer \/ ReloadMapPartDefinitions \/ StopMapServer \/ Drained
  BY <1>0, <1>4, <1>5 DEF StartMapServer, ReloadMapPartDefinitions, StopMapServer, Drained,
                          TypeInv, TypeOK
<1>6. CASE GetFirstDefinition
  BY <1>0, <1>4, <1>6 DEF GetFirstDefinition, TypeInv, TypeOK
<1>7. CASE AddMapDefinition \/ CreateList \/ Loaded
  BY <1>0, <1>4, <1>7 DEF AddMapDefinition, CreateList, Loaded, TypeInv, TypeOK
<1>8. ASSUME NEW u \in Threads \ {Game}, Scans(u)', UNCHANGED <<todo, list_ptr>>, cur'[u] = cur[u]
      PROVE  Scans(u) /\ ScanHolds(u) /\ Touched(u)' = Touched(u)
  BY <1>2, <1>8 DEF Scans, Touched, SearchInv
<1>9. CASE LockForRemoval
  <2>1. ASSUME NEW u \in Threads \ {Game}, Scans(u)'
        PROVE  ScanHolds(u)'
    BY <1>0, <1>2, <1>8, <1>9, <2>1 DEF LockForRemoval, ScanHolds, TypeInv, TypeOK
  <2> QED
    BY <1>2, <2>1 DEF SearchInv
<1>10. CASE RemoveDefinition
  <2>1. ASSUME NEW u \in Threads \ {Game}, Scans(u)'
        PROVE  ScanHolds(u)'
    BY <1>0, <1>2, <1>8, <1>10, <2>1
       DEF RemoveDefinition, ScanHolds, TypeInv, TypeOK, GameHolds, Scans
  <2> QED
    BY <1>2, <2>1 DEF SearchInv
<1>11. CASE DeleteElement
  <2>1. ASSUME NEW u \in Threads \ {Game}, Scans(u)'
        PROVE  ScanHolds(u)'
    <3>1. pc'[Game] = "head" /\ live' = live \ {cur[Game]} /\ cur[Game] \in Elements
      BY <1>0, <1>11 DEF DeleteElement, TypeInv, TypeOK, GameHolds
    <3>2. Scans(u) /\ ScanHolds(u)
      BY <1>2, <1>11, <2>1 DEF DeleteElement, Scans, SearchInv
    <3>3. pc[u] \in ElementSteps => cur[u] # cur[Game]
      BY <1>0, <1>11, <3>1, <3>2 DEF DeleteElement, ScanHolds, Touched
    <3>4. pc[u] \in ElementSteps => cur'[u] = cur[u]
      BY <1>11, <3>3 DEF DeleteElement
    <3>5. Touched(u)' = Touched(u)
      BY <1>2, <1>11, <3>4 DEF DeleteElement, Touched
    <3> QED
      BY <1>2, <1>11, <3>1, <3>2, <3>4, <3>5 DEF DeleteElement, ScanHolds
  <2> QED
    BY <1>2, <2>1 DEF SearchInv
<1>12. CASE ClearLists
  <2>1. ASSUME NEW u \in Threads \ {Game}, Scans(u)'
        PROVE  ScanHolds(u)'
    <3>1. /\ pc'[Game] # "delete" /\ definitions' = {} /\ UNCHANGED <<live, todo, cur>>
          /\ list_ptr'[u] = IF list_ptr[u] = "live" THEN "dead" ELSE list_ptr[u]
      BY <1>0, <1>12 DEF ClearLists, TypeInv, TypeOK
    <3>2. Scans(u) /\ ScanHolds(u) /\ Touched(u)' = Touched(u)
      BY <1>2, <2>1, <3>1 DEF Scans, SearchInv, Touched
    <3> QED
      BY <1>2, <3>1, <3>2 DEF ScanHolds
  <2> QED
    BY <1>2, <2>1 DEF SearchInv
<1>13. CASE AppendDefinition
  <2>1. ASSUME NEW u \in Threads \ {Game}, Scans(u)'
        PROVE  ScanHolds(u)'
    <3>1. Scans(u) /\ ScanHolds(u) /\ Touched(u)' = Touched(u)
      BY <1>8, <1>13, <2>1 DEF AppendDefinition
    <3> QED
      BY <1>0, <1>2, <1>13, <3>1 DEF AppendDefinition, ScanHolds, TypeInv, TypeOK
  <2> QED
    BY <1>2, <2>1 DEF SearchInv
<1> QED
  BY <1>5, <1>6, <1>7, <1>9, <1>10, <1>11, <1>12, <1>13

(* At the start nobody searches.                                           *)
LEMMA SearchInit ==
  ASSUME VerdictInit
  PROVE  SearchInv
  BY DEF VerdictInit, Init, SearchInv, Scans

(* SearchInv is inductive.                                                 *)
LEMMA SearchInvStep ==
  ASSUME TypeInv, SearchInv, [Next]_vars
  PROVE  SearchInv'
<1>1. CASE UNCHANGED vars
  BY <1>1 DEF vars, listVars, heapVars, searchVars, SearchInv, Scans, ScanHolds, Touched
<1>2. ASSUME NEW w \in Workers, Request(w) \/ Worker(w)
      PROVE  SearchInv'
  BY <1>2, WorkerKeepsSearch, SearchStep DEF Worker, Threads
<1>3. CASE StartMapServer \/ ReloadMapPartDefinitions \/ StopMapServer
  BY <1>3, GameKeepsSearch
<1>4. CASE InCall
  BY <1>4, GameKeepsSearch, SearchStep DEF InCall, Threads
<1> QED
  BY <1>1, <1>2, <1>3, <1>4 DEF Next, Crashed

(* A thread in the middle of a search only touches elements that are       *)
(* allocated, even while definitions are reloaded (FindDefinition and      *)
(* RemoveDefinition, MapDownloadServer.cpp:141-202).                       *)
THEOREM SearchesSafe == VerdictSpec => []SearchesLiveElements
<1>1. VerdictInit => TypeInv /\ SearchInv
  BY InitType, SearchInit DEF VerdictInit
<1>2. TypeInv /\ SearchInv /\ [VerdictNext]_<<vars, history>> => (TypeInv /\ SearchInv)'
  BY NextType, SearchInvStep DEF VerdictNext
<1>3. TypeInv /\ SearchInv => SearchesLiveElements
  BY DEF SearchInv, Scans, ScanHolds, Touched, SearchesLiveElements
<1> QED
  BY <1>1, <1>2, <1>3, PTL DEF VerdictSpec

-----------------------------------------------------------------------------
(* Where a thread has a pointer to a list or to an element.                *)
ScanSteps == {"list", "scan"} \union ElementSteps

(* A pointer is to an allocated element, null, or known to dangle.         *)
PtrHolds(t) ==
  /\ cur[t] \in live \union {NoElement, Dangling}
  /\ found[t] \in live \union {NoElement, Dangling}
  /\ found[t] # NoElement => list_ptr[t] # "none"
  /\ list_ptr[t] # "none" => pc[t] \in ScanSteps
  /\ pc[t] \in {"list", "scan"} => list_ptr[t] # "none"
  /\ pc[t] \in ElementSteps => cur[t] # NoElement

(* The element that a request has found is the one it asked for.           *)
WorkerPtrHolds(w) ==
  /\ pc[w] \notin ElementSteps => cur[w] = NoElement
  /\ found[w] \in live => name[found[w]] = map[w]
  /\ list_ptr[w] = "none" /\ pc[w] \in ElementSteps /\ cur[w] \in live =>
       name[cur[w]] = map[w]

(* The game thread never uses a found element, nor a list that is gone.    *)
GamePtrHolds ==
  /\ list_ptr[Game] = "none" => pc[Game] \notin ElementSteps
  /\ list_ptr[Game] # "dead"

PtrInv ==
  /\ \A t \in Threads : PtrHolds(t)
  /\ \A w \in Workers : WorkerPtrHolds(w)
  /\ GamePtrHolds

(* A step of a search keeps the pointers of its thread in order, and makes *)
(* none dangle.                                                            *)
LEMMA SearchPtr ==
  ASSUME TypeInv, SearchInv, PtrInv, NEW t \in Threads, Search(t)
  PROVE  /\ PtrHolds(t)'
         /\ t \in Workers => WorkerPtrHolds(t)'
         /\ t = Game => GamePtrHolds'
         /\ UNCHANGED <<live, definitions, name, map>>
         /\ list_ptr'[t] = "dead" => list_ptr[t] = "dead"
         /\ cur'[t] = Dangling => Dangling \in {cur[t], found[t]}
         /\ found'[t] = Dangling => Dangling \in {cur[t], found[t]}
<1>1. /\ UNCHANGED <<live, definitions, name, map>>
  BY DEF Search, Find, LockList, NextElement, UnlockList, Lock, WaitElement, Inside, Unlock,
         ReleaseElement, GiveUp, Fault, ReadLockCount, WriteLockCount, Freed, listVars,
         heapVars, searchVars
<1>2. Game \notin Workers /\ (t \in Workers => t # Game) /\ NoElement # Dangling
  BY ThreadsAssumption, HeapAssumption
<1>3. t \in Workers => WorkerPtrHolds(t)
  BY DEF PtrInv
<1> USE <1>1, <1>2, <1>3, HeapAssumption
    DEF TypeInv, TypeOK, PtrInv, PtrHolds, WorkerPtrHolds, GamePtrHolds, At, Goto,
        ElementSteps, ScanSteps
<1>4. ASSUME NEW e \in {NoElement, found[t]}, Searched(t, e), pc[t] \in {"find", "list", "scan"}
      PROVE  /\ PtrHolds(t)'
             /\ t \in Workers => WorkerPtrHolds(t)'
             /\ t = Game => GamePtrHolds'
             /\ list_ptr'[t] = "dead" => list_ptr[t] = "dead"
             /\ cur'[t] = Dangling => Dangling \in {cur[t], found[t]}
             /\ found'[t] = Dangling => Dangling \in {cur[t], found[t]}
  <2>1. CASE t = Game
    BY <1>4, <2>1 DEF Searched
  <2>2. CASE t # Game
    BY <1>4, <2>2 DEF Searched
  <2> QED
    BY <2>1, <2>2
<1>5. CASE Find(t)
  BY <1>4, <1>5 DEF Find
<1>6. CASE LockList(t)
  BY <1>4, <1>6 DEF LockList
<1>7. CASE NextElement(t)
  <2>1. Scans(t) /\ \A e \in todo[t] : e \in live
    BY <1>7 DEF NextElement, SearchInv, Scans, ScanHolds, Touched
  <2> QED
    BY <1>7, <2>1 DEF NextElement
<1>8. CASE UnlockList(t)
  BY <1>4, <1>8 DEF UnlockList
<1>9. CASE Lock(t)
  BY <1>9 DEF Lock, ReadLockCount, WriteLockCount, searchVars
<1>10. CASE WaitElement(t)
  BY <1>10 DEF WaitElement, searchVars
<1>11. CASE Inside(t)
  BY <1>11 DEF Inside, ReadLockCount, Valid, searchVars
<1>12. CASE Unlock(t)
  BY <1>12 DEF Unlock, WriteLockCount, searchVars
<1>13. CASE ReleaseElement(t)
  BY <1>13 DEF ReleaseElement, Leave
<1>14. CASE GiveUp(t)
  BY <1>14 DEF GiveUp, ReadLockCount, WriteLockCount, Leave
<1>15. CASE Fault(t)
  BY <1>15 DEF Fault, searchVars
<1> QED
  BY <1>5, <1>6, <1>7, <1>8, <1>9, <1>10, <1>11, <1>12, <1>13, <1>14, <1>15 DEF Search

(* It leaves the pointers of other threads alone.                          *)
LEMMA SearchOthers ==
  ASSUME TypeInv, NEW t \in Threads, Search(t)
  PROVE  /\ UNCHANGED <<live, name, map>>
         /\ \A u \in Threads \ {t} :
              /\ pc'[u] = pc[u] /\ list_ptr'[u] = list_ptr[u]
              /\ cur'[u] = cur[u] /\ found'[u] = found[u]
<1> USE DEF TypeInv, TypeOK, heapVars, listVars, searchVars
<1>1. ASSUME NEW e, Searched(t, e)
      PROVE  \A u \in Threads \ {t} : found'[u] = found[u]
  BY <1>1 DEF Searched
<1>2. \A u \in Threads \ {t} : found'[u] = found[u]
  BY <1>1 DEF Search, Find, LockList, NextElement, UnlockList, Lock, WaitElement, Inside,
         Unlock, ReleaseElement, GiveUp, Fault, ReadLockCount, WriteLockCount
<1>3. UNCHANGED <<live, name, map>>
  BY DEF Search, Find, LockList, NextElement, UnlockList, Lock, WaitElement, Inside, Unlock,
         ReleaseElement, GiveUp, Fault, ReadLockCount, WriteLockCount
<1> QED
  BY <1>2, <1>3, SearchLocal, SearchKeeps

(* So searches keep PtrInv.                                                *)
LEMMA SearchKeepsPtr ==
  ASSUME TypeInv, SearchInv, PtrInv, NEW t \in Threads, Search(t)
  PROVE  PtrInv'
<1>1. ASSUME NEW u \in Threads \ {t}
      PROVE  /\ PtrHolds(u)'
             /\ u \in Workers => WorkerPtrHolds(u)'
             /\ u = Game => GamePtrHolds'
  BY SearchOthers DEF PtrInv, PtrHolds, WorkerPtrHolds, GamePtrHolds
<1>2. \A w \in Workers : w \in Threads
  BY DEF Threads
<1>3. Game \in Threads
  BY DEF Threads
<1> QED
  BY <1>1, <1>2, <1>3, SearchPtr DEF PtrInv

(* So do the other steps of requests, which change no pointer.             *)
LEMMA WorkerKeepsPtr ==
  ASSUME TypeInv, PtrInv, NEW w \in Workers,
         Request(w) \/ Deny(w) \/ Admit(w) \/ Count(w) \/ Uncount(w)
  PROVE  /\ PtrInv'
         /\ UNCHANGED <<list_ptr, cur, found>>
<1>1. /\ UNCHANGED <<live, name, list_ptr, cur, found>>
      /\ \E step \in WorkerSteps \union {"find"} : Goto(w, step)
      /\ pc[w] \in WorkerSteps
      /\ \A u \in Workers \ {w} : map'[u] = map[u]
  BY DEF Request, Deny, Admit, Count, Uncount, ReadRequests, WriteRequests, Done,
         listVars, heapVars, searchVars, WorkerSteps, At, Threads, TypeInv, TypeOK
<1>2. w \in Threads /\ w # Game /\ Game \in Threads /\ \A u \in Workers : u \in Threads
  BY ThreadsAssumption DEF Threads
<1>3. /\ pc'[w] \in WorkerSteps \union {"find"}
      /\ \A u \in Threads \ {w} : pc'[u] = pc[u]
  BY <1>1, <1>2 DEF Goto, TypeInv, TypeOK
<1>4. list_ptr[w] = "none" /\ found[w] = NoElement /\ cur[w] = NoElement
  BY <1>1, <1>2 DEF PtrInv, PtrHolds, WorkerPtrHolds, ScanSteps, ElementSteps, WorkerSteps
<1>5. PtrHolds(w)' /\ WorkerPtrHolds(w)'
  BY <1>1, <1>3, <1>4, HeapAssumption
     DEF PtrHolds, WorkerPtrHolds, ElementSteps, ScanSteps, WorkerSteps, TypeInv, TypeOK
<1>6. ASSUME NEW u \in Threads \ {w}
      PROVE  PtrHolds(u)' /\ (u \in Workers => WorkerPtrHolds(u)')
  BY <1>1, <1>3 DEF PtrInv, PtrHolds, WorkerPtrHolds
<1>7. GamePtrHolds'
  BY <1>1, <1>2, <1>3 DEF PtrInv, GamePtrHolds
<1> QED
  BY <1>1, <1>2, <1>5, <1>6, <1>7 DEF PtrInv

(* So does the game thread: a pointer to what it deletes dangles.          *)
LEMMA GameKeepsPtr ==
  ASSUME TypeInv, PtrInv,
         \/ StartMapServer \/ ReloadMapPartDefinitions \/ StopMapServer \/ Drained
         \/ GetFirstDefinition \/ LockForRemoval \/ RemoveDefinition \/ DeleteElement
         \/ ClearLists \/ AddMapDefinition \/ CreateList \/ AppendDefinition \/ Loaded
  PROVE  PtrInv'
<1> USE DEF At, Goto, listVars, heapVars, searchVars
<1>0. /\ Game \in Threads /\ Game \notin Workers /\ \A w \in Workers : w \in Threads \ {Game}
      /\ NoElement \notin Elements /\ Dangling \notin Elements /\ NoElement # Dangling
  BY ThreadsAssumption, HeapAssumption DEF Threads
<1>1. /\ pc[Game] \in GameSteps
      /\ pc'[Game] \in GameSteps \union {"find"}
      /\ \A u \in Threads \ {Game} : pc'[u] = pc[u]
  BY <1>0 DEF StartMapServer, ReloadMapPartDefinitions, StopMapServer, Drained,
         GetFirstDefinition, LockForRemoval, RemoveDefinition, DeleteElement, ClearLists,
         AddMapDefinition, CreateList, AppendDefinition, Loaded, TypeInv, TypeOK, GameSteps
<1>2. list_ptr[Game] = "none" /\ found[Game] = NoElement
  BY <1>0, <1>1 DEF PtrInv, PtrHolds, ScanSteps, ElementSteps, GameSteps
<1>3. pc'[Game] \notin ScanSteps
  BY <1>1 DEF ScanSteps, ElementSteps, GameSteps
<1>4. ASSUME UNCHANGED <<found, list_ptr>>,
             live \subseteq live', live' \subseteq Elements,
             \A e \in live : name'[e] = name[e],
             \A t \in Threads \ {Game} : cur'[t] = cur[t] /\ map'[t] = map[t],
             cur'[Game] \in live \union {NoElement, Dangling}
      PROVE  PtrInv'
  <2>1. GamePtrHolds' /\ PtrHolds(Game)'
    BY <1>0, <1>1, <1>2, <1>3, <1>4 DEF PtrInv, GamePtrHolds, PtrHolds, ScanSteps
  <2>2. ASSUME NEW t \in Threads \ {Game}
        PROVE  PtrHolds(t)'
    BY <1>1, <1>4, <2>2 DEF PtrInv, PtrHolds
  <2>3. ASSUME NEW w \in Workers
        PROVE  WorkerPtrHolds(w)'
    <3>1. PtrHolds(w) /\ WorkerPtrHolds(w) /\ w \in Threads \ {Game}
      BY <1>0 DEF PtrInv
    <3> QED
      BY <1>0, <1>1, <1>4, <3>1 DEF PtrHolds, WorkerPtrHolds
  <2> QED
    BY <2>1, <2>2, <2>3 DEF PtrInv
<1>5. cur[Game] \in live \union {NoElement, Dangling} /\ live \subseteq Elements
  BY <1>0 DEF PtrInv, PtrHolds, TypeInv, TypeOK
<1>6. CASE StartMapServer \/ ReloadMapPartDefinitions \/ StopMapServer \/ Drained
  BY <1>4, <1>5, <1>6 DEF StartMapServer, ReloadMapPartDefinitions, StopMapServer, Drained
<1>7. CASE GetFirstDefinition
  BY <1>0, <1>4, <1>5, <1>7 DEF GetFirstDefinition, TypeInv, TypeOK
<1>8. CASE LockForRemoval
  BY <1>0, <1>4, <1>5, <1>8 DEF LockForRemoval, TypeInv, TypeOK
<1>9. CASE RemoveDefinition
  BY <1>4, <1>5, <1>9 DEF RemoveDefinition
<1>10. CASE AddMapDefinition \/ CreateList \/ Loaded
  BY <1>0, <1>4, <1>5, <1>10 DEF AddMapDefinition, CreateList, Loaded, TypeInv, TypeOK
<1>11. CASE AppendDefinition
  <2>1. /\ live \subseteq live' /\ live' \subseteq Elements
        /\ \A e \in live : name'[e] = name[e]
    BY <1>5, <1>11 DEF AppendDefinition, TypeInv, TypeOK
  <2> QED
    BY <1>4, <1>5, <1>11, <2>1 DEF AppendDefinition
<1>12. CASE ClearLists
  <2>1. /\ UNCHANGED <<live, name, map, cur, found>>
        /\ \A t \in Threads : list_ptr'[t] = IF list_ptr[t] = "live" THEN "dead" ELSE list_ptr[t]
    BY <1>12 DEF ClearLists
  <2>2. GamePtrHolds' /\ PtrHolds(Game)'
    BY <1>0, <1>1, <1>2, <1>3, <2>1 DEF PtrInv, GamePtrHolds, PtrHolds, ScanSteps
  <2>3. ASSUME NEW t \in Threads \ {Game}
        PROVE  PtrHolds(t)'
    BY <1>1, <2>1, <2>3 DEF PtrInv, PtrHolds
  <2>4. ASSUME NEW w \in Workers
        PROVE  WorkerPtrHolds(w)'
    BY <1>0, <1>1, <2>1, <2>4 DEF PtrInv, WorkerPtrHolds
  <2> QED
    BY <2>2, <2>3, <2>4 DEF PtrInv
<1>13. CASE DeleteElement
  <2>1. /\ UNCHANGED <<list_ptr, map>>
        /\ live' = live \ {cur[Game]} /\ name' = [name EXCEPT ![cur[Game]] = NoMap]
        /\ cur[Game] \in Elements
    BY <1>0, <1>13 DEF DeleteElement, TypeInv, TypeOK, GameHolds
  <2>2. ASSUME NEW t \in Threads \ {Game}
        PROVE  /\ cur'[t] = IF cur[t] = cur[Game] THEN Dangling ELSE cur[t]
               /\ found'[t] = IF found[t] = cur[Game] THEN Dangling ELSE found[t]
    BY <1>13 DEF DeleteElement
  <2>3. cur'[Game] = NoElement /\ found'[Game] = NoElement
    BY <1>0, <1>2, <1>13, <2>1 DEF DeleteElement
  <2>4. GamePtrHolds' /\ PtrHolds(Game)'
    BY <1>0, <1>1, <1>2, <1>3, <2>1, <2>3 DEF PtrInv, GamePtrHolds, PtrHolds, ScanSteps
  <2>5. ASSUME NEW t \in Threads \ {Game}
        PROVE  PtrHolds(t)'
    <3>1. PtrHolds(t)
      BY DEF PtrInv
    <3> QED
      BY <1>0, <1>1, <2>1, <2>2, <3>1 DEF PtrHolds
  <2>6. ASSUME NEW w \in Workers
        PROVE  WorkerPtrHolds(w)'
    <3>1. PtrHolds(w) /\ WorkerPtrHolds(w) /\ w \in Threads \ {Game}
      BY <1>0 DEF PtrInv
    <3>2. \A e \in live' : e \in Elements /\ name'[e] = name[e]
      BY <2>1 DEF TypeInv, TypeOK
    <3> QED
      BY <1>0, <1>1, <1>5, <2>1, <2>2, <3>1, <3>2 DEF PtrHolds, WorkerPtrHolds
  <2> QED
    BY <2>4, <2>5, <2>6 DEF PtrInv
<1> QED
  BY <1>6, <1>7, <1>8, <1>9, <1>10, <1>11, <1>12, <1>13

(* PtrInv is inductive.                                                    *)
LEMMA PtrStep ==
  ASSUME TypeInv, SearchInv, PtrInv, [Next]_vars
  PROVE  PtrInv'
<1>1. CASE UNCHANGED vars
  BY <1>1 DEF vars, heapVars, searchVars, PtrInv, PtrHolds, WorkerPtrHolds, GamePtrHolds
<1>2. ASSUME NEW w \in Workers, Request(w) \/ Worker(w)
      PROVE  PtrInv'
  BY <1>2, WorkerKeepsPtr, SearchKeepsPtr DEF Worker, Threads
<1>3. CASE StartMapServer \/ ReloadMapPartDefinitions \/ StopMapServer
  BY <1>3, GameKeepsPtr
<1>4. CASE InCall
  BY <1>4, GameKeepsPtr, SearchKeepsPtr DEF InCall, Threads
<1> QED
  BY <1>1, <1>2, <1>3, <1>4 DEF Next, Crashed

(* At the start all pointers are null.                                     *)
LEMMA PtrInit ==
  ASSUME VerdictInit
  PROVE  PtrInv
<1> \A w \in Workers : w \in Threads
  BY DEF Threads
<1> QED
  BY HeapAssumption DEF Threads, VerdictInit, Init, PtrInv, PtrHolds, WorkerPtrHolds,
         GamePtrHolds, ScanSteps, ElementSteps

-----------------------------------------------------------------------------
(* Where the game thread deletes elements and lists.                       *)
UnloadSteps == {"head", "remove", "busy", "delete", "clear"}

(* Deleting is done by a stop, by a start, before which the system is      *)
(* inactive too, or by a reload.                                           *)
CallInv ==
  /\ call = "start" => ~system_active
  /\ call = "reload" => reloaded
  /\ pc[Game] = "drain" => call = "stop"
  /\ pc[Game] \in UnloadSteps => call # "none"

(* No pointer of w dangles.                                                *)
Intact(w) == list_ptr[w] # "dead" /\ cur[w] # Dangling /\ found[w] # Dangling

(* The two reasons for which any pointer may dangle.                       *)
Excused == "requests" \in lost \/ reloaded

(* Otherwise only the pointers of late requests dangle.                    *)
SafeInv == Excused \/ \A w \in Workers : late[w] \/ Intact(w)

(* A thread that has used a dangling pointer had a reason.                 *)
CrashInv ==
  crashed # NoThread =>
    \/ Excused
    \/ crashed \in Workers /\ late[crashed] /\ pc[crashed] # "idle"

(* CallInv is inductive.                                                   *)
LEMMA CallStep ==
  ASSUME TypeInv, CallInv, VerdictNext
  PROVE  CallInv'
<1> USE DEF TypeInv, TypeOK, CallInv, serviceVars, gameVars, At, Goto, UnloadSteps
<1>1. Game \in Threads /\ (call' = "reload" \/ reloaded => reloaded')
  BY DEF Threads, VerdictNext, HistoryNext
<1>2. ASSUME NEW w \in Workers, Request(w) \/ Worker(w)
      PROVE  CallInv'
  <2>1. Game \in Threads \ {w}
    BY ThreadsAssumption DEF Threads
  <2> QED
    BY <1>1, <1>2, <2>1, RequestStep
<1>3. CASE StartMapServer \/ ReloadMapPartDefinitions \/ StopMapServer
  BY <1>1, <1>3 DEF StartMapServer, ReloadMapPartDefinitions, StopMapServer
<1>4. CASE Search(Game)
  BY <1>1, <1>4, SearchKeeps DEF SearchSteps, ElementSteps
<1>5. CASE Drained \/ GetFirstDefinition \/ LockForRemoval
  BY <1>1, <1>5 DEF Drained, GetFirstDefinition, LockForRemoval
<1>6. CASE RemoveDefinition \/ DeleteElement \/ ClearLists
  BY <1>1, <1>6 DEF RemoveDefinition, DeleteElement, ClearLists
<1>7. CASE AddMapDefinition \/ CreateList
  BY <1>1, <1>7 DEF AddMapDefinition, CreateList
<1>8. CASE AppendDefinition \/ Loaded
  BY <1>1, <1>8 DEF AppendDefinition, Loaded
<1>9. CASE Crashed
  BY <1>1, <1>9 DEF Crashed, vars
<1> QED
  BY <1>2, <1>3, <1>4, <1>5, <1>6, <1>7, <1>8, <1>9 DEF VerdictNext, Next, InCall

(* Only deleting makes a pointer dangle, and then requests in progress are *)
(* late ones.                                                              *)
LEMMA SafeStep ==
  ASSUME TypeInv, SearchInv, PtrInv, StopInv, CallInv, SafeInv, VerdictNext
  PROVE  SafeInv'
<1>1. Excused => Excused'
  BY DEF Excused, VerdictNext, HistoryNext
<1>2. ASSUME NEW w \in Workers, late[w], ~late'[w]
      PROVE  Intact(w)'
  <2>1. pc'[w] = "idle" /\ w \in Threads
    BY <1>2 DEF VerdictNext, HistoryNext, Threads
  <2>2. PtrInv'
    BY PtrStep DEF VerdictNext
  <2> QED
    BY <2>1, <2>2, HeapAssumption
       DEF PtrInv, PtrHolds, WorkerPtrHolds, Intact, ScanSteps, ElementSteps
<1>3. ASSUME \A w \in Workers : Intact(w) => Intact(w)'
      PROVE  SafeInv'
  BY <1>1, <1>2, <1>3 DEF SafeInv
<1>4. ASSUME NEW w \in Workers, Request(w) \/ Worker(w)
      PROVE  SafeInv'
  <2>1. CASE Search(w)
    <3>1. w \in Threads /\ \A u \in Workers : u \in Threads
      BY DEF Threads
    <3>2. Intact(w) => Intact(w)'
      BY <2>1, <3>1, SearchPtr DEF Intact
    <3>3. \A u \in Workers \ {w} : Intact(u) => Intact(u)'
      BY <2>1, <3>1, SearchOthers DEF Intact
    <3> QED
      BY <1>3, <3>2, <3>3
  <2>2. CASE ~Search(w)
    <3>1. UNCHANGED <<list_ptr, cur, found>>
      BY <1>4, <2>2, WorkerKeepsPtr DEF Worker
    <3> QED
      BY <1>3, <3>1 DEF Intact
  <2> QED
    BY <2>1, <2>2
<1>5. CASE Search(Game)
  <2>1. \A u \in Workers : u \in Threads \ {Game}
    BY ThreadsAssumption DEF Threads
  <2> QED
    BY <1>3, <1>5, <2>1, SearchOthers DEF Intact, Threads
<1>6. CASE DeleteElement \/ ClearLists
  <2>1. pc[Game] \in {"delete", "clear"}
    BY <1>6 DEF DeleteElement, ClearLists, At
  <2>2. Excused \/ Inactive
    BY <2>1 DEF CallInv, StopInv, Excused, Inactive, UnloadSteps, TypeInv, TypeOK
  <2>3. ASSUME NEW w \in Workers, Intact(w), ~Intact(w)'
        PROVE  Excused \/ late[w]
    <3>1. w \in Threads /\ w # Game
      BY ThreadsAssumption DEF Threads
    <3>2. pc[w] \in ScanSteps
      <4>1. CASE ClearLists
        BY <2>3, <3>1, <4>1 DEF ClearLists, Intact, PtrInv, PtrHolds
      <4>2. CASE DeleteElement
        <5>1. UNCHANGED list_ptr /\ cur[Game] \in Elements
          BY <4>2 DEF DeleteElement, TypeInv, TypeOK, GameHolds, At
        <5>2. cur[w] = cur[Game] \/ found[w] = cur[Game]
          BY <2>3, <3>1, <4>2, <5>1 DEF DeleteElement, Intact
        <5> QED
          BY <3>1, <5>1, <5>2, HeapAssumption
             DEF PtrInv, PtrHolds, WorkerPtrHolds, ScanSteps
      <4> QED
        BY <1>6, <4>1, <4>2
    <3>3. InProgress(w)
      BY <3>2 DEF ScanSteps, InProgress, SearchSteps
    <3> QED
      BY <2>2, <3>3 DEF StopInv, Excused
  <2>4. ASSUME NEW w \in Workers, late[w]
        PROVE  late'[w] \/ Intact(w)'
    BY <1>2, <2>4
  <2> QED
    BY <1>1, <2>3, <2>4 DEF SafeInv
<1>7. CASE \/ StartMapServer \/ ReloadMapPartDefinitions \/ StopMapServer \/ Drained
           \/ GetFirstDefinition \/ LockForRemoval \/ RemoveDefinition
           \/ AddMapDefinition \/ CreateList \/ AppendDefinition \/ Loaded
  <2>1. \A w \in Workers : w \in Threads /\ w # Game
    BY ThreadsAssumption DEF Threads
  <2>2. /\ UNCHANGED <<list_ptr, found>>
        /\ \A w \in Workers : cur'[w] = cur[w]
    BY <1>7, <2>1 DEF StartMapServer, ReloadMapPartDefinitions, StopMapServer, Drained,
         GetFirstDefinition, LockForRemoval, RemoveDefinition, AddMapDefinition,
         CreateList, AppendDefinition, Loaded, searchVars, TypeInv, TypeOK
  <2> QED
    BY <1>3, <2>2 DEF Intact
<1>8. CASE Crashed
  BY <1>3, <1>8 DEF Crashed, vars, searchVars, Intact
<1> QED
  BY <1>4, <1>5, <1>6, <1>7, <1>8 DEF VerdictNext, Next, InCall

(* Nothing but Fault sets crashed, and nothing happens after it.           *)
LEMMA OnlyFaultCrashes ==
  ASSUME Next
  PROVE  \/ crashed' = crashed /\ crashed = NoThread
         \/ UNCHANGED vars
         \/ \E t \in Threads : Fault(t)
<1> USE DEF At
<1>1. ASSUME NEW t \in Threads, Search(t), ~Fault(t)
      PROVE  crashed' = crashed /\ crashed = NoThread
  BY <1>1 DEF Search, Find, LockList, NextElement, UnlockList, Lock, WaitElement, Inside,
         Unlock, ReleaseElement, GiveUp, ReadLockCount, WriteLockCount
<1>2. ASSUME NEW w \in Workers, Request(w) \/ Deny(w) \/ Admit(w) \/ Count(w) \/ Uncount(w)
      PROVE  crashed' = crashed /\ crashed = NoThread
  BY <1>2 DEF Request, Deny, Admit, Count, Uncount, ReadRequests, WriteRequests
<1>3. ASSUME \/ StartMapServer \/ ReloadMapPartDefinitions \/ StopMapServer \/ Drained
             \/ GetFirstDefinition \/ LockForRemoval \/ RemoveDefinition \/ DeleteElement
             \/ ClearLists \/ AddMapDefinition \/ CreateList \/ AppendDefinition \/ Loaded
      PROVE  crashed' = crashed /\ crashed = NoThread
  BY <1>3 DEF StartMapServer, ReloadMapPartDefinitions, StopMapServer, Drained,
         GetFirstDefinition, LockForRemoval, RemoveDefinition, DeleteElement, ClearLists,
         AddMapDefinition, CreateList, AppendDefinition, Loaded
<1>4. Game \in Threads /\ \A w \in Workers : w \in Threads
  BY DEF Threads
<1> QED
  BY <1>1, <1>2, <1>3, <1>4 DEF Next, Worker, InCall, Crashed

(* The thread that faults is a worker with a pointer that dangles.         *)
LEMMA FaultOfWorker ==
  ASSUME TypeInv, SearchInv, PtrInv, NEW t \in Threads, Fault(t)
  PROVE  /\ t \in Workers /\ ~Intact(t) /\ pc[t] # "idle"
         /\ crashed' = t /\ pc' = pc
<1>1. pc[t] \in ScanSteps
  BY DEF Fault, ScanSteps
<1>2. ~Intact(t) \/ t = Game
  <2>1. CASE pc[t] \in ElementSteps /\ cur[t] \notin live
    BY <2>1, HeapAssumption
       DEF SearchInv, Scans, ScanHolds, Touched, PtrInv, PtrHolds, Intact, TypeInv, TypeOK
  <2>2. CASE list_ptr[t] = "dead"
    BY <2>2 DEF Intact
  <2> QED
    BY <2>1, <2>2 DEF Fault, Valid
<1>3. t # Game
  <2> SUFFICES ASSUME t = Game
               PROVE  FALSE
    OBVIOUS
  <2>1. list_ptr[t] # "dead" /\ (pc[t] \in ElementSteps => list_ptr[t] # "none")
    BY DEF PtrInv, GamePtrHolds
  <2>2. pc[t] \in ElementSteps => cur[t] \in live
    BY <2>1 DEF SearchInv, Scans, ScanHolds, Touched
  <2> QED
    BY <2>1, <2>2 DEF Fault, Valid
<1> QED
  BY <1>1, <1>2, <1>3 DEF Threads, ScanSteps, ElementSteps, Fault

(* CrashInv is inductive.                                                  *)
LEMMA CrashStep ==
  ASSUME TypeInv, SearchInv, PtrInv, StopInv, SafeInv, CrashInv, VerdictNext
  PROVE  CrashInv'
<1>1. /\ Excused => Excused'
      /\ \A w \in Workers : late[w] /\ pc'[w] # "idle" => late'[w]
  BY DEF Excused, VerdictNext, HistoryNext
<1>2. CASE crashed' = crashed /\ crashed = NoThread
  BY <1>2 DEF CrashInv
<1>3. CASE UNCHANGED vars
  BY <1>1, <1>3 DEF CrashInv, vars
<1>4. ASSUME NEW t \in Threads, Fault(t)
      PROVE  CrashInv'
  <2>1. /\ t \in Workers /\ ~Intact(t) /\ pc[t] # "idle"
        /\ crashed' = t /\ pc' = pc
    BY <1>4, FaultOfWorker
  <2>2. Excused \/ late[t]
    BY <2>1 DEF SafeInv
  <2> QED
    BY <1>1, <2>1, <2>2 DEF CrashInv
<1> QED
  BY <1>2, <1>3, <1>4, OnlyFaultCrashes DEF VerdictNext

(* The inductive invariant, as a whole.                                    *)
FaultInv ==
  /\ TypeInv /\ RequestsCounted /\ StopInv
  /\ SearchInv /\ PtrInv
  /\ CallInv /\ SafeInv /\ CrashInv

(* It holds at the start.                                                  *)
LEMMA FaultInit ==
  ASSUME VerdictInit
  PROVE  FaultInv
<1>1. CallInv
  BY DEF VerdictInit, Init, CallInv, UnloadSteps, Threads
<1>2. SafeInv
  BY HeapAssumption DEF VerdictInit, Init, SafeInv, Intact, Threads
<1>3. CrashInv
  BY DEF VerdictInit, Init, CrashInv
<1> QED
  BY <1>1, <1>2, <1>3, InitType, CountedInit, StopInit, SearchInit, PtrInit
     DEF FaultInv, VerdictInit

(* It is kept by every step.                                               *)
LEMMA FaultStep ==
  ASSUME FaultInv, [VerdictNext]_<<vars, history>>
  PROVE  FaultInv'
<1>1. TypeInv' /\ RequestsCounted' /\ StopInv' /\ SearchInv' /\ PtrInv'
  BY NextType, CountedStep, StopStep, SearchInvStep, PtrStep DEF FaultInv, VerdictNext
<1>2. CASE VerdictNext
  BY <1>1, <1>2, CallStep, SafeStep, CrashStep DEF FaultInv
<1>3. CASE UNCHANGED <<vars, history>>
  <2>1. CallInv'
    BY <1>3 DEF FaultInv, CallInv, vars, serviceVars, gameVars, history
  <2>2. SafeInv'
    BY <1>3 DEF FaultInv, SafeInv, Intact, Excused, vars, searchVars, history
  <2>3. CrashInv'
    BY <1>3 DEF FaultInv, CrashInv, Excused, vars, history
  <2> QED
    BY <1>1, <2>1, <2>2, <2>3 DEF FaultInv
<1> QED
  BY <1>2, <1>3

(* Memory that the unload has freed is used only by a request that         *)
(* StopMapServer did not wait for, after a lost update of the count of     *)
(* requests, or after a reload (MapDownloadServer.cpp:999-1057, 1124-1149, *)
(* 1266-1271).                                                             *)
THEOREM FaultsHaveCause == VerdictSpec => []FaultsExplained
<1>1. VerdictInit => FaultInv
  BY FaultInit
<1>2. FaultInv /\ [VerdictNext]_<<vars, history>> => FaultInv'
  BY FaultStep
<1>3. FaultInv => FaultsExplained
  BY ThreadsAssumption DEF FaultInv, CrashInv, Excused, FaultsExplained
<1> QED
  BY <1>1, <1>2, <1>3, PTL DEF VerdictSpec

(* The element that a request has found is not deleted before the request  *)
(* is through with it, and has the name it asked for: only after a lost    *)
(* update of the count of requests, after a reload, or if the stop did not *)
(* wait for the request, can its pointer be to a deleted element           *)
(* (ServerCallback, MapDownloadServer.cpp:891-974, 999-1057).              *)
THEOREM RightMapAnswered == VerdictSpec => []AnswersRequestedMap
<1>1. VerdictInit => FaultInv
  BY FaultInit
<1>2. FaultInv /\ [VerdictNext]_<<vars, history>> => FaultInv'
  BY FaultStep
<1>3. FaultInv => AnswersRequestedMap
  <2> SUFFICES ASSUME FaultInv, NEW w \in Workers,
                      list_ptr[w] = "none", pc[w] \in ElementSteps
               PROVE  \/ cur[w] \in live /\ name[cur[w]] = map[w]
                      \/ /\ cur[w] = Dangling
                         /\ "requests" \in lost \/ reloaded \/ late[w]
    BY DEF AnswersRequestedMap
  <2>1. cur[w] \in live \union {Dangling}
    BY DEF FaultInv, PtrInv, PtrHolds, Threads
  <2>2. cur[w] \in live => name[cur[w]] = map[w]
    BY DEF FaultInv, PtrInv, WorkerPtrHolds
  <2>3. cur[w] = Dangling => Excused \/ late[w]
    BY DEF FaultInv, SafeInv, Intact
  <2> QED
    BY <2>1, <2>2, <2>3 DEF Excused
<1> QED
  BY <1>1, <1>2, <1>3, PTL DEF VerdictSpec

-----------------------------------------------------------------------------
(* A step that changes nothing of what the gate sees.                      *)
LEMMA GateUnseen ==
  ASSUME UNCHANGED <<system_active, StopStage, AdmittedRequests, InProgressSet>>,
         VerdictNext
  PROVE  Gate!Next \/ UNCHANGED Gate!vars
<1>1. "requests" \in lost => "requests" \in lost'
  BY DEF VerdictNext, HistoryNext
<1>2. CASE "requests" \in lost'
  BY <1>2 DEF Gate!Next
<1>3. CASE "requests" \notin lost'
  <2>1. ("requests" \notin lost)' = ("requests" \notin lost)
    BY <1>1, <1>3
  <2> QED
    BY <2>1 DEF Gate!vars, InProgressSet
<1> QED
  BY <1>2, <1>3

(* A step of the gate, unless the count has gone wrong.                    *)
LEMMA GatePassed ==
  ASSUME VerdictNext, Gate!Passage
  PROVE  Gate!Next
<1>1. "requests" \in lost => "requests" \in lost'
  BY DEF VerdictNext, HistoryNext
<1>2. CASE "requests" \in lost'
  BY <1>2 DEF Gate!Next
<1>3. CASE "requests" \notin lost'
  BY <1>1, <1>3 DEF Gate!Next
<1> QED
  BY <1>2, <1>3

(* A request goes through the gate.                                        *)
LEMMA RequestGate ==
  ASSUME FaultInv, VerdictNext, NEW w \in Workers, Request(w) \/ Worker(w)
  PROVE  Gate!Next \/ UNCHANGED Gate!vars
<1>1. /\ w \in Threads /\ Game \in Threads \ {w}
      /\ \A u \in Workers \ {w} : u \in Threads \ {w}
  BY ThreadsAssumption DEF Threads
<1>2. TypeInv
  BY DEF FaultInv
<1>3. UNCHANGED <<system_active, call>> /\ pc'[Game] = pc[Game]
  BY <1>1, <1>2, RequestStep
<1>4. UNCHANGED <<system_active, StopStage>>
  BY <1>3 DEF StopStage, Unloading
<1>5. \A u \in Workers \ {w} : pc'[u] = pc[u]
  BY <1>1, <1>2, RequestStep
<1> USE DEF InProgress, SearchSteps, ElementSteps
<1>6. CASE AdmittedRequests' = AdmittedRequests /\ InProgressSet' = InProgressSet
  BY <1>4, <1>6, GateUnseen
<1>7. CASE pc[w] = "check" /\ pc'[w] = "count" /\ system_active
  <2>1. AdmittedRequests' = AdmittedRequests \union {w}
    BY <1>5, <1>7 DEF AdmittedRequests
  <2>2. InProgressSet' = InProgressSet /\ w \notin InProgressSet
    BY <1>5, <1>7 DEF InProgressSet
  <2>3. Gate!Admit(w)
    BY <1>4, <1>7, <2>1, <2>2 DEF Gate!Admit, InProgressSet
  <2> QED
    BY <2>3, GatePassed DEF Gate!Passage
<1>8. CASE pc[w] = "count2" /\ pc'[w] \in {"find", "uncount"}
  <2>1. AdmittedRequests' = AdmittedRequests \ {w} /\ w \in AdmittedRequests
    BY <1>5, <1>8 DEF AdmittedRequests
  <2>2. InProgressSet' = InProgressSet \union {w}
    BY <1>5, <1>8 DEF InProgressSet
  <2>3. Gate!Enter(w)
    BY <1>4, <2>1, <2>2 DEF Gate!Enter, InProgressSet
  <2> QED
    BY <2>3, GatePassed DEF Gate!Passage
<1>9. CASE pc[w] = "uncount2" /\ pc'[w] = "idle"
  <2>1. AdmittedRequests' = AdmittedRequests
    BY <1>5, <1>9 DEF AdmittedRequests
  <2>2. InProgressSet' = InProgressSet \ {w}
    BY <1>5, <1>9 DEF InProgressSet
  <2>3. Gate!Leave(w)
    BY <1>4, <2>1, <2>2 DEF Gate!Leave, InProgressSet
  <2> QED
    BY <2>3, GatePassed DEF Gate!Passage
<1>10. CASE \/ pc[w] = "idle" /\ pc'[w] = "check"
            \/ pc[w] = "check" /\ pc'[w] = "idle"
            \/ pc[w] = "count" /\ pc'[w] = "count2"
            \/ pc[w] \in ProgressSteps /\ pc'[w] \in ProgressSteps
  <2>1. AdmittedRequests' = AdmittedRequests
    BY <1>5, <1>10 DEF AdmittedRequests, ProgressSteps
  <2>2. InProgressSet' = InProgressSet
    BY <1>5, <1>10 DEF InProgressSet, ProgressSteps
  <2> QED
    BY <1>6, <2>1, <2>2
<1> QED
  BY <1>2, <1>7, <1>8, <1>9, <1>10, RequestStep

(* The game thread moves the gate.                                         *)
LEMMA GameGate ==
  ASSUME FaultInv, VerdictNext,
         \/ StartMapServer \/ ReloadMapPartDefinitions \/ StopMapServer \/ InCall
  PROVE  Gate!Next \/ UNCHANGED Gate!vars
<1>1. Game \in Threads /\ \A w \in Workers : w \in Threads \ {Game}
  BY ThreadsAssumption DEF Threads
<1>2. TypeInv /\ CallInv
  BY DEF FaultInv
<1>3. \A w \in Workers : pc'[w] = pc[w]
  BY <1>1, <1>2, GameKeeps, SearchKeeps DEF InCall
<1>4. UNCHANGED <<AdmittedRequests, InProgressSet>>
  BY <1>3 DEF AdmittedRequests, InProgressSet, InProgress
<1>5. ASSUME UNCHANGED <<system_active, StopStage>>
      PROVE  UNCHANGED Gate!vars \/ Gate!Next
  BY <1>4, <1>5, GateUnseen
<1> USE DEF TypeInv, TypeOK, At, Goto, StopStage, Unloading, serviceVars, gameVars
<1>6. CASE StopMapServer
  <2>1. Gate!Close
    BY <1>1, <1>2, <1>4, <1>6 DEF StopMapServer, Gate!Close, InProgressSet
  <2> QED
    BY <2>1, GatePassed DEF Gate!Passage
<1>7. CASE Drained
  <2>1. call = "stop" /\ StopStage = "waiting" /\ StopStage' = "clearing"
    BY <1>1, <1>2, <1>7 DEF Drained, CallInv
  <2>2. CASE "requests" \in lost'
    BY <2>2 DEF Gate!Next
  <2>3. CASE "requests" \notin lost'
    <3>1. Cardinality(InProgressSet) = 0
      BY <1>7, <2>3 DEF FaultInv, RequestsCounted, InProgressSet, Drained, VerdictNext,
         HistoryNext
    <3>2. InProgressSet = {}
      <4>1. InProgressSet \subseteq Workers
        BY DEF InProgressSet
      <4>2. \A w \in Workers : w \in InProgressSet => Cardinality(InProgressSet) > 0
        BY InProgressCard
      <4> QED
        BY <3>1, <4>1, <4>2
    <3>3. Gate!Clear
      BY <1>4, <1>7, <2>1, <3>2 DEF Drained, Gate!Clear, InProgressSet
    <3> QED
      BY <3>3, GatePassed DEF Gate!Passage
  <2> QED
    BY <2>2, <2>3
<1>8. CASE ClearLists
  <2>1. UNCHANGED system_active /\ StopStage' = "idle"
    BY <1>1, <1>2, <1>8 DEF ClearLists
  <2>2. CASE call = "stop"
    <3>1. StopStage = "clearing"
      BY <1>8, <2>2 DEF ClearLists
    <3>2. Gate!Cleared
      BY <1>4, <2>1, <3>1 DEF Gate!Cleared, InProgressSet
    <3> QED
      BY <3>2, GatePassed DEF Gate!Passage
  <2>3. CASE call # "stop"
    <3>1. StopStage = "idle"
      BY <1>8, <2>3 DEF ClearLists
    <3> QED
      BY <1>5, <2>1, <3>1
  <2> QED
    BY <2>2, <2>3
<1>9. CASE Loaded
  <2>1. StopStage = "idle" /\ StopStage' = "idle"
    BY <1>1, <1>2, <1>9 DEF Loaded
  <2>2. CASE call = "start"
    <3>1. ~system_active /\ system_active' = TRUE
      BY <1>2, <1>9, <2>2 DEF Loaded, CallInv
    <3>2. Gate!Open
      BY <1>4, <2>1, <3>1 DEF Gate!Open, InProgressSet
    <3> QED
      BY <3>2, GatePassed DEF Gate!Passage
  <2>3. CASE call # "start"
    <3>1. UNCHANGED system_active
      BY <1>2, <1>9, <2>3 DEF Loaded
    <3> QED
      BY <1>5, <2>1, <3>1
  <2> QED
    BY <2>2, <2>3
<1>10. CASE Search(Game)
  <2>1. UNCHANGED <<system_active, call>> /\ pc[Game] \in SearchSteps \union ElementSteps
        /\ pc'[Game] \notin {"drain", "head", "remove", "busy", "delete", "clear"}
    BY <1>1, <1>2, <1>10, SearchKeeps DEF SearchSteps, ElementSteps
  <2> QED
    BY <1>5, <2>1 DEF SearchSteps, ElementSteps
<1>11. CASE StartMapServer \/ ReloadMapPartDefinitions
  BY <1>1, <1>2, <1>5, <1>11 DEF StartMapServer, ReloadMapPartDefinitions
<1>12. CASE GetFirstDefinition \/ LockForRemoval
  BY <1>1, <1>2, <1>5, <1>12 DEF GetFirstDefinition, LockForRemoval
<1>13. CASE RemoveDefinition \/ DeleteElement
  BY <1>1, <1>2, <1>5, <1>13 DEF RemoveDefinition, DeleteElement
<1>14. CASE AddMapDefinition \/ CreateList \/ AppendDefinition
  BY <1>1, <1>2, <1>5, <1>14 DEF AddMapDefinition, CreateList, AppendDefinition
<1> QED
  BY <1>6, <1>7, <1>8, <1>9, <1>10, <1>11, <1>12, <1>13, <1>14 DEF InCall

(* Every step of the service is a step of the gate or is not seen by it.   *)
LEMMA GateStep ==
  ASSUME FaultInv, [VerdictNext]_<<vars, history>>
  PROVE  [Gate!Next]_(Gate!vars)
<1>1. CASE UNCHANGED <<vars, history>>
  BY <1>1 DEF vars, serviceVars, gameVars, history, Gate!vars, StopStage, Unloading,
     AdmittedRequests, InProgress
<1>2. CASE VerdictNext
  <2>1. CASE \E w \in Workers : Request(w) \/ Worker(w)
    BY <1>2, <2>1, RequestGate
  <2>2. CASE StartMapServer \/ ReloadMapPartDefinitions \/ StopMapServer \/ InCall
    BY <1>2, <2>2, GameGate
  <2>3. CASE Crashed
    BY <1>2, <2>3, GateUnseen DEF Crashed, vars, serviceVars, gameVars, StopStage,
       Unloading, AdmittedRequests, InProgressSet, InProgress
  <2> QED
    BY <1>2, <2>1, <2>2, <2>3 DEF VerdictNext, Next
<1> QED
  BY <1>1, <1>2

(* The service implements the gate (ServerCallback and StopMapServer,      *)
(* MapDownloadServer.cpp:999-1057, 1124-1149): no request goes in that was *)
(* not admitted while the system was active, and a stop unloads nothing    *)
(* before those that were in have left.                                    *)
THEOREM ServiceKeepsGate == VerdictSpec => GateKept
<1>1. VerdictInit => Gate!Init
  <2> SUFFICES ASSUME VerdictInit
               PROVE  Gate!Init
    OBVIOUS
  <2>1. Game \in Threads /\ \A w \in Workers : w \in Threads
    BY DEF Threads
  <2> QED
    BY <2>1 DEF VerdictInit, Init, HistoryInit, Gate!Init, StopStage, Unloading,
       AdmittedRequests, InProgress, SearchSteps, ElementSteps
<1>2. VerdictInit => FaultInv
  BY FaultInit
<1>3. FaultInv /\ [VerdictNext]_<<vars, history>> => FaultInv'
  BY FaultStep
<1>4. FaultInv /\ [VerdictNext]_<<vars, history>> => [Gate!Next]_(Gate!vars)
  BY GateStep
<1> QED
  BY <1>1, <1>2, <1>3, <1>4, PTL DEF VerdictSpec, GateKept, Gate!Spec
=============================================================================
