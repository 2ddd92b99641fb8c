--------------------- MODULE MapDownloadProgress_proofs ---------------------
(***************************************************************************)
(* Why requests for map part definitions end and StopMapServer returns, as *)
(* far as that is a matter of safety, for any number of workers, maps and  *)
(* elements:                                                               *)
(*   a mutex is held only by a thread that is going to release it, and the *)
(*   two halves of an element's lock are never held by two threads;        *)
(*   the lock count of an element is the number of threads that have       *)
(*   locked it, as long as no update of a lock count was lost;             *)
(*   so whatever a thread waits for, somebody else is about to provide, or *)
(*   the wait times out;                                                   *)
(*   and every step of a request brings it nearer to its end.              *)
(* With the fairness of MapDownloadServer the last two are the argument    *)
(* for StopReturns and RequestsEnd, which TLC checks.                      *)
(***************************************************************************)
EXTENDS MapDownload_proofs

-----------------------------------------------------------------------------
(* Where a thread holds the mutex of an element, and where it has counted  *)
(* itself among those who lock it.                                         *)
HoldingSteps == {"inside", "unlock", "release"}
LockedSteps  == {"wait", "inside", "unlock", "giveup", "giveup2"}

Holds(t, e)  == cur[t] = e /\ pc[t] \in HoldingSteps
Locked(t, e) == cur[t] = e /\ pc[t] \in LockedSteps
Lockers(e)   == {t \in Threads : Locked(t, e)}

(* Who has the mutex of the list is in the middle of a search of it, or is *)
(* the game thread taking an element out of it.                            *)
ListMutexInUse ==
  \A t \in Threads : list_owner = t =>
    \/ pc[t] \in ElementSteps \union {"scan"} /\ list_ptr[t] = "live"
    \/ t = Game /\ pc[t] = "busy"

(* The mutex of an element is held by the thread that is between its Lock  *)
(* and the end of its Unlock, and by no other: no path forgets to release  *)
(* it, and no two threads read or send one definition at a time.           *)
ElementMutexesInUse ==
  \A e \in Elements, t \in Threads : owner[e] = t <=> Holds(t, e)

MutexesInUse == ListMutexInUse /\ ElementMutexesInUse

(* m_lock_count is the number of threads that have locked the element.     *)
LocksCounted ==
  "locks" \notin lost =>
    \A e \in live : lock_count[e] = Cardinality(Lockers(e))

(* A thread waits for no mutex that it holds itself.  When the game thread *)
(* waits for requests there is one in progress; when it waits for the lock *)
(* count of an element, with the mutex of the list, a worker has locked    *)
(* the element who needs no list to unlock it.                             *)
NobodyStuck ==
  /\ \A t \in Threads :
       /\ pc[t] = "list" => list_owner # t
       /\ pc[t] = "wait" /\ Valid(t) => owner[cur[t]] # t
  /\ "requests" \notin lost /\ pc[Game] = "drain" /\ requests_in_progress # 0 =>
       \E w \in Workers : InProgress(w)
  /\ "locks" \notin lost /\ pc[Game] = "busy" /\ lock_count[cur[Game]] # 0 =>
       \E w \in Workers : Locked(w, cur[Game]) /\ list_ptr[w] = "none"

(* How far a request is, and within its search or its use of an element.   *)
Phase(w) ==
  CASE pc[w] = "check"  -> 1
    [] pc[w] = "count"  -> 2
    [] pc[w] = "count2" -> 3
    [] pc[w] = "find"   -> 4
    [] pc[w] = "list"   -> 5
    [] pc[w] \in ElementSteps \union {"scan"} /\ list_ptr[w] # "none" -> 6
    [] pc[w] \in ElementSteps /\ list_ptr[w] = "none" -> 7
    [] pc[w] = "uncount"  -> 8
    [] pc[w] = "uncount2" -> 9
    [] OTHER -> 10

Rank(w) ==
  CASE pc[w] = "lock" -> 0
    [] pc[w] = "lock2" -> 1
    [] pc[w] = "wait" -> 2
    [] pc[w] \in {"inside", "giveup"} -> 3
    [] pc[w] \in {"unlock", "giveup2"} -> 4
    [] pc[w] = "release" -> 5
    [] OTHER -> 6

Advances(w) ==
  \/ Phase(w)' > Phase(w)
  \/ /\ Phase(w)' = Phase(w)
     /\ \/ todo'[w] \subseteq todo[w] /\ todo'[w] # todo[w]
        \/ todo'[w] = todo[w] /\ Rank(w)' > Rank(w)

(* A request never goes back: each of its steps leads to a later phase, or *)
(* leaves fewer elements to search, or gets on with the element it is at;  *)
(* and no other thread sends it back.                                      *)
RequestsAdvance ==
  [][\A w \in Workers : pc[w] # "idle" =>
       \/ Advances(w)
       \/ UNCHANGED <<pc[w], todo[w], Phase(w)>>]_vars

-----------------------------------------------------------------------------
(* Where the mutexes go in the steps of a search, and that other threads   *)
(* stay where they are.                                                    *)
LEMMA SearchMutexes ==
  ASSUME TypeInv, SearchInv, PtrInv, MutexesInUse, NEW t \in Threads, Search(t)
  PROVE  MutexesInUse'
<1>1. \A u \in Threads \ {t} :
        pc'[u] = pc[u] /\ cur'[u] = cur[u] /\ list_ptr'[u] = list_ptr[u]
  BY SearchKeeps, SearchLocal
<1>2. \A u \in Threads \ {t}, e \in Elements : Holds(u, e)' <=> Holds(u, e)
  BY <1>1 DEF Holds
<1>3. t # NoThread /\ Game # NoThread
  BY ThreadsAssumption DEF Threads
<1> USE DEF TypeInv, TypeOK, At, Goto
<1>4. ASSUME UNCHANGED owner, \A e \in Elements : Holds(t, e)' <=> Holds(t, e)
      PROVE  ElementMutexesInUse'
  BY <1>2, <1>4 DEF MutexesInUse, ElementMutexesInUse
<1>5. ASSUME UNCHANGED owner, pc[t] \notin HoldingSteps, pc'[t] \notin HoldingSteps
      PROVE  ElementMutexesInUse'
  BY <1>4, <1>5 DEF Holds
<1>6. ASSUME UNCHANGED list_owner,
             list_owner = t =>
               pc'[t] \in ElementSteps \union {"scan"} /\ list_ptr'[t] = "live"
      PROVE  ListMutexInUse'
  BY <1>1, <1>6 DEF MutexesInUse, ListMutexInUse
<1>7. list_owner = t => \/ pc[t] \in ElementSteps \union {"scan"} /\ list_ptr[t] = "live"
                        \/ pc[t] = "busy"
  BY DEF MutexesInUse, ListMutexInUse
<1>8. ASSUME NEW e, Searched(t, e)
      PROVE  pc'[t] \in {"uncount", "lock", "load", "append", "create"}
  BY <1>8 DEF Searched
<1>9. CASE Find(t)
  <2>1. pc[t] = "find" /\ pc'[t] \in {"list", "uncount", "lock", "load", "append", "create"}
    BY <1>8, <1>9 DEF Find
  <2>2. UNCHANGED <<owner, list_owner>>
    BY <1>9 DEF Find, heapVars, listVars
  <2> QED
    BY <1>5, <1>6, <1>7, <2>1, <2>2 DEF HoldingSteps, ElementSteps, MutexesInUse
<1>10. CASE LockList(t)
  <2>1. /\ pc[t] = "list" /\ UNCHANGED owner
        /\ pc'[t] \in {"scan", "uncount", "lock", "load", "append", "create"}
    BY <1>8, <1>10 DEF LockList, heapVars
  <2>2. ElementMutexesInUse'
    BY <1>5, <2>1 DEF HoldingSteps
  <2>3. CASE list_owner = NoThread
    <3>1. list_owner' = t /\ pc'[t] = "scan" /\ list_ptr'[t] = "live"
      BY <1>10, <2>3 DEF LockList, Held
    <3>2. ListMutexInUse'
      BY <1>1, <3>1 DEF ListMutexInUse
    <3> QED
      BY <2>2, <3>2 DEF MutexesInUse
  <2>4. CASE list_owner # NoThread
    <3>1. UNCHANGED list_owner /\ list_owner # t
      BY <1>10, <2>4 DEF LockList, Held
    <3> QED
      BY <1>6, <2>2, <3>1 DEF MutexesInUse
  <2> QED
    BY <2>3, <2>4
<1>11. CASE NextElement(t)
  <2>1. /\ pc[t] = "scan" /\ pc'[t] = "lock"
        /\ UNCHANGED <<owner, list_owner, list_ptr>>
    BY <1>11 DEF NextElement, heapVars, listVars
  <2> QED
    BY <1>5, <1>6, <1>7, <2>1 DEF HoldingSteps, ElementSteps, MutexesInUse
<1>12. CASE UnlockList(t)
  <2>1. /\ pc[t] = "scan" /\ UNCHANGED owner
        /\ pc'[t] \in {"uncount", "lock", "load", "append", "create"}
    BY <1>8, <1>12 DEF UnlockList, heapVars
  <2>2. ElementMutexesInUse'
    BY <1>5, <2>1 DEF HoldingSteps
  <2>3. list_owner' = IF list_owner = t THEN NoThread ELSE list_owner
    BY <1>12 DEF UnlockList, Freed
  <2>4. \A u \in Threads : u # NoThread
    BY ThreadsAssumption DEF Threads
  <2>5. ListMutexInUse'
    BY <1>1, <2>3, <2>4 DEF MutexesInUse, ListMutexInUse
  <2> QED
    BY <2>2, <2>5 DEF MutexesInUse
<1>13. CASE Lock(t)
  <2>1. /\ pc[t] \in {"lock", "lock2"} /\ pc'[t] \in {"lock2", "wait"}
        /\ UNCHANGED <<owner, list_owner, list_ptr>>
    BY <1>13 DEF Lock, ReadLockCount, WriteLockCount, heapVars, listVars
  <2> QED
    BY <1>5, <1>6, <1>7, <2>1 DEF HoldingSteps, ElementSteps, MutexesInUse
<1>14. CASE WaitElement(t)
  <2>1. /\ pc[t] = "wait" /\ pc'[t] \in {"inside", "giveup"} /\ cur[t] \in live
        /\ UNCHANGED <<list_owner, list_ptr, cur>>
    BY <1>14 DEF WaitElement, listVars, searchVars, Valid
  <2>2. ListMutexInUse'
    BY <1>6, <1>7, <2>1 DEF ElementSteps
  <2>3. CASE owner[cur[t]] = NoThread
    <3>1. pc'[t] = "inside" /\ owner' = [owner EXCEPT ![cur[t]] = t]
      BY <1>14, <2>3 DEF WaitElement, Held
    <3>2. ASSUME NEW e \in Elements, NEW u \in Threads
          PROVE  (owner[e] = u <=> Holds(u, e))'
      <4>1. owner[e] = u <=> Holds(u, e)
        BY DEF MutexesInUse, ElementMutexesInUse
      <4>2. CASE e = cur[t]
        <5>1. owner'[e] = t /\ ~Holds(u, e) /\ u # NoThread
          BY <2>3, <3>1, <4>1, <4>2, ThreadsAssumption DEF Threads
        <5>2. u # t => ~Holds(u, e)'
          BY <1>2, <5>1
        <5>3. u = t => Holds(u, e)'
          BY <2>1, <3>1, <4>2 DEF Holds, HoldingSteps
        <5> QED
          BY <5>1, <5>2, <5>3
      <4>3. CASE e # cur[t]
        <5>1. owner'[e] = owner[e]
          BY <3>1, <4>3
        <5>2. u = t => ~Holds(u, e) /\ ~Holds(u, e)'
          BY <2>1, <4>3 DEF Holds
        <5> QED
          BY <1>2, <4>1, <5>1, <5>2
      <4> QED
        BY <4>2, <4>3
    <3> QED
      BY <2>2, <3>2 DEF MutexesInUse, ElementMutexesInUse
  <2>4. CASE owner[cur[t]] # NoThread
    <3>1. pc'[t] = "giveup" /\ UNCHANGED owner
      BY <1>14, <2>4 DEF WaitElement
    <3> QED
      BY <1>5, <2>1, <2>2, <3>1 DEF HoldingSteps, MutexesInUse
  <2> QED
    BY <2>3, <2>4
<1>15. CASE Inside(t) \/ Unlock(t)
  <2>1. /\ pc[t] \in {"inside", "unlock"} /\ pc'[t] \in {"unlock", "release"}
        /\ UNCHANGED <<owner, list_owner, list_ptr, cur>>
    BY <1>15 DEF Inside, Unlock, ReadLockCount, WriteLockCount, heapVars, listVars
  <2>2. \A e \in Elements : Holds(t, e)' <=> Holds(t, e)
    BY <2>1 DEF Holds, HoldingSteps
  <2> QED
    BY <1>4, <1>6, <1>7, <2>1, <2>2 DEF ElementSteps, MutexesInUse
<1>16. CASE ReleaseElement(t)
  <2>1. /\ pc[t] = "release" /\ cur[t] \in live /\ UNCHANGED <<list_owner, list_ptr>>
        /\ pc'[t] = IF list_ptr[t] # "none" THEN "scan" ELSE "uncount"
        /\ owner' = [owner EXCEPT ![cur[t]] = IF @ = t THEN NoThread ELSE @]
    BY <1>16 DEF ReleaseElement, Leave, Freed, Valid, listVars
  <2>2. ListMutexInUse'
    BY <1>6, <1>7, <2>1 DEF ElementSteps
  <2>3. owner[cur[t]] = t
    BY <2>1 DEF MutexesInUse, ElementMutexesInUse, Holds, HoldingSteps
  <2>4. ASSUME NEW e \in Elements, NEW u \in Threads
        PROVE  (owner[e] = u <=> Holds(u, e))'
    <3>1. owner[e] = u <=> Holds(u, e)
      BY DEF MutexesInUse, ElementMutexesInUse
    <3>2. ~Holds(t, e)'
      BY <2>1 DEF Holds, HoldingSteps
    <3>3. u # NoThread
      BY ThreadsAssumption DEF Threads
    <3>4. CASE e = cur[t]
      <4>1. owner'[e] = NoThread
        BY <2>1, <2>3, <3>4
      <4> QED
        BY <1>2, <2>3, <3>1, <3>2, <3>3, <3>4, <4>1
    <3>5. CASE e # cur[t]
      <4>1. owner'[e] = owner[e]
        BY <2>1, <3>5
      <4>2. ~Holds(t, e)
        BY <3>5 DEF Holds
      <4> QED
        BY <1>2, <3>1, <3>2, <4>1, <4>2
    <3> QED
      BY <3>4, <3>5
  <2> QED
    BY <2>2, <2>4 DEF MutexesInUse, ElementMutexesInUse
<1>17. CASE GiveUp(t)
  <2>1. /\ pc[t] \in {"giveup", "giveup2"} /\ UNCHANGED <<owner, list_owner, list_ptr>>
        /\ \/ pc'[t] = "giveup2"
           \/ pc'[t] = IF list_ptr[t] # "none" THEN "scan" ELSE "uncount"
    BY <1>17 DEF GiveUp, ReadLockCount, WriteLockCount, Leave, heapVars, listVars
  <2> QED
    BY <1>5, <1>6, <1>7, <2>1 DEF HoldingSteps, ElementSteps, MutexesInUse
<1>18. CASE Fault(t)
  BY <1>18 DEF Fault, heapVars, listVars, searchVars, MutexesInUse, ListMutexInUse,
     ElementMutexesInUse, Holds
<1> QED
  BY <1>9, <1>10, <1>11, <1>12, <1>13, <1>14, <1>15, <1>16, <1>17, <1>18 DEF Search

(* The other steps of a request touch no mutex.                            *)
LEMMA WorkerMutexes ==
  ASSUME TypeInv, MutexesInUse, NEW w \in Workers,
         Request(w) \/ Deny(w) \/ Admit(w) \/ Count(w) \/ Uncount(w)
  PROVE  MutexesInUse'
<1>1. /\ UNCHANGED <<owner, list_owner, list_ptr, cur>>
      /\ pc[w] \in WorkerSteps
      /\ pc' = [pc EXCEPT ![w] = pc'[w]] /\ pc'[w] \in WorkerSteps \union {"find"}
  <2> w \in Threads
    BY DEF Threads
  <2> USE DEF TypeInv, TypeOK, WorkerSteps, heapVars, listVars, searchVars, At, Goto,
          ReadRequests, WriteRequests, Done
  <2>1. CASE Request(w)
    BY <2>1 DEF Request
  <2>2. CASE Deny(w)
    BY <2>2 DEF Deny
  <2>3. CASE Admit(w)
    BY <2>3 DEF Admit
  <2>4. CASE Count(w)
    BY <2>4 DEF Count
  <2>5. CASE Uncount(w)
    BY <2>5 DEF Uncount
  <2> QED
    BY <2>1, <2>2, <2>3, <2>4, <2>5
<1>2. w \in Threads /\ w # Game /\ pc \in [Threads -> Steps]
  BY ThreadsAssumption DEF Threads, TypeInv, TypeOK, Steps
<1>3. /\ \A t \in Threads \ {w} : pc'[t] = pc[t]
      /\ pc[w] \in WorkerSteps /\ pc'[w] \in WorkerSteps \union {"find"}
  <2>1. PICK step : pc' = [pc EXCEPT ![w] = step]
    BY <1>1
  <2> QED
    BY <1>1, <1>2, <2>1
<1>4. ListMutexInUse'
  BY <1>1, <1>2, <1>3 DEF MutexesInUse, ListMutexInUse, ElementSteps, WorkerSteps
<1>5. \A t \in Threads, e \in Elements : Holds(t, e)' <=> Holds(t, e)
  BY <1>1, <1>3 DEF Holds, HoldingSteps, WorkerSteps
<1> QED
  BY <1>1, <1>4, <1>5 DEF MutexesInUse, ElementMutexesInUse

(* So does the game thread, except for the mutex of the list around the    *)
(* removal of an element, and those of what it deletes.                    *)
LEMMA GameMutexes ==
  ASSUME TypeInv, PtrInv, MutexesInUse,
         \/ StartMapServer \/ ReloadMapPartDefinitions \/ StopMapServer \/ Drained
         \/ GetFirstDefinition \/ LockForRemoval \/ RemoveDefinition \/ DeleteElement
         \/ ClearLists \/ AddMapDefinition \/ CreateList \/ AppendDefinition \/ Loaded
  PROVE  MutexesInUse'
<1>1. /\ Game \in Threads /\ Game # NoThread
      /\ \A t \in Threads : t # NoThread
  BY ThreadsAssumption DEF Threads
<1> USE DEF TypeInv, TypeOK, At, Goto, heapVars, listVars, searchVars
(* The game thread is not at an element before or after.                   *)
<1>2. ASSUME UNCHANGED <<owner, list_owner>>,
             \A t \in Threads \ {Game} :
               pc'[t] = pc[t] /\ cur'[t] = cur[t] /\ list_ptr'[t] = list_ptr[t],
             pc[Game] \in GameSteps \ {"busy"}, pc'[Game] \in GameSteps \union {"find"}
      PROVE  MutexesInUse'
  <2>1. list_owner # Game
    BY <1>1, <1>2 DEF MutexesInUse, ListMutexInUse, GameSteps, ElementSteps
  <2>2. \A t \in Threads, e \in Elements : Holds(t, e)' <=> Holds(t, e)
    BY <1>2 DEF Holds, HoldingSteps, GameSteps
  <2> QED
    BY <1>1, <1>2, <2>1, <2>2 DEF MutexesInUse, ListMutexInUse, ElementMutexesInUse
<1>3. CASE StartMapServer \/ ReloadMapPartDefinitions \/ StopMapServer
  BY <1>1, <1>2, <1>3 DEF StartMapServer, ReloadMapPartDefinitions, StopMapServer, GameSteps
<1>4. CASE Drained \/ GetFirstDefinition
  BY <1>1, <1>2, <1>4 DEF Drained, GetFirstDefinition, GameSteps
<1>5. CASE AddMapDefinition
  BY <1>1, <1>2, <1>5 DEF AddMapDefinition, GameSteps
<1>6. CASE CreateList \/ Loaded
  BY <1>1, <1>2, <1>6 DEF CreateList, Loaded, GameSteps
<1>7. CASE AppendDefinition
  BY <1>1, <1>2, <1>7 DEF AppendDefinition, GameSteps
<1>8. CASE LockForRemoval
  <2>1. CASE list_owner = NoThread
    <3>1. /\ list_owner' = Game /\ pc[Game] = "remove"
          /\ pc' = [pc EXCEPT ![Game] = "busy"] /\ UNCHANGED <<owner, cur>>
      BY <1>8, <2>1 DEF LockForRemoval, Held
    <3>2. pc'[Game] = "busy" /\ \A t \in Threads \ {Game} : pc'[t] = pc[t]
      BY <1>1, <3>1
    <3>3. \A t \in Threads, e \in Elements : Holds(t, e)' <=> Holds(t, e)
      BY <3>1, <3>2 DEF Holds, HoldingSteps
    <3> QED
      BY <3>1, <3>2, <3>3 DEF MutexesInUse, ListMutexInUse, ElementMutexesInUse
  <2>2. CASE list_owner # NoThread
    BY <1>1, <1>2, <1>8, <2>2 DEF LockForRemoval, GameSteps
  <2> QED
    BY <2>1, <2>2
<1>9. CASE RemoveDefinition
  <2>1. /\ list_owner' = NoThread /\ pc[Game] = "busy"
        /\ pc' = [pc EXCEPT ![Game] = "delete"] /\ UNCHANGED <<owner, cur>>
    BY <1>9 DEF RemoveDefinition
  <2>2. \A t \in Threads, e \in Elements : Holds(t, e)' <=> Holds(t, e)
    BY <1>1, <2>1 DEF Holds, HoldingSteps
  <2> QED
    BY <1>1, <2>1, <2>2 DEF MutexesInUse, ListMutexInUse, ElementMutexesInUse
<1>10. CASE ClearLists
  <2>1. /\ list_owner' = NoThread /\ pc[Game] = "clear" /\ UNCHANGED <<owner, cur>>
        /\ pc' = [pc EXCEPT ![Game] = pc'[Game]] /\ pc'[Game] \in {"load", "idle"}
    BY <1>1, <1>10 DEF ClearLists
  <2>2. \A t \in Threads, e \in Elements : Holds(t, e)' <=> Holds(t, e)
    BY <1>1, <2>1 DEF Holds, HoldingSteps
  <2> QED
    BY <1>1, <2>1, <2>2 DEF MutexesInUse, ListMutexInUse, ElementMutexesInUse
<1>11. CASE DeleteElement
  <2>1. /\ UNCHANGED <<list_owner, list_ptr>> /\ pc[Game] = "delete"
        /\ pc' = [pc EXCEPT ![Game] = "head"]
        /\ cur[Game] \in Elements
        /\ owner' = [owner EXCEPT ![cur[Game]] = NoThread]
    BY <1>11 DEF DeleteElement, GameHolds
  <2>2. \A t \in Threads : cur'[t] = IF cur[t] # cur[Game] THEN cur[t]
                                     ELSE IF t = Game THEN NoElement ELSE Dangling
    BY <1>11 DEF DeleteElement
  <2>3. pc'[Game] = "head" /\ \A t \in Threads \ {Game} : pc'[t] = pc[t]
    BY <1>1, <2>1
  <2>4. ListMutexInUse'
    BY <1>1, <2>1, <2>3 DEF MutexesInUse, ListMutexInUse, ElementSteps
  <2>5. ASSUME NEW e \in Elements, NEW t \in Threads
        PROVE  (owner[e] = t <=> Holds(t, e))'
    <3>1. owner[e] = t <=> Holds(t, e)
      BY DEF MutexesInUse, ElementMutexesInUse
    <3>2. e # NoElement /\ e # Dangling
      BY HeapAssumption
    <3>3. CASE e = cur[Game]
      <4>1. owner'[e] = NoThread
        BY <2>1, <3>3
      <4>2. cur'[t] # e
        BY <2>2, <3>2, <3>3
      <4> QED
        BY <1>1, <4>1, <4>2 DEF Holds
    <3>4. CASE e # cur[Game]
      <4>1. owner'[e] = owner[e]
        BY <2>1, <3>4
      <4>2. cur'[t] = e <=> cur[t] = e
        BY <2>2, <3>2, <3>4
      <4>3. pc[t] \in HoldingSteps <=> pc'[t] \in HoldingSteps
        BY <2>1, <2>3 DEF HoldingSteps
      <4> QED
        BY <3>1, <4>1, <4>2, <4>3 DEF Holds
    <3> QED
      BY <3>3, <3>4
  <2> QED
    BY <2>4, <2>5 DEF MutexesInUse, ElementMutexesInUse
<1> QED
  BY <1>3, <1>4, <1>5, <1>6, <1>7, <1>8, <1>9, <1>10, <1>11

(* The mutexes are in use, and nowhere left acquired.                      *)
LEMMA MutexStep ==
  ASSUME TypeInv, SearchInv, PtrInv, MutexesInUse, [Next]_vars
  PROVE  MutexesInUse'
<1>1. CASE UNCHANGED vars
  BY <1>1 DEF vars, heapVars, listVars, searchVars, MutexesInUse, ListMutexInUse,
     ElementMutexesInUse, Holds
<1>2. ASSUME NEW w \in Workers, Request(w) \/ Worker(w)
      PROVE  MutexesInUse'
  BY <1>2, WorkerMutexes, SearchMutexes DEF Worker, Threads
<1>3. CASE StartMapServer \/ ReloadMapPartDefinitions \/ StopMapServer
  BY <1>3, GameMutexes
<1>4. CASE InCall
  BY <1>4, GameMutexes, SearchMutexes DEF InCall, Threads
<1> QED
  BY <1>1, <1>2, <1>3, <1>4 DEF Next, Crashed

(* At the start all are free.                                              *)
LEMMA MutexInit ==
  ASSUME VerdictInit
  PROVE  MutexesInUse
  BY ThreadsAssumption, HeapAssumption
     DEF Threads, VerdictInit, Init, MutexesInUse, ListMutexInUse, ElementMutexesInUse,
         Holds, HoldingSteps

(* Every path through a search, a send or an unload gives back the mutexes *)
(* it has taken (MapDownloadServer.cpp:82-110, 144-260), those of elements *)
(* that have been deleted included, and an element's mutex has at most one *)
(* holder: no waiting for it is for ever.                                  *)
THEOREM MutexesAreReturned == VerdictSpec => []MutexesInUse
<1>1. VerdictInit => FaultInv /\ MutexesInUse
  BY FaultInit, MutexInit
<1>2. FaultInv /\ MutexesInUse /\ [VerdictNext]_<<vars, history>>
        => (FaultInv /\ MutexesInUse)'
  BY FaultStep, MutexStep DEF FaultInv, VerdictNext
<1> QED
  BY <1>1, <1>2, PTL DEF VerdictSpec

-----------------------------------------------------------------------------
(* An element that is not allocated has no lock count yet.                 *)
LocksFree == \A e \in Elements \ live : lock_count[e] = 0

LockInv == LocksFree /\ LocksCounted

(* Counting one thread more or less, and never up to the wrap.             *)
LEMMA LockersCard ==
  ASSUME NEW e
  PROVE  /\ IsFiniteSet(Lockers(e))
         /\ Cardinality(Lockers(e)) \in Nat
         /\ \A t \in Threads :
              /\ t \notin Lockers(e) =>
                   /\ Cardinality(Lockers(e) \union {t}) = Cardinality(Lockers(e)) + 1
                   /\ Cardinality(Lockers(e)) + 1 < Wrap
              /\ t \in Lockers(e) =>
                   /\ Cardinality(Lockers(e)) > 0
                   /\ Cardinality(Lockers(e) \ {t}) = Cardinality(Lockers(e)) - 1
<1>1. IsFiniteSet(Workers) /\ Cardinality(Workers) \in Nat
  BY WrapAssumption, FS_CardinalityType
<1>2. IsFiniteSet(Threads)
  BY <1>1, FS_AddElement DEF Threads
<1>3. Cardinality(Threads) = Cardinality(Workers) + 1
  BY <1>1, FS_AddElement, ThreadsAssumption DEF Threads
<1>4. ASSUME NEW S, S \subseteq Threads
      PROVE  IsFiniteSet(S) /\ Cardinality(S) \in Nat /\ Cardinality(S) < Wrap
  <2>1. IsFiniteSet(S) /\ Cardinality(S) <= Cardinality(Threads)
    BY <1>2, <1>4, FS_Subset
  <2>2. Cardinality(S) \in Nat
    BY <2>1, FS_CardinalityType
  <2> QED
    BY <1>1, <1>3, <2>1, <2>2, WrapAssumption
<1>5. Lockers(e) \subseteq Threads
  BY DEF Lockers
<1>6. ASSUME NEW t \in Threads, t \notin Lockers(e)
      PROVE  /\ Cardinality(Lockers(e) \union {t}) = Cardinality(Lockers(e)) + 1
             /\ Cardinality(Lockers(e)) + 1 < Wrap
  <2>1. Cardinality(Lockers(e) \union {t}) = Cardinality(Lockers(e)) + 1
    BY <1>4, <1>5, <1>6, FS_AddElement
  <2>2. Cardinality(Lockers(e) \union {t}) < Wrap
    BY <1>4, <1>5
  <2> QED
    BY <2>1, <2>2
<1>7. ASSUME NEW t \in Threads, t \in Lockers(e)
      PROVE  /\ Cardinality(Lockers(e)) > 0
             /\ Cardinality(Lockers(e) \ {t}) = Cardinality(Lockers(e)) - 1
  <2>1. Cardinality(Lockers(e) \ {t}) = Cardinality(Lockers(e)) - 1
    BY <1>4, <1>5, <1>7, FS_RemoveElement
  <2>2. Cardinality(Lockers(e) \ {t}) \in Nat
    BY <1>4, <1>5
  <2>3. Cardinality(Lockers(e)) \in Nat
    BY <1>4, <1>5
  <2> QED
    BY <2>1, <2>2, <2>3
<1> QED
  BY <1>4, <1>5, <1>6, <1>7

(* A step that changes neither the counts nor who has locked what.         *)
LEMMA LocksKept ==
  ASSUME LockInv, lost \subseteq lost', UNCHANGED <<live, lock_count>>,
         \A t \in Threads, e \in live : Locked(t, e)' <=> Locked(t, e)
  PROVE  LockInv'
<1>1. \A e \in live : Lockers(e)' = Lockers(e)
  BY DEF Lockers
<1> QED
  BY <1>1 DEF LockInv, LocksFree, LocksCounted

(* What a step of a search does to the lock counts: nothing, or it counts  *)
(* its thread in or out.                                                   *)
LEMMA SearchLocks ==
  ASSUME TypeInv, PtrInv, NEW t \in Threads, Search(t)
  PROVE  \/ /\ UNCHANGED lock_count
            /\ \A e \in live : Locked(t, e)' <=> Locked(t, e)
         \/ /\ pc[t] = "lock2" /\ pc'[t] = "wait" /\ cur[t] \in live /\ cur'[t] = cur[t]
            /\ lock_count' = [lock_count EXCEPT ![cur[t]] = Plus1(reg[t])]
         \/ /\ pc[t] \in {"unlock", "giveup2"} /\ pc'[t] \in {"release", "scan", "uncount"}
            /\ cur[t] \in live
            /\ lock_count' = [lock_count EXCEPT ![cur[t]] = Minus1(reg[t])]
<1> USE DEF TypeInv, TypeOK, At, Goto, heapVars, Locked, LockedSteps
<1>1. ASSUME NEW e \in live \union {NoElement}, Searched(t, e)
      PROVE  pc'[t] \in {"uncount", "lock", "load", "append", "create"}
  BY <1>1 DEF Searched
<1>2. ASSUME UNCHANGED lock_count, pc[t] \notin LockedSteps, pc'[t] \notin LockedSteps
      PROVE  UNCHANGED lock_count /\ \A e \in live : Locked(t, e)' <=> Locked(t, e)
  BY <1>2
<1>3. CASE Find(t) \/ LockList(t) \/ NextElement(t) \/ UnlockList(t)
  <2>1. UNCHANGED lock_count /\ pc[t] \in {"find", "list", "scan"}
    BY <1>3 DEF Find, LockList, NextElement, UnlockList
  <2>2. pc'[t] \in {"list", "scan", "uncount", "lock", "load", "append", "create"}
    BY <1>3 DEF Find, LockList, NextElement, UnlockList, Searched
  <2> QED
    BY <1>2, <2>1, <2>2
<1>4. CASE Lock(t)
  <2>1. CASE ReadLockCount(t, "lock", "lock2")
    <3>1. UNCHANGED lock_count /\ pc[t] = "lock" /\ pc'[t] = "lock2"
      BY <2>1 DEF ReadLockCount
    <3> QED
      BY <1>2, <3>1
  <2>2. CASE WriteLockCount(t, "lock2", Plus1(reg[t])) /\ Goto(t, "wait") /\ UNCHANGED cur
    BY <2>2 DEF WriteLockCount, Valid
  <2> QED
    BY <1>4, <2>1, <2>2 DEF Lock
<1>5. CASE WaitElement(t)
  BY <1>5 DEF WaitElement, searchVars
<1>6. CASE Inside(t)
  BY <1>6 DEF Inside, ReadLockCount
<1>7. CASE Unlock(t)
  BY <1>7 DEF Unlock, WriteLockCount, Valid
<1>8. CASE ReleaseElement(t)
  <2>1. UNCHANGED lock_count /\ pc[t] = "release" /\ pc'[t] \in {"scan", "uncount"}
    BY <1>8 DEF ReleaseElement, Leave
  <2> QED
    BY <1>2, <2>1
<1>9. CASE GiveUp(t)
  <2>1. CASE ReadLockCount(t, "giveup", "giveup2")
    BY <2>1 DEF ReadLockCount
  <2>2. CASE WriteLockCount(t, "giveup2", Minus1(reg[t])) /\ Leave(t)
    BY <2>2 DEF WriteLockCount, Leave, Valid
  <2> QED
    BY <1>9, <2>1, <2>2 DEF GiveUp
<1>10. CASE Fault(t)
  BY <1>10 DEF Fault, searchVars
<1> QED
  BY <1>3, <1>4, <1>5, <1>6, <1>7, <1>8, <1>9, <1>10 DEF Search

(* The counts keep up in a search, or an update is lost.                   *)
LEMMA SearchKeepsLocks ==
  ASSUME TypeInv, SearchInv, PtrInv, LockInv, VerdictNext, NEW t \in Threads, Search(t)
  PROVE  LockInv'
<1>1. \A u \in Threads \ {t} : pc'[u] = pc[u] /\ cur'[u] = cur[u]
  BY SearchKeeps, SearchLocal
<1>2. UNCHANGED live /\ lost \subseteq lost'
  BY SearchLocal DEF VerdictNext, HistoryNext
<1>3. \A u \in Threads \ {t}, e \in live : Locked(u, e)' <=> Locked(u, e)
  BY <1>1 DEF Locked
<1>4. PICK x : x = cur[t]
  OBVIOUS
<1>5. /\ reg[t] \in Counts /\ lock_count \in [Elements -> Counts] /\ live \subseteq Elements
  BY DEF TypeInv, TypeOK, Counts
<1>6. CASE UNCHANGED lock_count /\ \A e \in live : Locked(t, e)' <=> Locked(t, e)
  BY <1>2, <1>3, <1>6, LocksKept
<1>7. ASSUME pc[t] \in {"lock2", "unlock", "giveup2"}, pc'[t] # pc[t],
             reg[t] # lock_count[x]
      PROVE  "locks" \in lost'
  BY <1>4, <1>7 DEF VerdictNext, HistoryNext, LocksOverwritten
<1>8. ASSUME NEW count, x \in live, lock_count' = [lock_count EXCEPT ![x] = count],
             \A e \in live \ {x} : ~Locked(t, e) /\ ~Locked(t, e)',
             "locks" \notin lost' => count = Cardinality(Lockers(x)')
      PROVE  LockInv'
  <2>1. LocksFree'
    BY <1>2, <1>5, <1>8 DEF LockInv, LocksFree
  <2>2. ASSUME "locks" \notin lost', NEW e \in live'
        PROVE  lock_count'[e] = Cardinality(Lockers(e)')
    <3>1. CASE e = x
      <4>1. lock_count'[x] = count
        BY <1>5, <1>8
      <4> QED
        BY <1>8, <2>2, <3>1, <4>1
    <3>2. CASE e # x
      <4>1. Lockers(e)' = Lockers(e)
        BY <1>2, <1>3, <1>8, <2>2, <3>2 DEF Lockers
      <4>2. lock_count'[e] = lock_count[e]
        BY <1>2, <1>5, <1>8, <2>2, <3>2
      <4> QED
        BY <1>2, <2>2, <4>1, <4>2 DEF LockInv, LocksCounted
    <3> QED
      BY <3>1, <3>2
  <2> QED
    BY <2>1, <2>2 DEF LockInv, LocksCounted
<1>9. CASE /\ pc[t] = "lock2" /\ pc'[t] = "wait" /\ cur[t] \in live /\ cur'[t] = cur[t]
           /\ lock_count' = [lock_count EXCEPT ![cur[t]] = Plus1(reg[t])]
  <2>1. t \notin Lockers(x)
    BY <1>9 DEF Lockers, Locked, LockedSteps
  <2>2. Lockers(x)' = Lockers(x) \union {t}
    <3>1. Locked(t, x)'
      BY <1>4, <1>9 DEF Locked, LockedSteps
    <3> QED
      BY <1>3, <1>4, <1>9, <3>1 DEF Lockers
  <2>3. ASSUME "locks" \notin lost'
        PROVE  Plus1(reg[t]) = Cardinality(Lockers(x)')
    <3>1. reg[t] = Cardinality(Lockers(x))
      BY <1>2, <1>4, <1>7, <1>9, <2>3 DEF LockInv, LocksCounted
    <3>2. reg[t] + 1 < Wrap
      BY <2>1, <3>1, LockersCard
    <3>3. Plus1(reg[t]) = reg[t] + 1
      BY <1>5, <3>2, CountersExact
    <3>4. Cardinality(Lockers(x)') = Cardinality(Lockers(x)) + 1
      BY <2>1, <2>2, LockersCard
    <3> QED
      BY <3>1, <3>3, <3>4
  <2>4. \A e \in live \ {x} : ~Locked(t, e) /\ ~Locked(t, e)'
    BY <1>4, <1>9 DEF Locked
  <2> QED
    BY <1>4, <1>8, <1>9, <2>3, <2>4
<1>10. CASE /\ pc[t] \in {"unlock", "giveup2"} /\ pc'[t] \in {"release", "scan", "uncount"}
            /\ cur[t] \in live
            /\ lock_count' = [lock_count EXCEPT ![cur[t]] = Minus1(reg[t])]
  <2>1. t \in Lockers(x)
    BY <1>4, <1>10 DEF Lockers, Locked, LockedSteps
  <2>2. \A e : ~Locked(t, e)'
    BY <1>10 DEF Locked, LockedSteps
  <2>3. Lockers(x)' = Lockers(x) \ {t}
    BY <1>3, <1>4, <1>10, <2>2 DEF Lockers
  <2>4. ASSUME "locks" \notin lost'
        PROVE  Minus1(reg[t]) = Cardinality(Lockers(x)')
    <3>1. reg[t] = Cardinality(Lockers(x))
      BY <1>2, <1>4, <1>7, <1>10, <2>4 DEF LockInv, LocksCounted
    <3>2. reg[t] > 0
      BY <2>1, <3>1, LockersCard
    <3>3. Minus1(reg[t]) = reg[t] - 1
      BY <1>5, <3>2, CountersExact
    <3>4. Cardinality(Lockers(x)') = Cardinality(Lockers(x)) - 1
      BY <2>1, <2>3, LockersCard
    <3> QED
      BY <3>1, <3>3, <3>4
  <2>5. \A e \in live \ {x} : ~Locked(t, e) /\ ~Locked(t, e)'
    BY <1>4, <1>10, <2>2 DEF Locked, LockedSteps
  <2> QED
    BY <1>4, <1>8, <1>10, <2>4, <2>5
<1> QED
  BY <1>6, <1>9, <1>10, SearchLocks

(* The other steps of a request lock no element.                           *)
LEMMA WorkerKeepsLocks ==
  ASSUME TypeInv, LockInv, VerdictNext, NEW w \in Workers,
         Request(w) \/ Deny(w) \/ Admit(w) \/ Count(w) \/ Uncount(w)
  PROVE  LockInv'
<1>1. /\ w \in Threads /\ pc \in [Threads -> Steps] /\ lost \subseteq lost'
  BY DEF Threads, TypeInv, TypeOK, Steps, VerdictNext, HistoryNext
<1> USE DEF At, Goto, heapVars, searchVars, Locked, LockedSteps, ReadRequests,
        WriteRequests, Done
<1>2. ASSUME UNCHANGED <<live, lock_count, cur>>, pc[w] \notin LockedSteps,
             NEW step \in {"idle", "check", "count", "count2", "find", "uncount", "uncount2"},
             Goto(w, step)
      PROVE  LockInv'
  BY <1>1, <1>2, LocksKept
<1>3. CASE Request(w)
  BY <1>2, <1>3 DEF Request
<1>4. CASE Deny(w)
  BY <1>2, <1>4 DEF Deny
<1>5. CASE Admit(w)
  BY <1>2, <1>5 DEF Admit
<1>6. CASE Count(w)
  BY <1>2, <1>6 DEF Count
<1>7. CASE Uncount(w)
  BY <1>2, <1>7 DEF Uncount
<1> QED
  BY <1>3, <1>4, <1>5, <1>6, <1>7

(* The game thread locks none outside of a search; it deletes elements,    *)
(* and nobody has locked one that it allocates.                            *)
LEMMA GameKeepsLocks ==
  ASSUME TypeInv, PtrInv, LockInv, VerdictNext,
         \/ StartMapServer \/ ReloadMapPartDefinitions \/ StopMapServer \/ Drained
         \/ GetFirstDefinition \/ LockForRemoval \/ RemoveDefinition \/ DeleteElement
         \/ ClearLists \/ AddMapDefinition \/ CreateList \/ AppendDefinition \/ Loaded
  PROVE  LockInv'
<1>1. /\ Game \in Threads /\ lost \subseteq lost'
      /\ NoElement \notin Elements /\ Dangling \notin Elements
  BY HeapAssumption DEF Threads, VerdictNext, HistoryNext
<1> USE DEF TypeInv, TypeOK, At, Goto, heapVars, searchVars
<1>2. pc[Game] \in GameSteps /\ pc'[Game] \in GameSteps \union {"find"}
  BY <1>1 DEF StartMapServer, ReloadMapPartDefinitions, StopMapServer, Drained,
     GetFirstDefinition, LockForRemoval, RemoveDefinition, DeleteElement, ClearLists,
     AddMapDefinition, CreateList, AppendDefinition, Loaded, GameSteps
<1>3. \A t \in Threads \ {Game} : pc'[t] = pc[t]
  BY <1>1 DEF StartMapServer, ReloadMapPartDefinitions, StopMapServer, Drained,
     GetFirstDefinition, LockForRemoval, RemoveDefinition, DeleteElement, ClearLists,
     AddMapDefinition, CreateList, AppendDefinition, Loaded
<1>4. ASSUME NEW e, \A t \in Threads \ {Game} : cur'[t] = e <=> cur[t] = e
      PROVE  Lockers(e)' = Lockers(e)
  BY <1>1, <1>2, <1>3, <1>4 DEF Lockers, Locked, LockedSteps, GameSteps
<1>5. CASE DeleteElement
  <2>1. PICK d : d = cur[Game]
    OBVIOUS
  <2>2. /\ d \in Elements /\ live' = live \ {d}
        /\ lock_count' = [lock_count EXCEPT ![d] = 0]
    BY <1>5, <2>1 DEF DeleteElement, GameHolds
  <2>3. \A t \in Threads \ {Game} : cur'[t] = IF cur[t] = d THEN Dangling ELSE cur[t]
    BY <1>5, <2>1 DEF DeleteElement
  <2>4. LocksFree'
    BY <2>2 DEF LockInv, LocksFree
  <2>5. ASSUME "locks" \notin lost', NEW e \in live'
        PROVE  lock_count'[e] = Cardinality(Lockers(e)')
    <3>1. e # d /\ e \in live /\ e \in Elements
      BY <2>2, <2>5
    <3>2. Lockers(e)' = Lockers(e)
      BY <1>1, <1>4, <2>3, <3>1
    <3>3. lock_count'[e] = lock_count[e]
      BY <2>2, <3>1
    <3> QED
      BY <1>1, <2>5, <3>1, <3>2, <3>3 DEF LockInv, LocksCounted
  <2> QED
    BY <2>4, <2>5 DEF LockInv, LocksCounted
<1>6. CASE AppendDefinition
  <2>1. UNCHANGED <<cur, lock_count>>
    BY <1>6 DEF AppendDefinition
  <2>2. \A e : Lockers(e)' = Lockers(e)
    BY <1>4, <2>1
  <2>3. live \subseteq live' /\ live' \subseteq Elements
    BY <1>6 DEF AppendDefinition
  <2>4. LocksFree'
    BY <2>1, <2>3 DEF LockInv, LocksFree
  <2>5. ASSUME "locks" \notin lost', NEW e \in live'
        PROVE  lock_count[e] = Cardinality(Lockers(e))
    <3>1. CASE e \in live
      BY <1>1, <2>5, <3>1 DEF LockInv, LocksCounted
    <3>2. CASE e \notin live
      <4>1. lock_count[e] = 0
        BY <2>3, <3>2 DEF LockInv, LocksFree
      <4>2. \A t \in Threads : cur[t] # e
        BY <1>1, <2>3, <3>2 DEF PtrInv, PtrHolds
      <4>3. Lockers(e) = {}
        BY <4>2 DEF Lockers, Locked
      <4>4. Cardinality(Lockers(e)) = 0
        BY <4>3, FS_EmptySet
      <4> QED
        BY <4>1, <4>4
    <3> QED
      BY <3>1, <3>2
  <2> QED
    BY <2>1, <2>2, <2>4, <2>5 DEF LockInv, LocksCounted
<1>7. CASE ~DeleteElement /\ ~AppendDefinition
  <2>1. UNCHANGED <<live, lock_count>>
    BY <1>7 DEF StartMapServer, ReloadMapPartDefinitions, StopMapServer, Drained,
       GetFirstDefinition, LockForRemoval, RemoveDefinition, ClearLists, AddMapDefinition,
       CreateList, Loaded
  <2>2. \A t \in Threads \ {Game} : cur'[t] = cur[t]
    BY <1>1, <1>7 DEF StartMapServer, ReloadMapPartDefinitions, StopMapServer, Drained,
       GetFirstDefinition, LockForRemoval, RemoveDefinition, ClearLists, AddMapDefinition,
       CreateList, Loaded
  <2>3. \A t \in Threads, e \in live : Locked(t, e)' <=> Locked(t, e)
    BY <1>2, <1>3, <2>2 DEF Locked, LockedSteps, GameSteps
  <2> QED
    BY <1>1, <2>1, <2>3, LocksKept
<1> QED
  BY <1>5, <1>6, <1>7

(* The inductive invariant of this module.                                 *)
ProgressInv == FaultInv /\ MutexesInUse /\ LockInv

(* It is kept by every step.                                               *)
LEMMA ProgressStep ==
  ASSUME ProgressInv, [VerdictNext]_<<vars, history>>
  PROVE  ProgressInv'
<1>1. FaultInv' /\ MutexesInUse'
  BY FaultStep, MutexStep DEF ProgressInv, FaultInv, VerdictNext
<1> SUFFICES LockInv'
  BY <1>1 DEF ProgressInv
<1>2. TypeInv /\ SearchInv /\ PtrInv /\ LockInv
  BY DEF ProgressInv, FaultInv
<1>3. CASE UNCHANGED <<vars, history>>
  BY <1>2, <1>3, LocksKept DEF vars, heapVars, searchVars, history, Locked
<1>4. CASE VerdictNext
  <2>1. ASSUME NEW w \in Workers, Request(w) \/ Worker(w)
        PROVE  LockInv'
    BY <1>2, <1>4, <2>1, WorkerKeepsLocks, SearchKeepsLocks DEF Worker, Threads
  <2>2. CASE StartMapServer \/ ReloadMapPartDefinitions \/ StopMapServer
    BY <1>2, <1>4, <2>2, GameKeepsLocks
  <2>3. CASE InCall
    BY <1>2, <1>4, <2>3, GameKeepsLocks, SearchKeepsLocks DEF InCall, Threads
  <2>4. CASE Crashed
    <3>1. lost \subseteq lost'
      BY <1>4 DEF VerdictNext, HistoryNext
    <3> QED
      BY <1>2, <2>4, <3>1, LocksKept DEF Crashed, vars, heapVars, searchVars, Locked
  <2> QED
    BY <1>4, <2>1, <2>2, <2>3, <2>4 DEF VerdictNext, Next
<1> QED
  BY <1>3, <1>4

(* It holds at the start.                                                  *)
LEMMA ProgressInit ==
  ASSUME VerdictInit
  PROVE  ProgressInv
<1>1. LockInv
  BY DEF VerdictInit, Init, LockInv, LocksFree, LocksCounted
<1> QED
  BY <1>1, FaultInit, MutexInit DEF ProgressInv

(* As long as no update of a lock count was lost, m_lock_count is the      *)
(* number of threads that have locked the element                          *)
(* (MapDownloadServer.cpp:82-110), those whose Lock timed out and who have *)
(* yet to take back their count included; elements may be deleted and      *)
(* their memory used again.                                                *)
THEOREM LockCountsKeepUp == VerdictSpec => []LocksCounted
<1>1. VerdictInit => ProgressInv
  BY ProgressInit
<1>2. ProgressInv /\ [VerdictNext]_<<vars, history>> => ProgressInv'
  BY ProgressStep
<1>3. ProgressInv => LocksCounted
  BY DEF ProgressInv, LockInv
<1> QED
  BY <1>1, <1>2, <1>3, PTL DEF VerdictSpec

(* No wait of the service is for ever, as far as no update of a counter    *)
(* was lost: nobody waits for a mutex that he has, a stop that waits for   *)
(* requests waits for one that is in progress, and RemoveDefinition, which *)
(* waits for a lock count with the mutex of the list                       *)
(* (MapDownloadServer.cpp:186-202), waits for a worker that can unlock     *)
(* without that mutex.                                                     *)
THEOREM NoDeadlock == VerdictSpec => []NobodyStuck
<1>1. VerdictInit => ProgressInv
  BY ProgressInit
<1>2. ProgressInv /\ [VerdictNext]_<<vars, history>> => ProgressInv'
  BY ProgressStep
<1>3. ASSUME ProgressInv
      PROVE  NobodyStuck
  <2>1. /\ TypeInv /\ RequestsCounted /\ SearchInv /\ LocksCounted
        /\ ListMutexInUse /\ ElementMutexesInUse
    BY <1>3 DEF ProgressInv, FaultInv, LockInv, MutexesInUse
  <2>2. ASSUME NEW t \in Threads
        PROVE  /\ pc[t] = "list" => list_owner # t
               /\ pc[t] = "wait" /\ Valid(t) => owner[cur[t]] # t
    <3>1. pc[t] = "list" => list_owner # t
      BY <2>1 DEF ListMutexInUse, ElementSteps
    <3>2. pc[t] = "wait" /\ Valid(t) => owner[cur[t]] # t
      BY <2>1 DEF ElementMutexesInUse, Holds, HoldingSteps, Valid, TypeInv, TypeOK
    <3> QED
      BY <3>1, <3>2
  <2>3. ASSUME "requests" \notin lost, requests_in_progress # 0
        PROVE  \E w \in Workers : InProgress(w)
    <3>1. Cardinality(InProgressSet) # 0
      BY <2>1, <2>3 DEF RequestsCounted, InProgressSet
    <3>2. InProgressSet # {}
      BY <3>1, FS_EmptySet
    <3> QED
      BY <3>2 DEF InProgressSet
  <2>4. ASSUME "locks" \notin lost, pc[Game] = "busy", lock_count[cur[Game]] # 0
        PROVE  \E w \in Workers : Locked(w, cur[Game]) /\ list_ptr[w] = "none"
    <3>1. cur[Game] \in definitions /\ cur[Game] \in live /\ list_owner = Game
      BY <2>1, <2>4 DEF TypeInv, TypeOK, GameHolds
    <3>2. Cardinality(Lockers(cur[Game])) # 0
      BY <2>1, <2>4, <3>1 DEF LocksCounted
    <3>3. Lockers(cur[Game]) # {}
      BY <3>2, FS_EmptySet
    <3>4. PICK t \in Threads : Locked(t, cur[Game])
      BY <3>3 DEF Lockers
    <3>5. t \in Workers /\ t # Game /\ pc[t] \in ElementSteps
      BY <2>4, <3>4 DEF Threads, Locked, LockedSteps, ElementSteps
    <3>6. cur[Game] \in Touched(t)
      BY <2>1, <3>1, <3>4, <3>5 DEF Touched, Locked, TypeInv, TypeOK
    <3>7. list_ptr[t] # "none" => ScanHolds(t)
      BY <2>1, <3>5 DEF SearchInv, Scans
    <3>8. list_ptr[t] \in {"none", "live", "dead"}
      BY <2>1 DEF TypeInv, TypeOK
    <3>9. list_ptr[t] = "none"
      BY <3>1, <3>5, <3>6, <3>7, <3>8 DEF ScanHolds
    <3> QED
      BY <3>4, <3>5, <3>9
  <2> QED
    BY <2>2, <2>3, <2>4 DEF NobodyStuck
<1> QED
  BY <1>1, <1>2, <1>3, PTL DEF VerdictSpec

-----------------------------------------------------------------------------
(* Steps of other threads leave a request where it is.                     *)
LEMMA PhaseKept ==
  ASSUME TypeInv, NEW w \in Workers, pc'[w] = pc[w], todo'[w] = todo[w],
         list_ptr'[w] = "none" <=> list_ptr[w] = "none"
  PROVE  UNCHANGED <<pc[w], todo[w], Phase(w)>>
  BY DEF Phase

(* A search goes on: to the next element, of which there are fewer, to the *)
(* next step at an element, or out of it.                                  *)
LEMMA SearchAdvances ==
  ASSUME TypeInv, PtrInv, NEW w \in Workers, Search(w)
  PROVE  Advances(w) \/ UNCHANGED <<pc[w], todo[w], Phase(w)>>
<1>1. w \in Threads /\ w # Game
  BY ThreadsAssumption DEF Threads
<1> USE DEF TypeInv, TypeOK, At, Goto, searchVars
<1>2. ASSUME NEW e \in Elements \union {NoElement, Dangling}, Searched(w, e)
      PROVE  list_ptr'[w] = "none" /\ pc'[w] \in {"uncount", "lock"} /\ Phase(w)' \in {7, 8}
  <2>1. list_ptr'[w] = "none" /\ pc'[w] \in {"uncount", "lock"}
    BY <1>1, <1>2 DEF Searched
  <2> QED
    BY <2>1 DEF Phase, ElementSteps
<1>3. pc[w] \in {"list", "scan"} => list_ptr[w] # "none"
  BY <1>1 DEF PtrInv, PtrHolds
<1>4. CASE Find(w)
  <2>1. Phase(w) = 4
    BY <1>4 DEF Find, Phase, ElementSteps
  <2>2. CASE list_present /\ definitions # {}
    <3>1. pc'[w] = "list"
      BY <1>1, <1>4, <2>2 DEF Find
    <3>2. Phase(w)' = 5
      BY <3>1 DEF Phase, ElementSteps
    <3> QED
      BY <2>1, <3>2 DEF Advances
  <2>3. CASE ~(list_present /\ definitions # {})
    BY <1>2, <1>4, <2>1, <2>3 DEF Find, Advances
  <2> QED
    BY <2>2, <2>3
<1>5. CASE LockList(w)
  <2>1. Phase(w) = 5
    BY <1>5 DEF LockList, Phase, ElementSteps
  <2>2. CASE list_owner = NoThread
    <3>1. pc'[w] = "scan" /\ list_ptr'[w] = "live"
      BY <1>1, <1>5, <2>2 DEF LockList, Held
    <3>2. Phase(w)' = 6
      BY <3>1 DEF Phase
    <3> QED
      BY <2>1, <3>2 DEF Advances
  <2>3. CASE list_owner # NoThread
    BY <1>2, <1>5, <2>1, <2>3 DEF LockList, Advances
  <2> QED
    BY <2>2, <2>3
<1>6. CASE NextElement(w)
  <2>1. pc[w] = "scan" /\ pc'[w] = "lock" /\ UNCHANGED list_ptr
    BY <1>1, <1>6 DEF NextElement
  <2>2. PICK e \in todo[w] : todo'[w] = todo[w] \ {e}
    BY <1>1, <1>6 DEF NextElement
  <2>3. Phase(w) = 6 /\ Phase(w)' = 6
    BY <1>3, <2>1 DEF Phase, ElementSteps
  <2> QED
    BY <2>2, <2>3 DEF Advances
<1>7. CASE UnlockList(w)
  <2>1. Phase(w) = 6
    BY <1>3, <1>7 DEF UnlockList, Phase
  <2>2. Searched(w, found[w]) /\ found[w] \in Elements \union {NoElement, Dangling}
    BY <1>1, <1>7 DEF UnlockList
  <2> QED
    BY <1>2, <2>1, <2>2 DEF Advances
(* A step at an element.                                                   *)
<1>8. ASSUME pc[w] \in ElementSteps, pc'[w] \in ElementSteps, Rank(w)' > Rank(w),
             UNCHANGED <<list_ptr, todo>>
      PROVE  Advances(w)
  <2>1. Phase(w)' = Phase(w)
    BY <1>8 DEF Phase, ElementSteps
  <2> QED
    BY <1>8, <2>1 DEF Advances
<1>9. ASSUME pc[w] \in {"release", "giveup2"}, Leave(w), UNCHANGED <<list_ptr, todo>>
      PROVE  Advances(w)
  <2>1. CASE list_ptr[w] # "none"
    <3>1. pc'[w] = "scan"
      BY <1>1, <1>9, <2>1 DEF Leave
    <3>2. Phase(w) = 6 /\ Phase(w)' = 6
      BY <1>9, <2>1, <3>1 DEF Phase, ElementSteps
    <3>3. Rank(w) \in {4, 5} /\ Rank(w)' = 6
      BY <1>9, <3>1 DEF Rank
    <3> QED
      BY <1>9, <3>2, <3>3 DEF Advances
  <2>2. CASE list_ptr[w] = "none"
    <3>1. pc'[w] = "uncount"
      BY <1>1, <1>9, <2>2 DEF Leave
    <3>2. Phase(w) = 7 /\ Phase(w)' = 8
      BY <1>9, <2>2, <3>1 DEF Phase, ElementSteps
    <3> QED
      BY <3>2 DEF Advances
  <2> QED
    BY <2>1, <2>2
<1>10. CASE Lock(w)
  <2>1. /\ UNCHANGED <<list_ptr, todo>>
        /\ \/ pc[w] = "lock" /\ pc'[w] = "lock2"
           \/ pc[w] = "lock2" /\ pc'[w] = "wait"
    BY <1>1, <1>10 DEF Lock, ReadLockCount, WriteLockCount
  <2>2. Rank(w)' > Rank(w)
    BY <2>1 DEF Rank
  <2> QED
    BY <1>8, <2>1, <2>2 DEF ElementSteps
<1>11. CASE WaitElement(w)
  <2>1. /\ UNCHANGED <<list_ptr, todo>>
        /\ pc[w] = "wait" /\ pc'[w] \in {"inside", "giveup"}
    BY <1>1, <1>11 DEF WaitElement
  <2>2. Rank(w)' > Rank(w)
    BY <2>1 DEF Rank
  <2> QED
    BY <1>8, <2>1, <2>2 DEF ElementSteps
<1>12. CASE Inside(w) \/ Unlock(w)
  <2>1. /\ UNCHANGED <<list_ptr, todo>>
        /\ \/ pc[w] = "inside" /\ pc'[w] = "unlock"
           \/ pc[w] = "unlock" /\ pc'[w] = "release"
    BY <1>1, <1>12 DEF Inside, Unlock, ReadLockCount, WriteLockCount
  <2>2. Rank(w)' > Rank(w)
    BY <2>1 DEF Rank
  <2> QED
    BY <1>8, <2>1, <2>2 DEF ElementSteps
<1>13. CASE ReleaseElement(w)
  BY <1>9, <1>13 DEF ReleaseElement
<1>14. CASE GiveUp(w)
  <2>1. CASE ReadLockCount(w, "giveup", "giveup2")
    <3>1. UNCHANGED <<list_ptr, todo>> /\ pc[w] = "giveup" /\ pc'[w] = "giveup2"
      BY <1>1, <2>1 DEF ReadLockCount
    <3>2. Rank(w)' > Rank(w)
      BY <3>1 DEF Rank
    <3> QED
      BY <1>8, <3>1, <3>2 DEF ElementSteps
  <2>2. CASE WriteLockCount(w, "giveup2", Minus1(reg[w])) /\ Leave(w)
    BY <1>9, <2>2 DEF WriteLockCount
  <2> QED
    BY <1>14, <2>1, <2>2 DEF GiveUp
<1>15. CASE Fault(w)
  BY <1>15, PhaseKept DEF Fault
<1> QED
  BY <1>4, <1>5, <1>6, <1>7, <1>10, <1>11, <1>12, <1>13, <1>14, <1>15 DEF Search

(* A step of any thread, seen from a request.                              *)
LEMMA AdvanceStep ==
  ASSUME TypeInv, PtrInv, Next, NEW w \in Workers, pc[w] # "idle"
  PROVE  Advances(w) \/ UNCHANGED <<pc[w], todo[w], Phase(w)>>
<1>1. w \in Threads /\ w # Game /\ Game \in Threads
  BY ThreadsAssumption DEF Threads
<1>2. ASSUME NEW t \in Threads \ {w}, Search(t)
      PROVE  UNCHANGED <<pc[w], todo[w], Phase(w)>>
  BY <1>1, <1>2, SearchKeeps, SearchLocal, PhaseKept
<1>3. ASSUME NEW u \in Workers, Request(u) \/ Deny(u) \/ Admit(u) \/ Count(u) \/ Uncount(u)
      PROVE  Advances(w) \/ UNCHANGED <<pc[w], todo[w], Phase(w)>>
  <2>1. CASE u # w
    <3>1. \A t \in Threads \ {u} : pc'[t] = pc[t]
      BY <1>3, RequestStep DEF Worker
    <3>2. UNCHANGED <<todo, list_ptr>>
      BY <1>3 DEF Request, Deny, Admit, Count, Uncount, ReadRequests, WriteRequests,
         searchVars
    <3> QED
      BY <1>1, <2>1, <3>1, <3>2, PhaseKept
  <2>2. CASE u = w
    <3> USE DEF TypeInv, TypeOK, At, Goto, ReadRequests, WriteRequests, Done
    <3>1. CASE Deny(w)
      <4>1. pc[w] = "check" /\ pc'[w] = "idle"
        BY <1>1, <3>1 DEF Deny
      <4>2. Phase(w) = 1 /\ Phase(w)' = 10
        BY <4>1 DEF Phase, ElementSteps
      <4> QED
        BY <4>2 DEF Advances
    <3>2. CASE Admit(w)
      <4>1. pc[w] = "check" /\ pc'[w] = "count"
        BY <1>1, <3>2 DEF Admit
      <4>2. Phase(w) = 1 /\ Phase(w)' = 2
        BY <4>1 DEF Phase, ElementSteps
      <4> QED
        BY <4>2 DEF Advances
    <3>3. CASE Count(w)
      <4>1. \/ pc[w] = "count" /\ pc'[w] = "count2"
            \/ pc[w] = "count2" /\ pc'[w] \in {"find", "uncount"}
        BY <1>1, <3>3 DEF Count
      <4>2. \/ Phase(w) = 2 /\ Phase(w)' = 3
            \/ Phase(w) = 3 /\ Phase(w)' \in {4, 8}
        BY <4>1 DEF Phase, ElementSteps
      <4> QED
        BY <4>2 DEF Advances
    <3>4. CASE Uncount(w)
      <4>1. \/ pc[w] = "uncount" /\ pc'[w] = "uncount2"
            \/ pc[w] = "uncount2" /\ pc'[w] = "idle"
        BY <1>1, <3>4 DEF Uncount
      <4>2. \/ Phase(w) = 8 /\ Phase(w)' = 9
            \/ Phase(w) = 9 /\ Phase(w)' = 10
        BY <4>1 DEF Phase, ElementSteps
      <4> QED
        BY <4>2 DEF Advances
    <3>5. ~Request(w)
      BY DEF Request
    <3> QED
      BY <1>3, <2>2, <3>1, <3>2, <3>3, <3>4, <3>5
  <2> QED
    BY <2>1, <2>2
<1>4. ASSUME \/ StartMapServer \/ ReloadMapPartDefinitions \/ StopMapServer \/ Drained
             \/ GetFirstDefinition \/ LockForRemoval \/ RemoveDefinition \/ DeleteElement
             \/ ClearLists \/ AddMapDefinition \/ CreateList \/ AppendDefinition \/ Loaded
      PROVE  UNCHANGED <<pc[w], todo[w], Phase(w)>>
  <2>1. pc'[w] = pc[w]
    BY <1>4, GameKeeps
  <2>2. UNCHANGED todo /\ (list_ptr'[w] = "none" <=> list_ptr[w] = "none")
    BY <1>1, <1>4 DEF StartMapServer, ReloadMapPartDefinitions, StopMapServer, Drained,
       GetFirstDefinition, LockForRemoval, RemoveDefinition, DeleteElement, ClearLists,
       AddMapDefinition, CreateList, AppendDefinition, Loaded, searchVars, TypeInv, TypeOK
  <2> QED
    BY <2>1, <2>2, PhaseKept
<1>5. CASE Crashed
  BY <1>5, PhaseKept DEF Crashed, vars, searchVars
<1>6. ASSUME NEW u \in Workers, Request(u) \/ Worker(u)
      PROVE  Advances(w) \/ UNCHANGED <<pc[w], todo[w], Phase(w)>>
  <2>1. CASE Search(u)
    BY <1>2, <2>1, SearchAdvances DEF Threads
  <2> QED
    BY <1>3, <1>6, <2>1 DEF Worker
<1>7. CASE InCall
  BY <1>1, <1>2, <1>4, <1>7 DEF InCall
<1> QED
  BY <1>4, <1>5, <1>6, <1>7 DEF Next

(* A request goes forward only (ServerCallback, MapDownloadServer.cpp:     *)
(* 995-1058, and FindMap under it), whatever is stopped, reloaded, deleted *)
(* or timed out meanwhile.  The list it searches is finite, so it has      *)
(* finitely many steps to go.                                              *)
THEOREM RequestsGoForward == VerdictSpec => RequestsAdvance
<1>1. VerdictInit => TypeInv /\ SearchInv /\ PtrInv
  BY InitType, SearchInit, PtrInit DEF VerdictInit
<1>2. TypeInv /\ SearchInv /\ PtrInv /\ [VerdictNext]_<<vars, history>>
        => (TypeInv /\ SearchInv /\ PtrInv)'
  BY NextType, SearchInvStep, PtrStep DEF VerdictNext
<1>3. TypeInv /\ PtrInv /\ [VerdictNext]_<<vars, history>> =>
        [\A w \in Workers : pc[w] # "idle" =>
           \/ Advances(w)
           \/ UNCHANGED <<pc[w], todo[w], Phase(w)>>]_vars
  BY AdvanceStep DEF VerdictNext
<1> QED
  BY <1>1, <1>2, <1>3, PTL DEF VerdictSpec, RequestsAdvance
=============================================================================
