------------------------- MODULE MapDownloadServer -------------------------
(***************************************************************************)
(* The map download service of the dedicated server                        *)
(* (Networking/HTTP/MapDownloadServer.cpp).  The worker threads of the     *)
(* HTTP daemon answer requests for map part definitions; the game thread   *)
(* starts, stops and reloads the service.  There is no lock around the     *)
(* service: what protects the definitions from the game thread is the      *)
(* counter m_requests_in_progress, a mutex per definition list, and a      *)
(* mutex and a lock count per definition.                                  *)
(*                                                                         *)
(* The counters are plain integers that several threads increment and      *)
(* decrement, so each update is two steps here, a read and a write.        *)
(*                                                                         *)
(* The lists are one per first letter; there is one list here, and a look  *)
(* up in the container of the lists is a single step.  The waits for a     *)
(* mutex end after k_max_mutex_wait whenever another thread holds it.  An  *)
(* access through a pointer to a deleted list or element ends the          *)
(* behaviour (Fault): the program may do anything from there.              *)
(***************************************************************************)
EXTENDS Naturals, FiniteSets

CONSTANTS
  Workers,     \* the worker threads of the HTTP daemon
  Game,        \* the game thread
  NoThread,
  Maps,        \* map names, all with the same first letter
  NoMap,
  Elements,    \* heap addresses of map elements
  NoElement,   \* null pointer
  Dangling,    \* a pointer to an element that has been deleted
  Wrap         \* bound: the counters count modulo Wrap (2^32 in the code)

ASSUME ThreadsAssumption ==
  Game \notin Workers /\ NoThread \notin Workers /\ NoThread # Game
ASSUME HeapAssumption ==
  /\ NoElement \notin Elements /\ Dangling \notin Elements /\ NoElement # Dangling
  /\ NoMap \notin Maps
ASSUME WrapAssumption ==
  IsFiniteSet(Workers) /\ Wrap \in Nat /\ Cardinality(Workers) + 1 < Wrap

Threads == Workers \union {Game}

VARIABLES
  system_active,
  requests_in_progress,
  list_present,   \* the list is in g_map_part_definition_lists
  definitions,    \* m_map_part_definitions, the elements of the list
  list_owner,     \* who holds the mutex of the list
  live,           \* the elements that are allocated
  name,           \* per element: m_name
  lock_count,     \* per element: m_lock_count
  owner,          \* per element: who holds its mutex
  pc,             \* per thread: what it does next
  map,            \* per thread: the map it looks for
  list_ptr,       \* per thread: the list it searches, "none", "live" or "dead"
  todo,           \* per thread: the elements it has yet to search
  cur,            \* per thread: the element it locks or uses
  found,          \* per thread: the element that matched so far
  reg,            \* per thread: the value of a counter it has read
  call,           \* game thread: the operation it is in
  files,          \* game thread: definition files yet to be added
  created,        \* game thread: GetList has created the list for the file
  crashed         \* the thread that used a dangling pointer, if one has

serviceVars == <<system_active, requests_in_progress>>
listVars    == <<list_present, definitions, list_owner>>
heapVars    == <<live, name, lock_count, owner>>
searchVars  == <<map, list_ptr, todo, cur, found>>
gameVars    == <<call, files, created>>
vars == <<serviceVars, listVars, heapVars, pc, searchVars, reg, gameVars, crashed>>

SearchSteps  == {"find", "list", "scan"}
ElementSteps == {"lock", "lock2", "wait", "inside", "unlock", "release",
                 "giveup", "giveup2"}
WorkerSteps  == {"idle", "check", "count", "count2", "uncount", "uncount2"}
GameSteps    == {"idle", "drain", "head", "remove", "busy", "delete", "clear",
                 "load", "create", "append"}

TypeOK ==
  /\ system_active \in BOOLEAN
  /\ requests_in_progress \in 0 .. Wrap - 1
  /\ list_present \in BOOLEAN
  /\ definitions \subseteq live
  /\ list_owner \in Threads \union {NoThread}
  /\ live \subseteq Elements
  /\ name \in [Elements -> Maps \union {NoMap}]
  /\ lock_count \in [Elements -> 0 .. Wrap - 1]
  /\ owner \in [Elements -> Threads \union {NoThread}]
  /\ pc \in [Threads -> SearchSteps \union ElementSteps \union WorkerSteps \union GameSteps]
  /\ map \in [Threads -> Maps \union {NoMap}]
  /\ list_ptr \in [Threads -> {"none", "live", "dead"}]
  /\ todo \in [Threads -> SUBSET Elements]
  /\ cur \in [Threads -> Elements \union {NoElement, Dangling}]
  /\ found \in [Threads -> Elements \union {NoElement, Dangling}]
  /\ reg \in [Threads -> 0 .. Wrap - 1]
  /\ call \in {"none", "start", "stop", "reload"}
  /\ files \subseteq Maps
  /\ created \in BOOLEAN
  /\ crashed \in Threads \union {NoThread}

Init ==
  /\ system_active = FALSE
  /\ requests_in_progress = 0
  /\ list_present = FALSE
  /\ definitions = {}
  /\ list_owner = NoThread
  /\ live = {}
  /\ name = [e \in Elements |-> NoMap]
  /\ lock_count = [e \in Elements |-> 0]
  /\ owner = [e \in Elements |-> NoThread]
  /\ pc = [t \in Threads |-> "idle"]
  /\ map = [t \in Threads |-> NoMap]
  /\ list_ptr = [t \in Threads |-> "none"]
  /\ todo = [t \in Threads |-> {}]
  /\ cur = [t \in Threads |-> NoElement]
  /\ found = [t \in Threads |-> NoElement]
  /\ reg = [t \in Threads |-> 0]
  /\ call = "none"
  /\ files = {}
  /\ created = FALSE
  /\ crashed = NoThread

At(t, step)   == crashed = NoThread /\ pc[t] = step
Goto(t, step) == pc' = [pc EXCEPT ![t] = step]

Plus1(n)  == (n + 1) % Wrap
Minus1(n) == (n + Wrap - 1) % Wrap

Held(mutex, t) == mutex \notin {NoThread, t}   \* by another thread
Freed(mutex, t) == IF mutex = t THEN NoThread ELSE mutex

-----------------------------------------------------------------------------
(***************************************************************************)
(* Looking for a map: FindMap and FindDefinition, run by workers and by    *)
(* the game thread.                                                        *)
(***************************************************************************)

(* The search of t ended with the element e, or null.                      *)
Searched(t, e) ==
  /\ list_ptr' = [list_ptr EXCEPT ![t] = "none"]
  /\ todo' = [todo EXCEPT ![t] = {}]
  /\ found' = [found EXCEPT ![t] = NoElement]
  /\ IF t = Game
       THEN /\ Goto(t, CASE e # NoElement -> "load"
                         [] e = NoElement /\ created -> "append"
                         [] OTHER -> "create")
            /\ cur' = [cur EXCEPT ![t] = NoElement]
       ELSE /\ Goto(t, IF e = NoElement THEN "uncount" ELSE "lock")
            /\ cur' = [cur EXCEPT ![t] = e]

(* GetList and HasEntries.                                                 *)
Find(t) ==
  /\ At(t, "find")
  /\ IF list_present /\ definitions # {}
       THEN /\ Goto(t, "list")
            /\ list_ptr' = [list_ptr EXCEPT ![t] = "live"]
            /\ UNCHANGED <<todo, cur, found>>
       ELSE Searched(t, NoElement)
  /\ UNCHANGED <<serviceVars, listVars, heapVars, map, reg, gameVars, crashed>>

LockList(t) ==
  /\ At(t, "list")
  /\ list_ptr[t] = "live"
  /\ \/ /\ list_owner = NoThread
        /\ list_owner' = t
        /\ todo' = [todo EXCEPT ![t] = definitions]
        /\ Goto(t, "scan")
        /\ UNCHANGED <<list_ptr, cur, found>>
     \/ /\ Held(list_owner, t)
        /\ Searched(t, NoElement)
        /\ UNCHANGED list_owner
  /\ UNCHANGED <<serviceVars, list_present, definitions, heapVars, map, reg,
                 gameVars, crashed>>

(* Mutant: the iterator does not move on.                                  *)
NextElementMutant(t) ==
  /\ At(t, "scan")
  /\ \E e \in todo[t] : cur' = [cur EXCEPT ![t] = e]
  /\ Goto(t, "lock")
  /\ UNCHANGED <<serviceVars, listVars, heapVars, map, list_ptr, todo, found, reg,
                 gameVars, crashed>>

NextElement(t) ==
  /\ At(t, "scan")
  /\ \E e \in todo[t] :
       /\ cur' = [cur EXCEPT ![t] = e]
       /\ todo' = [todo EXCEPT ![t] = @ \ {e}]
  /\ Goto(t, "lock")
  /\ UNCHANGED <<serviceVars, listVars, heapVars, map, list_ptr, found, reg,
                 gameVars, crashed>>

UnlockList(t) ==
  /\ At(t, "scan")
  /\ todo[t] = {}
  /\ list_ptr[t] = "live"
  /\ list_owner' = Freed(list_owner, t)
  /\ Searched(t, found[t])
  /\ UNCHANGED <<serviceVars, list_present, definitions, heapVars, map, reg,
                 gameVars, crashed>>

-----------------------------------------------------------------------------
(***************************************************************************)
(* c_map_element::Lock and Unlock, and what a thread does in between.      *)
(***************************************************************************)
Valid(t) == cur[t] \in live

ReadLockCount(t, step, next) ==
  /\ At(t, step)
  /\ Valid(t)
  /\ reg' = [reg EXCEPT ![t] = lock_count[cur[t]]]
  /\ Goto(t, next)
  /\ UNCHANGED <<serviceVars, listVars, heapVars, list_ptr, map, todo, cur,
                 gameVars, crashed>>

WriteLockCount(t, step, count) ==
  /\ At(t, step)
  /\ Valid(t)
  /\ lock_count' = [lock_count EXCEPT ![cur[t]] = count]
  /\ reg' = [reg EXCEPT ![t] = 0]
  /\ UNCHANGED <<serviceVars, listVars, live, name, owner, map, list_ptr, todo,
                 found, gameVars, crashed>>

Lock(t) ==
  \/ ReadLockCount(t, "lock", "lock2") /\ UNCHANGED found
  \/ /\ WriteLockCount(t, "lock2", Plus1(reg[t]))
     /\ Goto(t, "wait")
     /\ UNCHANGED cur

WaitElement(t) ==
  /\ At(t, "wait")
  /\ Valid(t)
  /\ \/ /\ owner[cur[t]] = NoThread
        /\ owner' = [owner EXCEPT ![cur[t]] = t]
        /\ Goto(t, "inside")
     \/ /\ Held(owner[cur[t]], t)
        /\ Goto(t, "giveup")
        /\ UNCHANGED owner
  /\ UNCHANGED <<serviceVars, listVars, live, name, lock_count, searchVars, reg,
                 gameVars, crashed>>

(* Mutant: the names are not compared.                                     *)
InsideMutant(t) ==
  /\ ReadLockCount(t, "inside", "unlock")
  /\ found' = IF list_ptr[t] # "none" THEN [found EXCEPT ![t] = cur[t]] ELSE found

(* In a search the name is compared; otherwise the definition is copied or *)
(* the part looked up and the client redirected.  Then Unlock begins.      *)
Inside(t) ==
  /\ ReadLockCount(t, "inside", "unlock")
  /\ found' = IF list_ptr[t] # "none" /\ name[cur[t]] = map[t]
                THEN [found EXCEPT ![t] = cur[t]] ELSE found

(* Where t goes from an element: on with the search, or out of the request. *)
Leave(t) ==
  /\ Goto(t, IF list_ptr[t] # "none" THEN "scan" ELSE "uncount")
  /\ cur' = [cur EXCEPT ![t] = NoElement]

(* Unlock decrements the count before it releases the mutex.               *)
Unlock(t) ==
  /\ WriteLockCount(t, "unlock", Minus1(reg[t]))
  /\ Goto(t, "release")
  /\ UNCHANGED cur

ReleaseElement(t) ==
  /\ At(t, "release")
  /\ Valid(t)
  /\ owner' = [owner EXCEPT ![cur[t]] = Freed(@, t)]
  /\ Leave(t)
  /\ UNCHANGED <<serviceVars, listVars, live, name, lock_count, map, list_ptr,
                 todo, found, reg, gameVars, crashed>>

(* Mutant: a Lock that timed out does not take back its count.             *)
GiveUpMutant(t) ==
  \/ ReadLockCount(t, "giveup", "giveup2") /\ UNCHANGED found
  \/ WriteLockCount(t, "giveup2", reg[t]) /\ Leave(t)

(* The end of a Lock that timed out.                                       *)
GiveUp(t) ==
  \/ ReadLockCount(t, "giveup", "giveup2") /\ UNCHANGED found
  \/ WriteLockCount(t, "giveup2", Minus1(reg[t])) /\ Leave(t)

(* t uses a pointer to something deleted.                                  *)
Fault(t) ==
  /\ crashed = NoThread
  /\ \/ pc[t] \in ElementSteps /\ ~Valid(t)
     \/ pc[t] = "list" /\ list_ptr[t] = "dead"
     \/ pc[t] = "scan" /\ todo[t] = {} /\ list_ptr[t] = "dead"
  /\ crashed' = t
  /\ UNCHANGED <<serviceVars, listVars, heapVars, pc, searchVars, reg, gameVars>>

Search(t) ==
  \/ Find(t)
  \/ LockList(t)
  \/ NextElement(t)
  \/ UnlockList(t)
  \/ Lock(t)
  \/ WaitElement(t)
  \/ Inside(t)
  \/ Unlock(t)
  \/ ReleaseElement(t)
  \/ GiveUp(t)
  \/ Fault(t)

-----------------------------------------------------------------------------
(***************************************************************************)
(* The worker threads: ServerCallback of the service.                      *)
(***************************************************************************)
Request(w) ==
  /\ At(w, "idle")
  /\ Goto(w, "check")
  /\ \E m \in Maps : map' = [map EXCEPT ![w] = m]
  /\ UNCHANGED <<serviceVars, listVars, heapVars, list_ptr, todo, cur, found, reg,
                 gameVars, crashed>>

Done(w) ==
  /\ Goto(w, "idle")
  /\ map' = [map EXCEPT ![w] = NoMap]

(* The system is not active, or the client is not the game's.              *)
Deny(w) ==
  /\ At(w, "check")
  /\ Done(w)
  /\ UNCHANGED <<serviceVars, listVars, heapVars, list_ptr, todo, cur, found, reg,
                 gameVars, crashed>>

(* Mutant: the request is counted without a look at system_active.         *)
AdmitMutant(w) ==
  /\ At(w, "check")
  /\ Goto(w, "count")
  /\ UNCHANGED <<serviceVars, listVars, heapVars, searchVars, reg, gameVars, crashed>>

Admit(w) ==
  /\ At(w, "check")
  /\ system_active
  /\ Goto(w, "count")
  /\ UNCHANGED <<serviceVars, listVars, heapVars, searchVars, reg, gameVars, crashed>>

ReadRequests(w, step, next) ==
  /\ At(w, step)
  /\ reg' = [reg EXCEPT ![w] = requests_in_progress]
  /\ Goto(w, next)
  /\ UNCHANGED <<serviceVars, listVars, heapVars, searchVars, gameVars, crashed>>

WriteRequests(w, step, count) ==
  /\ At(w, step)
  /\ requests_in_progress' = count
  /\ reg' = [reg EXCEPT ![w] = 0]
  /\ UNCHANGED <<system_active, listVars, heapVars, list_ptr, todo, cur, found,
                 gameVars, crashed>>

(* Mutant: a request that is not for a map returns without being uncounted. *)
CountMutant(w) ==
  \/ ReadRequests(w, "count", "count2")
  \/ /\ WriteRequests(w, "count2", Plus1(reg[w]))
     /\ \/ Goto(w, "find") /\ UNCHANGED map
        \/ Done(w)

(* m_requests_in_progress++; a request that is not for a map ends here.    *)
Count(w) ==
  \/ ReadRequests(w, "count", "count2")
  \/ /\ WriteRequests(w, "count2", Plus1(reg[w]))
     /\ \E next \in {"find", "uncount"} : Goto(w, next)
     /\ UNCHANGED map

(* m_requests_in_progress--.                                               *)
Uncount(w) ==
  \/ ReadRequests(w, "uncount", "uncount2")
  \/ WriteRequests(w, "uncount2", Minus1(reg[w])) /\ Done(w)

Worker(w) ==
  \/ Deny(w)
  \/ Admit(w)
  \/ Count(w)
  \/ Search(w)
  \/ Uncount(w)

-----------------------------------------------------------------------------
(***************************************************************************)
(* The game thread.                                                        *)
(***************************************************************************)

(* The script functions, when they do not refuse.                          *)
StartMapServer ==
  /\ At(Game, "idle")
  /\ ~system_active
  /\ call' = "start"
  /\ Goto(Game, "head")
  /\ UNCHANGED <<serviceVars, listVars, heapVars, searchVars, reg, files, created, crashed>>

ReloadMapPartDefinitions ==
  /\ At(Game, "idle")
  /\ call' = "reload"
  /\ Goto(Game, "head")
  /\ UNCHANGED <<serviceVars, listVars, heapVars, searchVars, reg, files, created, crashed>>

(* Mutant: the system stays active while it is stopped.                    *)
StopMapServerMutant ==
  /\ At(Game, "idle")
  /\ system_active
  /\ call' = "stop"
  /\ Goto(Game, "drain")
  /\ UNCHANGED <<serviceVars, listVars, heapVars, searchVars, reg, files, created,
                 crashed>>

StopMapServer ==
  /\ At(Game, "idle")
  /\ system_active
  /\ system_active' = FALSE
  /\ call' = "stop"
  /\ Goto(Game, "drain")
  /\ UNCHANGED <<requests_in_progress, listVars, heapVars, searchVars, reg, files,
                 created, crashed>>

(* Mutant: nobody waits for the requests in progress.                      *)
DrainedMutant ==
  /\ At(Game, "drain")
  /\ Goto(Game, "head")
  /\ UNCHANGED <<serviceVars, listVars, heapVars, searchVars, reg, gameVars, crashed>>

(* The loop that sleeps until there is no request in progress ends.        *)
Drained ==
  /\ At(Game, "drain")
  /\ requests_in_progress = 0
  /\ Goto(Game, "head")
  /\ UNCHANGED <<serviceVars, listVars, heapVars, searchVars, reg, gameVars, crashed>>

(* UnloadMapPartDefinitions: the first element of the list.  A list that   *)
(* cannot be locked in time is taken to be empty.                          *)
GetFirstDefinition ==
  /\ At(Game, "head")
  /\ \/ /\ definitions = {} \/ Held(list_owner, Game)
        /\ Goto(Game, "clear")
        /\ UNCHANGED cur
     \/ /\ list_owner = NoThread
        /\ \E e \in definitions : cur' = [cur EXCEPT ![Game] = e]
        /\ Goto(Game, "remove")
  /\ UNCHANGED <<serviceVars, listVars, heapVars, map, list_ptr, todo, found, reg,
                 gameVars, crashed>>

(* Mutant: RemoveDefinition does not take the mutex of the list.           *)
LockForRemovalMutant ==
  /\ At(Game, "remove")
  /\ Goto(Game, "busy")
  /\ UNCHANGED <<serviceVars, listVars, heapVars, searchVars, reg, gameVars, crashed>>

(* RemoveDefinition takes the mutex of the list, or fails to.              *)
LockForRemoval ==
  /\ At(Game, "remove")
  /\ \/ /\ list_owner = NoThread
        /\ list_owner' = Game
        /\ Goto(Game, "busy")
        /\ UNCHANGED cur
     \/ /\ Held(list_owner, Game)
        /\ cur' = [cur EXCEPT ![Game] = NoElement]
        /\ Goto(Game, "head")
        /\ UNCHANGED list_owner
  /\ UNCHANGED <<serviceVars, list_present, definitions, heapVars, map, list_ptr,
                 todo, found, reg, gameVars, crashed>>

(* Mutant: the element is deleted but not taken out of the list.           *)
RemoveDefinitionMutant ==
  /\ At(Game, "busy")
  /\ lock_count[cur[Game]] = 0
  /\ list_owner' = NoThread
  /\ Goto(Game, "delete")
  /\ UNCHANGED <<serviceVars, list_present, definitions, heapVars, searchVars, reg,
                 gameVars, crashed>>

(* The loop that waits for the lock count to be zero ends.                 *)
RemoveDefinition ==
  /\ At(Game, "busy")
  /\ lock_count[cur[Game]] = 0
  /\ definitions' = definitions \ {cur[Game]}
  /\ list_owner' = NoThread
  /\ Goto(Game, "delete")
  /\ UNCHANGED <<serviceVars, list_present, heapVars, searchVars, reg, gameVars, crashed>>

DeleteElement ==
  LET e == cur[Game]
      Dangle(ptr) == [t \in Threads |->
                        CASE ptr[t] = e /\ t # Game -> Dangling
                          [] ptr[t] = e /\ t = Game -> NoElement
                          [] OTHER                  -> ptr[t]]
  IN  /\ At(Game, "delete")
      /\ live' = live \ {e}
      /\ name' = [name EXCEPT ![e] = NoMap]
      /\ lock_count' = [lock_count EXCEPT ![e] = 0]
      /\ owner' = [owner EXCEPT ![e] = NoThread]
      /\ cur' = Dangle(cur)
      /\ found' = Dangle(found)
      /\ Goto(Game, "head")
      /\ UNCHANGED <<serviceVars, listVars, map, list_ptr, todo, reg, gameVars, crashed>>

(* The container of the lists is emptied; elements still in the list leak. *)
(* A load goes on with the files in the definitions directory, if any.     *)
ClearLists ==
  /\ At(Game, "clear")
  /\ list_present' = FALSE
  /\ definitions' = {}
  /\ list_owner' = NoThread
  /\ list_ptr' = [t \in Threads |-> IF list_ptr[t] = "live" THEN "dead" ELSE list_ptr[t]]
  /\ \/ /\ call # "stop"
        /\ files' \in SUBSET Maps \ {{}}
        /\ Goto(Game, "load")
        /\ UNCHANGED call
     \/ /\ call' = "none"
        /\ Goto(Game, "idle")
        /\ UNCHANGED files
  /\ UNCHANGED <<serviceVars, heapVars, map, todo, cur, found, reg, created, crashed>>

(* AddMapDefinition looks for the map of the next file, unless the file    *)
(* cannot be parsed.                                                       *)
AddMapDefinition ==
  /\ At(Game, "load")
  /\ \E m \in files :
       /\ files' = files \ {m}
       /\ \/ map' = [map EXCEPT ![Game] = m] /\ Goto(Game, "find")
          \/ UNCHANGED <<map, pc>>
  /\ created' = FALSE
  /\ UNCHANGED <<serviceVars, listVars, heapVars, list_ptr, todo, cur, found, reg,
                 call, crashed>>

(* GetList creates the list; AddDefinition looks for the map once more.    *)
CreateList ==
  /\ At(Game, "create")
  /\ list_present' = TRUE
  /\ created' = TRUE
  /\ Goto(Game, "find")
  /\ UNCHANGED <<serviceVars, definitions, list_owner, heapVars, searchVars, reg,
                 call, files, crashed>>

(* AddDefinition appends the element, unless the list cannot be locked in  *)
(* time or (here) no memory is left.                                       *)
AppendDefinition ==
  /\ At(Game, "append")
  /\ Goto(Game, "load")
  /\ \/ /\ list_owner = NoThread
        /\ \E e \in Elements \ live :
             /\ live' = live \union {e}
             /\ definitions' = definitions \union {e}
             /\ name' = [name EXCEPT ![e] = map[Game]]
     \/ /\ Held(list_owner, Game) \/ live = Elements
        /\ UNCHANGED <<live, definitions, name>>
  /\ UNCHANGED <<serviceVars, list_present, list_owner, lock_count, owner,
                 searchVars, reg, gameVars, crashed>>

(* LoadMapPartDefinitions returns; StartMapServer activates the system.    *)
Loaded ==
  /\ At(Game, "load")
  /\ files = {}
  /\ system_active' = (system_active \/ call = "start")
  /\ call' = "none"
  /\ Goto(Game, "idle")
  /\ map' = [map EXCEPT ![Game] = NoMap]
  /\ created' = FALSE
  /\ UNCHANGED <<requests_in_progress, listVars, heapVars, list_ptr, todo, cur,
                 found, reg, files, crashed>>

InCall ==
  \/ Drained
  \/ GetFirstDefinition
  \/ LockForRemoval
  \/ RemoveDefinition
  \/ DeleteElement
  \/ ClearLists
  \/ AddMapDefinition
  \/ Search(Game)
  \/ CreateList
  \/ AppendDefinition
  \/ Loaded

Crashed == crashed # NoThread /\ UNCHANGED vars

Next ==
  \/ \E w \in Workers : Request(w)
  \/ \E w \in Workers : Worker(w)
  \/ StartMapServer
  \/ ReloadMapPartDefinitions
  \/ StopMapServer
  \/ InCall
  \/ Crashed

(* Threads that can run do run; nobody has to send a request or call a     *)
(* script function.                                                        *)
Fairness ==
  /\ \A w \in Workers : WF_vars(Worker(w))
  /\ WF_vars(InCall)

SafetySpec == Init /\ [][Next]_vars
Spec       == SafetySpec /\ Fairness
=============================================================================
