----------------------------- MODULE HTTPClient -----------------------------
(***************************************************************************)
(* The HTTP client (Networking/HTTP/HTTPClient.cpp): a fixed array of      *)
(* request slots, guarded by g_request_index_mutex, over the GHTTP         *)
(* library.  The game thread and the map download thread both use it.      *)
(*                                                                         *)
(* The operators are the steps of a thread t.  Each critical section is    *)
(* one step that needs the mutex to be free or with t (it is recursive).   *)
(* The variable mutex names a thread that has left a critical section      *)
(* without releasing it.                                                   *)
(*                                                                         *)
(* GHTTP is external: connection says which slot a live request reports    *)
(* to, a request ends with its completed callback, and the identifier of   *)
(* a request that has ended may be given to another one.                   *)
(***************************************************************************)
EXTENDS Naturals, FiniteSets

CONSTANTS
  Game,        \* the game thread
  Download,    \* the map download thread
  NoThread,
  Slots,       \* g_request_index; k_max_simultaneous_requests of them
  NoSlot,
  Ids,         \* identifiers of GHTTP requests
  NoId,
  Users,       \* the downloaders, passed as component data
  NoUser

ASSUME ThreadsAssumption ==
  Game # Download /\ NoThread \notin {Game, Download}
ASSUME NullsAssumption ==
  NoSlot \notin Slots /\ NoId \notin Ids /\ NoUser \notin Users

VARIABLES
  mutex,       \* the thread that has not released g_request_index_mutex
  in_use,      \* the slots with m_in_use
  manual_think,\* the slots with m_manual_think
  state,       \* per slot: m_progress.m_state, as far as it is compared
  request_id,  \* per slot: m_request_id
  user,        \* per slot: m_component_data
  connection   \* GHTTP, per identifier: the slot its request reports to

clientVars == <<mutex, in_use, manual_think, state, request_id, user, connection>>

Threads == {Game, Download}

ClientTypeOK ==
  /\ mutex \in Threads \union {NoThread}
  /\ in_use \subseteq Slots
  /\ manual_think \subseteq Slots
  /\ state \in [Slots -> {"connecting", "receiving"}]
  /\ request_id \in [Slots -> Ids \union {NoId}]
  /\ user \in [Slots -> Users \union {NoUser}]
  /\ connection \in [Ids -> Slots \union {NoSlot}]

Initialize ==
  /\ mutex = NoThread
  /\ in_use = {}
  /\ manual_think = {}
  /\ state = [s \in Slots |-> "connecting"]
  /\ request_id = [s \in Slots |-> NoId]
  /\ user = [s \in Slots |-> NoUser]
  /\ connection = [i \in Ids |-> NoSlot]

MayAcquire(t) == mutex \in {NoThread, t}

(* The slot whose request has the identifier i now, if i is in use.        *)
Target(i) == IF i \in Ids THEN connection[i] ELSE NoSlot

(* Mutant: a slot that is in use is handed out again.                      *)
GetMutant(t, s, i, u, manual) ==
  /\ MayAcquire(t)
  /\ connection[i] = NoSlot
  /\ in_use' = in_use \union {s}
  /\ manual_think' = IF manual THEN manual_think \union {s} ELSE manual_think \ {s}
  /\ state' = [state EXCEPT ![s] = "connecting"]
  /\ request_id' = [request_id EXCEPT ![s] = i]
  /\ user' = [user EXCEPT ![s] = u]
  /\ connection' = [connection EXCEPT ![i] = s]
  /\ UNCHANGED mutex

(***************************************************************************)
(* HTTPRequestGet.  The thread takes a slot and GHTTP starts a request;    *)
(* or GHTTP refuses it and the slot is reset at once; or no slot is free   *)
(* and the function returns with the mutex still acquired.                 *)
(***************************************************************************)
Get(t, s, i, u, manual) ==
  /\ MayAcquire(t)
  /\ s \notin in_use
  /\ connection[i] = NoSlot
  /\ in_use' = in_use \union {s}
  /\ manual_think' = IF manual THEN manual_think \union {s} ELSE manual_think \ {s}
  /\ state' = [state EXCEPT ![s] = "connecting"]
  /\ request_id' = [request_id EXCEPT ![s] = i]
  /\ user' = [user EXCEPT ![s] = u]
  /\ connection' = [connection EXCEPT ![i] = s]
  /\ UNCHANGED mutex

(* Mutant: the function returns early when GHTTP refuses the request.      *)
GetRefusedMutant(t) ==
  /\ MayAcquire(t)
  /\ in_use # Slots
  /\ mutex' = t
  /\ UNCHANGED <<in_use, manual_think, state, request_id, user, connection>>

GetRefused(t) ==
  /\ MayAcquire(t)
  /\ in_use # Slots
  /\ UNCHANGED clientVars

GetFull(t) ==
  /\ MayAcquire(t)
  /\ in_use = Slots
  /\ mutex' = t
  /\ UNCHANGED <<in_use, manual_think, state, request_id, user, connection>>

(***************************************************************************)
(* What ghttpRequestThink may bring: progress (RequestProgress), or the    *)
(* end of the request (RequestComplete), which clears the component data   *)
(* and calls back the downloader.  The slot stays in use.                  *)
(***************************************************************************)
RequestProgress(t, i) ==
  /\ MayAcquire(t)
  /\ Target(i) # NoSlot
  /\ state[Target(i)] = "connecting"
  /\ state' = [state EXCEPT ![Target(i)] = "receiving"]
  /\ UNCHANGED <<mutex, in_use, manual_think, request_id, user, connection>>

RequestComplete(t, i) ==
  /\ MayAcquire(t)
  /\ Target(i) # NoSlot
  /\ user' = [user EXCEPT ![Target(i)] = NoUser]
  /\ connection' = [connection EXCEPT ![i] = NoSlot]
  /\ UNCHANGED <<mutex, in_use, manual_think, state, request_id>>

(***************************************************************************)
(* HTTPRequestAbort: whatever request has the identifier of the slot is    *)
(* cancelled, and then the slot is reset.                                  *)
(***************************************************************************)
CancelledSlot(s) == Target(request_id[s])

(* Mutant: the slot is reset, but its request is not cancelled.            *)
HTTPRequestAbortMutant(t, s) ==
  /\ MayAcquire(t)
  /\ in_use' = in_use \ {s}
  /\ manual_think' = manual_think \ {s}
  /\ state' = [state EXCEPT ![s] = "connecting"]
  /\ request_id' = [request_id EXCEPT ![s] = NoId]
  /\ user' = [user EXCEPT ![s] = NoUser]
  /\ UNCHANGED <<mutex, connection>>

HTTPRequestAbort(t, s) ==
  /\ MayAcquire(t)
  /\ connection' = [i \in Ids |-> IF i = request_id[s] THEN NoSlot ELSE connection[i]]
  /\ in_use' = in_use \ {s}
  /\ manual_think' = manual_think \ {s}
  /\ state' = [state EXCEPT ![s] = "connecting"]
  /\ request_id' = [request_id EXCEPT ![s] = NoId]
  /\ user' = [r \in Slots |-> IF r \in {s, CancelledSlot(s)} THEN NoUser ELSE user[r]]
  /\ UNCHANGED mutex

(* A thread that ends abandons the mutex, and the next wait acquires it.   *)
ThreadEnds(t) ==
  /\ mutex' = IF mutex = t THEN NoThread ELSE mutex
  /\ UNCHANGED <<in_use, manual_think, state, request_id, user, connection>>

-----------------------------------------------------------------------------
(* A request that is still running reports to a slot that is in use and    *)
(* that holds its identifier: it can be cancelled, and its callback never  *)
(* meets a slot that has been reset or given to another request            *)
(* (HTTPClient.cpp:425-447, 500-561).                                      *)
LiveRequestsHeld ==
  \A i \in Ids : connection[i] # NoSlot =>
    /\ connection[i] \in in_use
    /\ request_id[connection[i]] = i
    /\ user[connection[i]] # NoUser

(* The slots whose request is still running.                               *)
Open == {connection[i] : i \in Ids} \ {NoSlot}

Promise == INSTANCE RequestSlots WITH taken <- in_use, open <- Open
=============================================================================
