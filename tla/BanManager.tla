----------------------------- MODULE BanManager -----------------------------
(***************************************************************************)
(* The ban lists of the dedicated server's HTTP server                     *)
(* (Networking/HTTP/BanManager.cpp): the permanent bans set by the admin,  *)
(* the connection bans earned by addresses that connect too often, the     *)
(* mutex that guards both lists, the settings and the ban list file.       *)
(*                                                                         *)
(* The module holds the shared data and one action per operation; the      *)
(* threads that call them are in module HTTPServer.                        *)
(*                                                                         *)
(* Every critical section is one action.  Inside it the lists are touched  *)
(* by nobody else, and the only code that reads a list element without the *)
(* mutex reads a single flag of a single element (IPBanned, see            *)
(* ReadVerdict), so no interleaving is lost.  What a section does to the   *)
(* mutex itself is explicit: Win32 mutexes are recursive, and one path     *)
(* through the code acquires once more than it releases.                   *)
(*                                                                         *)
(* The linked lists are sets of heap nodes.  The order of the list shows   *)
(* in two places only: which of several elements for one address a search  *)
(* finds first, and which element an index names.  Both are "any of them"  *)
(* here.                                                                   *)
(***************************************************************************)
EXTENDS Naturals, FiniteSets

CONSTANTS
  IPs,            \* client addresses
  NoIP,           \* no address: unused memory, a worker without a request
  Nodes,          \* heap addresses of ban list elements
  Workers,        \* the worker threads of the HTTP daemon
  Game,           \* the game thread, which runs updates and script functions
  NoThread,       \* owner of a free mutex
  NoNode,         \* null pointer
  Limits,         \* values the admin gives max_connections_per_ip
  CooldownTimes,  \* values the admin gives connection_cooldown_time, in ticks
  ForgetTimes,    \* values the admin gives forget_connection_time, in ticks
  MaxTime,        \* bound: elapsed times saturate here
  MaxTotal,       \* bound: total_connections saturates here
  MaxPermanent,   \* bound: elements of the permanent list
  MaxHold         \* bound: how often the mutex is left acquired

ASSUME ThreadsAssumption ==
  /\ IsFiniteSet(Workers)
  /\ Game \notin Workers /\ NoThread \notin Workers /\ NoThread # Game

ASSUME NodesAssumption ==
  /\ IsFiniteSet(Nodes)
  /\ NoNode \notin Nodes /\ NoIP \notin IPs

ASSUME SettingsAssumption ==
  /\ Limits \subseteq Nat
  /\ MaxTime \in Nat
  /\ CooldownTimes \subseteq 0 .. MaxTime
  /\ ForgetTimes \subseteq 0 .. MaxTime
  /\ MaxTotal \in Nat \ {0}
  /\ MaxHold \in Nat

VARIABLES
  connect_ban_list,         \* g_connect_ban_list
  permanent_ban_list,       \* g_permanent_ban_list
  node,                     \* the heap: contents of each element
  mutex_owner,              \* g_ban_list_mutex: the thread that owns it
  mutex_count,              \* g_ban_list_mutex: its recursion count
  max_connections_per_ip,
  connection_cooldown_time,
  forget_connection_time,
  ban_list_file             \* the file of the permanent bans

listVars    == <<connect_ban_list, permanent_ban_list, node>>
mutexVars   == <<mutex_owner, mutex_count>>
settingVars == <<max_connections_per_ip, connection_cooldown_time,
                 forget_connection_time>>
banVars     == <<listVars, mutexVars, settingVars, ban_list_file>>

Threads == Workers \union {Game}

Element == [ip : IPs \union {NoIP}, is_active : BOOLEAN, total_connections : 0 .. MaxTotal,
            cooldown_delta : 0 .. MaxTime, forget_delta : 0 .. MaxTime]

(* What LoadBanList makes of the file: nothing if there is none or it is   *)
(* empty, otherwise the addresses in it (none if a line is cut off).       *)
BanFile   == [present : BOOLEAN, ips : SUBSET IPs]
NoFile    == [present |-> FALSE, ips |-> {}]
File(ips) == [present |-> TRUE, ips |-> ips]

Live == connect_ban_list \union permanent_ban_list

BanTypeOK ==
  /\ connect_ban_list \subseteq Nodes
  /\ permanent_ban_list \subseteq Nodes
  /\ node \in [Nodes -> Element]
  /\ mutex_owner \in Threads \union {NoThread}
  /\ mutex_count \in 0 .. MaxHold
  /\ max_connections_per_ip \in Limits \union {0}
  /\ connection_cooldown_time \in CooldownTimes \union {0}
  /\ forget_connection_time \in ForgetTimes \union {0}
  /\ ban_list_file \in BanFile

NewElement(ip) ==
  [ip |-> ip, is_active |-> FALSE, total_connections |-> 0,
   cooldown_delta |-> 0, forget_delta |-> 0]

PermanentElement(ip) == [NewElement(ip) EXCEPT !.is_active = TRUE]

(* The contents of memory nobody owns; never looked at (see ReadVerdict).  *)
Freed == NewElement(NoIP)

BanInit ==
  /\ connect_ban_list = {}
  /\ permanent_ban_list = {}
  /\ node = [n \in Nodes |-> Freed]
  /\ mutex_owner = NoThread
  /\ mutex_count = 0
  /\ max_connections_per_ip = 0
  /\ connection_cooldown_time = 0
  /\ forget_connection_time = 0
  /\ \/ ban_list_file = NoFile
     \/ \E ips \in SUBSET IPs :
          /\ Cardinality(ips) <= MaxPermanent
          /\ ban_list_file = File(ips)

-----------------------------------------------------------------------------
(***************************************************************************)
(* The mutex.  WaitForSingleObject(.., INFINITE) succeeds for the owner    *)
(* and for anyone when nobody owns it.                                     *)
(***************************************************************************)
CanAcquire(t) == mutex_owner \in {t, NoThread}

(* A section that releases as often as it acquires.                        *)
Guarded(t) == CanAcquire(t) /\ UNCHANGED mutexVars

(* A section that releases once less than it acquires.                     *)
GuardedAndKept(t) ==
  /\ CanAcquire(t)
  /\ mutex_count < MaxHold
  /\ mutex_owner' = t
  /\ mutex_count' = mutex_count + 1

-----------------------------------------------------------------------------
(***************************************************************************)
(* Searching.  The permanent list is searched first, then the connection   *)
(* list; the search ends at the first element with the address.            *)
(***************************************************************************)
(* Mutant: an address comparison that always succeeds.                     *)
MatchesMutant(list, ip) == list

Matches(list, ip) == {n \in list : node[n].ip = ip}

(* Mutant: the connection list is searched first.                          *)
FirstMatchMutant(ip) ==
  IF Matches(connect_ban_list, ip) # {}
    THEN Matches(connect_ban_list, ip)
    ELSE Matches(permanent_ban_list, ip)

FirstMatch(ip) ==
  IF Matches(permanent_ban_list, ip) # {}
    THEN Matches(permanent_ban_list, ip)
    ELSE Matches(connect_ban_list, ip)

(* Mutant: the mutex is not released when no element has the address.      *)
IPBannedSearchMutant(t, ip, element) ==
  /\ IF FirstMatch(ip) = {} THEN GuardedAndKept(t) ELSE Guarded(t)
  /\ IF FirstMatch(ip) = {} THEN element = NoNode ELSE element \in FirstMatch(ip)
  /\ UNCHANGED <<listVars, settingVars, ban_list_file>>

(* The search of IPBanned for one of the worker threads: element is the    *)
(* one found, or null.                                                     *)
IPBannedSearch(t, ip, element) ==
  /\ Guarded(t)
  /\ IF FirstMatch(ip) = {} THEN element = NoNode ELSE element \in FirstMatch(ip)
  /\ UNCHANGED <<listVars, settingVars, ban_list_file>>

(* What IPBanned may return once it has released the mutex: the flag of    *)
(* the element it found, read without the mutex.  The element may have     *)
(* been deleted since, and then the read may give anything.                *)
ReadVerdict(element) ==
  CASE element = NoNode -> {FALSE}
    [] element \in Live -> {node[element].is_active}
    [] OTHER            -> BOOLEAN

-----------------------------------------------------------------------------
(***************************************************************************)
(* The connection bans.                                                    *)
(***************************************************************************)
Elapse(t, delta) == IF t + delta > MaxTime THEN MaxTime ELSE t + delta

(* Mutant: the ban begins one connection late.                             *)
ConnectedMutant(e) ==
  LET total == IF e.total_connections < MaxTotal
                 THEN e.total_connections + 1 ELSE MaxTotal
  IN  [e EXCEPT !.total_connections = total,
                !.is_active = @ \/ total > max_connections_per_ip,
                !.cooldown_delta = 0,
                !.forget_delta = 0]

(* c_http_ip_ban_connection::AddConnection                                 *)
Connected(e) ==
  LET total == IF e.total_connections < MaxTotal
                 THEN e.total_connections + 1 ELSE MaxTotal
  IN  [e EXCEPT !.total_connections = total,
                !.is_active = @ \/ total >= max_connections_per_ip,
                !.cooldown_delta = 0,
                !.forget_delta = 0]

(* Mutant: the connection list is not searched for the address.            *)
AddConnectionUnsearched(t, ip) ==
  /\ Guarded(t)
  /\ \E n \in Nodes \ Live :
       /\ node' = [node EXCEPT ![n] = Connected(NewElement(ip))]
       /\ connect_ban_list' = connect_ban_list \union {n}
  /\ UNCHANGED <<permanent_ban_list, settingVars, ban_list_file>>

(* Mutant: the mutex is not released when an element is found.             *)
AddConnectionUnreleased(t, ip) ==
  \/ \E n \in Matches(connect_ban_list, ip) :
       /\ GuardedAndKept(t)
       /\ node' = [node EXCEPT ![n] = Connected(@)]
       /\ UNCHANGED <<connect_ban_list, permanent_ban_list, settingVars, ban_list_file>>
  \/ /\ Matches(connect_ban_list, ip) = {}
     /\ AddConnectionUnsearched(t, ip)

(* AddConnection, after its test of max_connections_per_ip.                *)
AddConnection(t, ip) ==
  /\ Guarded(t)
  /\ \/ \E n \in Matches(connect_ban_list, ip) :
          /\ node' = [node EXCEPT ![n] = Connected(@)]
          /\ UNCHANGED connect_ban_list
     \/ /\ Matches(connect_ban_list, ip) = {}
        /\ \E n \in Nodes \ Live :
             /\ node' = [node EXCEPT ![n] = Connected(NewElement(ip))]
             /\ connect_ban_list' = connect_ban_list \union {n}
  /\ UNCHANGED <<permanent_ban_list, settingVars, ban_list_file>>

(* Mutant: the ban is not lifted when the count falls below the limit.     *)
CooledDownUnlifted(e, delta) ==
  LET cooldown == Elapse(e.cooldown_delta, delta)
  IN  [e EXCEPT !.forget_delta = Elapse(@, delta),
                !.cooldown_delta = cooldown,
                !.total_connections =
                   IF cooldown >= connection_cooldown_time /\ @ # 0 THEN @ - 1 ELSE @]

(* c_http_ip_ban_connection::Update, its forget flag apart.  The cooldown  *)
(* is not restarted when a connection is forgotten.                        *)
CooledDown(e, delta) ==
  LET cooldown == Elapse(e.cooldown_delta, delta)
      total    == IF cooldown >= connection_cooldown_time
                    THEN e.total_connections - 1 ELSE e.total_connections
  IN  IF e.total_connections = 0
        THEN [e EXCEPT !.forget_delta = Elapse(@, delta)]
        ELSE [e EXCEPT !.forget_delta = Elapse(@, delta),
                       !.cooldown_delta = cooldown,
                       !.total_connections = total,
                       !.is_active = @ /\ ~(total < max_connections_per_ip)]

(* Mutant: Update returns early, without its forget part, when the count   *)
(* is zero.                                                                *)
ForgottenMutant(e, delta) ==
  e.total_connections # 0 /\ Elapse(e.forget_delta, delta) >= forget_connection_time

Forgotten(e, delta) == Elapse(e.forget_delta, delta) >= forget_connection_time

UpdateConnectionBans(t, delta) ==
  LET gone == {n \in connect_ban_list : Forgotten(node[n], delta)}
  IN  /\ Guarded(t)
      /\ connect_ban_list' = connect_ban_list \ gone
      /\ node' = [n \in Nodes |->
                    CASE n \in gone -> Freed
                      [] n \in connect_ban_list \ gone -> CooledDown(node[n], delta)
                      [] OTHER -> node[n]]
      /\ UNCHANGED <<permanent_ban_list, settingVars, ban_list_file>>

(* Takes no mutex: the three globals are volatile.                         *)
SetConnectionBan(max, cooldown, forget) ==
  /\ max_connections_per_ip' = max
  /\ connection_cooldown_time' = cooldown
  /\ forget_connection_time' = forget
  /\ UNCHANGED <<listVars, mutexVars, ban_list_file>>

-----------------------------------------------------------------------------
(***************************************************************************)
(* The permanent bans and their file.                                      *)
(***************************************************************************)
AddressesOf(list, heap) == {heap[n].ip : n \in list}

(* Mutant: the list is written as it was before the operation, though an   *)
(* element of it may have been deleted.                                    *)
SaveBanListMutant ==
  \/ UNCHANGED ban_list_file
  \/ ban_list_file' = NoFile
  \/ \E written \in SUBSET AddressesOf(permanent_ban_list, node') :
       ban_list_file' = File(written)

(* SaveBanList: the file cannot be created and stays as it was, or it is   *)
(* created and written up to some point.                                   *)
SaveBanList ==
  \/ UNCHANGED ban_list_file
  \/ ban_list_file' = NoFile
  \/ \E written \in SUBSET AddressesOf(permanent_ban_list', node') :
       ban_list_file' = File(written)

(* Mutant: a banned address can be banned again.                           *)
AddPermanentBanMutant(t, ip) ==
  /\ Cardinality(permanent_ban_list) < MaxPermanent
  /\ IF FirstMatch(ip) = {} THEN GuardedAndKept(t) ELSE Guarded(t)
  /\ \E n \in Nodes \ Live :
       /\ node' = [node EXCEPT ![n] = PermanentElement(ip)]
       /\ permanent_ban_list' = permanent_ban_list \union {n}
  /\ SaveBanList
  /\ UNCHANGED <<connect_ban_list, settingVars>>

(* AddPermanentBan of an IPv4 address.  It calls IPBanned with the mutex   *)
(* held; on the path where no element has the address that call returns    *)
(* without releasing what it acquired.                                     *)
AddPermanentBan(t, ip) ==
  /\ Cardinality(permanent_ban_list) < MaxPermanent
  /\ IF FirstMatch(ip) = {} THEN GuardedAndKept(t) ELSE Guarded(t)
  /\ \/ /\ \/ FirstMatch(ip) = {}
           \/ \E n \in FirstMatch(ip) : ~node[n].is_active
        /\ \E n \in Nodes \ Live :
             /\ node' = [node EXCEPT ![n] = PermanentElement(ip)]
             /\ permanent_ban_list' = permanent_ban_list \union {n}
        /\ SaveBanList
     \/ /\ \E n \in FirstMatch(ip) : node[n].is_active
        /\ UNCHANGED <<permanent_ban_list, node, ban_list_file>>
  /\ UNCHANGED <<connect_ban_list, settingVars>>

RemovePermanentBan(t) ==
  /\ Guarded(t)
  /\ \E n \in permanent_ban_list :
       /\ permanent_ban_list' = permanent_ban_list \ {n}
       /\ node' = [node EXCEPT ![n] = Freed]
  /\ SaveBanList
  /\ UNCHANGED <<connect_ban_list, settingVars>>

(* LoadBanList of a file that can be opened and is not empty.  A line that *)
(* cannot be parsed empties the list.  The octets of an address are bytes  *)
(* scanned with a format that stores an int for each, so an address may be *)
(* read back as another one.  The new elements may reuse the memory of the *)
(* deleted ones.                                                           *)
LoadBanList(t) ==
  /\ ban_list_file.present
  /\ Guarded(t)
  /\ \E loaded \in SUBSET (Nodes \ connect_ban_list) :
       /\ Cardinality(loaded) = Cardinality(ban_list_file.ips)
       /\ \E ip \in [loaded -> IPs] :
            node' = [n \in Nodes |->
                       CASE n \in loaded -> PermanentElement(ip[n])
                         [] n \in permanent_ban_list \ loaded -> Freed
                         [] OTHER -> node[n]]
       /\ permanent_ban_list' = loaded
  /\ UNCHANGED <<connect_ban_list, settingVars, ban_list_file>>
=============================================================================
