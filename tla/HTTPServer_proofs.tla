------------------------- MODULE HTTPServer_proofs --------------------------
(***************************************************************************)
(* Proofs about the HTTP server and its ban lists, for any number of       *)
(* workers, addresses and nodes: the type invariant, that the connection   *)
(* list never holds two elements for one address, and that the flags       *)
(* follow the counts; then what liveness rests on: requests go ahead, who  *)
(* can keep the mutex, and how a ban runs out.                             *)
(***************************************************************************)
EXTENDS HTTPServerVerdict, Integers, TLAPS

-----------------------------------------------------------------------------
(***************************************************************************)
(* The operators on ban list elements keep them elements.                  *)
(***************************************************************************)

(* An elapsed time stays within its bound when time passes.                *)
LEMMA ElapseType ==
  ASSUME NEW t \in 0 .. MaxTime, NEW delta \in Nat
  PROVE  Elapse(t, delta) \in 0 .. MaxTime
BY SettingsAssumption DEF Elapse

(* A new element, of a connection or a permanent ban, is an element.       *)
LEMMA NewElementType ==
  ASSUME NEW ip \in IPs \union {NoIP}
  PROVE  NewElement(ip) \in Element /\ PermanentElement(ip) \in Element
<1>1. NewElement(ip) \in Element
  BY SettingsAssumption DEF NewElement, Element
<1> QED
  BY <1>1 DEF PermanentElement, Element

(* Freed memory still has the type of an element.                          *)
LEMMA FreedType == Freed \in Element
BY NewElementType DEF Freed

(* c_http_ip_ban_connection::AddConnection keeps an element in range, and  *)
(* keeps its address.                                                      *)
LEMMA ConnectedType ==
  ASSUME NEW e \in Element
  PROVE  Connected(e) \in Element /\ Connected(e).ip = e.ip
<1> DEFINE total == IF e.total_connections < MaxTotal
                      THEN e.total_connections + 1 ELSE MaxTotal
           active == e.is_active \/ total >= max_connections_per_ip
<1>1. total \in 0 .. MaxTotal
  BY SettingsAssumption DEF Element
<1>2. active \in BOOLEAN
  OBVIOUS
<1>3. Connected(e) = [e EXCEPT !.total_connections = total, !.is_active = active,
                               !.cooldown_delta = 0, !.forget_delta = 0]
  BY DEF Connected
<1>4. 0 \in 0 .. MaxTime
  BY SettingsAssumption
<1> HIDE DEF total, active
<1> QED
  BY <1>1, <1>2, <1>3, <1>4 DEF Element

(* c_http_ip_ban_connection::Update keeps an element in range, because it  *)
(* tests for a count of zero before it reduces the count, and keeps its    *)
(* address.                                                                *)
LEMMA CooledDownType ==
  ASSUME NEW e \in Element
  PROVE  CooledDown(e, 1) \in Element /\ CooledDown(e, 1).ip = e.ip
<1> DEFINE forget == Elapse(e.forget_delta, 1)
           cooldown == Elapse(e.cooldown_delta, 1)
           total == IF cooldown >= connection_cooldown_time
                      THEN e.total_connections - 1 ELSE e.total_connections
           active == e.is_active /\ ~(total < max_connections_per_ip)
<1>1. forget \in 0 .. MaxTime /\ cooldown \in 0 .. MaxTime
  BY ElapseType DEF Element
<1>2. e.total_connections # 0 => total \in 0 .. MaxTotal
  BY SettingsAssumption DEF Element
<1>3. active \in BOOLEAN
  OBVIOUS
<1>4. CooledDown(e, 1) =
        IF e.total_connections = 0
          THEN [e EXCEPT !.forget_delta = forget]
          ELSE [e EXCEPT !.forget_delta = forget, !.cooldown_delta = cooldown,
                         !.total_connections = total, !.is_active = active]
  BY DEF CooledDown
<1> HIDE DEF forget, cooldown, total, active
<1> QED
  BY <1>1, <1>2, <1>3, <1>4 DEF Element

-----------------------------------------------------------------------------
(***************************************************************************)
(* Each operation on the ban data keeps its type.                          *)
(***************************************************************************)

(* The data of the ban manager is well typed when the process starts.      *)
LEMMA BanInitType == BanInit => BanTypeOK
<1> SUFFICES ASSUME BanInit PROVE BanTypeOK
  OBVIOUS
<1>1. ban_list_file \in BanFile
  <2>1. NoFile \in BanFile /\ \A ips \in SUBSET IPs : File(ips) \in BanFile
    BY DEF BanFile, NoFile, File
  <2> QED
    BY <2>1 DEF BanInit
<1>2. node \in [Nodes -> Element]
  BY FreedType DEF BanInit
<1>3. 0 \in 0 .. MaxHold
  BY SettingsAssumption
<1> QED
  BY <1>1, <1>2, <1>3 DEF BanInit, BanTypeOK

(* A step that does not touch the data of the ban manager keeps its type.  *)
LEMMA BanUnchanged == BanTypeOK /\ UNCHANGED banVars => BanTypeOK'
BY DEF BanTypeOK, banVars, listVars, mutexVars, settingVars

(* A critical section leaves the mutex with an owner that is a thread and  *)
(* a bounded recursion count, whether or not it releases all it acquired.  *)
LEMMA GuardedType ==
  ASSUME BanTypeOK, NEW t \in Threads, Guarded(t) \/ GuardedAndKept(t)
  PROVE  /\ mutex_owner' \in Threads \union {NoThread}
         /\ mutex_count' \in 0 .. MaxHold
<1>1. CASE Guarded(t)
  BY <1>1 DEF Guarded, BanTypeOK, mutexVars
<1>2. CASE GuardedAndKept(t)
  BY <1>2, SettingsAssumption DEF GuardedAndKept, BanTypeOK
<1> QED
  BY <1>1, <1>2

(* The search of IPBanned keeps the type of the data.                      *)
LEMMA IPBannedSearchType ==
  ASSUME BanTypeOK, NEW t \in Threads, NEW ip, NEW element, IPBannedSearch(t, ip, element)
  PROVE  BanTypeOK'
<1>1. UNCHANGED banVars
  BY DEF IPBannedSearch, Guarded, banVars
<1> QED
  BY <1>1, BanUnchanged

(* AddConnection keeps the type of the data, for an element it finds and   *)
(* for one it makes.                                                       *)
LEMMA AddConnectionType ==
  ASSUME BanTypeOK, NEW t \in Threads, NEW ip \in IPs \union {NoIP}, AddConnection(t, ip)
  PROVE  BanTypeOK'
<1>1. /\ mutex_owner' \in Threads \union {NoThread}
      /\ mutex_count' \in 0 .. MaxHold
  BY GuardedType DEF AddConnection
<1>2. node' \in [Nodes -> Element] /\ connect_ban_list' \subseteq Nodes
  <2>1. CASE \E n \in Matches(connect_ban_list, ip) :
               /\ node' = [node EXCEPT ![n] = Connected(@)]
               /\ UNCHANGED connect_ban_list
    <3> PICK n \in Matches(connect_ban_list, ip) :
          /\ node' = [node EXCEPT ![n] = Connected(@)]
          /\ UNCHANGED connect_ban_list
      BY <2>1
    <3>1. n \in Nodes /\ node[n] \in Element
      BY DEF Matches, BanTypeOK
    <3>2. Connected(node[n]) \in Element
      BY <3>1, ConnectedType
    <3> QED
      BY <3>1, <3>2 DEF BanTypeOK
  <2>2. CASE \E n \in Nodes \ Live :
               /\ node' = [node EXCEPT ![n] = Connected(NewElement(ip))]
               /\ connect_ban_list' = connect_ban_list \union {n}
    <3>1. Connected(NewElement(ip)) \in Element
      BY NewElementType, ConnectedType
    <3> QED
      BY <2>2, <3>1 DEF BanTypeOK
  <2> QED
    BY <2>1, <2>2 DEF AddConnection
<1> QED
  BY <1>1, <1>2 DEF AddConnection, BanTypeOK, settingVars

(* UpdateConnectionBans keeps the type of the data.                        *)
LEMMA UpdateType ==
  ASSUME BanTypeOK, NEW t \in Threads, UpdateConnectionBans(t, 1)
  PROVE  BanTypeOK'
<1>1. /\ mutex_owner' \in Threads \union {NoThread}
      /\ mutex_count' \in 0 .. MaxHold
  BY GuardedType DEF UpdateConnectionBans
<1>2. \A n \in Nodes : Freed \in Element /\ CooledDown(node[n], 1) \in Element
  BY FreedType, CooledDownType DEF BanTypeOK
<1>3. node' \in [Nodes -> Element]
  BY <1>2 DEF UpdateConnectionBans, BanTypeOK
<1> QED
  BY <1>1, <1>3 DEF UpdateConnectionBans, BanTypeOK, settingVars

(* SaveBanList writes addresses of the permanent list, or less.            *)
LEMMA SaveBanListType ==
  ASSUME BanTypeOK, SaveBanList,
         \A n \in permanent_ban_list' : node'[n].ip \in IPs
  PROVE  ban_list_file' \in BanFile
<1>1. CASE UNCHANGED ban_list_file
  BY <1>1 DEF BanTypeOK
<1>2. CASE ban_list_file' = NoFile
  BY <1>2 DEF BanFile, NoFile
<1>3. CASE \E written \in SUBSET AddressesOf(permanent_ban_list', node') :
             ban_list_file' = File(written)
  <2>1. AddressesOf(permanent_ban_list', node') \subseteq IPs
    BY DEF AddressesOf
  <2> QED
    BY <1>3, <2>1 DEF BanFile, File
<1> QED
  BY <1>1, <1>2, <1>3 DEF SaveBanList

(* What the type invariant of the ban data rests on: a node is in one list *)
(* at most, and the elements of the permanent list have an address.        *)
BanInv ==
  /\ BanTypeOK
  /\ connect_ban_list \intersect permanent_ban_list = {}
  /\ \A n \in permanent_ban_list : node[n].ip \in IPs
  /\ ConnectElementsUnique

(* AddPermanentBan keeps the invariant of the ban data: the element it     *)
(* adds is in neither list and has the address it was given.               *)
LEMMA AddPermanentBanInv ==
  ASSUME BanInv, NEW t \in Threads, NEW ip \in IPs, AddPermanentBan(t, ip)
  PROVE  BanInv'
<1>1. /\ mutex_owner' \in Threads \union {NoThread}
      /\ mutex_count' \in 0 .. MaxHold
  BY GuardedType DEF AddPermanentBan, BanInv
<1>2. CASE UNCHANGED <<permanent_ban_list, node, ban_list_file>>
  BY <1>1, <1>2 DEF AddPermanentBan, BanInv, BanTypeOK, ConnectElementsUnique, settingVars
<1>3. CASE /\ \E n \in Nodes \ Live :
                /\ node' = [node EXCEPT ![n] = PermanentElement(ip)]
                /\ permanent_ban_list' = permanent_ban_list \union {n}
           /\ SaveBanList
  <2> PICK n \in Nodes \ Live :
        /\ node' = [node EXCEPT ![n] = PermanentElement(ip)]
        /\ permanent_ban_list' = permanent_ban_list \union {n}
    BY <1>3
  <2>1. PermanentElement(ip) \in Element /\ PermanentElement(ip).ip = ip
    BY NewElementType DEF PermanentElement, NewElement
  <2>2. /\ node' \in [Nodes -> Element]
        /\ \A m \in Nodes : m # n => node'[m] = node[m]
        /\ node'[n].ip = ip
    BY <2>1 DEF BanInv, BanTypeOK
  <2>3. \A m \in permanent_ban_list' : node'[m].ip \in IPs
    BY <2>2 DEF BanInv, BanTypeOK
  <2>4. ban_list_file' \in BanFile
    BY <1>3, <2>3, SaveBanListType DEF BanInv
  <2>5. UNCHANGED <<connect_ban_list, settingVars>> /\ n \notin connect_ban_list
    BY DEF AddPermanentBan, Live
  <2>6. BanTypeOK'
    BY <1>1, <2>2, <2>4, <2>5 DEF BanInv, BanTypeOK, settingVars
  <2>7. ConnectElementsUnique'
    BY <2>2, <2>5 DEF BanInv, BanTypeOK, ConnectElementsUnique
  <2> QED
    BY <2>3, <2>5, <2>6, <2>7 DEF BanInv
<1> QED
  BY <1>2, <1>3 DEF AddPermanentBan

(* RemovePermanentBan keeps it: the connection list and its elements stay  *)
(* as they are.                                                            *)
LEMMA RemovePermanentBanInv ==
  ASSUME BanInv, NEW t \in Threads, RemovePermanentBan(t)
  PROVE  BanInv'
<1>1. /\ mutex_owner' \in Threads \union {NoThread}
      /\ mutex_count' \in 0 .. MaxHold
  BY GuardedType DEF RemovePermanentBan, BanInv
<1> PICK n \in permanent_ban_list :
      /\ permanent_ban_list' = permanent_ban_list \ {n}
      /\ node' = [node EXCEPT ![n] = Freed]
  BY DEF RemovePermanentBan
<1>2. /\ node' \in [Nodes -> Element]
      /\ \A m \in Nodes : m # n => node'[m] = node[m]
  BY FreedType DEF BanInv, BanTypeOK
<1>3. \A m \in permanent_ban_list' : node'[m].ip \in IPs
  BY <1>2 DEF BanInv, BanTypeOK
<1>4. ban_list_file' \in BanFile
  BY <1>3, SaveBanListType DEF BanInv, RemovePermanentBan
<1>5. UNCHANGED <<connect_ban_list, settingVars>> /\ n \notin connect_ban_list
  BY DEF RemovePermanentBan, BanInv
<1>6. BanTypeOK'
  BY <1>1, <1>2, <1>4, <1>5 DEF BanInv, BanTypeOK, settingVars
<1>7. ConnectElementsUnique'
  BY <1>2, <1>5 DEF BanInv, BanTypeOK, ConnectElementsUnique
<1> QED
  BY <1>3, <1>5, <1>6, <1>7 DEF BanInv

(* LoadBanList keeps it: the elements it makes are new, or reuse memory    *)
(* that only the permanent list owned.                                     *)
LEMMA LoadBanListInv ==
  ASSUME BanInv, NEW t \in Threads, LoadBanList(t)
  PROVE  BanInv'
<1>1. /\ mutex_owner' \in Threads \union {NoThread}
      /\ mutex_count' \in 0 .. MaxHold
  BY GuardedType DEF LoadBanList, BanInv
<1> PICK loaded \in SUBSET (Nodes \ connect_ban_list) :
      /\ \E ip \in [loaded -> IPs] :
           node' = [n \in Nodes |->
                      CASE n \in loaded -> PermanentElement(ip[n])
                        [] n \in permanent_ban_list \ loaded -> Freed
                        [] OTHER -> node[n]]
      /\ permanent_ban_list' = loaded
  BY DEF LoadBanList
<1> PICK ip \in [loaded -> IPs] :
      node' = [n \in Nodes |->
                 CASE n \in loaded -> PermanentElement(ip[n])
                   [] n \in permanent_ban_list \ loaded -> Freed
                   [] OTHER -> node[n]]
  OBVIOUS
<1>2. \A n \in loaded : ip[n] \in IPs
  OBVIOUS
<1>3. \A n \in loaded : /\ PermanentElement(ip[n]) \in Element
                        /\ PermanentElement(ip[n]).ip = ip[n]
  BY <1>2, NewElementType DEF PermanentElement, NewElement
<1>4. \A n \in Nodes : node[n] \in Element
  BY DEF BanInv, BanTypeOK
<1>5. node' \in [Nodes -> Element]
  BY <1>3, <1>4, FreedType
<1>6. \A n \in loaded : node'[n].ip \in IPs
  <2> SUFFICES ASSUME NEW n \in loaded
               PROVE  node'[n].ip \in IPs
    OBVIOUS
  <2>1. node'[n] = PermanentElement(ip[n])
    OBVIOUS
  <2> QED
    BY <2>1, <1>2, <1>3
<1>7. \A n \in connect_ban_list : node'[n] = node[n] /\ n \notin loaded
  BY DEF BanInv, BanTypeOK
<1>8. UNCHANGED <<connect_ban_list, settingVars, ban_list_file>>
  BY DEF LoadBanList
<1>9. BanTypeOK'
  BY <1>1, <1>5, <1>8 DEF BanInv, BanTypeOK, settingVars
<1>10. ConnectElementsUnique'
  BY <1>7, <1>8 DEF BanInv, ConnectElementsUnique
<1> QED
  BY <1>6, <1>7, <1>8, <1>9, <1>10 DEF BanInv

(* AddConnection keeps it: an element is added only if none has the        *)
(* address.                                                                *)
LEMMA AddConnectionInv ==
  ASSUME BanInv, NEW t \in Threads, NEW ip \in IPs \union {NoIP}, AddConnection(t, ip)
  PROVE  BanInv'
<1>1. BanTypeOK'
  BY AddConnectionType DEF BanInv
<1>2. UNCHANGED permanent_ban_list
  BY DEF AddConnection
<1>3. CASE \E n \in Matches(connect_ban_list, ip) :
             /\ node' = [node EXCEPT ![n] = Connected(@)]
             /\ UNCHANGED connect_ban_list
  <2> PICK n \in Matches(connect_ban_list, ip) :
        /\ node' = [node EXCEPT ![n] = Connected(@)]
        /\ UNCHANGED connect_ban_list
    BY <1>3
  <2>1. n \in connect_ban_list /\ n \in Nodes /\ node[n] \in Element
    BY DEF Matches, BanInv, BanTypeOK
  <2>2. \A m \in Nodes : node'[m].ip = node[m].ip
    BY <2>1, ConnectedType DEF BanInv, BanTypeOK
  <2> QED
    BY <1>1, <1>2, <2>2 DEF BanInv, BanTypeOK, ConnectElementsUnique
<1>4. CASE /\ Matches(connect_ban_list, ip) = {}
           /\ \E n \in Nodes \ Live :
                /\ node' = [node EXCEPT ![n] = Connected(NewElement(ip))]
                /\ connect_ban_list' = connect_ban_list \union {n}
  <2> PICK n \in Nodes \ Live :
        /\ node' = [node EXCEPT ![n] = Connected(NewElement(ip))]
        /\ connect_ban_list' = connect_ban_list \union {n}
    BY <1>4
  <2>1. n \notin connect_ban_list /\ n \notin permanent_ban_list
    BY DEF Live
  <2>2. Connected(NewElement(ip)).ip = ip
    BY NewElementType, ConnectedType DEF NewElement
  <2>3. /\ \A m \in Nodes : m # n => node'[m] = node[m]
        /\ node'[n].ip = ip
    BY <2>2 DEF BanInv, BanTypeOK
  <2>4. \A m \in connect_ban_list : m \in Nodes /\ node[m].ip # ip
    BY <1>4 DEF Matches, BanInv, BanTypeOK
  <2>5. ConnectElementsUnique'
    BY <2>1, <2>3, <2>4 DEF BanInv, BanTypeOK, ConnectElementsUnique
  <2> QED
    BY <1>1, <1>2, <2>1, <2>3, <2>5 DEF BanInv, BanTypeOK
<1> QED
  BY <1>3, <1>4 DEF AddConnection

(* UpdateConnectionBans keeps it: elements keep their addresses or go.     *)
LEMMA UpdateInv ==
  ASSUME BanInv, NEW t \in Threads, UpdateConnectionBans(t, 1)
  PROVE  BanInv'
<1>1. BanTypeOK'
  BY UpdateType DEF BanInv
<1>2. /\ UNCHANGED permanent_ban_list
      /\ connect_ban_list' \subseteq connect_ban_list
  BY DEF UpdateConnectionBans
<1>3. \A n \in connect_ban_list' : n \in Nodes /\ node'[n] = CooledDown(node[n], 1)
  BY DEF UpdateConnectionBans, BanInv, BanTypeOK
<1>4. \A n \in permanent_ban_list : n \in Nodes /\ node'[n] = node[n]
  BY DEF UpdateConnectionBans, BanInv, BanTypeOK
<1>5. \A n \in connect_ban_list' : node'[n].ip = node[n].ip
  BY <1>3, CooledDownType DEF BanInv, BanTypeOK
<1>6. ConnectElementsUnique'
  BY <1>2, <1>5 DEF BanInv, ConnectElementsUnique
<1> QED
  BY <1>1, <1>2, <1>4, <1>6 DEF BanInv

(* A step that does not touch the ban data keeps its invariant.            *)
LEMMA BanInvUnchanged == BanInv /\ UNCHANGED banVars => BanInv'
BY BanUnchanged DEF BanInv, banVars, listVars, ConnectElementsUnique

(* SetConnectionBan keeps it: it changes settings only, within their       *)
(* ranges.                                                                 *)
LEMMA SetConnectionBanInv ==
  ASSUME BanInv, NEW max \in Limits, NEW cooldown \in CooldownTimes,
         NEW forget \in ForgetTimes, SetConnectionBan(max, cooldown, forget)
  PROVE  BanInv'
BY DEF SetConnectionBan, BanInv, BanTypeOK, listVars, mutexVars, ConnectElementsUnique

-----------------------------------------------------------------------------
(***************************************************************************)
(* The invariant of the server.                                            *)
(***************************************************************************)
ServerTypeOK ==
  /\ context \in {"stopped", "running", "stopping"}
  /\ exiting \in BOOLEAN
  /\ serve_files \in BOOLEAN
  /\ service_active \in BOOLEAN

RequestTypeOK ==
  /\ pc \in [Workers -> Steps]
  /\ remote_ip \in [Workers -> IPs \union {NoIP}]
  /\ ban_element \in [Workers -> Nodes \union {NoNode}]
  /\ banned \in [Workers -> BOOLEAN]

IInv == BanInv /\ ServerTypeOK /\ RequestTypeOK

(* The invariant implies the type invariant that the run checks.           *)
LEMMA IInvImpliesTypeOK == IInv => TypeOK
BY DEF IInv, BanInv, ServerTypeOK, RequestTypeOK, TypeOK

(* It holds when the process starts, with empty lists.                     *)
LEMMA IInvInit == Init => IInv
<1> SUFFICES ASSUME Init PROVE IInv
  OBVIOUS
<1>1. BanInv
  BY BanInitType DEF Init, BanInit, BanInv, ConnectElementsUnique
<1> QED
  BY <1>1 DEF Init, IInv, ServerTypeOK, RequestTypeOK, Steps

(* A worker that leaves a request keeps the types of its locals.           *)
LEMMA ReturnType ==
  ASSUME RequestTypeOK, NEW w \in Workers, Return(w)
  PROVE  RequestTypeOK'
BY DEF RequestTypeOK, Return, Goto, Steps

(* A new request touches the locals of its worker only.                    *)
LEMMA NewRequestInv ==
  ASSUME IInv, NEW w \in Workers, NewRequest(w)
  PROVE  IInv'
<1>1. BanInv'
  BY BanInvUnchanged DEF IInv, NewRequest
<1>2. RequestTypeOK'
  BY DEF IInv, RequestTypeOK, NewRequest, Goto, Steps
<1>3. ServerTypeOK'
  BY DEF IInv, ServerTypeOK, NewRequest, serverVars
<1> QED
  BY <1>1, <1>2, <1>3 DEF IInv

(* No step of a worker in ServerCallback breaks the invariant.  The one    *)
(* that changes the ban lists is AddConnection.                            *)
LEMMA WorkerInv ==
  ASSUME IInv, NEW w \in Workers, Worker(w)
  PROVE  IInv'
<1> USE DEF IInv
<1>1. ServerTypeOK'
  BY DEF Worker, SearchBans, ReadBan, TestLimit, CountConnection, RouteRequest,
         ServeFile, serverVars, ServerTypeOK
<1>2. w \in Threads /\ remote_ip[w] \in IPs \union {NoIP}
  BY DEF Threads, RequestTypeOK
<1>3. CASE SearchBans(w)
  <2> PICK element \in Nodes \union {NoNode} :
        /\ IPBannedSearch(w, remote_ip[w], element)
        /\ ban_element' = [ban_element EXCEPT ![w] = element]
    BY <1>3 DEF SearchBans
  <2>1. UNCHANGED banVars
    BY DEF IPBannedSearch, Guarded, banVars
  <2>2. RequestTypeOK'
    BY <1>3 DEF SearchBans, Goto, RequestTypeOK, Steps
  <2> QED
    BY <1>1, <2>1, <2>2, BanInvUnchanged
<1>4. CASE ReadBan(w)
  <2>1. BanInv'
    BY <1>4, BanInvUnchanged DEF ReadBan
  <2>2. PICK verdict \in ReadVerdict(ban_element[w]) :
          IF verdict /\ ~serve_files
            THEN Return(w)
            ELSE /\ Goto(w, IF verdict THEN "file" ELSE "limit")
                 /\ banned' = [banned EXCEPT ![w] = verdict]
                 /\ ban_element' = [ban_element EXCEPT ![w] = NoNode]
                 /\ UNCHANGED remote_ip
    BY <1>4 DEF ReadBan
  <2>3. verdict \in BOOLEAN
    BY DEF ReadVerdict, BanInv, BanTypeOK, Live, Element
  <2>4. RequestTypeOK'
    <3>1. CASE Return(w)
      BY <3>1, ReturnType
    <3>2. CASE /\ Goto(w, IF verdict THEN "file" ELSE "limit")
               /\ banned' = [banned EXCEPT ![w] = verdict]
               /\ ban_element' = [ban_element EXCEPT ![w] = NoNode]
               /\ UNCHANGED remote_ip
      BY <2>3, <3>2 DEF RequestTypeOK, Goto, Steps
    <3> QED
      BY <2>2, <3>1, <3>2
  <2> QED
    BY <1>1, <2>1, <2>4
<1>5. CASE TestLimit(w)
  <2>1. BanInv'
    BY <1>5, BanInvUnchanged DEF TestLimit
  <2>2. RequestTypeOK'
    BY <1>5 DEF TestLimit, RequestTypeOK, Goto, Steps
  <2> QED
    BY <1>1, <2>1, <2>2
<1>6. CASE CountConnection(w)
  <2>1. BanInv'
    BY <1>2, <1>6, AddConnectionInv DEF CountConnection
  <2>2. RequestTypeOK'
    BY <1>6 DEF CountConnection, RequestTypeOK, Goto, Steps
  <2> QED
    BY <1>1, <2>1, <2>2
<1>7. CASE RouteRequest(w)
  <2>1. BanInv'
    BY <1>7, BanInvUnchanged DEF RouteRequest
  <2>2. CASE Return(w)
    BY <1>1, <2>1, <2>2, ReturnType
  <2>3. CASE Goto(w, "file") /\ UNCHANGED <<remote_ip, ban_element, banned>>
    BY <1>1, <2>1, <2>3 DEF RequestTypeOK, Goto, Steps
  <2> QED
    BY <1>7, <2>2, <2>3 DEF RouteRequest
<1>8. CASE ServeFile(w)
  BY <1>1, <1>8, ReturnType, BanInvUnchanged DEF ServeFile
<1> QED
  BY <1>3, <1>4, <1>5, <1>6, <1>7, <1>8 DEF Worker

(* No operation of the game thread breaks the invariant: the periodic      *)
(* update, the settings, the permanent bans and their file, starting and   *)
(* stopping the daemon.                                                    *)
LEMMA GameThreadInv ==
  ASSUME IInv, GameThread
  PROVE  IInv'
<1> USE DEF IInv
<1>1. Game \in Threads
  BY DEF Threads
<1>2. RequestTypeOK'
  BY DEF GameThread, Update, SetBan, BanIP, UnbanIP, BanlistFile, SetRoot, StartServer,
         StartService, StopService, StopServer, Dispose, StopReturns, requestVars,
         RequestTypeOK
<1>3. CASE Update \/ SetBan \/ BanIP \/ UnbanIP \/ BanlistFile
  <2>1. ServerTypeOK'
    BY <1>3 DEF Update, SetBan, BanIP, UnbanIP, BanlistFile, serverVars, ServerTypeOK
  <2>2. CASE Update
    BY <1>1, <1>2, <2>1, <2>2, UpdateInv DEF Update
  <2>3. CASE SetBan
    BY <1>2, <2>1, <2>3, SetConnectionBanInv DEF SetBan
  <2>4. CASE BanIP
    BY <1>1, <1>2, <2>1, <2>4, AddPermanentBanInv DEF BanIP
  <2>5. CASE UnbanIP
    BY <1>1, <1>2, <2>1, <2>5, RemovePermanentBanInv DEF UnbanIP
  <2>6. CASE BanlistFile
    BY <1>1, <1>2, <2>1, <2>6, LoadBanListInv DEF BanlistFile
  <2> QED
    BY <1>3, <2>2, <2>3, <2>4, <2>5, <2>6
<1>4. CASE SetRoot \/ StartServer \/ StartService \/ StopService \/ StopServer
           \/ Dispose \/ StopReturns
  <2>1. UNCHANGED banVars
    BY <1>4 DEF SetRoot, StartServer, StartService, StopService, StopServer, Dispose,
                StopReturns
  <2>2. ServerTypeOK'
    BY <1>4, FileRootsAssumption
    DEF SetRoot, StartServer, StartService, StopService, StopServer, Dispose, StopReturns,
        ServerTypeOK
  <2> QED
    BY <1>2, <2>1, <2>2, BanInvUnchanged
<1> QED
  BY <1>3, <1>4 DEF GameThread

(* The invariant is inductive.                                             *)
LEMMA IInvStep == IInv /\ [Next]_vars => IInv'
<1> SUFFICES ASSUME IInv, [Next]_vars PROVE IInv'
  OBVIOUS
<1>1. CASE \E w \in Workers : NewRequest(w)
  BY <1>1, NewRequestInv
<1>2. CASE \E w \in Workers : Worker(w)
  BY <1>2, WorkerInv
<1>3. CASE GameThread
  BY <1>3, GameThreadInv
<1>4. CASE UNCHANGED vars
  BY <1>4, BanInvUnchanged
  DEF IInv, vars, serverVars, requestVars, ServerTypeOK, RequestTypeOK
<1> QED
  BY <1>1, <1>2, <1>3, <1>4 DEF Next, Ended

-----------------------------------------------------------------------------
(* Types: whatever the workers, the updates and the admin do to the ban    *)
(* lists, their elements, counters and times stay in range; in particular  *)
(* no count of connections is ever reduced below zero.                     *)
THEOREM TypeCorrect == SafetySpec => []TypeOK
BY IInvInit, IInvStep, IInvImpliesTypeOK, PTL DEF SafetySpec

(* AddConnection never gives an address a second element in the connection *)
(* list, for any number of workers and addresses.                          *)
THEOREM ConnectUnique == SafetySpec => []ConnectElementsUnique
<1>1. IInv => ConnectElementsUnique
  BY DEF IInv, BanInv
<1> QED
  BY <1>1, IInvInit, IInvStep, PTL DEF SafetySpec

-----------------------------------------------------------------------------
(***************************************************************************)
(* The connection bans agree with the counts of connections.               *)
(***************************************************************************)
Agrees(e) == e.is_active <=> e.total_connections >= max_connections_per_ip

(* Once the limit has been set, an element agrees with it.  A worker that  *)
(* has passed the test of AddConnection knows that it has been set.        *)
CountInv ==
  \A max \in Limits : Limits = {max} /\ max # 0 =>
    /\ \A w \in Workers : pc[w] = "add" => max_connections_per_ip = max
    /\ \A n \in connect_ban_list : max_connections_per_ip = max /\ Agrees(node[n])

(* c_http_ip_ban_connection::AddConnection sets the flag when the count    *)
(* reaches the limit.                                                      *)
LEMMA ConnectedAgrees ==
  ASSUME NEW e \in Element, max_connections_per_ip \in Nat, Agrees(e)
  PROVE  Connected(e).is_active <=> Connected(e).total_connections >= max_connections_per_ip
<1> DEFINE total == IF e.total_connections < MaxTotal
                      THEN e.total_connections + 1 ELSE MaxTotal
           active == e.is_active \/ total >= max_connections_per_ip
<1>1. e.is_active \in BOOLEAN /\ e.total_connections \in 0 .. MaxTotal
  BY DEF Element
<1>2. /\ Connected(e).is_active = active
      /\ Connected(e).total_connections = total
  BY DEF Connected, Element
<1>3. active <=> total >= max_connections_per_ip
  BY <1>1, SettingsAssumption DEF Agrees
<1> QED
  BY <1>2, <1>3

(* c_http_ip_ban_connection::Update clears the flag when the count falls   *)
(* below the limit.                                                        *)
LEMMA CooledDownAgrees ==
  ASSUME NEW e \in Element, max_connections_per_ip \in Nat \ {0}, Agrees(e)
  PROVE  CooledDown(e, 1).is_active
           <=> CooledDown(e, 1).total_connections >= max_connections_per_ip
<1> DEFINE cooldown == Elapse(e.cooldown_delta, 1)
           total == IF cooldown >= connection_cooldown_time
                      THEN e.total_connections - 1 ELSE e.total_connections
           active == e.is_active /\ ~(total < max_connections_per_ip)
<1>1. e.is_active \in BOOLEAN /\ e.total_connections \in 0 .. MaxTotal
  BY DEF Element
<1>2. CASE e.total_connections = 0
  <2>1. /\ CooledDown(e, 1).is_active = e.is_active
        /\ CooledDown(e, 1).total_connections = e.total_connections
    BY <1>2 DEF CooledDown, Element
  <2> QED
    BY <2>1 DEF Agrees
<1>3. CASE e.total_connections # 0
  <2>1. /\ CooledDown(e, 1).is_active = active
        /\ CooledDown(e, 1).total_connections = total
    BY <1>3 DEF CooledDown, Element
  <2>2. total \in Int /\ total <= e.total_connections
    BY <1>1, SettingsAssumption
  <2>3. active <=> total >= max_connections_per_ip
    <3> HIDE DEF total
    <3> QED
      BY <1>1, <2>2, SettingsAssumption DEF Agrees
  <2> QED
    BY <2>1, <2>3
<1> QED
  BY <1>2, <1>3

(* A new element has no connection, and a limit that is set is at least 1. *)
LEMMA NewElementAgrees ==
  ASSUME NEW ip, max_connections_per_ip \in Nat \ {0}
  PROVE  Agrees(NewElement(ip))
BY DEF Agrees, NewElement

(* The agreement is inductive, given the type invariant.                   *)
LEMMA CountInvStep == IInv /\ CountInv /\ [Next]_vars => CountInv'
<1> SUFFICES ASSUME IInv, CountInv, [Next]_vars,
                    NEW max \in Limits, Limits = {max}, max # 0
             PROVE  /\ \A w \in Workers : pc'[w] = "add" => max_connections_per_ip' = max
                    /\ \A n \in connect_ban_list' :
                         max_connections_per_ip' = max /\ Agrees(node[n])'
  BY DEF CountInv
<1> DEFINE Added == \A w \in Workers : pc[w] = "add" => max_connections_per_ip = max
           Agreed == \A n \in connect_ban_list :
                       max_connections_per_ip = max /\ Agrees(node[n])
<1>1. Added /\ Agreed
  BY DEF CountInv
<1>2. max \in Nat \ {0} /\ max_connections_per_ip \in {0, max}
  BY SettingsAssumption DEF IInv, BanInv, BanTypeOK
<1>3. IInv'
  BY IInvStep
<1>4. CASE \E w \in Workers : CountConnection(w)
  <2> PICK w \in Workers : CountConnection(w)
    BY <1>4
  <2>1. /\ max_connections_per_ip = max
        /\ max_connections_per_ip' = max
    BY <1>1 DEF CountConnection, AddConnection, settingVars
  <2>2. Added'
    BY <2>1
  <2>3. \A n \in connect_ban_list : n \in Nodes /\ node[n] \in Element
    BY DEF IInv, BanInv, BanTypeOK
  <2>4. CASE \E n \in Matches(connect_ban_list, remote_ip[w]) :
               /\ node' = [node EXCEPT ![n] = Connected(@)]
               /\ UNCHANGED connect_ban_list
    <3> PICK n \in Matches(connect_ban_list, remote_ip[w]) :
          /\ node' = [node EXCEPT ![n] = Connected(@)]
          /\ UNCHANGED connect_ban_list
      BY <2>4
    <3>1. n \in connect_ban_list
      BY DEF Matches
    <3>2. node'[n] = Connected(node[n])
      BY <2>3, <3>1 DEF IInv, BanInv, BanTypeOK
    <3>3. Agrees(node[n])'
      BY <1>1, <1>2, <2>1, <2>3, <3>1, <3>2, ConnectedAgrees DEF Agrees
    <3>4. \A m \in connect_ban_list : m # n => node'[m] = node[m]
      BY <2>3 DEF IInv, BanInv, BanTypeOK
    <3> QED
      BY <1>1, <2>1, <2>2, <3>3, <3>4 DEF Agrees
  <2>5. CASE \E n \in Nodes \ Live :
               /\ node' = [node EXCEPT ![n] = Connected(NewElement(remote_ip[w]))]
               /\ connect_ban_list' = connect_ban_list \union {n}
    <3> PICK n \in Nodes \ Live :
          /\ node' = [node EXCEPT ![n] = Connected(NewElement(remote_ip[w]))]
          /\ connect_ban_list' = connect_ban_list \union {n}
      BY <2>5
    <3>1. node'[n] = Connected(NewElement(remote_ip[w]))
      BY DEF IInv, BanInv, BanTypeOK
    <3>2. NewElement(remote_ip[w]) \in Element
      BY NewElementType DEF IInv, RequestTypeOK
    <3>3. Agrees(NewElement(remote_ip[w]))
      BY <1>2, <2>1, NewElementAgrees
    <3>4. Agrees(node[n])'
      BY <1>2, <2>1, <3>1, <3>2, <3>3, ConnectedAgrees DEF Agrees
    <3>5. \A m \in connect_ban_list : node'[m] = node[m]
      BY <2>3 DEF Live, IInv, BanInv, BanTypeOK
    <3> QED
      BY <1>1, <2>1, <2>2, <3>4, <3>5 DEF Agrees
  <2> QED
    BY <2>4, <2>5 DEF CountConnection, AddConnection
<1>5. CASE Update
  <2>1. UNCHANGED <<max_connections_per_ip, pc>>
    BY <1>5 DEF Update, UpdateConnectionBans, settingVars, requestVars
  <2>2. \A n \in connect_ban_list' :
          /\ n \in connect_ban_list
          /\ node[n] \in Element
          /\ node'[n] = CooledDown(node[n], 1)
    BY <1>5 DEF Update, UpdateConnectionBans, IInv, BanInv, BanTypeOK
  <2>3. \A n \in connect_ban_list' : Agrees(node[n])'
    BY <1>1, <1>2, <2>1, <2>2, CooledDownAgrees DEF Agrees
  <2> QED
    BY <1>1, <2>1, <2>2, <2>3
<1>6. CASE SetBan
  <2>1. /\ max_connections_per_ip' = max
        /\ UNCHANGED <<connect_ban_list, node, pc>>
    BY <1>6 DEF SetBan, SetConnectionBan, listVars, requestVars
  <2> QED
    BY <1>1, <2>1 DEF Agrees
<1>7. CASE \E w \in Workers : TestLimit(w)
  <2> PICK w \in Workers : TestLimit(w)
    BY <1>7
  <2>1. UNCHANGED banVars
    BY DEF TestLimit
  <2>2. \A v \in Workers : pc'[v] = "add" => pc[v] = "add" \/ max_connections_per_ip # 0
    BY DEF TestLimit, Goto, IInv, RequestTypeOK
  <2> QED
    BY <1>1, <1>2, <2>1, <2>2 DEF banVars, listVars, settingVars, Agrees
<1>8. CASE /\ UNCHANGED <<max_connections_per_ip, connect_ban_list>>
           /\ \A n \in connect_ban_list : node'[n] = node[n]
           /\ \A w \in Workers : pc'[w] = "add" => pc[w] = "add"
  BY <1>1, <1>8 DEF Agrees
<1> QED
  <2>1. CASE \E w \in Workers : NewRequest(w)
    BY <1>8, <2>1 DEF NewRequest, Goto, banVars, listVars, settingVars, IInv, RequestTypeOK
  <2>2. CASE \E w \in Workers :
               \/ SearchBans(w) \/ ReadBan(w) \/ RouteRequest(w) \/ ServeFile(w)
    <3> PICK w \in Workers :
          SearchBans(w) \/ ReadBan(w) \/ RouteRequest(w) \/ ServeFile(w)
      BY <2>2
    <3>1. UNCHANGED <<max_connections_per_ip, connect_ban_list, node>>
      BY DEF SearchBans, IPBannedSearch, ReadBan, RouteRequest, ServeFile, banVars,
             listVars, settingVars
    <3>2. \A v \in Workers : pc'[v] = "add" => pc[v] = "add"
      BY DEF SearchBans, ReadBan, RouteRequest, ServeFile, Return, Goto, IInv,
             RequestTypeOK
    <3> QED
      BY <1>8, <3>1, <3>2
  <2>3. CASE BanIP \/ UnbanIP \/ BanlistFile
    <3>1. UNCHANGED <<max_connections_per_ip, connect_ban_list, pc>>
      BY <2>3 DEF BanIP, UnbanIP, BanlistFile, AddPermanentBan, RemovePermanentBan,
                  LoadBanList, settingVars, requestVars
    <3>2. \A n \in connect_ban_list : node'[n] = node[n]
      <4>1. \A n \in connect_ban_list : n \in Nodes /\ n \notin permanent_ban_list
        BY DEF IInv, BanInv, BanTypeOK
      <4>2. CASE BanIP
        BY <4>1, <4>2 DEF BanIP, AddPermanentBan, Live, IInv, BanInv, BanTypeOK
      <4>3. CASE UnbanIP
        BY <4>1, <4>3 DEF UnbanIP, RemovePermanentBan, IInv, BanInv, BanTypeOK
      <4>4. CASE BanlistFile
        BY <4>1, <4>4 DEF BanlistFile, LoadBanList, IInv, BanInv, BanTypeOK
      <4> QED
        BY <2>3, <4>2, <4>3, <4>4
    <3> QED
      BY <1>8, <3>1, <3>2
  <2>4. CASE SetRoot \/ StartServer \/ StartService \/ StopService \/ StopServer
             \/ Dispose \/ StopReturns \/ UNCHANGED vars
    BY <1>8, <2>4
    DEF SetRoot, StartServer, StartService, StopService, StopServer, Dispose, StopReturns,
        vars, banVars, listVars, settingVars, requestVars
  <2> QED
    BY <1>4, <1>5, <1>6, <1>7, <2>1, <2>2, <2>3, <2>4
    DEF Next, Worker, GameThread, Ended

(* The ban of an address is active exactly while its count of connections  *)
(* has reached the limit, provided the limit is set once: for any limit,   *)
(* any number of workers and any times.                                    *)
THEOREM BanFollowsCount == SafetySpec => []BanMatchesCount
<1>1. Init => CountInv
  BY DEF Init, BanInit, CountInv
<1>2. CountInv => BanMatchesCount
  BY DEF CountInv, BanMatchesCount, Agrees
<1> QED
  BY <1>1, <1>2, IInvInit, IInvStep, CountInvStep, PTL DEF SafetySpec
-----------------------------------------------------------------------------
(***************************************************************************)
(* The safety half of what the server must eventually do: a request gets   *)
(* nearer its end with every step, only the game thread can keep a worker  *)
(* from the mutex, and a connection ban runs out.                          *)
(***************************************************************************)

(* Everything the game thread does to the mutex and the connection list is *)
(* in these five; the rest leaves the data of the ban manager alone.       *)
LEMMA GameThreadSplit ==
  ASSUME GameThread
  PROVE  Update \/ SetBan \/ BanIP \/ UnbanIP \/ BanlistFile \/ UNCHANGED banVars
BY DEF GameThread, SetRoot, StartServer, StartService, StopService, StopServer, Dispose,
       StopReturns

(* The steps of a worker that has a request, and how many are left.        *)
StepsLeft(step) ==
  CASE step = "search" -> 6
    [] step = "read" -> 5
    [] step = "limit" -> 4
    [] step = "add" -> 3
    [] step = "route" -> 2
    [] step = "file" -> 1
    [] step = "idle" -> 0

(* A request never goes back, and a worker takes a new one only from a     *)
(* server that runs: so a request is at its end after six steps of its     *)
(* worker, and once mg_stop waits the work that is left only gets less     *)
(* (ServerCallback, HTTPServer.cpp:180-247).                               *)
RequestsAdvance ==
  [][\A w \in Workers :
       \/ pc'[w] = pc[w]
       \/ StepsLeft(pc'[w]) < StepsLeft(pc[w])
       \/ pc[w] = "idle" /\ context = "running"]_vars

(* Requests only go forward, for any number of workers and addresses.      *)
THEOREM RequestsGoAhead == SafetySpec => RequestsAdvance
<1>1. IInv /\ [Next]_vars =>
        [\A w \in Workers :
           \/ pc'[w] = pc[w]
           \/ StepsLeft(pc'[w]) < StepsLeft(pc[w])
           \/ pc[w] = "idle" /\ context = "running"]_vars
  <2> SUFFICES ASSUME IInv, Next, NEW w \in Workers
               PROVE  \/ pc'[w] = pc[w]
                      \/ StepsLeft(pc'[w]) < StepsLeft(pc[w])
                      \/ pc[w] = "idle" /\ context = "running"
    OBVIOUS
  <2>1. pc \in [Workers -> Steps]
    BY DEF IInv, RequestTypeOK
  <2>2. CASE \E v \in Workers : NewRequest(v)
    BY <2>1, <2>2 DEF NewRequest, Goto
  <2>3. CASE \E v \in Workers : Worker(v)
    <3>1. PICK v \in Workers : Worker(v)
      BY <2>3
    <3>2. CASE v # w
      BY <2>1, <3>1, <3>2
         DEF Worker, SearchBans, ReadBan, TestLimit, CountConnection, RouteRequest, ServeFile,
             Return, Goto
    <3>3. CASE v = w
      <4>1. CASE SearchBans(w)
        <5>1. pc[w] = "search" /\ pc'[w] = "read"
          BY <2>1, <4>1 DEF SearchBans, Goto
        <5> QED
          BY <5>1 DEF StepsLeft
      <4>2. CASE ReadBan(w)
        <5>1. pc[w] = "read" /\ pc'[w] \in {"idle", "file", "limit"}
          BY <2>1, <4>2 DEF ReadBan, Return, Goto
        <5> QED
          BY <5>1 DEF StepsLeft
      <4>3. CASE TestLimit(w)
        <5>1. pc[w] = "limit" /\ pc'[w] \in {"route", "add"}
          BY <2>1, <4>3 DEF TestLimit, Goto
        <5> QED
          BY <5>1 DEF StepsLeft
      <4>4. CASE CountConnection(w)
        <5>1. pc[w] = "add" /\ pc'[w] = "route"
          BY <2>1, <4>4 DEF CountConnection, Goto
        <5> QED
          BY <5>1 DEF StepsLeft
      <4>5. CASE RouteRequest(w)
        <5>1. pc[w] = "route" /\ pc'[w] \in {"idle", "file"}
          BY <2>1, <4>5 DEF RouteRequest, Return, Goto
        <5> QED
          BY <5>1 DEF StepsLeft
      <4>6. CASE ServeFile(w)
        <5>1. pc[w] = "file" /\ pc'[w] = "idle"
          BY <2>1, <4>6 DEF ServeFile, Return, Goto
        <5> QED
          BY <5>1 DEF StepsLeft
      <4> QED
        BY <3>1, <3>3, <4>1, <4>2, <4>3, <4>4, <4>5, <4>6 DEF Worker
    <3> QED
      BY <3>2, <3>3
  <2>4. CASE GameThread
    BY <2>4 DEF GameThread, Update, SetBan, BanIP, UnbanIP, BanlistFile, SetRoot,
                StartServer, StartService, StopService, StopServer, Dispose, StopReturns,
                requestVars
  <2>5. CASE Ended
    BY <2>5 DEF Ended, vars, requestVars
  <2> QED
    BY <2>2, <2>3, <2>4, <2>5 DEF Next
<1> QED
  BY <1>1, IInvInit, IInvStep, PTL DEF SafetySpec, RequestsAdvance

-----------------------------------------------------------------------------
(* Between two actions no worker has the mutex of the ban lists; the game  *)
(* thread has it only with a count, of the releases it owes                *)
(* (BanManager.cpp:339-394, 836-878).                                      *)
MutexWithGame ==
  /\ mutex_owner \in {NoThread, Game}
  /\ mutex_owner = Game <=> mutex_count > 0

BannedAnew(ip) ==
  /\ FirstMatch(ip) = {}
  /\ ip \in AddressesOf(permanent_ban_list', node')

(* The mutex is left acquired by one path only, the permanent ban of an    *)
(* address that had no element, and every time for good: the count is      *)
(* never reduced again (BanManager.cpp:339-394, 836-878).                  *)
MutexKeptByBan ==
  [][\/ UNCHANGED mutexVars
     \/ /\ mutex_owner' = Game /\ mutex_count' = mutex_count + 1
        /\ \E ip \in IPs : BannedAnew(ip)]_vars

(* What a step does to the mutex.                                          *)
LEMMA MutexStep ==
  ASSUME IInv, [Next]_vars
  PROVE  \/ UNCHANGED mutexVars
         \/ /\ mutex_owner' = Game /\ mutex_count' = mutex_count + 1
            /\ \E ip \in IPs : BannedAnew(ip)
<1>1. CASE BanIP
  <2>1. PICK ip \in IPs : AddPermanentBan(Game, ip)
    BY <1>1 DEF BanIP
  <2>2. CASE FirstMatch(ip) # {}
    BY <2>1, <2>2 DEF AddPermanentBan, Guarded
  <2>3. CASE FirstMatch(ip) = {}
    <3>1. mutex_owner' = Game /\ mutex_count' = mutex_count + 1
      BY <2>1, <2>3 DEF AddPermanentBan, GuardedAndKept
    <3>2. PICK n \in Nodes \ Live :
            /\ node' = [node EXCEPT ![n] = PermanentElement(ip)]
            /\ permanent_ban_list' = permanent_ban_list \union {n}
      BY <2>1, <2>3 DEF AddPermanentBan
    <3>3. node'[n].ip = ip /\ n \in permanent_ban_list'
      BY <3>2 DEF IInv, BanInv, BanTypeOK, PermanentElement, NewElement
    <3>4. BannedAnew(ip)
      BY <2>3, <3>3 DEF BannedAnew, AddressesOf
    <3> QED
      BY <3>1, <3>4
  <2> QED
    BY <2>2, <2>3
<1>2. CASE \E w \in Workers : NewRequest(w) \/ Worker(w)
  BY <1>2 DEF NewRequest, Worker, SearchBans, ReadBan, TestLimit, CountConnection,
              RouteRequest, ServeFile, IPBannedSearch, AddConnection, Guarded, banVars
<1>3. CASE Update \/ SetBan \/ UnbanIP \/ BanlistFile
  BY <1>3 DEF Update, SetBan, UnbanIP, BanlistFile, UpdateConnectionBans, SetConnectionBan,
              RemovePermanentBan, LoadBanList, Guarded, mutexVars
<1>4. CASE UNCHANGED banVars
  BY <1>4 DEF banVars
<1> QED
  BY <1>1, <1>2, <1>3, <1>4, GameThreadSplit DEF Next, Ended, vars

(* Only the game thread can keep the workers waiting for the mutex, for    *)
(* any number of workers: the condition GameLeavesMutex of the liveness    *)
(* properties is all they need of the mutex.                               *)
THEOREM NoWorkerKeepsMutex == SafetySpec => []MutexWithGame
<1>1. Init => MutexWithGame
  BY ThreadsAssumption DEF Init, BanInit, MutexWithGame
<1>2. IInv /\ MutexWithGame /\ [Next]_vars => MutexWithGame'
  <2> SUFFICES ASSUME IInv, MutexWithGame, [Next]_vars
               PROVE  MutexWithGame'
    OBVIOUS
  <2>1. mutex_count \in Nat
    BY SettingsAssumption DEF IInv, BanInv, BanTypeOK
  <2> QED
    BY <2>1, MutexStep DEF MutexWithGame, mutexVars
<1> QED
  BY <1>1, <1>2, IInvInit, IInvStep, PTL DEF SafetySpec

(* The mutex is lost to the permanent ban of a new address, and to nothing *)
(* else the server does.                                                   *)
THEOREM MutexLostToNewBans == SafetySpec => MutexKeptByBan
BY MutexStep, IInvInit, IInvStep, PTL DEF SafetySpec, MutexKeptByBan

-----------------------------------------------------------------------------
(* A connection ban runs out by itself.  Every Update takes its element    *)
(* off the list, or adds a tick to its time, which stays below the time it *)
(* is forgotten at, and does not begin a ban; only a connection of its own *)
(* address, counted by a worker that was let in, sets the time back; and   *)
(* nothing else touches it, the permanent bans and the file included       *)
(* (BanManager.cpp:154-187, 728-801).                                      *)
BansRunOut ==
  [][\A n \in connect_ban_list :
       \/ n \notin connect_ban_list' /\ Update
       \/ /\ n \in connect_ban_list'
          /\ \/ \E w \in Workers :
                  pc[w] = "add" /\ remote_ip[w] = node[n].ip /\ CountConnection(w)
             \/ /\ Update
                /\ node'[n].forget_delta = node[n].forget_delta + 1
                /\ node'[n].forget_delta < forget_connection_time
                /\ node'[n].is_active => node[n].is_active
             \/ ~Update /\ node'[n] = node[n]]_vars

(* c_http_ip_ban_connection::Update of an element that is not forgotten.   *)
LEMMA CooledDownTime ==
  ASSUME NEW e \in Element, ~Forgotten(e, 1), forget_connection_time \in 0 .. MaxTime
  PROVE  /\ CooledDown(e, 1).forget_delta = e.forget_delta + 1
         /\ e.forget_delta + 1 < forget_connection_time
         /\ CooledDown(e, 1).is_active => e.is_active
<1> DEFINE cooldown == Elapse(e.cooldown_delta, 1)
           total == IF cooldown >= connection_cooldown_time
                      THEN e.total_connections - 1 ELSE e.total_connections
<1>1. e.forget_delta \in 0 .. MaxTime /\ MaxTime \in Nat
  BY SettingsAssumption DEF Element
<1>2. /\ Elapse(e.forget_delta, 1) = e.forget_delta + 1
      /\ e.forget_delta + 1 < forget_connection_time
  BY <1>1 DEF Forgotten, Elapse
<1>3. CooledDown(e, 1) =
        IF e.total_connections = 0
          THEN [e EXCEPT !.forget_delta = e.forget_delta + 1]
          ELSE [e EXCEPT !.forget_delta = e.forget_delta + 1, !.cooldown_delta = cooldown,
                         !.total_connections = total,
                         !.is_active = e.is_active /\ ~(total < max_connections_per_ip)]
  BY <1>2 DEF CooledDown
<1> HIDE DEF cooldown, total
<1> QED
  BY <1>2, <1>3 DEF Element

(* What a step of a worker does to an element of the connection list.      *)
LEMMA WorkerElement ==
  ASSUME IInv, NEW n \in connect_ban_list, NEW w \in Workers, NewRequest(w) \/ Worker(w)
  PROVE  /\ n \in connect_ban_list'
         /\ \/ pc[w] = "add" /\ remote_ip[w] = node[n].ip /\ CountConnection(w)
            \/ node'[n] = node[n]
<1>1. CASE CountConnection(w)
  <2>1. pc[w] = "add" /\ AddConnection(w, remote_ip[w])
    BY <1>1 DEF CountConnection
  <2>2. CASE \E m \in Matches(connect_ban_list, remote_ip[w]) :
               /\ node' = [node EXCEPT ![m] = Connected(@)]
               /\ UNCHANGED connect_ban_list
    BY <1>1, <2>1, <2>2 DEF Matches
  <2>3. CASE \E m \in Nodes \ Live :
               /\ node' = [node EXCEPT ![m] = Connected(NewElement(remote_ip[w]))]
               /\ connect_ban_list' = connect_ban_list \union {m}
    BY <2>3 DEF Live
  <2> QED
    BY <2>1, <2>2, <2>3 DEF AddConnection
<1>2. CASE ~CountConnection(w)
  BY <1>2 DEF NewRequest, Worker, SearchBans, ReadBan, TestLimit, RouteRequest, ServeFile,
              IPBannedSearch, banVars, listVars
<1> QED
  BY <1>1, <1>2

(* What the game thread does to an element of the connection list.         *)
LEMMA GameElement ==
  ASSUME IInv, NEW n \in connect_ban_list, GameThread, ~Update
  PROVE  n \in connect_ban_list' /\ node'[n] = node[n]
<1>1. n \in Nodes /\ n \notin permanent_ban_list
  BY DEF IInv, BanInv, BanTypeOK
<1>2. CASE SetBan \/ UNCHANGED banVars
  BY <1>2 DEF SetBan, SetConnectionBan, banVars, listVars
<1>3. CASE BanIP
  <2>1. PICK ip \in IPs : AddPermanentBan(Game, ip)
    BY <1>3 DEF BanIP
  <2>2. UNCHANGED connect_ban_list
    BY <2>1 DEF AddPermanentBan
  <2>3. \/ \E m \in Nodes \ Live : node' = [node EXCEPT ![m] = PermanentElement(ip)]
        \/ node' = node
    BY <2>1 DEF AddPermanentBan
  <2>4. CASE node' = node
    BY <2>2, <2>4
  <2>5. CASE \E m \in Nodes \ Live : node' = [node EXCEPT ![m] = PermanentElement(ip)]
    <3>1. PICK m \in Nodes \ Live : node' = [node EXCEPT ![m] = PermanentElement(ip)]
      BY <2>5
    <3>2. m # n
      BY <3>1 DEF Live
    <3> QED
      BY <1>1, <2>2, <3>1, <3>2
  <2> QED
    BY <2>3, <2>4, <2>5
<1>4. CASE UnbanIP
  BY <1>1, <1>4 DEF UnbanIP, RemovePermanentBan
<1>5. CASE BanlistFile
  BY <1>1, <1>5 DEF BanlistFile, LoadBanList
<1> QED
  BY <1>2, <1>3, <1>4, <1>5, GameThreadSplit

(* What Update does to an element of the connection list.                  *)
LEMMA UpdateElement ==
  ASSUME IInv, NEW n \in connect_ban_list, Update
  PROVE  \/ n \notin connect_ban_list'
         \/ /\ n \in connect_ban_list'
            /\ node'[n].forget_delta = node[n].forget_delta + 1
            /\ node'[n].forget_delta < forget_connection_time
            /\ node'[n].is_active => node[n].is_active
<1> DEFINE gone == {m \in connect_ban_list : Forgotten(node[m], 1)}
<1>1. /\ n \in Nodes /\ node[n] \in Element
      /\ forget_connection_time \in 0 .. MaxTime
  BY SettingsAssumption DEF IInv, BanInv, BanTypeOK
<1>2. /\ connect_ban_list' = connect_ban_list \ gone
      /\ node' = [m \in Nodes |->
                    CASE m \in gone -> Freed
                      [] m \in connect_ban_list \ gone -> CooledDown(node[m], 1)
                      [] OTHER -> node[m]]
  BY DEF Update, UpdateConnectionBans
<1>3. CASE n \in gone
  BY <1>2, <1>3
<1>4. CASE n \notin gone
  <2>1. node'[n] = CooledDown(node[n], 1) /\ n \in connect_ban_list'
    BY <1>1, <1>2, <1>4
  <2>2. ~Forgotten(node[n], 1)
    BY <1>4
  <2> QED
    BY <1>1, <2>1, <2>2, CooledDownTime
<1> QED
  BY <1>3, <1>4

(* Connection bans run out, for any number of workers, addresses and       *)
(* elements and any settings.                                              *)
THEOREM BansDoRunOut == SafetySpec => BansRunOut
<1>1. IInv /\ [Next]_vars =>
        [\A n \in connect_ban_list :
           \/ n \notin connect_ban_list' /\ Update
           \/ /\ n \in connect_ban_list'
              /\ \/ \E w \in Workers :
                      pc[w] = "add" /\ remote_ip[w] = node[n].ip /\ CountConnection(w)
                 \/ /\ Update
                    /\ node'[n].forget_delta = node[n].forget_delta + 1
                    /\ node'[n].forget_delta < forget_connection_time
                    /\ node'[n].is_active => node[n].is_active
                 \/ ~Update /\ node'[n] = node[n]]_vars
  <2> SUFFICES ASSUME IInv, Next, vars' # vars, NEW n \in connect_ban_list
               PROVE  \/ n \notin connect_ban_list' /\ Update
                      \/ /\ n \in connect_ban_list'
                         /\ \/ \E w \in Workers :
                                 /\ pc[w] = "add" /\ remote_ip[w] = node[n].ip
                                 /\ CountConnection(w)
                            \/ /\ Update
                               /\ node'[n].forget_delta = node[n].forget_delta + 1
                               /\ node'[n].forget_delta < forget_connection_time
                               /\ node'[n].is_active => node[n].is_active
                            \/ ~Update /\ node'[n] = node[n]
    OBVIOUS
  <2>1. CASE Update
    BY <2>1, UpdateElement
  <2>2. CASE ~Update
    <3>1. CASE \E w \in Workers : NewRequest(w) \/ Worker(w)
      BY <2>2, <3>1, WorkerElement
    <3>2. CASE GameThread
      BY <2>2, <3>2, GameElement
    <3> QED
      BY <3>1, <3>2 DEF Next, Ended
  <2> QED
    BY <2>1, <2>2
<1> QED
  BY <1>1, IInvInit, IInvStep, PTL DEF SafetySpec, BansRunOut
=============================================================================
