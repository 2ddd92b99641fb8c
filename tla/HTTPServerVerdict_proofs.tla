---------------------- MODULE HTTPServerVerdict_proofs ----------------------
(***************************************************************************)
(* Proofs about who is admitted and who is refused: the promises of module *)
(* HTTPServerVerdict that need its history variables, for any number of    *)
(* workers, addresses and nodes, and any limits.                           *)
(***************************************************************************)
EXTENDS HTTPServer_proofs, FiniteSetTheorems

-----------------------------------------------------------------------------
(***************************************************************************)
(* What a step may do to the lists.                                        *)
(***************************************************************************)

(* The steps that change the ban lists.                                    *)
BanStep ==
  \/ \E w \in Workers : CountConnection(w)
  \/ Update
  \/ BanIP
  \/ UnbanIP
  \/ BanlistFile

(* No other step changes the lists or their elements.                      *)
LEMMA ListsUnchanged ==
  ASSUME [Next]_vars, ~BanStep
  PROVE  UNCHANGED listVars
<1>1. CASE \E w \in Workers : NewRequest(w)
  BY <1>1 DEF NewRequest, banVars
<1>2. CASE \E w \in Workers : Worker(w)
  BY <1>2 DEF BanStep, Worker, SearchBans, IPBannedSearch, ReadBan, TestLimit,
              RouteRequest, ServeFile, banVars
<1>3. CASE GameThread
  BY <1>3 DEF BanStep, GameThread, SetBan, SetConnectionBan, SetRoot, StartServer,
              StartService, StopService, StopServer, Dispose, StopReturns, banVars
<1>4. CASE UNCHANGED vars
  BY <1>4 DEF vars, banVars
<1> QED
  BY <1>1, <1>2, <1>3, <1>4 DEF Next, Ended

(* The permanent bans are active from the moment they are added.           *)
PermanentActive == \A n \in permanent_ban_list : node[n].is_active

(* A step keeps the permanent bans active, and moves none of their         *)
(* elements to the connection list.                                        *)
LEMMA PermanentStep ==
  ASSUME IInv, PermanentActive, [Next]_vars
  PROVE  /\ PermanentActive'
         /\ \A n \in permanent_ban_list : n \notin connect_ban_list'
<1> USE DEF IInv, BanInv
<1>1. \A n \in permanent_ban_list : n \in Nodes /\ n \notin connect_ban_list /\ n \in Live
  BY DEF BanTypeOK, Live
<1>2. CASE ~BanStep
  BY <1>1, <1>2, ListsUnchanged DEF listVars, PermanentActive
<1>3. CASE \E w \in Workers : CountConnection(w)
  <2> PICK w \in Workers : CountConnection(w)
    BY <1>3
  <2>1. UNCHANGED permanent_ban_list
    BY DEF CountConnection, AddConnection
  <2>2. PICK n \in Nodes :
          /\ n \notin permanent_ban_list
          /\ connect_ban_list' \subseteq connect_ban_list \union {n}
          /\ \A m \in Nodes : m # n => node'[m] = node[m]
    BY <1>1 DEF CountConnection, AddConnection, Matches, BanTypeOK, Live
  <2> QED
    BY <1>1, <2>1, <2>2 DEF PermanentActive
<1>4. CASE Update
  <2>1. /\ UNCHANGED permanent_ban_list
        /\ connect_ban_list' \subseteq connect_ban_list
        /\ \A n \in permanent_ban_list : node'[n] = node[n]
    BY <1>1, <1>4 DEF Update, UpdateConnectionBans
  <2> QED
    BY <1>1, <2>1 DEF PermanentActive
<1>5. CASE BanIP
  <2> PICK ip \in IPs : AddPermanentBan(Game, ip)
    BY <1>5 DEF BanIP
  <2>1. UNCHANGED connect_ban_list
    BY DEF AddPermanentBan
  <2>2. CASE UNCHANGED <<permanent_ban_list, node>>
    BY <1>1, <2>1, <2>2 DEF PermanentActive
  <2>3. CASE \E n \in Nodes \ Live :
               /\ node' = [node EXCEPT ![n] = PermanentElement(ip)]
               /\ permanent_ban_list' = permanent_ban_list \union {n}
    <3> PICK n \in Nodes \ Live :
          /\ node' = [node EXCEPT ![n] = PermanentElement(ip)]
          /\ permanent_ban_list' = permanent_ban_list \union {n}
      BY <2>3
    <3>1. node'[n].is_active
      BY DEF BanTypeOK, PermanentElement, NewElement
    <3>2. \A m \in permanent_ban_list : node'[m] = node[m]
      BY <1>1 DEF BanTypeOK
    <3> QED
      BY <1>1, <2>1, <3>1, <3>2 DEF PermanentActive
  <2> QED
    BY <2>2, <2>3 DEF AddPermanentBan
<1>6. CASE UnbanIP
  <2>1. /\ UNCHANGED connect_ban_list
        /\ \A n \in permanent_ban_list' : n \in permanent_ban_list /\ node'[n] = node[n]
    BY <1>1, <1>6 DEF UnbanIP, RemovePermanentBan, BanTypeOK
  <2> QED
    BY <1>1, <2>1 DEF PermanentActive
<1>7. CASE BanlistFile
  <2>1. /\ UNCHANGED connect_ban_list
        /\ \A n \in permanent_ban_list' : node'[n].is_active
    BY <1>7 DEF BanlistFile, LoadBanList, PermanentElement, NewElement
  <2> QED
    BY <1>1, <2>1 DEF PermanentActive
<1> QED
  BY <1>2, <1>3, <1>4, <1>5, <1>6, <1>7 DEF BanStep

-----------------------------------------------------------------------------
(***************************************************************************)
(* Where a worker can have come from.                                      *)
(***************************************************************************)

(* A step of another thread leaves a worker where it is.                   *)
LEMMA OtherWorker ==
  ASSUME IInv, [Next]_vars, NEW w \in Workers, ~NewRequest(w), ~Worker(w)
  PROVE  /\ pc'[w] = pc[w]
         /\ remote_ip'[w] = remote_ip[w]
         /\ ban_element'[w] = ban_element[w]
<1> USE DEF IInv, RequestTypeOK
<1>1. CASE \E v \in Workers : NewRequest(v)
  BY <1>1 DEF NewRequest, Goto
<1>2. CASE \E v \in Workers : Worker(v)
  BY <1>2 DEF Worker, SearchBans, ReadBan, TestLimit, CountConnection, RouteRequest,
              ServeFile, Return, Goto
<1>3. CASE GameThread
  BY <1>3 DEF GameThread, Update, SetBan, BanIP, UnbanIP, BanlistFile, SetRoot,
              StartServer, StartService, StopService, StopServer, Dispose, StopReturns,
              requestVars
<1>4. CASE UNCHANGED vars
  BY <1>4 DEF vars, requestVars
<1> QED
  BY <1>1, <1>2, <1>3, <1>4 DEF Next, Ended

(* A worker that is about to read a flag was so before, or has just        *)
(* searched the lists.                                                     *)
LEMMA ReadOrigin ==
  ASSUME IInv, [Next]_vars, NEW w \in Workers, pc'[w] = "read"
  PROVE  /\ remote_ip'[w] = remote_ip[w]
         /\ \/ pc[w] = "read" /\ ban_element'[w] = ban_element[w]
            \/ pc[w] = "search" /\ IPBannedSearch(w, remote_ip[w], ban_element'[w])
<1> USE DEF IInv, RequestTypeOK
<1>1. CASE ~NewRequest(w) /\ ~Worker(w)
  BY <1>1, OtherWorker
<1>2. CASE SearchBans(w)
  BY <1>2 DEF SearchBans
<1>3. ~(NewRequest(w) \/ ReadBan(w) \/ TestLimit(w) \/ CountConnection(w)
          \/ RouteRequest(w) \/ ServeFile(w))
  BY DEF NewRequest, ReadBan, TestLimit, CountConnection, RouteRequest, ServeFile, Return,
         Goto
<1> QED
  BY <1>1, <1>2, <1>3 DEF Worker

Admitted == {"limit", "add", "route"}

(* An admitted worker was admitted before, or has just read a flag that    *)
(* said its client is not banned.                                          *)
LEMMA AdmittedOrigin ==
  ASSUME IInv, [Next]_vars, NEW w \in Workers, pc'[w] \in Admitted
  PROVE  /\ remote_ip'[w] = remote_ip[w]
         /\ \/ pc[w] \in Admitted /\ (pc'[w] \in {"limit", "add"} => pc[w] \in {"limit", "add"})
            \/ pc[w] = "read" /\ FALSE \in ReadVerdict(ban_element[w]) /\ pc'[w] = "limit"
<1> USE DEF IInv, RequestTypeOK, Admitted
<1>1. CASE ~NewRequest(w) /\ ~Worker(w)
  BY <1>1, OtherWorker
<1>2. CASE ReadBan(w)
  <2> PICK verdict \in ReadVerdict(ban_element[w]) :
        IF verdict /\ ~serve_files
          THEN Return(w)
          ELSE /\ Goto(w, IF verdict THEN "file" ELSE "limit")
               /\ UNCHANGED remote_ip
    BY <1>2 DEF ReadBan
  <2>1. verdict \in BOOLEAN
    BY DEF ReadVerdict, BanInv, BanTypeOK, Live, Element
  <2>2. ~Return(w)
    BY DEF Return, Goto
  <2>3. verdict = FALSE
    BY <2>1, <2>2 DEF Goto
  <2> QED
    BY <1>2, <2>2, <2>3 DEF ReadBan, Goto
<1>3. CASE TestLimit(w) \/ CountConnection(w)
  BY <1>3 DEF TestLimit, CountConnection, Goto
<1>4. ~(NewRequest(w) \/ SearchBans(w) \/ RouteRequest(w) \/ ServeFile(w))
  BY DEF NewRequest, SearchBans, RouteRequest, ServeFile, Return, Goto
<1> QED
  BY <1>1, <1>2, <1>3, <1>4 DEF Worker

(* A worker that leaves IPBanned without being admitted has read a flag    *)
(* that said its client is banned.                                         *)
LEMMA RefusedOrigin ==
  ASSUME IInv, [Next]_vars, NEW w \in Workers,
         pc[w] = "read", pc'[w] \in {"idle", "file"}
  PROVE  TRUE \in ReadVerdict(ban_element[w])
<1> USE DEF IInv, RequestTypeOK
<1>1. ReadBan(w)
  <2>1. NewRequest(w) \/ Worker(w)
    BY OtherWorker
  <2> QED
    BY <2>1 DEF NewRequest, Worker, SearchBans, TestLimit, CountConnection, RouteRequest,
                ServeFile
<1>2. PICK verdict \in ReadVerdict(ban_element[w]) :
        verdict \/ Goto(w, "limit")
  BY <1>1 DEF ReadBan
<1>3. verdict \in BOOLEAN
  BY DEF ReadVerdict, BanInv, BanTypeOK, Live, Element
<1>4. ~Goto(w, "limit")
  BY DEF Goto
<1> QED
  BY <1>2, <1>3, <1>4

-----------------------------------------------------------------------------
(***************************************************************************)
(* What a worker knows while it is about to read a flag.                   *)
(***************************************************************************)

(* The element it found, unless deleted, is in a list and has the address  *)
(* of the client; if the client is in the permanent list all the time, it  *)
(* is an element of that list; and if an element of the client is active   *)
(* now, that has been noticed.                                             *)
ReadInv ==
  \A w \in Workers : pc[w] = "read" =>
    /\ ban_element[w] # NoNode /\ ~deleted[w] =>
         ban_element[w] \in Live /\ node[ban_element[w]].ip = remote_ip[w]
    /\ covered[w] /\ ~deleted[w] => ban_element[w] \in permanent_ban_list
    /\ Offends(remote_ip[w]) => offended[w]

VerdictInv == IInv /\ PermanentActive /\ ReadInv /\ PermanentBanEnforced

(* What the history variables become.                                      *)
LEMMA Observed ==
  ASSUME HistoryNext, NEW w \in Workers
  PROVE  /\ covered'[w] => /\ Permanent(remote_ip[w])'
                           /\ pc[w] = "search" \/ covered[w]
         /\ pc'[w] = "read" /\ Offends(remote_ip[w])' => offended'[w]
         /\ pc'[w] \notin {"idle", "search"} /\ deleted[w] => deleted'[w]
         /\ /\ pc'[w] \notin {"idle", "search"}
            /\ pc[w] = "read"
            /\ ban_element[w] # NoNode
            /\ \/ ban_element[w] \notin Live'
               \/ node'[ban_element[w]].ip # node[ban_element[w]].ip
            => deleted'[w]
         /\ ~stale' => ~stale /\ (pc'[w] = "limit" => ~deleted[w])
<1>1. /\ covered'[w] = Observe(w).covered
      /\ offended'[w] = Observe(w).offended
      /\ deleted'[w] = Observe(w).deleted
      /\ stale' = (stale \/ \E v \in Workers : pc'[v] = "limit" /\ deleted[v])
  BY DEF HistoryNext
<1> QED
  BY <1>1 DEF Observe

(* What a step tells a worker that is about to read a flag.                *)
LEMMA ReadInvStep ==
  ASSUME VerdictInv, [Next]_vars, HistoryNext
  PROVE  ReadInv'
<1> USE DEF VerdictInv
<1> SUFFICES ASSUME NEW w \in Workers, pc'[w] = "read"
             PROVE  /\ ban_element'[w] # NoNode /\ ~deleted'[w] =>
                         /\ ban_element'[w] \in Live'
                         /\ node'[ban_element'[w]].ip = remote_ip'[w]
                    /\ covered'[w] /\ ~deleted'[w] => ban_element'[w] \in permanent_ban_list'
                    /\ Offends(remote_ip[w])' => offended'[w]
  BY DEF ReadInv
<1>1. Offends(remote_ip[w])' => offended'[w]
  BY Observed
<1>2. CASE pc[w] = "read" /\ remote_ip'[w] = remote_ip[w] /\ ban_element'[w] = ban_element[w]
  <2>1. ~deleted'[w] => ~deleted[w]
    BY <1>2, Observed
  <2>2. /\ ban_element[w] # NoNode /\ ~deleted'[w] =>
             /\ ban_element[w] \in Live /\ node[ban_element[w]].ip = remote_ip[w]
             /\ ban_element[w] \in Live' /\ node'[ban_element[w]].ip = remote_ip[w]
    BY <1>2, <2>1, Observed DEF ReadInv
  <2>3. covered'[w] /\ ~deleted'[w] => ban_element[w] \in permanent_ban_list
    BY <1>2, <2>1, Observed DEF ReadInv
  <2>4. \A n \in permanent_ban_list : n # NoNode /\ n \notin connect_ban_list'
    BY PermanentStep, NodesAssumption DEF IInv, BanInv, BanTypeOK
  <2> QED
    BY <1>1, <1>2, <2>2, <2>3, <2>4 DEF Live
<1>3. CASE /\ pc[w] = "search" /\ remote_ip'[w] = remote_ip[w]
           /\ IPBannedSearch(w, remote_ip[w], ban_element'[w])
  <2>1. /\ UNCHANGED listVars
        /\ FirstMatch(remote_ip[w]) # {} => ban_element'[w] \in FirstMatch(remote_ip[w])
        /\ FirstMatch(remote_ip[w]) = {} => ban_element'[w] = NoNode
    BY <1>3 DEF IPBannedSearch
  <2>2. \A n \in FirstMatch(remote_ip[w]) : n \in Live /\ node[n].ip = remote_ip[w]
    BY DEF FirstMatch, Matches, Live
  <2>3. ban_element'[w] # NoNode =>
          ban_element'[w] \in Live' /\ node'[ban_element'[w]].ip = remote_ip'[w]
    BY <1>3, <2>1, <2>2 DEF listVars, Live
  <2>4. covered'[w] => Permanent(remote_ip[w])
    BY <1>3, <2>1, Observed DEF Permanent, Matches, listVars
  <2>5. covered'[w] => ban_element'[w] \in permanent_ban_list'
    BY <2>1, <2>4 DEF Permanent, FirstMatch, Matches, listVars
  <2> QED
    BY <1>1, <2>3, <2>5
<1> QED
  BY <1>2, <1>3, ReadOrigin

(* The flag of an element that bans the client for good is set.            *)
LEMMA PermanentStepEnforced ==
  ASSUME VerdictInv, [Next]_vars, HistoryNext
  PROVE  PermanentBanEnforced'
<1> USE DEF VerdictInv
<1> SUFFICES ASSUME NEW w \in Workers, pc'[w] \in Admitted, covered'[w]
             PROVE  deleted'[w]
  BY DEF PermanentBanEnforced, Admitted
<1>1. deleted[w] => deleted'[w]
  BY Observed DEF Admitted
<1>2. CASE pc[w] \in Admitted
  BY <1>1, <1>2, Observed DEF PermanentBanEnforced, Admitted
<1>3. CASE pc[w] = "read" /\ FALSE \in ReadVerdict(ban_element[w])
  <2>1. covered[w]
    BY <1>3, Observed
  <2>2. ASSUME ~deleted[w] PROVE FALSE
    <3>1. ban_element[w] \in permanent_ban_list
      BY <1>3, <2>1, <2>2 DEF ReadInv
    <3>2. ban_element[w] \in Live /\ ban_element[w] # NoNode /\ node[ban_element[w]].is_active
      BY <3>1, NodesAssumption DEF PermanentActive, Live, IInv, BanInv, BanTypeOK
    <3> QED
      BY <1>3, <3>2 DEF ReadVerdict
  <2> QED
    BY <1>1, <2>2
<1> QED
  BY <1>2, <1>3, AdmittedOrigin

(* The invariant of the verdicts holds at the start.                       *)
LEMMA VerdictInvInit == VerdictInit => VerdictInv
BY IInvInit
DEF VerdictInit, VerdictInv, PermanentActive, ReadInv, PermanentBanEnforced, Init, BanInit

(* Every step keeps the invariant of the verdicts.                         *)
LEMMA VerdictInvStep ==
  VerdictInv /\ [VerdictNext]_<<vars, history>> => VerdictInv'
<1> SUFFICES ASSUME VerdictInv, [VerdictNext]_<<vars, history>>
             PROVE  VerdictInv'
  OBVIOUS
<1>1. CASE VerdictNext
  <2>1. [Next]_vars /\ HistoryNext
    BY <1>1 DEF VerdictNext
  <2>2. IInv' /\ PermanentActive'
    BY <2>1, IInvStep, PermanentStep DEF VerdictInv
  <2> QED
    BY <2>1, <2>2, ReadInvStep, PermanentStepEnforced DEF VerdictInv
<1>2. CASE UNCHANGED <<vars, history>>
  <2>1. IInv'
    BY <1>2, IInvStep DEF VerdictInv
  <2> QED
    BY <1>2, <2>1
    DEF VerdictInv, PermanentActive, ReadInv, PermanentBanEnforced, vars, history, banVars,
        listVars, requestVars, Offends, Live
<1> QED
  BY <1>1, <1>2

-----------------------------------------------------------------------------
(* IPBanned and the permanent list: a client that is in the permanent list *)
(* from the search of IPBanned on is not admitted, unless the element that *)
(* was found had been deleted before its flag was read.                    *)
THEOREM PermanentBansEnforced == VerdictSpec => []PermanentBanEnforced
<1>1. VerdictInv => PermanentBanEnforced
  BY DEF VerdictInv
<1> QED
  BY <1>1, VerdictInvInit, VerdictInvStep, PTL DEF VerdictSpec

(* IPBanned refuses a client only if, at some moment since its search, an  *)
(* element for the client's own address was active, with the same          *)
(* exception.                                                              *)
THEOREM RefusalsJustified == VerdictSpec => RefusedOnlyIfBanned
<1> DEFINE Justified ==
      \A w \in Workers :
        pc[w] = "read" /\ pc'[w] \in {"idle", "file"} => offended[w] \/ deleted[w]
<1>1. VerdictInv /\ [VerdictNext]_<<vars, history>> => [Justified]_vars
  <2> SUFFICES ASSUME VerdictInv, [Next]_vars, NEW w \in Workers,
                      pc[w] = "read", pc'[w] \in {"idle", "file"}, ~deleted[w]
               PROVE  offended[w]
    BY DEF VerdictNext, vars
  <2>1. TRUE \in ReadVerdict(ban_element[w])
    BY RefusedOrigin DEF VerdictInv
  <2>2. ban_element[w] # NoNode
    BY <2>1, NodesAssumption DEF ReadVerdict, Live, VerdictInv, IInv, BanInv, BanTypeOK
  <2>3. ban_element[w] \in Live /\ node[ban_element[w]].ip = remote_ip[w]
    BY <2>2 DEF VerdictInv, ReadInv
  <2>4. node[ban_element[w]].is_active
    BY <2>1, <2>2, <2>3 DEF ReadVerdict
  <2> QED
    BY <2>3, <2>4 DEF VerdictInv, ReadInv, Offends
<1> QED
  BY <1>1, VerdictInvInit, VerdictInvStep, PTL DEF VerdictSpec, RefusedOnlyIfBanned

-----------------------------------------------------------------------------
(***************************************************************************)
(* How far an address gets past its limit.                                 *)
(***************************************************************************)

(* The workers that are past IPBanned with a request of the address, or    *)
(* will be because they have found no element for it, and have not counted *)
(* the request.                                                            *)
InFlight(ip) ==
  {w \in Workers :
     /\ remote_ip[w] = ip
     /\ \/ pc[w] \in {"limit", "add"}
        \/ pc[w] = "read" /\ ban_element[w] = NoNode}

(* Below a limit the address is not banned; from then on at most one       *)
(* request per worker was in flight, and what has been counted is no       *)
(* longer in flight.                                                       *)
Room(n, max) ==
  \/ /\ ~node[n].is_active
     /\ node[n].total_connections <= max - 1
  \/ /\ node[n].is_active
     /\ node[n].total_connections + Cardinality(InFlight(node[n].ip))
          <= max - 1 + Cardinality(Workers)

BoundInv ==
  /\ \A w \in Workers : pc[w] = "add" => Limits \ {0} # {}
  /\ ~stale => \A n \in connect_ban_list : \E max \in Limits \ {0} : Room(n, max)

(* Sets of workers are finite and no larger than the set of all workers.   *)
LEMMA WorkerSets ==
  ASSUME NEW S \in SUBSET Workers
  PROVE  /\ IsFiniteSet(S)
         /\ Cardinality(S) \in Nat
         /\ Cardinality(Workers) \in Nat
         /\ Cardinality(S) <= Cardinality(Workers)
         /\ \A T \in SUBSET S : Cardinality(T) <= Cardinality(S)
         /\ \A w \in S : Cardinality(S \ {w}) = Cardinality(S) - 1
<1>1. IsFiniteSet(S) /\ Cardinality(S) <= Cardinality(Workers)
  BY ThreadsAssumption, FS_Subset
<1>2. Cardinality(S) \in Nat /\ Cardinality(Workers) \in Nat
  BY <1>1, ThreadsAssumption, FS_CardinalityType
<1>3. \A T \in SUBSET S : Cardinality(T) <= Cardinality(S)
  BY <1>1, FS_Subset
<1>4. \A w \in S : Cardinality(S \ {w}) = Cardinality(S) - 1
  BY <1>1, FS_RemoveElement
<1> QED
  BY <1>1, <1>2, <1>3, <1>4

(* While an address is banned by its connections, no request of it comes   *)
(* in flight, unless IPBanned answers for a deleted element.               *)
LEMMA NoneTakesOff ==
  ASSUME VerdictInv, [Next]_vars, HistoryNext, ~stale',
         NEW n \in connect_ban_list, node[n].is_active
  PROVE  InFlight(node[n].ip)' \subseteq InFlight(node[n].ip) \/ node'[n].ip # node[n].ip
<1> USE DEF VerdictInv
<1> SUFFICES ASSUME node'[n].ip = node[n].ip, NEW w \in InFlight(node[n].ip)'
             PROVE  w \in InFlight(node[n].ip)
  BY DEF InFlight
<1>1. /\ w \in Workers
      /\ remote_ip'[w] = node[n].ip
      /\ \/ pc'[w] \in {"limit", "add"}
         \/ pc'[w] = "read" /\ ban_element'[w] = NoNode
  BY DEF InFlight
<1>2. n \in Nodes /\ n # NoNode /\ n \notin permanent_ban_list
  BY NodesAssumption DEF IInv, BanInv, BanTypeOK
<1>3. CASE pc'[w] \in {"limit", "add"}
  <2>1. remote_ip[w] = node[n].ip
    BY <1>1, <1>3, AdmittedOrigin DEF Admitted
  <2>2. CASE pc[w] \in {"limit", "add"}
    BY <1>1, <2>1, <2>2 DEF InFlight
  <2>3. CASE pc[w] = "read" /\ FALSE \in ReadVerdict(ban_element[w]) /\ pc'[w] = "limit"
    <3>1. ~deleted[w]
      BY <1>1, <2>3, Observed
    <3>2. ASSUME ban_element[w] # NoNode PROVE FALSE
      <4>1. ban_element[w] \in Live /\ node[ban_element[w]].ip = node[n].ip
        BY <1>1, <2>1, <2>3, <3>1, <3>2 DEF ReadInv
      <4>2. node[ban_element[w]].is_active
        BY <1>1, <4>1
        DEF Live, PermanentActive, IInv, BanInv, ConnectElementsUnique
      <4> QED
        BY <2>3, <3>2, <4>1, <4>2 DEF ReadVerdict
    <3> QED
      BY <1>1, <2>1, <2>3, <3>2 DEF InFlight
  <2> QED
    BY <1>1, <1>3, <2>2, <2>3, AdmittedOrigin DEF Admitted
<1>4. CASE pc'[w] = "read" /\ ban_element'[w] = NoNode
  <2>1. remote_ip[w] = node[n].ip
    BY <1>1, <1>4, ReadOrigin
  <2>2. FirstMatch(remote_ip[w]) # {} /\ NoNode \notin FirstMatch(remote_ip[w])
    BY <2>1, NodesAssumption DEF FirstMatch, Matches, IInv, BanInv, BanTypeOK
  <2>3. ~IPBannedSearch(w, remote_ip[w], ban_element'[w])
    BY <1>4, <2>2 DEF IPBannedSearch
  <2> QED
    BY <1>1, <1>4, <2>1, <2>3, ReadOrigin DEF InFlight
<1> QED
  BY <1>1, <1>3, <1>4

(* A step that leaves an element alone leaves it within its bound.         *)
LEMMA RoomKept ==
  ASSUME VerdictInv, [Next]_vars, HistoryNext, ~stale', NEW max \in Limits,
         NEW n \in connect_ban_list, node'[n] = node[n], Room(n, max)
  PROVE  Room(n, max)'
<1>1. CASE ~node[n].is_active
  BY <1>1 DEF Room
<1>2. CASE node[n].is_active
  <2>1. InFlight(node[n].ip)' \in SUBSET InFlight(node[n].ip)
    BY <1>2, NoneTakesOff
  <2>2. InFlight(node[n].ip) \in SUBSET Workers
    BY DEF InFlight
  <2>3. /\ Cardinality(InFlight(node[n].ip)') <= Cardinality(InFlight(node[n].ip))
        /\ Cardinality(InFlight(node[n].ip)) \in Nat
        /\ Cardinality(InFlight(node[n].ip)') \in Nat
        /\ Cardinality(Workers) \in Nat
    BY <2>1, <2>2, WorkerSets
  <2>4. node[n].total_connections \in Nat /\ max \in Nat
    BY SettingsAssumption DEF VerdictInv, IInv, BanInv, BanTypeOK, Element
  <2>5. node[n].total_connections + Cardinality(InFlight(node[n].ip))
          <= max - 1 + Cardinality(Workers)
    BY <1>2 DEF Room
  <2>6. node[n].total_connections + Cardinality(InFlight(node[n].ip)')
          <= max - 1 + Cardinality(Workers)
    BY <2>3, <2>4, <2>5
  <2> QED
    BY <1>2, <2>6 DEF Room
<1> QED
  BY <1>1, <1>2

(* What AddConnection and Update do to the count and the flag.             *)
LEMMA ConnectedCount ==
  ASSUME NEW e \in Element, max_connections_per_ip \in Nat
  PROVE  /\ Connected(e).total_connections \in 0 .. e.total_connections + 1
         /\ e.is_active => Connected(e).is_active
         /\ ~e.is_active => \/ Connected(e).is_active
                            \/ Connected(e).total_connections < max_connections_per_ip
<1> DEFINE total == IF e.total_connections < MaxTotal
                      THEN e.total_connections + 1 ELSE MaxTotal
           active == e.is_active \/ total >= max_connections_per_ip
<1>1. e.total_connections \in Nat /\ MaxTotal \in Nat /\ e.total_connections <= MaxTotal
  BY SettingsAssumption DEF Element
<1>2. Connected(e) = [e EXCEPT !.total_connections = total, !.is_active = active,
                               !.cooldown_delta = 0, !.forget_delta = 0]
  BY DEF Connected
<1>3. Connected(e).total_connections = total /\ Connected(e).is_active = active
  BY <1>2 DEF Element
<1>4. total \in 0 .. e.total_connections + 1
  BY <1>1
<1>5. total >= max_connections_per_ip \/ total < max_connections_per_ip
  BY <1>4
<1> HIDE DEF total
<1> QED
  BY <1>3, <1>4, <1>5, Zenon

(* Update does not raise a count, begins no ban, and lifts one only below  *)
(* the limit.                                                              *)
LEMMA CooledDownCount ==
  ASSUME NEW e \in Element, max_connections_per_ip \in Nat
  PROVE  /\ CooledDown(e, 1).total_connections \in 0 .. e.total_connections
         /\ ~e.is_active => ~CooledDown(e, 1).is_active
         /\ e.is_active => \/ CooledDown(e, 1).is_active
                           \/ CooledDown(e, 1).total_connections < max_connections_per_ip
<1>1. e.total_connections \in Nat /\ e.is_active \in BOOLEAN
  BY DEF Element
<1>2. CASE e.total_connections = 0
  <2>1. CooledDown(e, 1) = [e EXCEPT !.forget_delta = Elapse(@, 1)]
    BY <1>2 DEF CooledDown
  <2>2. /\ CooledDown(e, 1).total_connections = e.total_connections
        /\ CooledDown(e, 1).is_active = e.is_active
    BY <2>1 DEF Element
  <2> QED
    BY <1>1, <2>2
<1>3. CASE e.total_connections # 0
  <2> DEFINE cooldown == Elapse(e.cooldown_delta, 1)
             total == IF cooldown >= connection_cooldown_time
                        THEN e.total_connections - 1 ELSE e.total_connections
             active == e.is_active /\ ~(total < max_connections_per_ip)
             forget == Elapse(e.forget_delta, 1)
  <2>1. CooledDown(e, 1) = [e EXCEPT !.forget_delta = forget, !.cooldown_delta = cooldown,
                                     !.total_connections = total, !.is_active = active]
    BY <1>3 DEF CooledDown
  <2> HIDE DEF cooldown, forget
  <2>2. total \in 0 .. e.total_connections
    BY <1>1, <1>3
  <2>3. /\ CooledDown(e, 1).total_connections = total
        /\ CooledDown(e, 1).is_active = active
    <3> HIDE DEF total, active
    <3> QED
      BY <2>1 DEF Element
  <2> QED
    BY <2>2, <2>3
<1> QED
  BY <1>2, <1>3

(* A connection that is counted is no longer in flight, so the sum of both *)
(* does not grow; and the request that reaches the limit still leaves room *)
(* for all other workers.                                                  *)
LEMMA CountedRoom ==
  ASSUME VerdictInv, BoundInv, ~stale, [Next]_vars, HistoryNext, ~stale',
         NEW w \in Workers, CountConnection(w), NEW n \in connect_ban_list'
  PROVE  \E max \in Limits \ {0} : Room(n, max)'
<1> USE DEF VerdictInv
<1>1. /\ pc[w] = "add"
      /\ pc' = [pc EXCEPT ![w] = "route"]
      /\ UNCHANGED <<remote_ip, ban_element, max_connections_per_ip>>
  BY DEF CountConnection, AddConnection, Goto, settingVars
<1>2. /\ max_connections_per_ip \in Nat
      /\ max_connections_per_ip # 0 => max_connections_per_ip \in Limits \ {0}
      /\ \A max \in Limits : max \in Nat
  BY SettingsAssumption DEF IInv, BanInv, BanTypeOK
<1>3. \A ip : /\ InFlight(ip)' = InFlight(ip) \ {w}
              /\ InFlight(ip) \in SUBSET Workers
  BY <1>1 DEF InFlight, IInv, RequestTypeOK
<1>4. w \in InFlight(remote_ip[w])
  BY <1>1 DEF InFlight
<1>5. \A m \in connect_ban_list : m \in Nodes /\ node[m] \in Element
  BY DEF IInv, BanInv, BanTypeOK
<1>6. ASSUME NEW e \in Element, e.ip = remote_ip[w], node'[n] = Connected(e),
             \E max \in Limits \ {0} :
               \/ ~e.is_active /\ e.total_connections <= max - 1
               \/ /\ e.is_active
                  /\ e.total_connections + Cardinality(InFlight(e.ip))
                       <= max - 1 + Cardinality(Workers)
      PROVE  \E max \in Limits \ {0} : Room(n, max)'
  <2> PICK max \in Limits \ {0} :
        \/ ~e.is_active /\ e.total_connections <= max - 1
        \/ /\ e.is_active
           /\ e.total_connections + Cardinality(InFlight(e.ip))
                <= max - 1 + Cardinality(Workers)
    BY <1>6
  <2> DEFINE flight == Cardinality(InFlight(e.ip))
             flying == Cardinality(InFlight(e.ip) \ {w})
             total  == Connected(e).total_connections
  <2>1. node'[n].ip = e.ip
    BY <1>6, ConnectedType
  <2>2. Cardinality(InFlight(node[n].ip))' = flying
    BY <1>3, <2>1
  <2>3. /\ flying = flight - 1
        /\ flight \in Nat /\ Cardinality(Workers) \in Nat
        /\ flight <= Cardinality(Workers)
    BY <1>3, <1>4, <1>6, WorkerSets
  <2>4. e.total_connections \in Nat /\ total \in 0 .. e.total_connections + 1 /\ max \in Nat
    BY <1>2, ConnectedCount DEF Element
  <2>5. CASE Connected(e).is_active
    <3> HIDE DEF flight, flying, total
    <3>1. total + flying <= max - 1 + Cardinality(Workers)
      BY <2>3, <2>4 DEF flight
    <3> QED
      BY <1>6, <2>2, <2>5, <3>1 DEF Room, total
  <2>6. CASE ~Connected(e).is_active
    <3>1. total < max_connections_per_ip
      BY <1>2, <2>6, ConnectedCount
    <3>2. max_connections_per_ip \in Limits \ {0} /\ total <= max_connections_per_ip - 1
      <4> HIDE DEF total
      <4> QED
        BY <1>2, <2>4, <3>1
    <3>3. Room(n, max_connections_per_ip)'
      BY <1>1, <1>6, <2>6, <3>2 DEF Room
    <3> QED
      BY <1>1, <3>2, <3>3
  <2> QED
    BY <2>5, <2>6
<1>7. CASE \E m \in Matches(connect_ban_list, remote_ip[w]) :
             /\ node' = [node EXCEPT ![m] = Connected(@)]
             /\ UNCHANGED connect_ban_list
  <2> PICK m \in Matches(connect_ban_list, remote_ip[w]) :
        /\ node' = [node EXCEPT ![m] = Connected(@)]
        /\ UNCHANGED connect_ban_list
    BY <1>7
  <2>1. m \in connect_ban_list /\ node[m].ip = remote_ip[w] /\ n \in connect_ban_list
    BY DEF Matches
  <2>2. CASE n = m
    <3>1. node'[n] = Connected(node[n])
      BY <1>5, <2>1, <2>2 DEF IInv, BanInv, BanTypeOK
    <3> QED
      BY <1>5, <1>6, <2>1, <2>2, <3>1 DEF BoundInv, Room
  <2>3. CASE n # m
    <3>1. node'[n] = node[n]
      BY <1>5, <2>1, <2>3 DEF IInv, BanInv, BanTypeOK
    <3> QED
      BY <2>1, <3>1, RoomKept DEF BoundInv
  <2> QED
    BY <2>2, <2>3
<1>8. CASE \E m \in Nodes \ Live :
             /\ node' = [node EXCEPT ![m] = Connected(NewElement(remote_ip[w]))]
             /\ connect_ban_list' = connect_ban_list \union {m}
  <2> PICK m \in Nodes \ Live :
        /\ node' = [node EXCEPT ![m] = Connected(NewElement(remote_ip[w]))]
        /\ connect_ban_list' = connect_ban_list \union {m}
    BY <1>8
  <2>1. CASE n = m
    <3>1. /\ node'[n] = Connected(NewElement(remote_ip[w]))
          /\ NewElement(remote_ip[w]) \in Element
      BY <2>1, NewElementType DEF IInv, BanInv, BanTypeOK, RequestTypeOK
    <3>2. PICK max \in Limits : max # 0
      BY <1>1 DEF BoundInv
    <3>3. 0 <= max - 1
      BY <1>2, <3>2
    <3> QED
      BY <1>6, <3>1, <3>2, <3>3 DEF NewElement
  <2>2. CASE n # m
    <3>1. n \in connect_ban_list /\ node'[n] = node[n]
      BY <1>5, <2>2 DEF IInv, BanInv, BanTypeOK
    <3> QED
      BY <3>1, RoomKept DEF BoundInv
  <2> QED
    BY <2>1, <2>2
<1> QED
  BY <1>7, <1>8 DEF CountConnection, AddConnection

(* Update only ever makes room.                                            *)
LEMMA UpdatedRoom ==
  ASSUME VerdictInv, BoundInv, ~stale, [Next]_vars, HistoryNext, ~stale',
         Update, NEW n \in connect_ban_list'
  PROVE  \E max \in Limits \ {0} : Room(n, max)'
<1> USE DEF VerdictInv
<1> DEFINE e == node[n]
<1>1. /\ n \in connect_ban_list
      /\ e \in Element
      /\ node'[n] = CooledDown(e, 1)
      /\ UNCHANGED <<max_connections_per_ip, requestVars>>
  BY DEF Update, UpdateConnectionBans, settingVars, IInv, BanInv, BanTypeOK
<1>2. /\ max_connections_per_ip \in Nat
      /\ max_connections_per_ip # 0 => max_connections_per_ip \in Limits \ {0}
      /\ \A max \in Limits : max \in Nat
  BY SettingsAssumption DEF IInv, BanInv, BanTypeOK
<1>3. PICK max \in Limits \ {0} : Room(n, max)
  BY <1>1 DEF BoundInv
<1>4. /\ e.total_connections \in Nat
      /\ node'[n].total_connections \in 0 .. e.total_connections
      /\ node'[n].ip = e.ip
  BY <1>1, <1>2, CooledDownCount, CooledDownType DEF Element
<1>5. Cardinality(InFlight(node[n].ip))' = Cardinality(InFlight(e.ip))
  BY <1>1, <1>4 DEF InFlight, requestVars
<1>6. Cardinality(InFlight(e.ip)) \in Nat /\ Cardinality(Workers) \in Nat
  <2>1. InFlight(e.ip) \in SUBSET Workers
    BY DEF InFlight
  <2> QED
    BY <2>1, WorkerSets
<1>7. CASE ~e.is_active
  <2>1. ~node'[n].is_active
    BY <1>1, <1>2, <1>7, CooledDownCount
  <2>2. e.total_connections <= max - 1
    BY <1>7, <1>3 DEF Room
  <2>3. node'[n].total_connections <= max - 1
    BY <1>2, <1>4, <2>2
  <2> QED
    BY <2>1, <2>3 DEF Room
<1>8. CASE e.is_active /\ node'[n].is_active
  <2>1. e.total_connections + Cardinality(InFlight(e.ip)) <= max - 1 + Cardinality(Workers)
    BY <1>8, <1>3 DEF Room
  <2>2. node'[n].total_connections + Cardinality(InFlight(e.ip))
          <= max - 1 + Cardinality(Workers)
    BY <1>2, <1>4, <1>6, <2>1
  <2> QED
    BY <1>5, <1>8, <2>2 DEF Room
<1>9. CASE e.is_active /\ ~node'[n].is_active
  <2>1. node'[n].total_connections < max_connections_per_ip
    BY <1>1, <1>2, <1>9, CooledDownCount
  <2>2. /\ max_connections_per_ip \in Limits \ {0}
        /\ node'[n].total_connections <= max_connections_per_ip - 1
    BY <1>2, <1>4, <2>1
  <2>3. Room(n, max_connections_per_ip)'
    BY <1>1, <1>9, <2>2 DEF Room
  <2> QED
    BY <1>1, <2>2, <2>3
<1> QED
  BY <1>7, <1>8, <1>9

(* The other steps leave the elements of the connection list alone.        *)
LEMMA ElementsKept ==
  ASSUME IInv, [Next]_vars, ~Update, \A w \in Workers : ~CountConnection(w),
         NEW n \in connect_ban_list'
  PROVE  n \in connect_ban_list /\ node'[n] = node[n]
<1> USE DEF IInv, BanInv, BanTypeOK
<1>1. CASE ~BanStep
  BY <1>1, ListsUnchanged DEF listVars
<1>2. CASE BanIP
  BY <1>2 DEF BanIP, AddPermanentBan, Live
<1>3. CASE UnbanIP
  BY <1>3 DEF UnbanIP, RemovePermanentBan
<1>4. CASE BanlistFile
  BY <1>4 DEF BanlistFile, LoadBanList
<1> QED
  BY <1>1, <1>2, <1>3, <1>4 DEF BanStep

(* A worker gets past the test of AddConnection only under a limit.        *)
LEMMA AddUnderLimit ==
  ASSUME IInv, [Next]_vars, NEW w \in Workers, pc'[w] = "add", pc[w] # "add"
  PROVE  Limits \ {0} # {}
<1> USE DEF IInv, RequestTypeOK
<1>1. NewRequest(w) \/ Worker(w)
  BY OtherWorker
<1>2. max_connections_per_ip # 0
  BY <1>1 DEF NewRequest, Worker, SearchBans, ReadBan, TestLimit, CountConnection,
              RouteRequest, ServeFile, Return, Goto
<1> QED
  BY <1>2 DEF BanInv, BanTypeOK

(* Every step keeps the bound.                                             *)
LEMMA BoundInvStep ==
  VerdictInv /\ BoundInv /\ [VerdictNext]_<<vars, history>> => BoundInv'
<1> SUFFICES ASSUME VerdictInv, BoundInv, [VerdictNext]_<<vars, history>>
             PROVE  BoundInv'
  OBVIOUS
<1>1. CASE VerdictNext
  <2>1. [Next]_vars /\ HistoryNext
    BY <1>1 DEF VerdictNext
  <2>2. \A w \in Workers : pc'[w] = "add" => Limits \ {0} # {}
    BY <2>1, AddUnderLimit DEF BoundInv, VerdictInv
  <2>3. ASSUME ~stale', NEW n \in connect_ban_list'
        PROVE  \E max \in Limits \ {0} : Room(n, max)'
    <3>1. ~stale
      BY <2>1, <2>3 DEF HistoryNext
    <3>2. CASE \E w \in Workers : CountConnection(w)
      BY <2>1, <2>3, <3>1, <3>2, CountedRoom
    <3>3. CASE Update
      BY <2>1, <2>3, <3>1, <3>3, UpdatedRoom
    <3>4. CASE ~Update /\ \A w \in Workers : ~CountConnection(w)
      <4>1. n \in connect_ban_list /\ node'[n] = node[n]
        BY <2>1, <2>3, <3>4, ElementsKept DEF VerdictInv
      <4>2. PICK max \in Limits \ {0} : Room(n, max)
        BY <3>1, <4>1 DEF BoundInv
      <4> QED
        BY <2>1, <2>3, <4>1, <4>2, RoomKept
    <3> QED
      BY <3>2, <3>3, <3>4
  <2> QED
    BY <2>2, <2>3 DEF BoundInv
<1>2. CASE UNCHANGED <<vars, history>>
  BY <1>2
  DEF BoundInv, Room, InFlight, vars, history, banVars, listVars, requestVars
<1> QED
  BY <1>1, <1>2

-----------------------------------------------------------------------------
(* The check of IPBanned and the count of AddConnection are separate       *)
(* critical sections: an address gets past its limit by the requests that  *)
(* were between the two when its ban began, at most one per worker, unless *)
(* IPBanned answered for a deleted element.                                *)
THEOREM LimitNearlyKept == VerdictSpec => []AdmissionsBounded
<1>1. VerdictInit => BoundInv
  BY DEF VerdictInit, Init, BanInit, BoundInv
<1>2. VerdictInv /\ BoundInv => AdmissionsBounded
  <2> SUFFICES ASSUME VerdictInv, BoundInv, ~stale, NEW n \in connect_ban_list
               PROVE  \E max \in Limits \ {0} :
                        node[n].total_connections <= max - 1 + Cardinality(Workers)
    BY DEF AdmissionsBounded
  <2>1. PICK max \in Limits \ {0} : Room(n, max)
    BY DEF BoundInv
  <2>2. /\ node[n].total_connections \in Nat
        /\ max \in Nat
        /\ Cardinality(Workers) \in Nat
        /\ Cardinality(InFlight(node[n].ip)) \in Nat
    <3>1. InFlight(node[n].ip) \in SUBSET Workers
      BY DEF InFlight
    <3> QED
      BY <3>1, WorkerSets, SettingsAssumption
      DEF VerdictInv, IInv, BanInv, BanTypeOK, Element
  <2>3. \/ node[n].total_connections <= max - 1
        \/ node[n].total_connections + Cardinality(InFlight(node[n].ip))
             <= max - 1 + Cardinality(Workers)
    BY <2>1 DEF Room
  <2>4. node[n].total_connections <= max - 1 + Cardinality(Workers)
    BY <2>2, <2>3
  <2> QED
    BY <2>4
<1> QED
  BY <1>1, <1>2, VerdictInvInit, VerdictInvStep, BoundInvStep, PTL DEF VerdictSpec
=============================================================================
