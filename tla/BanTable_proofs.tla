-------------------------- MODULE BanTable_proofs ---------------------------
(***************************************************************************)
(* Proof that the ban manager, run by the HTTP server's threads, keeps the *)
(* promise of module BanTable: every step maps to a step of the table, or  *)
(* changes nothing in it.                                                  *)
(***************************************************************************)
EXTENDS HTTPServerVerdict_proofs

-----------------------------------------------------------------------------
(***************************************************************************)
(* One row of the table, for any list and any contents of the heap: stated *)
(* for constants, so that a lemma serves the state before a step and the   *)
(* state after it.                                                         *)
(***************************************************************************)
Own(list, heap, ip) == {n \in list : heap[n].ip = ip}

CountIn(list, heap, ip) ==
  IF Own(list, heap, ip) = {}
    THEN 0
    ELSE heap[CHOOSE n \in Own(list, heap, ip) : TRUE].total_connections

ActiveIn(list, heap, ip) == \E n \in Own(list, heap, ip) : heap[n].is_active

(* The row of an address that has no element.                              *)
LEMMA RowOfNone ==
  ASSUME NEW list, NEW heap, NEW ip, ip \notin AddressesOf(list, heap)
  PROVE  CountIn(list, heap, ip) = 0 /\ ~ActiveIn(list, heap, ip)
<1>1. Own(list, heap, ip) = {}
  BY DEF Own, AddressesOf
<1> QED
  BY <1>1 DEF CountIn, ActiveIn

(* The row of an address that has one element is that element.             *)
LEMMA RowOfElement ==
  ASSUME NEW list, NEW heap, NEW n \in list,
         \A m \in list : heap[m].ip = heap[n].ip => m = n
  PROVE  /\ CountIn(list, heap, heap[n].ip) = heap[n].total_connections
         /\ ActiveIn(list, heap, heap[n].ip) <=> heap[n].is_active
<1>1. Own(list, heap, heap[n].ip) = {n}
  BY DEF Own
<1>2. (CHOOSE m \in {n} : TRUE) = n
  OBVIOUS
<1> QED
  BY <1>1, <1>2 DEF CountIn, ActiveIn

(* The row of an address whose elements a step leaves alone.               *)
LEMMA RowKept ==
  ASSUME NEW list, NEW heap, NEW list2, NEW heap2, NEW ip,
         Own(list2, heap2, ip) = Own(list, heap, ip),
         \A n \in Own(list, heap, ip) : heap2[n] = heap[n]
  PROVE  /\ CountIn(list2, heap2, ip) = CountIn(list, heap, ip)
         /\ ActiveIn(list2, heap2, ip) <=> ActiveIn(list, heap, ip)
<1>1. CASE Own(list, heap, ip) = {}
  BY <1>1 DEF CountIn, ActiveIn
<1>2. CASE Own(list, heap, ip) # {}
  <2>1. (CHOOSE n \in Own(list, heap, ip) : TRUE) \in Own(list, heap, ip)
    BY <1>2
  <2> QED
    BY <1>2, <2>1 DEF CountIn, ActiveIn
<1> QED
  BY <1>1, <1>2

(* The table in terms of its rows, before and after a step.                *)
LEMMA TableRows ==
  /\ \A ip \in IPs : ConnectionCount(ip) = CountIn(connect_ban_list, node, ip)
  /\ \A ip \in IPs : ConnectionCount(ip)' = CountIn(connect_ban_list', node', ip)
  /\ ConnectionBans = {ip \in IPs : ActiveIn(connect_ban_list, node, ip)}
  /\ ConnectionBans' = {ip \in IPs : ActiveIn(connect_ban_list', node', ip)}
BY DEF ConnectionCount, ConnectionBans, CountIn, ActiveIn, Own, Matches

-----------------------------------------------------------------------------
(***************************************************************************)
(* The two parts of the table, and the steps that leave them alone.        *)
(***************************************************************************)
permanentPart  == [ip \in IPs |-> PermanentBans(ip)]
connectionPart == <<AddressesOf(connect_ban_list, node),
                    [ip \in IPs |-> ConnectionCount(ip)], ConnectionBans>>

(* A step that leaves the permanent list and its elements alone changes no *)
(* permanent ban.                                                          *)
LEMMA PermanentPartKept ==
  ASSUME UNCHANGED permanent_ban_list, \A n \in permanent_ban_list : node'[n] = node[n]
  PROVE  UNCHANGED permanentPart
<1>1. \A ip \in IPs : Matches(permanent_ban_list, ip)' = Matches(permanent_ban_list, ip)
  BY DEF Matches
<1> QED
  BY <1>1 DEF permanentPart, PermanentBans

(* A step that leaves the connection list and its elements alone changes   *)
(* no count and no connection ban.                                         *)
LEMMA ConnectionPartKept ==
  ASSUME UNCHANGED connect_ban_list, \A n \in connect_ban_list : node'[n] = node[n]
  PROVE  UNCHANGED connectionPart
<1>1. UNCHANGED AddressesOf(connect_ban_list, node)
  BY DEF AddressesOf
<1>2. ASSUME NEW ip \in IPs
      PROVE  /\ CountIn(connect_ban_list', node', ip) = CountIn(connect_ban_list, node, ip)
             /\ ActiveIn(connect_ban_list', node', ip)
                  <=> ActiveIn(connect_ban_list, node, ip)
  <2>1. Own(connect_ban_list', node', ip) = Own(connect_ban_list, node, ip)
    BY DEF Own
  <2>2. \A n \in Own(connect_ban_list, node, ip) : node'[n] = node[n]
    BY DEF Own
  <2> QED
    BY <2>1, <2>2, RowKept
<1>3. UNCHANGED <<[ip \in IPs |-> ConnectionCount(ip)], ConnectionBans>>
  BY <1>2, TableRows
<1> QED
  BY <1>1, <1>3 DEF connectionPart

-----------------------------------------------------------------------------
(***************************************************************************)
(* The steps of the connection bans.                                       *)
(***************************************************************************)

(* What the connection list looks like to the other addresses when one of  *)
(* its elements changes or is added.                                       *)
LEMMA OtherRowsKept ==
  ASSUME NEW list, NEW heap, NEW list2, NEW heap2, NEW n, NEW ip,
         list \subseteq list2, list2 \subseteq list \union {n}, n \in list2,
         \A m \in list2 : m # n => heap2[m] = heap[m],
         heap2[n].ip # ip, n \in list => heap[n].ip # ip
  PROVE  /\ CountIn(list2, heap2, ip) = CountIn(list, heap, ip)
         /\ ActiveIn(list2, heap2, ip) <=> ActiveIn(list, heap, ip)
<1>1. Own(list2, heap2, ip) = Own(list, heap, ip)
  BY DEF Own
<1>2. \A m \in Own(list, heap, ip) : heap2[m] = heap[m]
  BY DEF Own
<1> QED
  BY <1>1, <1>2, RowKept

(* AddConnection is a connection in the row of its address, and changes no *)
(* other row.                                                              *)
LEMMA AddConnectionTable ==
  ASSUME BanInv, BanInv', NEW t \in Threads, NEW ip \in IPs, AddConnection(t, ip)
  PROVE  Table!Connect(ip)
<1> USE DEF BanInv
<1> DEFINE old == CountIn(connect_ban_list, node, ip)
           new == IF old < MaxTotal THEN old + 1 ELSE MaxTotal
<1>1. PICK n \in Nodes :
        /\ n \notin permanent_ban_list
        /\ connect_ban_list' = connect_ban_list \union {n}
        /\ \A m \in Nodes : m # n => node'[m] = node[m]
        /\ node'[n].ip = ip
        /\ node'[n].total_connections = new
        /\ node'[n].is_active <=>
             ActiveIn(connect_ban_list, node, ip) \/ new >= max_connections_per_ip
        /\ \/ n \in connect_ban_list /\ node[n].ip = ip
           \/ n \notin connect_ban_list
  <2>1. CASE \E n \in Matches(connect_ban_list, ip) :
               /\ node' = [node EXCEPT ![n] = Connected(@)]
               /\ UNCHANGED connect_ban_list
    <3> PICK n \in Matches(connect_ban_list, ip) :
          /\ node' = [node EXCEPT ![n] = Connected(@)]
          /\ UNCHANGED connect_ban_list
      BY <2>1
    <3>1. /\ n \in connect_ban_list /\ n \in Nodes /\ n \notin permanent_ban_list
          /\ node[n] \in Element /\ node[n].ip = ip
      BY DEF Matches, BanTypeOK
    <3>2. /\ node'[n] = Connected(node[n])
          /\ \A m \in Nodes : m # n => node'[m] = node[m]
      BY <3>1 DEF BanTypeOK
    <3>3. /\ old = node[n].total_connections
          /\ ActiveIn(connect_ban_list, node, ip) <=> node[n].is_active
      <4>1. \A m \in connect_ban_list : node[m].ip = node[n].ip => m = n
        BY <3>1 DEF ConnectElementsUnique
      <4>2. /\ CountIn(connect_ban_list, node, node[n].ip) = node[n].total_connections
            /\ ActiveIn(connect_ban_list, node, node[n].ip) <=> node[n].is_active
        BY <3>1, <4>1, RowOfElement
      <4> QED
        BY <3>1, <4>2
    <3>4. /\ Connected(node[n]).ip = ip
          /\ Connected(node[n]).total_connections = new
          /\ Connected(node[n]).is_active
               <=> node[n].is_active \/ new >= max_connections_per_ip
      BY <3>1, <3>3 DEF Connected, Element
    <3> QED
      BY <3>1, <3>2, <3>3, <3>4
  <2>2. CASE /\ Matches(connect_ban_list, ip) = {}
             /\ \E n \in Nodes \ Live :
                  /\ node' = [node EXCEPT ![n] = Connected(NewElement(ip))]
                  /\ connect_ban_list' = connect_ban_list \union {n}
    <3> PICK n \in Nodes \ Live :
          /\ node' = [node EXCEPT ![n] = Connected(NewElement(ip))]
          /\ connect_ban_list' = connect_ban_list \union {n}
      BY <2>2
    <3>1. n \notin connect_ban_list /\ n \notin permanent_ban_list
      BY DEF Live
    <3>2. /\ node'[n] = Connected(NewElement(ip))
          /\ \A m \in Nodes : m # n => node'[m] = node[m]
      BY DEF BanTypeOK
    <3>3. old = 0 /\ ~ActiveIn(connect_ban_list, node, ip)
      BY <2>2, RowOfNone DEF Matches, AddressesOf
    <3>4. /\ Connected(NewElement(ip)).ip = ip
          /\ Connected(NewElement(ip)).total_connections = new
          /\ Connected(NewElement(ip)).is_active <=> new >= max_connections_per_ip
      BY <3>3 DEF Connected, NewElement
    <3> QED
      BY <3>1, <3>2, <3>3, <3>4
  <2> QED
    BY <2>1, <2>2 DEF AddConnection
<1> HIDE DEF old, new
<1>2. /\ UNCHANGED <<permanent_ban_list, max_connections_per_ip, ban_list_file>>
      /\ connect_ban_list \subseteq Nodes /\ permanent_ban_list \subseteq Nodes
  BY DEF AddConnection, settingVars, BanTypeOK
<1>3. UNCHANGED permanentPart
  BY <1>1, <1>2, PermanentPartKept
<1>4. AddressesOf(connect_ban_list, node)'
        = AddressesOf(connect_ban_list, node) \union {ip}
  BY <1>1, <1>2 DEF AddressesOf
<1>5. /\ CountIn(connect_ban_list', node', ip) = new
      /\ ActiveIn(connect_ban_list', node', ip) <=> node'[n].is_active
  <2>1. \A m \in connect_ban_list' : node'[m].ip = node'[n].ip => m = n
    BY <1>1 DEF ConnectElementsUnique
  <2> QED
    BY <1>1, <2>1, RowOfElement
<1>6. ASSUME NEW other \in IPs, other # ip
      PROVE  /\ CountIn(connect_ban_list', node', other)
                  = CountIn(connect_ban_list, node, other)
             /\ ActiveIn(connect_ban_list', node', other)
                  <=> ActiveIn(connect_ban_list, node, other)
  <2>1. /\ connect_ban_list \subseteq connect_ban_list'
        /\ connect_ban_list' \subseteq connect_ban_list \union {n}
        /\ n \in connect_ban_list'
        /\ \A m \in connect_ban_list' : m # n => node'[m] = node[m]
    BY <1>1, <1>2
  <2>2. node'[n].ip # other /\ (n \in connect_ban_list => node[n].ip # other)
    BY <1>1, <1>6
  <2> HIDE DEF BanInv
  <2> QED
    BY ONLY <2>1, <2>2, OtherRowsKept
<1>7. [i \in IPs |-> ConnectionCount(i)]'
        = [[i \in IPs |-> ConnectionCount(i)] EXCEPT ![ip] =
             IF @ < MaxTotal THEN @ + 1 ELSE MaxTotal]
  BY <1>5, <1>6, TableRows DEF old, new
<1>8. ConnectionBans' = IF new >= max_connections_per_ip
                          THEN ConnectionBans \union {ip} ELSE ConnectionBans
  <2> DEFINE was(i) == ActiveIn(connect_ban_list, node, i)
             is(i)  == ActiveIn(connect_ban_list', node', i)
  <2>1. is(ip) <=> was(ip) \/ new >= max_connections_per_ip
    BY <1>1, <1>5
  <2>2. \A i \in IPs : i # ip => (is(i) <=> was(i))
    BY <1>6
  <2>3. ConnectionBans = {i \in IPs : was(i)} /\ ConnectionBans' = {i \in IPs : is(i)}
    BY TableRows
  <2> HIDE DEF was, is
  <2>4. CASE new >= max_connections_per_ip
    BY ONLY <2>1, <2>2, <2>3, <2>4, ip \in IPs
  <2>5. CASE ~(new >= max_connections_per_ip)
    BY ONLY <2>1, <2>2, <2>3, <2>5
  <2> QED
    BY ONLY <2>4, <2>5
<1>9. [i \in IPs |-> ConnectionCount(i)]'[ip] = new
  BY <1>5, TableRows
<1> QED
  BY <1>2, <1>3, <1>4, <1>7, <1>8, <1>9 DEF Table!Connect, Table!fileVars, permanentPart

(* c_http_ip_ban_connection::Update takes at most one connection off the   *)
(* count, and lifts the ban exactly when the count, not zero before, is    *)
(* below the limit after it.                                               *)
LEMMA CooledDownRow ==
  ASSUME NEW e \in Element, max_connections_per_ip \in Nat
  PROVE  LET d == CooledDown(e, 1)
         IN  /\ d.ip = e.ip
             /\ \/ d.total_connections = e.total_connections
                \/ /\ e.total_connections > 0
                   /\ d.total_connections = e.total_connections - 1
             /\ d.is_active <=> /\ e.is_active
                                /\ \/ e.total_connections = 0
                                   \/ d.total_connections >= max_connections_per_ip
<1> DEFINE cooldown == Elapse(e.cooldown_delta, 1)
           total == IF cooldown >= connection_cooldown_time
                      THEN e.total_connections - 1 ELSE e.total_connections
           active == e.is_active /\ ~(total < max_connections_per_ip)
<1>1. /\ e.is_active \in BOOLEAN /\ e.total_connections \in Nat
      /\ CooledDown(e, 1).ip = e.ip
  BY CooledDownType, SettingsAssumption DEF Element
<1>2. CASE e.total_connections = 0
  BY <1>1, <1>2 DEF CooledDown, Element
<1>3. CASE e.total_connections # 0
  <2>1. /\ CooledDown(e, 1).is_active = active
        /\ CooledDown(e, 1).total_connections = total
    BY <1>3 DEF CooledDown, Element
  <2>2. /\ total \in Int
        /\ total = e.total_connections \/ total = e.total_connections - 1
    BY <1>1
  <2>3. active <=> e.is_active /\ total >= max_connections_per_ip
    BY <1>1, <2>2
  <2> HIDE DEF active, total
  <2> QED
    BY <1>1, <1>3, <2>1, <2>2, <2>3
<1> QED
  BY <1>2, <1>3

(* UpdateConnectionBans lets time pass in the table: the addresses of the  *)
(* elements it deletes are forgotten, and the rows of the others lose a    *)
(* connection or none.                                                     *)
LEMMA UpdateTable ==
  ASSUME BanInv, BanInv', \A n \in connect_ban_list : node[n].ip \in IPs,
         NEW t \in Threads, UpdateConnectionBans(t, 1)
  PROVE  Table!Elapse
<1> USE DEF BanInv
<1> DEFINE gone == {n \in connect_ban_list : Forgotten(node[n], 1)}
           kept == connect_ban_list \ gone
           after(n) == CooledDown(node[n], 1)
           forgotten == AddressesOf(gone, node)
           cooled == AddressesOf({n \in kept :
                       after(n).total_connections # node[n].total_connections}, node)
           tracked == AddressesOf(connect_ban_list, node)
           total(ip) == CountIn(connect_ban_list, node, ip)
           active(ip) == ActiveIn(connect_ban_list, node, ip)
<1>1. /\ connect_ban_list' = kept
      /\ UNCHANGED <<permanent_ban_list, max_connections_per_ip, ban_list_file>>
      /\ max_connections_per_ip \in Nat
      /\ connect_ban_list \subseteq Nodes /\ permanent_ban_list \subseteq Nodes
  BY SettingsAssumption DEF UpdateConnectionBans, settingVars, BanTypeOK
<1>2. /\ \A n \in kept : node'[n] = after(n)
      /\ \A n \in permanent_ban_list : node'[n] = node[n]
  BY <1>1 DEF UpdateConnectionBans
<1>3. \A n \in connect_ban_list : node[n] \in Element
  BY DEF BanTypeOK
<1>4. \A m, n \in connect_ban_list : node[m].ip = node[n].ip => m = n
  BY DEF ConnectElementsUnique
<1>5. ASSUME NEW n \in kept
      PROVE  /\ node'[n].ip = node[n].ip
             /\ \/ node'[n].total_connections = node[n].total_connections
                \/ /\ node[n].total_connections > 0
                   /\ node'[n].total_connections = node[n].total_connections - 1
             /\ node'[n].is_active <=>
                  /\ node[n].is_active
                  /\ \/ node[n].total_connections = 0
                     \/ node'[n].total_connections >= max_connections_per_ip
  <2>1. node[n] \in Element /\ node'[n] = after(n)
    BY <1>2, <1>3
  <2> QED
    BY <1>1, <2>1, CooledDownRow
<1>6. UNCHANGED permanentPart
  BY <1>1, <1>2, PermanentPartKept
<1>7. ASSUME NEW n \in connect_ban_list
      PROVE  /\ total(node[n].ip) = node[n].total_connections
             /\ active(node[n].ip) <=> node[n].is_active
  <2>1. \A m \in connect_ban_list : node[m].ip = node[n].ip => m = n
    BY <1>4
  <2> QED
    BY <2>1, RowOfElement
<1>8. ASSUME NEW n \in kept
      PROVE  /\ CountIn(kept, node', node[n].ip) = node'[n].total_connections
             /\ ActiveIn(kept, node', node[n].ip) <=> node'[n].is_active
  <2>1. \A m \in kept : node'[m].ip = node'[n].ip => m = n
    BY <1>4, <1>5
  <2>2. /\ CountIn(kept, node', node'[n].ip) = node'[n].total_connections
        /\ ActiveIn(kept, node', node'[n].ip) <=> node'[n].is_active
    BY <2>1, RowOfElement
  <2> QED
    BY <1>5, <2>2
<1>9. forgotten \subseteq tracked /\ cooled \subseteq tracked
  BY DEF AddressesOf
<1>10. \A ip \in cooled : total(ip) > 0
  <2> SUFFICES ASSUME NEW n \in kept,
                      after(n).total_connections # node[n].total_connections
               PROVE  total(node[n].ip) > 0
    BY DEF AddressesOf
  <2> QED
    BY <1>2, <1>5, <1>7
<1>11. \A ip \in forgotten : ip \notin AddressesOf(kept, node')
  BY <1>4, <1>5 DEF AddressesOf
<1>12. AddressesOf(kept, node') = tracked \ forgotten
  <2>1. AddressesOf(kept, node') = AddressesOf(kept, node)
    BY <1>5 DEF AddressesOf
  <2> QED
    BY <1>4, <2>1 DEF AddressesOf
<1>13. ASSUME NEW ip \in IPs
       PROVE  /\ CountIn(kept, node', ip) =
                   CASE ip \in forgotten -> 0
                     [] ip \in cooled \ forgotten -> total(ip) - 1
                     [] OTHER -> total(ip)
              /\ ActiveIn(kept, node', ip) <=>
                   /\ active(ip) /\ ip \notin forgotten
                   /\ total(ip) = 0 \/ CountIn(kept, node', ip) >= max_connections_per_ip
  <2>1. CASE ip \in forgotten
    BY <1>11, <2>1, RowOfNone
  <2>2. CASE ip \notin tracked
    <3>1. ip \notin AddressesOf(kept, node') /\ ip \notin cooled \union forgotten
      BY <1>9, <1>12, <2>2
    <3> QED
      BY <2>2, <3>1, RowOfNone
  <2>3. CASE ip \in tracked \ forgotten
    <3> PICK n \in kept : ip = node[n].ip
      BY <2>3 DEF AddressesOf
    <3>1. ip \in cooled <=> node'[n].total_connections # node[n].total_connections
      BY <1>2, <1>4 DEF AddressesOf
    <3>2. total(ip) = node[n].total_connections /\ node[n].total_connections \in Nat
      BY <1>3, <1>7, SettingsAssumption DEF Element
    <3>3. /\ CountIn(kept, node', ip) = node'[n].total_connections
          /\ ActiveIn(kept, node', ip) <=> node'[n].is_active
          /\ active(ip) <=> node[n].is_active
      BY <1>7, <1>8
    <3>4. CountIn(kept, node', ip) = CASE ip \in forgotten -> 0
                                       [] ip \in cooled \ forgotten -> total(ip) - 1
                                       [] OTHER -> total(ip)
      <4> HIDE DEF cooled, forgotten, total
      <4> QED
        BY <1>5, <2>3, <3>1, <3>2, <3>3
    <3>5. ActiveIn(kept, node', ip) <=>
            /\ active(ip) /\ ip \notin forgotten
            /\ total(ip) = 0 \/ CountIn(kept, node', ip) >= max_connections_per_ip
      <4> HIDE DEF cooled, forgotten, total, active
      <4> QED
        BY <1>5, <2>3, <3>2, <3>3
    <3> QED
      BY <3>4, <3>5
  <2> QED
    BY <2>1, <2>2, <2>3
<1>14. \A ip \in IPs : /\ ConnectionCount(ip) = total(ip)
                       /\ ConnectionCount(ip)' = CountIn(kept, node', ip)
  BY <1>1, TableRows
<1>15. ConnectionBans' = {ip \in ConnectionBans \ forgotten :
                            \/ [i \in IPs |-> ConnectionCount(i)][ip] = 0
                            \/ [i \in IPs |-> ConnectionCount(i)]'[ip]
                                 >= max_connections_per_ip}
  <2>1. /\ ConnectionBans = {ip \in IPs : active(ip)}
        /\ ConnectionBans' = {ip \in IPs : ActiveIn(kept, node', ip)}
    BY <1>1, TableRows
  <2> HIDE DEF forgotten, cooled, total, active, kept, BanInv
  <2> QED
    BY <1>13, <1>14, <2>1
<1>16. [ip \in IPs |-> ConnectionCount(ip)]' =
         [ip \in IPs |-> CASE ip \in forgotten -> 0
                          [] ip \in cooled \ forgotten ->
                               [i \in IPs |-> ConnectionCount(i)][ip] - 1
                          [] OTHER -> [i \in IPs |-> ConnectionCount(i)][ip]]
  <2> HIDE DEF forgotten, cooled, total, active, kept, BanInv
  <2> QED
    BY <1>13, <1>14
<1>17. \A ip \in cooled : [i \in IPs |-> ConnectionCount(i)][ip] > 0
  <2>1. tracked \subseteq IPs
    BY DEF AddressesOf
  <2> HIDE DEF forgotten, cooled, total, active, kept, BanInv
  <2> QED
    BY <1>9, <1>10, <1>14, <2>1
<1> HIDE DEF forgotten, cooled, total, active, kept, BanInv
<1> QED
  BY <1>1, <1>6, <1>9, <1>12, <1>15, <1>16, <1>17 DEF Table!Elapse, Table!fileVars, permanentPart

-----------------------------------------------------------------------------
(***************************************************************************)
(* The steps of the permanent bans.                                        *)
(***************************************************************************)

(* The elements of the permanent list with one address are finitely many.  *)
LEMMA PermanentFinite ==
  ASSUME BanInv, NEW ip
  PROVE  /\ IsFiniteSet(Matches(permanent_ban_list, ip))
         /\ PermanentBans(ip) \in Nat
         /\ PermanentBans(ip) = 0 <=> Matches(permanent_ban_list, ip) = {}
<1>1. IsFiniteSet(Matches(permanent_ban_list, ip))
  <2>1. Matches(permanent_ban_list, ip) \in SUBSET Nodes
    BY DEF Matches, BanInv, BanTypeOK
  <2> QED
    BY <2>1, NodesAssumption, FS_Subset
<1> QED
  BY <1>1, FS_CardinalityType, FS_EmptySet DEF PermanentBans

(* An address is barred in the table exactly when the element that         *)
(* IPBanned finds first is active.                                         *)
LEMMA BarredInTable ==
  ASSUME BanInv, PermanentActive, NEW ip \in IPs
  PROVE  Table!Barred(ip) <=> \E n \in FirstMatch(ip) : node[n].is_active
<1>1. [i \in IPs |-> PermanentBans(i)][ip] > 0 <=> Matches(permanent_ban_list, ip) # {}
  BY PermanentFinite
<1>2. ip \in ConnectionBans <=> \E n \in Matches(connect_ban_list, ip) : node[n].is_active
  BY DEF ConnectionBans
<1>3. \A n \in Matches(permanent_ban_list, ip) : node[n].is_active
  BY DEF PermanentActive, Matches
<1> QED
  BY <1>1, <1>2, <1>3 DEF Table!Barred, FirstMatch

(* SaveBanList saves addresses that are banned when it writes them.        *)
LEMMA SaveBanListTable ==
  ASSUME BanInv', SaveBanList
  PROVE  Table!Save
<1>1. CASE UNCHANGED ban_list_file
  BY <1>1 DEF Table!Save, Table!fileVars
<1>2. CASE ban_list_file' = NoFile
  BY <1>2 DEF Table!Save, NoFile
<1>3. CASE \E written \in SUBSET AddressesOf(permanent_ban_list', node') :
             ban_list_file' = File(written)
  <2> PICK written \in SUBSET AddressesOf(permanent_ban_list', node') :
        ban_list_file' = File(written)
    BY <1>3
  <2>1. ASSUME NEW ip \in written
        PROVE  ip \in IPs /\ permanentPart'[ip] > 0
    <3>1. PICK n \in permanent_ban_list' : node'[n].ip = ip
      BY DEF AddressesOf
    <3>2. ip \in IPs
      BY <3>1 DEF BanInv
    <3>3. n \in Matches(permanent_ban_list, ip)'
      BY <3>1 DEF Matches
    <3>4. Matches(permanent_ban_list, ip)' \in SUBSET Nodes
      BY DEF Matches, BanInv, BanTypeOK
    <3>5. IsFiniteSet(Matches(permanent_ban_list, ip)')
      BY <3>4, NodesAssumption, FS_Subset
    <3>6. /\ Cardinality(Matches(permanent_ban_list, ip)') \in Nat
          /\ Cardinality(Matches(permanent_ban_list, ip)') # 0
      BY <3>3, <3>5, FS_CardinalityType, FS_EmptySet
    <3>7. permanentPart'[ip] = Cardinality(Matches(permanent_ban_list, ip)')
      BY <3>2 DEF permanentPart, PermanentBans
    <3> QED
      BY <3>2, <3>6, <3>7
  <2> QED
    BY <2>1 DEF Table!Save, File, permanentPart
<1> QED
  BY <1>1, <1>2, <1>3 DEF SaveBanList

(* AddPermanentBan bans an address that is not barred, and does nothing to *)
(* the table for one that is.                                              *)
LEMMA AddPermanentBanTable ==
  ASSUME BanInv, BanInv', PermanentActive,
         NEW t \in Threads, NEW ip \in IPs, AddPermanentBan(t, ip)
  PROVE  Table!Ban(ip) \/ UNCHANGED Table!vars
<1>1. UNCHANGED <<connect_ban_list, max_connections_per_ip>>
  BY DEF AddPermanentBan, settingVars
<1>2. CASE UNCHANGED <<permanent_ban_list, node, ban_list_file>>
  <2>1. UNCHANGED <<permanentPart, connectionPart>>
    BY <1>1, <1>2, PermanentPartKept, ConnectionPartKept
  <2> QED
    BY <1>1, <1>2, <2>1 DEF Table!vars, Table!fileVars, permanentPart, connectionPart
<1>3. CASE /\ \/ FirstMatch(ip) = {}
              \/ \E n \in FirstMatch(ip) : ~node[n].is_active
           /\ \E n \in Nodes \ Live :
                /\ node' = [node EXCEPT ![n] = PermanentElement(ip)]
                /\ permanent_ban_list' = permanent_ban_list \union {n}
           /\ SaveBanList
  <2> PICK n \in Nodes \ Live :
        /\ node' = [node EXCEPT ![n] = PermanentElement(ip)]
        /\ permanent_ban_list' = permanent_ban_list \union {n}
    BY <1>3
  <2>1. /\ n \notin connect_ban_list /\ n \notin permanent_ban_list
        /\ connect_ban_list \subseteq Nodes /\ permanent_ban_list \subseteq Nodes
    BY DEF Live, BanInv, BanTypeOK
  <2>2. node'[n].ip = ip /\ \A m \in Nodes : m # n => node'[m] = node[m]
    BY DEF BanInv, BanTypeOK, PermanentElement, NewElement
  <2>3. UNCHANGED connectionPart
    BY <1>1, <2>1, <2>2, ConnectionPartKept
  <2>4. ~Table!Barred(ip)
    <3>1. \A m, k \in FirstMatch(ip) : node[m].is_active => node[k].is_active
      BY DEF FirstMatch, Matches, PermanentActive, BanInv, ConnectElementsUnique
    <3> QED
      BY <1>3, <3>1, BarredInTable
  <2>5. PermanentBans(ip)' = PermanentBans(ip) + 1
    <3>1. Matches(permanent_ban_list, ip)' = Matches(permanent_ban_list, ip) \union {n}
      BY <2>1, <2>2 DEF Matches
    <3>2. n \notin Matches(permanent_ban_list, ip)
      BY <2>1 DEF Matches
    <3> QED
      BY <3>1, <3>2, PermanentFinite, FS_AddElement DEF PermanentBans
  <2>6. \A other \in IPs : other # ip => PermanentBans(other)' = PermanentBans(other)
    <3>1. \A other \in IPs : other # ip =>
            Matches(permanent_ban_list, other)' = Matches(permanent_ban_list, other)
      BY <2>1, <2>2 DEF Matches
    <3> QED
      BY <3>1 DEF PermanentBans
  <2>7. permanentPart' = [permanentPart EXCEPT ![ip] = @ + 1]
    BY <2>5, <2>6 DEF permanentPart
  <2>8. Table!Save
    BY <1>3, SaveBanListTable
  <2> QED
    BY <1>1, <2>3, <2>4, <2>7, <2>8 DEF Table!Ban, permanentPart, connectionPart
<1> QED
  BY <1>2, <1>3 DEF AddPermanentBan

(* RemovePermanentBan removes one ban of one address.                      *)
LEMMA RemovePermanentBanTable ==
  ASSUME BanInv, BanInv', NEW t \in Threads, RemovePermanentBan(t)
  PROVE  \E ip \in IPs : Table!Unban(ip)
<1> PICK n \in permanent_ban_list :
      /\ permanent_ban_list' = permanent_ban_list \ {n}
      /\ node' = [node EXCEPT ![n] = Freed]
  BY DEF RemovePermanentBan
<1> PICK ip \in IPs : ip = node[n].ip
  BY DEF BanInv
<1>1. UNCHANGED <<connect_ban_list, max_connections_per_ip>>
  BY DEF RemovePermanentBan, settingVars
<1>2. /\ n \notin connect_ban_list
      /\ \A m \in Nodes : m # n => node'[m] = node[m]
      /\ connect_ban_list \subseteq Nodes /\ permanent_ban_list \subseteq Nodes
  BY DEF BanInv, BanTypeOK
<1>3. UNCHANGED connectionPart
  BY <1>1, <1>2, ConnectionPartKept
<1>4. n \in Matches(permanent_ban_list, ip)
  BY DEF Matches
<1>5. PermanentBans(ip)' = PermanentBans(ip) - 1 /\ PermanentBans(ip) > 0
  <2>1. Matches(permanent_ban_list, ip)' = Matches(permanent_ban_list, ip) \ {n}
    BY <1>2 DEF Matches
  <2>2. IsFiniteSet(Matches(permanent_ban_list, ip)) /\ PermanentBans(ip) \in Nat
    BY PermanentFinite
  <2>3. PermanentBans(ip) # 0
    BY <1>4, PermanentFinite
  <2>4. Cardinality(Matches(permanent_ban_list, ip) \ {n})
          = Cardinality(Matches(permanent_ban_list, ip)) - 1
    BY <1>4, <2>2, FS_RemoveElement
  <2>5. PermanentBans(ip)' = Cardinality(Matches(permanent_ban_list, ip) \ {n})
    BY <2>1 DEF PermanentBans
  <2>6. PermanentBans(ip) = Cardinality(Matches(permanent_ban_list, ip))
    BY DEF PermanentBans
  <2>7. PermanentBans(ip)' = PermanentBans(ip) - 1
    BY <2>4, <2>5, <2>6
  <2> QED
    BY <2>2, <2>3, <2>7
<1>6. \A other \in IPs : other # ip => PermanentBans(other)' = PermanentBans(other)
  <2>1. \A other \in IPs : other # ip =>
          Matches(permanent_ban_list, other)' = Matches(permanent_ban_list, other)
    BY <1>2 DEF Matches
  <2> QED
    BY <2>1 DEF PermanentBans
<1>7. permanentPart' = [permanentPart EXCEPT ![ip] = @ - 1]
  BY <1>5, <1>6 DEF permanentPart
<1>8. permanentPart[ip] > 0
  BY <1>2, <1>5 DEF permanentPart
<1>9. Table!Save
  BY SaveBanListTable DEF RemovePermanentBan
<1>10. Table!Unban(ip)
  BY <1>1, <1>3, <1>7, <1>8, <1>9 DEF Table!Unban, permanentPart, connectionPart
<1> QED
  BY <1>10

(* A finite list has no more addresses than elements.                      *)
LEMMA AddressesSize ==
  ASSUME NEW list, NEW heap, IsFiniteSet(list)
  PROVE  /\ IsFiniteSet(AddressesOf(list, heap))
         /\ Cardinality(AddressesOf(list, heap)) <= Cardinality(list)
<1> DEFINE f == [n \in list |-> heap[n].ip]
<1>1. f \in Surjection(list, AddressesOf(list, heap))
  BY DEF Surjection, AddressesOf
<1> QED
  BY <1>1, FS_Surjection

(* The table counts as the list does.                                      *)
LEMMA SameCardinality ==
  ASSUME NEW S
  PROVE  Table!Cardinality(S) = Cardinality(S)
BY DEF Table!Cardinality, Cardinality

(* LoadBanList replaces the permanent bans, and nothing else.              *)
LEMMA LoadBanListTable ==
  ASSUME BanInv, BanInv', NEW t \in Threads, LoadBanList(t)
  PROVE  Table!Load
<1>1. /\ UNCHANGED <<connect_ban_list, max_connections_per_ip, ban_list_file>>
      /\ ban_list_file.present
  BY DEF LoadBanList, settingVars
<1>2. \A n \in connect_ban_list : node'[n] = node[n]
  BY DEF LoadBanList, BanInv, BanTypeOK
<1>3. UNCHANGED connectionPart
  BY <1>1, <1>2, ConnectionPartKept
<1>4. \A ip \in IPs : PermanentBans(ip)' \in Nat
  <2> SUFFICES ASSUME NEW ip \in IPs PROVE PermanentBans(ip)' \in Nat
    OBVIOUS
  <2>1. Matches(permanent_ban_list, ip)' \in SUBSET Nodes
    BY DEF Matches, BanInv, BanTypeOK
  <2>2. IsFiniteSet(Matches(permanent_ban_list, ip)')
    BY <2>1, NodesAssumption, FS_Subset
  <2> QED
    BY <2>2, FS_CardinalityType DEF PermanentBans
<1>5. permanentPart' \in [IPs -> Nat]
  BY <1>4 DEF permanentPart
<1> DEFINE bans == {ip \in IPs : [i \in IPs |-> PermanentBans(i)]'[ip] > 0}
<1>6. Cardinality(bans) <= Cardinality(ban_list_file.ips)
  <2> DEFINE addresses == AddressesOf(permanent_ban_list', node')
  <2>1. /\ IsFiniteSet(permanent_ban_list')
        /\ Cardinality(permanent_ban_list') = Cardinality(ban_list_file.ips)
    BY NodesAssumption, FS_Subset DEF LoadBanList, BanInv, BanTypeOK
  <2>2. /\ IsFiniteSet(addresses)
        /\ Cardinality(addresses) <= Cardinality(permanent_ban_list')
    BY <2>1, AddressesSize
  <2>3. bans \subseteq addresses
    <3> SUFFICES ASSUME NEW ip \in IPs, ip \notin addresses
                 PROVE  PermanentBans(ip)' = 0
      OBVIOUS
    <3>1. Matches(permanent_ban_list, ip)' = {}
      BY DEF Matches, AddressesOf
    <3> QED
      BY <3>1, FS_EmptySet DEF PermanentBans
  <2>4. IsFiniteSet(bans) /\ Cardinality(bans) <= Cardinality(addresses)
    BY <2>2, <2>3, FS_Subset
  <2>5. /\ Cardinality(bans) \in Nat /\ Cardinality(addresses) \in Nat
        /\ Cardinality(permanent_ban_list') \in Nat
    BY <2>1, <2>2, <2>4, FS_CardinalityType
  <2> HIDE DEF bans, addresses
  <2> QED
    BY <2>1, <2>2, <2>4, <2>5
<1>7. Table!Cardinality(bans) <= Table!Cardinality(ban_list_file.ips)
  <2> HIDE DEF bans
  <2> QED
    BY <1>6, SameCardinality
<1> QED
  BY <1>1, <1>3, <1>5, <1>7 DEF Table!Load, Table!fileVars, permanentPart, connectionPart

-----------------------------------------------------------------------------
(***************************************************************************)
(* The refinement.                                                         *)
(***************************************************************************)

(* A worker in ServerCallback has a client, and the connection list holds  *)
(* addresses of clients only.                                              *)
ClientsKnown ==
  /\ \A w \in Workers : pc[w] # "idle" => remote_ip[w] \in IPs
  /\ \A n \in connect_ban_list : node[n].ip \in IPs

TableInv == IInv /\ PermanentActive /\ ClientsKnown

(* A step of a worker keeps the clients known.                             *)
LEMMA ClientsKnownStep ==
  ASSUME TableInv, [Next]_vars
  PROVE  ClientsKnown'
<1> USE DEF TableInv, IInv, BanInv, BanTypeOK, RequestTypeOK
<1>1. ASSUME NEW w \in Workers, pc'[w] # "idle"
      PROVE  remote_ip'[w] \in IPs
  <2>1. CASE NewRequest(w)
    BY <2>1 DEF NewRequest
  <2>2. CASE Worker(w)
    BY <1>1, <2>2 DEF Worker, SearchBans, ReadBan, TestLimit, CountConnection,
                      RouteRequest, ServeFile, Return, Goto, ClientsKnown
  <2>3. CASE ~NewRequest(w) /\ ~Worker(w)
    BY <1>1, <2>3, OtherWorker DEF ClientsKnown
  <2> QED
    BY <2>1, <2>2, <2>3
<1>2. ASSUME NEW n \in connect_ban_list'
      PROVE  node'[n].ip \in IPs
  <2>1. CASE \E w \in Workers : CountConnection(w)
    <3> PICK w \in Workers : CountConnection(w)
      BY <2>1
    <3>1. remote_ip[w] \in IPs /\ AddConnection(w, remote_ip[w])
      BY DEF CountConnection, ClientsKnown
    <3>2. \A e \in Element : Connected(e).ip = e.ip
      BY ConnectedType
    <3>3. /\ NewElement(remote_ip[w]) \in Element
          /\ NewElement(remote_ip[w]).ip = remote_ip[w]
      BY <3>1, NewElementType DEF NewElement
    <3> QED
      BY <1>2, <3>1, <3>2, <3>3 DEF AddConnection, Matches, ClientsKnown
  <2>2. CASE Update
    <3>1. n \in connect_ban_list /\ node'[n] = CooledDown(node[n], 1)
      BY <1>2, <2>2 DEF Update, UpdateConnectionBans
    <3> QED
      BY <3>1, CooledDownType DEF ClientsKnown
  <2>3. CASE ~Update /\ \A w \in Workers : ~CountConnection(w)
    BY <1>2, <2>3, ElementsKept DEF ClientsKnown
  <2> QED
    BY <2>1, <2>2, <2>3
<1> QED
  BY <1>1, <1>2 DEF ClientsKnown

(* The invariant of the refinement is inductive.                           *)
LEMMA TableInvStep == TableInv /\ [Next]_vars => TableInv'
BY IInvStep, PermanentStep, ClientsKnownStep DEF TableInv

(* Every step of the server is a step of the table or leaves it alone.     *)
LEMMA TableStep ==
  ASSUME TableInv, [Next]_vars
  PROVE  [Table!Next]_(Table!vars)
<1>1. BanInv /\ BanInv' /\ PermanentActive /\ ClientsKnown
  BY TableInvStep DEF TableInv, IInv
<1>2. Game \in Threads /\ \A w \in Workers : w \in Threads
  BY DEF Threads
<1>3. CASE \E w \in Workers : CountConnection(w)
  <2> PICK w \in Workers : CountConnection(w)
    BY <1>3
  <2>1. remote_ip[w] \in IPs /\ AddConnection(w, remote_ip[w])
    BY <1>1 DEF CountConnection, ClientsKnown
  <2>2. Table!Connect(remote_ip[w])
    BY <1>1, <1>2, <2>1, AddConnectionTable
  <2> QED
    BY <2>1, <2>2 DEF Table!Next
<1>4. CASE Update
  <2>1. Table!Elapse
    BY <1>1, <1>2, <1>4, UpdateTable DEF Update, ClientsKnown
  <2> QED
    BY <2>1 DEF Table!Next
<1>5. CASE BanIP
  <2> PICK ip \in IPs : AddPermanentBan(Game, ip)
    BY <1>5 DEF BanIP
  <2>1. Table!Ban(ip) \/ UNCHANGED Table!vars
    BY <1>1, <1>2, AddPermanentBanTable
  <2> QED
    BY <2>1 DEF Table!Next
<1>6. CASE UnbanIP
  <2>1. \E ip \in IPs : Table!Unban(ip)
    BY <1>1, <1>2, <1>6, RemovePermanentBanTable DEF UnbanIP
  <2> QED
    BY <2>1 DEF Table!Next
<1>7. CASE BanlistFile
  <2>1. Table!Load
    BY <1>1, <1>2, <1>7, LoadBanListTable DEF BanlistFile
  <2> QED
    BY <2>1 DEF Table!Next
<1>8. CASE ~BanStep
  <2>1. UNCHANGED <<connect_ban_list, permanent_ban_list, node>>
    BY <1>8, ListsUnchanged DEF listVars
  <2>2. UNCHANGED <<permanentPart, connectionPart>>
    BY <2>1, PermanentPartKept, ConnectionPartKept
  <2>3. CASE SetBan
    <3>1. max_connections_per_ip' \in Nat
      BY <2>3, SettingsAssumption DEF SetBan, SetConnectionBan
    <3>2. Table!SetLimit
      BY <2>2, <2>3, <3>1 DEF SetBan, SetConnectionBan, Table!SetLimit, Table!fileVars, permanentPart,
                           connectionPart
    <3> QED
      BY <3>2 DEF Table!Next
  <2>4. CASE ~SetBan
    <3>1. UNCHANGED <<max_connections_per_ip, ban_list_file>>
      BY <1>8, <2>4
      DEF BanStep, Next, NewRequest, Worker, SearchBans, IPBannedSearch, ReadBan,
          TestLimit, RouteRequest, ServeFile, GameThread, SetRoot, StartServer,
          StartService, StopService, StopServer, Dispose, StopReturns, Ended, vars,
          banVars, settingVars
    <3> QED
      BY <2>2, <3>1 DEF Table!vars, Table!fileVars, permanentPart, connectionPart
  <2> QED
    BY <2>3, <2>4
<1> QED
  BY <1>3, <1>4, <1>5, <1>6, <1>7, <1>8 DEF BanStep

(* The lists of the ban manager implement the table of bans: for any       *)
(* number of workers and addresses, any limits and times, every step of    *)
(* the server is a step of the table or changes no count and no ban.       *)
THEOREM BanManagerKeepsTable == SafetySpec => TableKept
<1>1. Init => TableInv
  BY IInvInit DEF TableInv, PermanentActive, ClientsKnown, Init, BanInit
<1>2. Init => Table!Init
  <2> SUFFICES ASSUME Init PROVE Table!Init
    OBVIOUS
  <2>1. /\ connect_ban_list = {} /\ permanent_ban_list = {}
        /\ max_connections_per_ip = 0
    BY DEF Init, BanInit
  <2>2. \A ip \in IPs : PermanentBans(ip) = 0 /\ ConnectionCount(ip) = 0
    BY <2>1, FS_EmptySet DEF PermanentBans, ConnectionCount, Matches
  <2>3. ConnectionBans = {} /\ AddressesOf(connect_ban_list, node) = {}
    BY <2>1 DEF ConnectionBans, AddressesOf, Matches
  <2>4. ban_list_file.present \in BOOLEAN /\ ban_list_file.ips \subseteq IPs
    BY BanInitType DEF Init, BanTypeOK, BanFile
  <2> QED
    BY <2>1, <2>2, <2>3, <2>4 DEF Table!Init
<1>3. TableInv /\ [Next]_vars => [Table!Next]_(Table!vars)
  BY TableStep
<1> QED
  BY <1>1, <1>2, <1>3, TableInvStep, PTL DEF SafetySpec, TableKept, Table!Spec
=============================================================================
