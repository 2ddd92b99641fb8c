------------------------- MODULE HTTPServerVerdict --------------------------
(***************************************************************************)
(* What the HTTP server promises about bans, and the history variables     *)
(* needed to say it.  The history variables observe the steps of module    *)
(* HTTPServer and never restrict them.                                     *)
(***************************************************************************)
EXTENDS HTTPServer

VARIABLES
  covered,  \* per worker: the client was in the permanent list when its
            \* request was searched for, and has been there ever since
  offended, \* per worker, in IPBanned: an element with the client's address has
            \* been active at some moment since the search for it
  deleted,  \* per worker: the element IPBanned found was deleted before
            \* IPBanned had read its flag
  stale     \* some worker has gone on with the flag of a deleted element

history == <<covered, offended, deleted, stale>>

Permanent(ip) == Matches(permanent_ban_list, ip) # {}

Offends(ip) == \E n \in Live : node[n].ip = ip /\ node[n].is_active

HistoryInit ==
  /\ covered = [w \in Workers |-> FALSE]
  /\ offended = [w \in Workers |-> FALSE]
  /\ deleted = [w \in Workers |-> FALSE]
  /\ stale = FALSE

Observe(w) ==
  [covered |-> /\ pc'[w] \notin {"idle", "search"}
               /\ Permanent(remote_ip[w])'
               /\ pc[w] = "search" \/ covered[w],
   offended |-> /\ pc'[w] = "read"
                /\ \/ offended[w]
                   \/ Offends(remote_ip[w]) \/ Offends(remote_ip[w])',
   deleted |-> /\ pc'[w] \notin {"idle", "search"}
               /\ \/ deleted[w]
                  \/ /\ pc[w] = "read"
                     /\ ban_element[w] # NoNode
                     /\ \/ ban_element[w] \notin Live'
                        \/ node'[ban_element[w]].ip # node[ban_element[w]].ip]

HistoryNext ==
  /\ covered' = [w \in Workers |-> Observe(w).covered]
  /\ offended' = [w \in Workers |-> Observe(w).offended]
  /\ deleted' = [w \in Workers |-> Observe(w).deleted]
  /\ stale' = (stale \/ \E w \in Workers : pc'[w] = "limit" /\ deleted[w])

VerdictInit == Init /\ HistoryInit
VerdictNext == Next /\ HistoryNext
VerdictSpec == VerdictInit /\ [][VerdictNext]_<<vars, history>>

-----------------------------------------------------------------------------
(***************************************************************************)
(* Safety.                                                                 *)
(***************************************************************************)

(* The connection list never holds two elements for one address, however   *)
(* the workers and the updates interleave.  AddConnection finds or appends *)
(* in one critical section; with two elements the counts of an address     *)
(* would be split and its limit doubled.                                   *)
ConnectElementsUnique ==
  \A m, n \in connect_ban_list : node[m].ip = node[n].ip => m = n

(* An address gets past its limit only by requests that were already past  *)
(* IPBanned when the ban became active: at most one per worker.  IPBanned  *)
(* and AddConnection are separate critical sections, so the limit is not   *)
(* exact; this is how inexact it can be, unless IPBanned answered for an   *)
(* element that had been deleted.                                          *)
AdmissionsBounded ==
  ~stale => \A n \in connect_ban_list :
    \E max \in Limits \ {0} :
      node[n].total_connections <= max - 1 + Cardinality(Workers)

(* A client that is in the permanent list from the moment its request is   *)
(* checked until the request is admitted is not admitted, unless the       *)
(* element that bans it was deleted (and the ban put back by another one)  *)
(* between the critical section of IPBanned and its read of the flag.      *)
PermanentBanEnforced ==
  \A w \in Workers :
    pc[w] \in {"limit", "add", "route"} /\ covered[w] => deleted[w]

(* A client that IPBanned reports as banned is served no data              *)
(* (HTTPServer.cpp:213).  The code does not keep it when it serves files.  *)
BannedServedNoData == \A w \in Workers : pc[w] = "file" => ~banned[w]

(* A client is refused only if, at some moment since the search of         *)
(* IPBanned, an element for its own address was active; the flag is read   *)
(* without the mutex, and what is read must not come from another client's *)
(* ban.  The exception is again the element that was deleted.              *)
RefusedOnlyIfBanned ==
  [][\A w \in Workers :
       pc[w] = "read" /\ pc'[w] \in {"idle", "file"} => offended[w] \/ deleted[w]]_vars

(* With a limit that is set once and never changed, a connection ban is    *)
(* active exactly while the address has as many connections as the limit:  *)
(* AddConnection, which sets the flag, and Update, which clears it, agree. *)
(* (They need not after a change of the limit, nor once it is set to 0.)   *)
BanMatchesCount ==
  \A max \in Limits : Limits = {max} /\ max # 0 =>
    \A n \in connect_ban_list :
      node[n].is_active <=> node[n].total_connections >= max

-----------------------------------------------------------------------------
(***************************************************************************)
(* The table of bans that the lists of elements stand for.                 *)
(***************************************************************************)
PermanentBans(ip) == Cardinality(Matches(permanent_ban_list, ip))

(* The count of the element of an address; there is at most one.           *)
ConnectionCount(ip) ==
  IF Matches(connect_ban_list, ip) = {}
    THEN 0
    ELSE node[CHOOSE n \in Matches(connect_ban_list, ip) : TRUE].total_connections

ConnectionBans == {ip \in IPs : \E n \in Matches(connect_ban_list, ip) : node[n].is_active}

Table == INSTANCE BanTable WITH
  permanent <- [ip \in IPs |-> PermanentBans(ip)],
  tracked   <- AddressesOf(connect_ban_list, node),
  total     <- [ip \in IPs |-> ConnectionCount(ip)],
  active    <- ConnectionBans,
  limit     <- max_connections_per_ip,
  present   <- ban_list_file.present,
  saved     <- ban_list_file.ips

(* The ban manager implements the table, however its workers, updates and  *)
(* commands interleave: its lists and the mutex it fails to release are    *)
(* details that change no count and no ban.                                *)
TableKept == Table!Spec
=============================================================================
