------------------------------ MODULE BanTable ------------------------------
(***************************************************************************)
(* What the ban manager promises the admin, address by address, whatever   *)
(* lists, elements and mutex it keeps its bans with: an address has one    *)
(* count of connections, which only its own connections raise and only     *)
(* time lowers; a connection ban begins with a connection of that address  *)
(* that reaches the limit, and ends when the count has fallen below the    *)
(* limit or the address is forgotten; permanent bans come and go by the    *)
(* admin's commands only, and what is saved of them is banned.             *)
(*                                                                         *)
(* The promise is weaker than one would like in four places.  A ban of an  *)
(* address that is barred already, if only for its connections, is not     *)
(* recorded.  Not all bans need be saved, and what is loaded are as many   *)
(* bans as were saved, or fewer, but not always of the same addresses.  An *)
(* address may get several permanent bans from the file, and then each has *)
(* to be removed.  And a ban whose count is zero, which a change of the    *)
(* limit can leave behind, stays until the address is forgotten.           *)
(***************************************************************************)
EXTENDS Naturals, FiniteSets

CONSTANTS
  IPs,      \* client addresses
  MaxTotal  \* the counts saturate here

VARIABLES
  permanent,  \* per address: how many permanent bans it has
  tracked,    \* the addresses whose connections are remembered
  total,      \* per address: its count of connections, 0 if not tracked
  active,     \* the addresses with an active connection ban
  limit,      \* max_connections_per_ip
  present,    \* there is a ban list file
  saved       \* the addresses in it

fileVars == <<present, saved>>
vars == <<permanent, tracked, total, active, limit, fileVars>>

Barred(ip) == permanent[ip] > 0 \/ ip \in active

Init ==
  /\ permanent = [ip \in IPs |-> 0]
  /\ tracked = {}
  /\ total = [ip \in IPs |-> 0]
  /\ active = {}
  /\ limit = 0
  /\ present \in BOOLEAN
  /\ saved \subseteq IPs

Connect(ip) ==
  /\ tracked' = tracked \union {ip}
  /\ total' = [total EXCEPT ![ip] = IF @ < MaxTotal THEN @ + 1 ELSE MaxTotal]
  /\ active' = IF total'[ip] >= limit THEN active \union {ip} ELSE active
  /\ UNCHANGED <<permanent, limit, fileVars>>

(* Time passes: some addresses are forgotten, and some others have one     *)
(* connection fewer.                                                       *)
Elapse ==
  \E forgotten, cooled \in SUBSET tracked :
    /\ \A ip \in cooled : total[ip] > 0
    /\ tracked' = tracked \ forgotten
    /\ total' = [ip \in IPs |-> CASE ip \in forgotten -> 0
                                  [] ip \in cooled \ forgotten -> total[ip] - 1
                                  [] OTHER -> total[ip]]
    /\ active' = {ip \in active \ forgotten : total[ip] = 0 \/ total'[ip] >= limit}
    /\ UNCHANGED <<permanent, limit, fileVars>>

SetLimit ==
  /\ limit' \in Nat
  /\ UNCHANGED <<permanent, tracked, total, active, fileVars>>

(* The bans are saved; that may fail, or fail half way.                    *)
Save ==
  \/ UNCHANGED fileVars
  \/ present' = FALSE /\ saved' = {}
  \/ present' = TRUE /\ saved' \subseteq {ip \in IPs : permanent'[ip] > 0}

Ban(ip) ==
  /\ ~Barred(ip)
  /\ permanent' = [permanent EXCEPT ![ip] = @ + 1]
  /\ Save
  /\ UNCHANGED <<tracked, total, active, limit>>

Unban(ip) ==
  /\ permanent[ip] > 0
  /\ permanent' = [permanent EXCEPT ![ip] = @ - 1]
  /\ Save
  /\ UNCHANGED <<tracked, total, active, limit>>

Load ==
  /\ present
  /\ permanent' \in [IPs -> Nat]
  /\ Cardinality({ip \in IPs : permanent'[ip] > 0}) <= Cardinality(saved)
  /\ UNCHANGED <<tracked, total, active, limit, fileVars>>

Next ==
  \/ SetLimit
  \/ Load
  \/ \E ip \in IPs : Connect(ip) \/ Ban(ip) \/ Unban(ip)
  \/ Elapse

Spec == Init /\ [][Next]_vars
=============================================================================
