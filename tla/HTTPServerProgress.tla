------------------------ MODULE HTTPServerProgress -------------------------
(***************************************************************************)
(* What the HTTP server and its ban lists must eventually do, under the    *)
(* fairness of module HTTPServer.                                          *)
(***************************************************************************)
EXTENDS HTTPServer

GameLeavesMutex == [](mutex_owner # Game)

(* As long as the game thread does not leave AddPermanentBan with the      *)
(* mutex, every request is answered: no worker ever keeps the mutex from   *)
(* the others.                                                             *)
RequestsAnswered ==
  GameLeavesMutex => \A w \in Workers : pc[w] = "search" ~> pc[w] = "idle"

(* Under the same condition mg_stop returns to the game thread.            *)
StopCompletes == GameLeavesMutex => (context = "stopping" ~> context = "stopped")

(* Without the condition.  The code does not keep it.                      *)
StopAlwaysCompletes == context = "stopping" ~> context = "stopped"

ConnectionBanned(ip) == \E n \in Matches(connect_ban_list, ip) : node[n].is_active

(* The admin leaves the permanent bans alone from some moment on.          *)
AdminRests == <>[][UNCHANGED permanent_ban_list]_vars

(* A connection ban ends by itself once the admin leaves the permanent     *)
(* bans alone: a banned address makes no connections, so it cools down or  *)
(* is forgotten, unless the server exits.  (With the admin adding and      *)
(* removing permanent bans for ever, IPBanned can again and again answer   *)
(* for a deleted element, let the address in and so renew its ban.)        *)
BanExpires ==
  GameLeavesMutex /\ AdminRests =>
    \A ip \in IPs : ConnectionBanned(ip) ~> (~ConnectionBanned(ip) \/ exiting)
=============================================================================
