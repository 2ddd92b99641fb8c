---------------------------- MODULE RequestSlots ----------------------------
(***************************************************************************)
(* What the HTTP client promises its users, whatever the GHTTP library     *)
(* and the threads do: a slot is handed out when nobody has it, its        *)
(* request is answered at most once, to the user the slot was taken for,   *)
(* and never after the slot has been given back.                           *)
(*                                                                         *)
(* The promise is weaker than one would like in one place: giving a slot   *)
(* back may cancel the request of another user, because the client keeps   *)
(* the identifier of a request after the request has ended and GHTTP uses  *)
(* identifiers again.                                                      *)
(***************************************************************************)
CONSTANTS
  Slots,
  Users,
  NoUser

VARIABLES
  taken,   \* the slots that are handed out
  open,    \* those among them whose request is not answered
  user     \* per slot: who its answer goes to, while it is open

vars == <<taken, open, user>>

Init ==
  /\ taken = {}
  /\ open = {}
  /\ user = [s \in Slots |-> NoUser]

Take(s, u) ==
  /\ s \notin taken
  /\ taken' = taken \union {s}
  /\ open' = open \union {s}
  /\ user' = [user EXCEPT ![s] = u]

Answer(s) ==
  /\ s \in open
  /\ open' = open \ {s}
  /\ user' = [user EXCEPT ![s] = NoUser]
  /\ UNCHANGED taken

GiveBack(s) ==
  /\ s \in taken
  /\ taken' = taken \ {s}
  /\ open' = open \ {s}
  /\ user' = [user EXCEPT ![s] = NoUser]

GiveBackAndCancel(s, other) ==
  /\ s \in taken \ open
  /\ other \in open
  /\ taken' = taken \ {s}
  /\ open' = open \ {other}
  /\ user' = [user EXCEPT ![other] = NoUser]

Next ==
  \E s \in Slots :
    \/ \E u \in Users : Take(s, u)
    \/ Answer(s)
    \/ GiveBack(s)
    \/ \E other \in Slots \ {s} : GiveBackAndCancel(s, other)

Spec == Init /\ [][Next]_vars
=============================================================================
