---------------------------- MODULE DownloadGate ----------------------------
(***************************************************************************)
(* What StopMapServer and the request callback promise each other about    *)
(* the definitions: a gate.  A request is admitted while the gate is open, *)
(* goes inside some time later, and leaves.  To stop, the gate is closed,  *)
(* and the definitions are cleared once nobody is inside.                  *)
(*                                                                         *)
(* The promise has the two gaps of the code.  A request that was admitted  *)
(* and is not inside yet is not waited for and may go in during the        *)
(* clearing.  And whether somebody is inside is known from a count; once   *)
(* the count is wrong nothing is promised.                                 *)
(***************************************************************************)
CONSTANT Workers

VARIABLES
  open,      \* requests are admitted
  stage,     \* of the stop: "waiting", "clearing", or "idle" outside of it
  admitted,  \* who has been admitted and is not inside yet
  inside,    \* who may use the definitions
  sound      \* the count is right so far

vars == <<open, stage, admitted, inside, sound>>

Init ==
  /\ open = FALSE
  /\ stage = "idle"
  /\ admitted = {}
  /\ inside = {}
  /\ sound = TRUE

Admit(w) ==
  /\ open
  /\ w \notin inside
  /\ admitted' = admitted \union {w}
  /\ UNCHANGED <<open, stage, inside>>

Enter(w) ==
  /\ w \in admitted
  /\ admitted' = admitted \ {w}
  /\ inside' = inside \union {w}
  /\ UNCHANGED <<open, stage>>

Leave(w) ==
  /\ inside' = inside \ {w}
  /\ UNCHANGED <<open, stage, admitted>>

Close ==
  /\ open /\ stage = "idle"
  /\ open' = FALSE
  /\ stage' = "waiting"
  /\ UNCHANGED <<admitted, inside>>

(* The wait is over when nobody is inside.                                 *)
Clear ==
  /\ stage = "waiting" /\ inside = {}
  /\ stage' = "clearing"
  /\ UNCHANGED <<open, admitted, inside>>

Cleared ==
  /\ stage = "clearing"
  /\ stage' = "idle"
  /\ UNCHANGED <<open, admitted, inside>>

Open ==
  /\ ~open /\ stage = "idle"
  /\ open' = TRUE
  /\ UNCHANGED <<stage, admitted, inside>>

Passage ==
  \/ \E w \in Workers : Admit(w) \/ Enter(w) \/ Leave(w)
  \/ Close
  \/ Clear
  \/ Cleared
  \/ Open

Next == ~sound' \/ (sound /\ sound' /\ Passage)

Spec == Init /\ [][Next]_vars
=============================================================================
