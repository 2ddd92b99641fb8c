------------------------------- MODULE MapJob -------------------------------
(***************************************************************************)
(* What the player is promised about the download of a map: the game       *)
(* reconnects to the server only with the map that was asked for           *)
(* installed, once for each time it was asked for, and gives up otherwise. *)
(***************************************************************************)
VARIABLE phase

Init == phase = "idle"

Ask       == phase = "idle" /\ phase' = "asked"
Install   == phase = "asked" /\ phase' = "installed"
Reconnect == phase = "installed" /\ phase' = "reconnected"
End       == phase # "idle" /\ phase' = "idle"

Next == Ask \/ Install \/ Reconnect \/ End

Spec == Init /\ [][Next]_phase
=============================================================================
