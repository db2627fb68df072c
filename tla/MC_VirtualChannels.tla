------------------------- MODULE MC_VirtualChannels -------------------------
(* Small instances of VirtualChannels for TLC.                             *)
EXTENDS VirtualChannels

(* The program ends with the main thread; detached plugin threads with it. *)
Ended == mpc = "done" /\ UNCHANGED vars

MCSpec == Init /\ [][Next \/ Ended]_vars

MCFairSpec == MCSpec /\ Fairness
=============================================================================
