---------------------------- MODULE MCDeviceRuns ----------------------------
(* Values for the configuration of the mobile lane.  No definition names a     *)
(* chat or a server, and neither set is ordered.                               *)
EXTENDS DeviceRuns, TLC

Symm == {f @@ g : f \in Permutations(Servers), g \in Permutations(Chats)}
=============================================================================
