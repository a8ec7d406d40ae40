--------------------------- MODULE MCServerProcess ---------------------------
(***************************************************************************)
(* ServerProcess for TLC: the configuration names the calls and the bounds. *)
(***************************************************************************)
EXTENDS ServerProcess
===============================================================================
