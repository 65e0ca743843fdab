----------------------------- MODULE MCHeartbeat -----------------------------
(***************************************************************************)
(* One unit of time is ten seconds; the interval is shortened to two, the  *)
(* least that tells the four cases of a heartbeat's age apart.             *)
(***************************************************************************)
EXTENDS Heartbeat
=============================================================================
