---------------------------- MODULE MCStatePolling ----------------------------
EXTENDS StatePolling

(* A node loses its heartbeat and gets it back. *)
HeartbeatUpdates == {<<"Standby", "Alert">>, <<"Ready", "OK">>}
===============================================================================
