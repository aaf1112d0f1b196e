----------------------------- MODULE MCCompState -----------------------------
EXTENDS CompState

CONSTANTS c1, c2

LOCAL Base(op, ids) ==
  [op |-> op, ids |-> ids, state |-> "Empty", flag |-> "OK", enabled |-> TRUE,
   force |-> FALSE, bogus |-> FALSE, other |-> FALSE]

LOCAL State(ids, s, f) == [Base("state", ids) EXCEPT !.state = s, !.flag = f]

(* A node is switched off, HBTD finds heartbeats late, an administrator    *)
(* flags and disables nodes, an endpoint is removed, and components are    *)
(* posted and deleted.  Updates of one and of two components ask for a     *)
(* state that needs force, and one for a state that is none.               *)
AllRequests ==
  {State({c1}, "Off", "OK"),
   State({c1}, "Empty", "OK"),
   State({c1, c2}, "Empty", "OK"),
   [State({c1, c2}, "On", "OK") EXCEPT !.bogus = TRUE, !.force = TRUE],
   State({c1, c2}, "Ready", "Warning"),
   [State({c1, c2}, "Ready", "OK") EXCEPT !.force = TRUE],
   [Base("flag", {c1}) EXCEPT !.flag = "Locked"],
   [Base("flag", {c1, c2}) EXCEPT !.flag = "OK"],
   [Base("enabled", {c1, c2}) EXCEPT !.enabled = FALSE],
   Base("children", {c1, c2}),
   [Base("upsert", {c1}) EXCEPT !.state = "On", !.force = TRUE, !.other = TRUE],
   [Base("upsert", {c1, c2}) EXCEPT !.state = "On"],
   Base("delete", {c1})}

(* HBTD finds the heartbeats of two nodes late while one is switched off. *)
LateHeartbeat ==
  {State({c1, c2}, "Ready", "OK"),
   State({c1}, "Off", "OK"),
   State({c1, c2}, "Ready", "Warning")}

(* Bulk updates to a state that only HSM sets. *)
BulkToEmpty == {State({c1, c2}, "Empty", "OK"), State({c1}, "Off", "OK")}
===============================================================================
