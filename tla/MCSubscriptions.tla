--------------------------- MODULE MCSubscriptions ---------------------------
EXTENDS Subscriptions

LOCAL Nothing == [k \in TriggerKind |-> [v \in Value |-> 0]]

(* Two subscribers behind one URL, one of which repeats a state, and one   *)
(* that subscribes to roles and to Enabled.                                *)
Posts ==
  {[subscriber |-> "hbtd", url |-> "u1", enabled |-> "nil",
    lists |-> [Nothing EXCEPT !["state"]["a"] = 1]],
   [subscriber |-> "capmc", url |-> "u1", enabled |-> "no",
    lists |-> [Nothing EXCEPT !["state"]["a"] = 2]],
   [subscriber |-> "capmc", url |-> "u2", enabled |-> "yes",
    lists |-> [Nothing EXCEPT !["role"]["a"] = 1]]}

AllPatches ==
  {[op |-> "add", enabled |-> "yes", lists |-> [Nothing EXCEPT !["state"]["a"] = 1]],
   [op |-> "remove", enabled |-> "yes", lists |-> [Nothing EXCEPT !["state"]["a"] = 1]],
   [op |-> "replace", enabled |-> "nil", lists |-> [Nothing EXCEPT !["role"]["a"] = 1]]}

(* The value to remove is given twice. *)
RepeatedRemove ==
  {[op |-> "remove", enabled |-> "nil", lists |-> [Nothing EXCEPT !["state"]["a"] = 2]]}

StateChange == {[[k \in TriggerKind |-> ""] EXCEPT !["state"] = "a"]}
===============================================================================
