---------------------------- MODULE MCDiscovery ----------------------------
EXTENDS Discovery

(* Endpoints are registered to be discovered. *)
SomeSettings == {[enabled |-> TRUE, redisc |-> TRUE]}

(* Disabled, with the other field left alone. *)
SomePatches == {[enabled |-> {FALSE}, redisc |-> {}]}
=============================================================================
