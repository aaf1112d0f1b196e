----------------------------- MODULE MCRFEvents -----------------------------
(* A chassis controller cmm with a slot, and in the slot a node card's     *)
(* controller bmc with the nodes n0 and n1.                                *)
EXTENDS RFEvents

CONSTANTS cmm, slot, bmc, n0, n1, u0, u1, u2
AllRows == {cmm, slot, bmc, n0, n1}
SomeRows == {cmm, slot, bmc, n0}
NodeRows == {bmc, n0, n1}
Controllers == [x \in Cep |-> IF x \in {cmm, slot} THEN cmm ELSE bmc]
Uris == [x \in Cep |-> CASE x \in {cmm, bmc} -> u0 [] x \in {slot, n0} -> u1 [] OTHER -> u2]
Types == [x \in Cep |-> CASE x \in {n0, n1} -> "node" [] x = slot -> "module" [] OTHER -> "card"]
Inside == [x \in {slot} \cap Cep |-> <<bmc>>]
Cray == [e \in Endpoint |-> "resource"]
Gigabyte == [e \in Endpoint |-> IF e = cmm THEN "resource" ELSE "alert"]
Foxconn == [e \in Endpoint |-> "foxconn"]
First == [e \in Endpoint |-> n0]
=============================================================================
