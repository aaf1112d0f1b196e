---------------------------- MODULE MCInventory ----------------------------
(* One run for the hardware inventory and for the Ethernet interfaces: they   *)
(* share no row, so each behaviour is about one of them.                      *)
EXTENDS Inventory, EthInterfaces

CONSTANTS p1, n1
BelowN1 == [p \in {p1} |-> n1]

VARIABLE focus

mcvars == <<hwvars, cvars, focus>>

Init == HwInit /\ CeiInit /\ focus \in {"hardware", "interfaces"}
Next == \/ focus = "hardware" /\ HwNext /\ UNCHANGED <<cvars, focus>>
        \/ focus = "interfaces" /\ CeiNext /\ UNCHANGED <<hwvars, focus>>
Spec == Init /\ [][Next]_mcvars
TypeOK == HwTypeOK /\ CeiTypeOK
=============================================================================
