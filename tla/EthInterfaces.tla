--------------------------- MODULE EthInterfaces ---------------------------
(* Component Ethernet interfaces: which component a MAC address belongs to,   *)
(* and the IP addresses it has been given.  The addresses of an interface are *)
(* one JSON column: requests about a single address read the list without     *)
(* locking the row and write it back as a whole.  Discovery inserts the       *)
(* interfaces it finds, or tells those that exist whose they are.             *)
EXTENDS Naturals, FiniteSets

CONSTANTS Client,       \* goroutines that serve requests
          Mac, Ip, Network, Component,
          NoRow,        \* there is no such interface
          Keep,         \* a field that a patch leaves out
          IpPatches,    \* bound: networks a patch of an address may give; Keep: none
          MaxCalls      \* bound: requests

ASSUME PatchesGiveNetworks == IpPatches \subseteq Network \cup {Keep}
ASSUME CallsAreNatural == MaxCalls \in Nat

\* A list of IPAddressMapping, as a set; what is posted names no address twice.
Mapping == [ip : Ip, network : Network]
Lists   == {S \in SUBSET Mapping : \A x, y \in S : x.ip = y.ip => x = y}
Row     == [comp : Component, ips : Lists]

VARIABLES
  cei,      \* comp_eth_interfaces by MAC
  step,     \* next step of each client
  task,     \* its request
  seen,     \* the row it has read
  calls

cvars == <<cei, step, task, seen, calls>>

Add(m, x)       == [op |-> "add", mac |-> m, map |-> x]
Withdraw(m, i)    == [op |-> "remove", mac |-> m, ip |-> i]
Rename(m, i, w) == [op |-> "rename", mac |-> m, ip |-> i, network |-> w]
Patch(m, S, c)  == [op |-> "patch", mac |-> m, ips |-> S, comp |-> c]
Idle == [op |-> "none"]

Task == {Add(m, x) : m \in Mac, x \in Mapping}
  \cup {Withdraw(m, i) : m \in Mac, i \in Ip}
  \cup {Rename(m, i, w) : m \in Mac, i \in Ip, w \in IpPatches}
  \cup {Patch(m, S, c) : m \in Mac, S \in Lists \cup {Keep}, c \in Component \cup {Keep}}

CeiTypeOK ==
  /\ cei \in [Mac -> Row \cup {NoRow}]
  /\ step \in [Client -> {"idle", "write"}]
  /\ task \in [Client -> Task \cup {Idle}]
  /\ seen \in [Client -> Row \cup {NoRow}]
  /\ calls \in 0..MaxCalls

CeiInit ==
  /\ cei = [m \in Mac |-> NoRow]
  /\ step = [h \in Client |-> "idle"]
  /\ task = [h \in Client |-> Idle] /\ seen = [h \in Client |-> NoRow]
  /\ calls = 0

-----------------------------------------------------------------------------
Call(h) == step[h] = "idle" /\ calls < MaxCalls /\ calls' = calls + 1

Inserted(m, row) == [cei EXCEPT ![m] = row]

\* doCompEthInterfacePostV2, InsertCompEthInterface: refused if the MAC is there.
DoCompEthInterfacePostV2(h) ==
  /\ Call(h)
  /\ \E m \in Mac, row \in Row :
       /\ cei[m] = NoRow
       /\ cei' = Inserted(m, row)
  /\ UNCHANGED <<step, task, seen>>

\* InsertCompEthInterfacesCompInfo, the last statement of a discovery: of rows that are
\* there only the component (and its type) is overwritten.
ClaimedWithIps(row, new) == new
Claimed(row, new) == IF row = NoRow THEN new ELSE [row EXCEPT !.comp = new.comp]

InsertCompEthInterfacesCompInfo(h) ==
  /\ Call(h)
  /\ \E M \in (SUBSET Mac) \ {{}}, c \in Component, S \in Lists :
       /\ Cardinality(S) <= 1
       /\ cei' = [m \in Mac |-> IF m \in M THEN Claimed(cei[m], [comp |-> c, ips |-> S])
                                ELSE cei[m]]
  /\ UNCHANGED <<step, task, seen>>

\* doCompEthInterfaceDelete, doCompEthInterfaceDeleteAll.
Delete(h, M) ==
  /\ Call(h) /\ M # {} /\ \A m \in M : cei[m] # NoRow
  /\ cei' = [m \in Mac |-> IF m \in M THEN NoRow ELSE cei[m]]
  /\ UNCHANGED <<step, task, seen>>

DoCompEthInterfaceDelete(h) == \E m \in Mac : Delete(h, {m})
DoCompEthInterfaceDeleteAll(h) == Delete(h, {m \in Mac : cei[m] # NoRow})

-----------------------------------------------------------------------------
(* Requests that read the row and write it back.                              *)

Ips(row) == IF row = NoRow THEN {} ELSE {x.ip : x \in row.ips}

\* The read of the row decides whether there is anything to write: an address that is
\* there already is not added, one that is not there is neither removed nor changed.
\* A patch of an address that gives no network looks for none.
ToWrite(t, row) ==
  CASE t.op = "add"    -> row # NoRow /\ t.map.ip \notin Ips(row)
    [] t.op = "remove" -> t.ip \in Ips(row)
    [] t.op = "rename" -> row # NoRow /\ (t.network # Keep => t.ip \in Ips(row))
    [] t.op = "patch"  -> row # NoRow

Begin(h, t) ==
  /\ Call(h)
  /\ ToWrite(t, cei[t.mac])
  /\ step' = [step EXCEPT ![h] = "write"]
  /\ task' = [task EXCEPT ![h] = t]
  /\ seen' = [seen EXCEPT ![h] = cei[t.mac]]
  /\ UNCHANGED cei

DoCompEthInterfaceIPAddressPostV2(h) == \E m \in Mac, x \in Mapping : Begin(h, Add(m, x))
DoCompEthInterfaceIPAddressDeleteV2(h) == \E m \in Mac, i \in Ip : Begin(h, Withdraw(m, i))
DoCompEthInterfaceIPAddressPatchV2(h) ==
  \E m \in Mac, i \in Ip, w \in IpPatches : Begin(h, Rename(m, i, w))
DoCompEthInterfacePatchV2(h) ==
  \E m \in Mac, S \in Lists \cup {Keep}, c \in Component \cup {Keep} :
    (S # Keep \/ c # Keep) /\ Begin(h, Patch(m, S, c))

\* AddCompEthInterfaceIPAddress, DeleteCompEthInterfaceIPAddress,
\* UpdateCompEthInterfaceIPAddress: the list to write, made from the one that was read.
\* Without a network the last of them starts from an empty list and adds nothing to it.
Added(t, row)   == row.ips \cup {t.map}
AlmostAll(t, row) == {x \in row.ips : x.ip # t.ip}
Renamed(t, row) ==
  IF t.network = Keep THEN {}
  ELSE {IF x.ip = t.ip THEN [x EXCEPT !.network = t.network] ELSE x : x \in row.ips}

NewList(t, row) ==
  CASE t.op = "add"    -> Added(t, row)
    [] t.op = "remove" -> AlmostAll(t, row)
    [] t.op = "rename" -> Renamed(t, row)
    [] t.op = "patch"  -> t.ips

\* UpdateCompEthInterfaceTx writes the columns the request names.
Updated(t, was, row) ==
  [comp |-> IF t.op = "patch" /\ t.comp # Keep THEN t.comp ELSE row.comp,
   ips  |-> IF NewList(t, was) = Keep THEN row.ips ELSE NewList(t, was)]

\* The update finds no row if it has been deleted, and creates none.
UpdateCompEthInterface(h) ==
  LET t == task[h]
  IN /\ step[h] = "write"
     /\ cei' = IF cei[t.mac] = NoRow THEN cei
               ELSE [cei EXCEPT ![t.mac] = Updated(t, seen[h], @)]
     /\ step' = [step EXCEPT ![h] = "idle"]
     /\ task' = [task EXCEPT ![h] = Idle] /\ seen' = [seen EXCEPT ![h] = NoRow]
     /\ UNCHANGED calls

CeiNext == \E h \in Client :
  \/ DoCompEthInterfacePostV2(h) \/ InsertCompEthInterfacesCompInfo(h)
  \/ DoCompEthInterfaceDelete(h) \/ DoCompEthInterfaceDeleteAll(h)
  \/ DoCompEthInterfaceIPAddressPostV2(h) \/ DoCompEthInterfaceIPAddressDeleteV2(h)
  \/ DoCompEthInterfaceIPAddressPatchV2(h) \/ DoCompEthInterfacePatchV2(h)
  \/ UpdateCompEthInterface(h)

-----------------------------------------------------------------------------
Writes(h, m) == step[h] = "write" /\ step'[h] = "idle" /\ task[h].mac = m

\* Two requests about one interface may each have read it before the other wrote it.
\* Even so an interface that stays loses an address only to a request that removes it or
\* replaces the list, or that had not seen the address; and gains one only from a request
\* that adds it or replaces the list, or that had seen it before it was removed.
\* Discoveries, which have not read the table, patches of other fields and requests
\* about other addresses must not touch it.  A patch that gives no network is the
\* exception which PatchKeepsAddresses is about.
AddressesKept == [][\A m \in Mac, i \in Ip : cei[m] # NoRow /\ cei'[m] # NoRow =>
  /\ i \in Ips(cei[m]) \ Ips(cei'[m]) =>
       \E h \in Client :
         /\ Writes(h, m)
         /\ \/ task[h] = Withdraw(m, i)
            \/ task[h].op = "patch" /\ task[h].ips # Keep
            \/ task[h].op = "rename" /\ task[h].network = Keep
            \/ i \notin Ips(seen[h])
  /\ i \in Ips(cei'[m]) \ Ips(cei[m]) =>
       \E h \in Client :
         /\ Writes(h, m)
         /\ \/ task[h].op = "add" /\ task[h].map.ip = i
            \/ task[h].op = "patch" /\ task[h].ips # Keep
            \/ i \in Ips(seen[h])]_cvars

\* A request that gives an address a new network, or none, writes the addresses that it
\* has read ("Update the JSON Blob only if the Network field is provided").
PatchKeepsAddresses == [][\A h \in Client, m \in Mac :
  Writes(h, m) /\ task[h].op = "rename" /\ cei[m] # NoRow =>
    Ips(cei'[m]) = Ips(seen[h])]_cvars
=============================================================================
