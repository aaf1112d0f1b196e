-------------------------- MODULE InventoryProofs ---------------------------
(* Proofs about Inventory and EthInterfaces, for any handlers, locations,     *)
(* FRUs, addresses and bounds: the types; that the history tells what the     *)
(* inventory holds where requests did not overlap, and does not grow with the *)
(* scans; that the addresses of an interface are only lost to requests that   *)
(* remove them or that overlapped with another.  Then proofs about the        *)
(* queries, for any tables and requests: that the builders find the rows      *)
(* which the filters mean.                                                    *)
EXTENDS MCInventory, InventoryQueries, FiniteSetTheorems, SequenceTheorems, WellFoundedInduction, TLAPS

(* ---------------------------- Numbers and sets ---------------------------- *)

(* Each set of numbers has a least one. *)
LEMMA LeastNumber ==
  ASSUME NEW T \in SUBSET Nat, T # {}
  PROVE  \E x \in T : \A y \in T : x <= y
  <1> DEFINE R == {ss \in Nat \X Nat : ss[1] < ss[2]}
  <1>1. IsWellFoundedOn(R, Nat)
    BY NatLessThanWellFounded DEF OpToRel
  <1>2. PICK x \in T : \A y \in T : ~(<<y, x>> \in R)
    <2> HIDE DEF R
    <2> QED  BY <1>1, WFMin
  <1>3. ASSUME NEW y \in T PROVE x <= y
    <2>1. x \in Nat /\ y \in Nat
      OBVIOUS
    <2>2. <<y, x>> \notin R
      BY <1>2
    <2>3. ~(y < x)
      BY <2>1, <2>2
    <2> QED  BY <2>1, <2>3
  <1> QED  BY <1>3

(* A finite set of positive numbers has a j-th one, for each j up to its size. *)
LEMMA NthExists ==
  ASSUME NEW n \in Nat, NEW K \in SUBSET (1..n), NEW j \in 1..Cardinality(K)
  PROVE  Nth(K, j) \in K
  <1> DEFINE Below(i) == {k \in K : k <= i}
             T == {i \in Nat : Cardinality(Below(i)) >= j}
  <1>1. IsFiniteSet(K) /\ Cardinality(K) \in Nat
    <2>1. IsFiniteSet(1..n)
      BY FS_Interval
    <2> QED  BY <2>1, FS_Subset, FS_CardinalityType
  <1>2. j \in Nat /\ 0 < j /\ j <= Cardinality(K)
    BY <1>1
  <1>3. \A k \in K : k \in Nat /\ 0 < k /\ k <= n
    OBVIOUS
  <1>4. Below(0) = {} /\ Below(n) = K
    <2>1. \A k \in K : k <= n /\ ~(k <= 0)
      BY <1>3
    <2>2. Below(0) = {}
      BY <2>1
    <2>3. Below(n) = K
      BY <2>1
    <2> QED  BY <2>2, <2>3
  <1>5. ASSUME NEW i \in Nat
        PROVE  /\ IsFiniteSet(Below(i)) /\ Cardinality(Below(i)) \in Nat
               /\ i # 0 =>
                    /\ i \notin K => Below(i) = Below(i - 1)
                    /\ i \in K => Cardinality(Below(i)) = Cardinality(Below(i - 1)) + 1
    <2>1. Below(i) \in SUBSET K /\ Below(i - 1) \in SUBSET K
      OBVIOUS
    <2>2. i # 0 /\ i \notin K => Below(i) = Below(i - 1)
      <3>1. \A k \in K : i # 0 /\ i \notin K => (k <= i <=> k <= i - 1)
        BY <1>3
      <3> QED  BY <3>1
    <2>3. i # 0 /\ i \in K => Below(i) = Below(i - 1) \cup {i} /\ i \notin Below(i - 1)
      <3>1. \A k \in K : i # 0 => (k <= i <=> k <= i - 1 \/ k = i)
        BY <1>3
      <3>2. ~(i <= i - 1)
        OBVIOUS
      <3> QED  BY <3>1, <3>2
    <2> HIDE DEF Below
    <2>4. IsFiniteSet(Below(i)) /\ IsFiniteSet(Below(i - 1))
      BY <1>1, <2>1, FS_Subset
    <2>5. Cardinality(Below(i)) \in Nat /\ Cardinality(Below(i - 1)) \in Nat
      BY <2>4, FS_CardinalityType
    <2>6. i # 0 /\ i \in K => Cardinality(Below(i)) = Cardinality(Below(i - 1)) + 1
      BY <2>3, <2>4, FS_AddElement
    <2> QED  BY <2>2, <2>4, <2>5, <2>6
  <1> HIDE DEF Below
  <1>6. n \in T
    BY <1>2, <1>4, <1>1
  <1>7. PICK i \in T : \A k \in T : i <= k
    BY <1>6, LeastNumber
  <1>8. i \in Nat /\ Cardinality(Below(i)) \in Nat /\ Cardinality(Below(i)) >= j
    BY <1>5
  <1>9. i # 0
    BY <1>2, <1>4, <1>8, FS_EmptySet
  <1>10. i - 1 \in Nat
    BY <1>8, <1>9
  <1>11. i - 1 \notin T
    BY <1>7, <1>8, <1>10
  <1>12. Cardinality(Below(i - 1)) \in Nat /\ ~(Cardinality(Below(i - 1)) >= j)
    BY <1>5, <1>10, <1>11
  <1>13. i \in K
    BY <1>5, <1>8, <1>9, <1>12
  <1>14. Cardinality(Below(i)) = Cardinality(Below(i - 1)) + 1
    BY <1>5, <1>8, <1>9, <1>13
  <1>15. Cardinality(Below(i)) = j
    BY <1>2, <1>8, <1>12, <1>14
  <1> QED  BY <1>13, <1>15 DEF Nth, Below

(* What is left of a sequence of events is one. *)
LEMMA WithoutType ==
  ASSUME NEW s \in Seq(Event), NEW F
  PROVE  Without(s, F) \in Seq(Event)
  <1> DEFINE K == {i \in DOMAIN s : s[i].fru \notin F}
  <1>1. Len(s) \in Nat /\ DOMAIN s = 1..Len(s)
    OBVIOUS
  <1>2. K \in SUBSET (1..Len(s))
    BY <1>1
  <1>3. Cardinality(K) \in Nat
    <2>1. IsFiniteSet(1..Len(s))
      BY <1>1, FS_Interval
    <2> HIDE DEF K
    <2> QED  BY <1>2, <2>1, FS_Subset, FS_CardinalityType
  <1>4. \A j \in 1..Cardinality(K) : s[Nth(K, j)] \in Event
    <2> TAKE j \in 1..Cardinality(K)
    <2>1. Nth(K, j) \in K
      <3> HIDE DEF K
      <3> QED  BY <1>1, <1>2, NthExists
    <2> QED  BY <2>1, <1>1
  <1>5. Without(s, F) = [j \in 1..Cardinality(K) |-> s[Nth(K, j)]]
    BY DEF Without
  <1> HIDE DEF K
  <1>6. [j \in 1..Cardinality(K) |-> s[Nth(K, j)]] \in [1..Cardinality(K) -> Event]
    BY <1>4
  <1> QED  BY <1>3, <1>5, <1>6

(* ------------------------------ The hardware ------------------------------ *)

Busy(h)    == pc[h] \in {"readLast", "insertHist"}
Agrees(l)  == /\ locs[l] \in Fru  => hist[l] # <<>> /\ Last(hist[l]) = Detected(locs[l])
              /\ locs[l] = Absent => hist[l] = <<>> \/ Last(hist[l]).type = "Removed"
Mine(h)    == DOMAIN work[h] \ shared[h]   \* nobody else has touched these

\* Of two handlers at one location each knows that it is not alone.
Overlaps == \A g, h \in Handler, l \in Loc :
  g # h /\ Open(g, l) /\ Open(h, l) => l \in shared[h]
\* The history of a location lags behind as long as it has to be written.
Lagging == \A h \in Handler : Busy(h) => DOMAIN work[h] \subseteq mixed
\* What a handler stored alone is still there,
Stored == \A h \in Handler : Busy(h) => \A l \in Mine(h) : locs[l] = work[h][l]
\* and the last event it has read is still the last one.
Known == \A h \in Handler : pc[h] = "insertHist" =>
  \A l \in Mine(h) : work[h][l] # Vacant =>
    /\ l \in DOMAIN last[h] <=> hist[l] # <<>>
    /\ l \in DOMAIN last[h] => last[h][l] = Last(hist[l])
Agreed == \A l \in Loc \ mixed : Agrees(l)

Told == Overlaps /\ Lagging /\ Stored /\ Known /\ Agreed

LEMMA WorkType ==
  ASSUME HwTypeOK, NEW h \in Handler
  PROVE  /\ DOMAIN work[h] \subseteq Loc
         /\ \A l \in DOMAIN work[h] : work[h][l] \in Fru \cup {Vacant}
         /\ DOMAIN last[h] \subseteq Loc /\ shared[h] \subseteq Loc
  <1>1. work[h] \in Hardware \cup {Nothing}
    BY DEF HwTypeOK
  <1>2. last[h] \in UNION {[D -> Event] : D \in SUBSET Loc} /\ shared[h] \subseteq Loc
    BY DEF HwTypeOK
  <1>3. DOMAIN Nothing = {}
    BY DEF Nothing
  <1> QED  BY <1>1, <1>2, <1>3 DEF Hardware

LEMMA HardwareType ==
  ASSUME NEW new \in Hardware
  PROVE  /\ DOMAIN new \subseteq Loc
         /\ \A l \in DOMAIN new : new[l] \in Fru \cup {Vacant}
  BY DEF Hardware

(* The last of a sequence of events, and what stands behind an appended one. *)
LEMMA LastOf ==
  ASSUME NEW s \in Seq(Event), s # <<>>
  PROVE  Last(s) \in Event
  BY DEF Last

LEMMA LastAppended ==
  ASSUME NEW s \in Seq(Event), NEW e \in Event
  PROVE  /\ Append(s, e) \in Seq(Event) /\ Append(s, e) # <<>> /\ Last(Append(s, e)) = e
         /\ s \o <<e>> = Append(s, e) /\ s \o <<>> = s
  <1>1. Append(s, e) \in Seq(Event) /\ Len(Append(s, e)) = Len(s) + 1
        /\ Append(s, e)[Len(s) + 1] = e /\ Append(s, e) # <<>>
    BY AppendProperties
  <1>2. s \o <<e>> = Append(s, e)
    BY AppendIsConcat
  <1>3. s \o <<>> = s
    BY ConcatEmptySeq
  <1> QED  BY <1>1, <1>2, <1>3 DEF Last

LEMMA EventType ==
  ASSUME NEW f \in Fru
  PROVE  /\ Detected(f) \in Event /\ Removed(f) \in Event
         /\ Detected(f).type = "Detected" /\ Removed(f).type = "Removed"
  BY DEF Event, Detected, Removed

(* ------------------------------- Its types -------------------------------- *)

(* The rows of a request or a discovery keep the tables' types, and what each  *)
(* location holds is a row.                                                    *)
LEMMA StoreTypes ==
  ASSUME HwTypeOK, NEW new \in Hardware
  PROVE  /\ LocsWith(new) \in [Loc -> Fru \cup {Vacant, Absent}]
         /\ FrusWith(new) \subseteq Fru
         /\ \A l \in Loc : LocsWith(new)[l] \in FrusWith(new) \cup {Vacant, Absent}
  <1>1. \A l \in DOMAIN new : new[l] \in Fru \cup {Vacant}
    BY HardwareType
  <1>2. \A l \in Loc : locs[l] \in Fru \cup {Vacant, Absent} /\ locs[l] \in frus \cup {Vacant, Absent}
    BY DEF HwTypeOK
  <1> QED  BY <1>1, <1>2 DEF LocsWith, FrusWith, Frus, HwTypeOK

LEMMA TouchTypes ==
  ASSUME HwTypeOK, NEW h \in Handler, NEW L \in SUBSET Loc, Touch(h, L)
  PROVE  shared' \in [Handler -> SUBSET Loc]
  BY DEF Touch, Disturbed, HwTypeOK

LEMMA DisturbTypes ==
  ASSUME HwTypeOK, NEW L \in SUBSET Loc
  PROVE  Disturbed(L) \in [Handler -> SUBSET Loc]
  BY DEF Disturbed, HwTypeOK

LEMMA EndTypes ==
  ASSUME HwTypeOK, NEW h \in Handler, End(h)
  PROVE  /\ pc' \in [Handler -> {"idle", "readLast", "insertHist", "deleteEndpoint"}]
         /\ work' \in [Handler -> Hardware \cup {Nothing}]
         /\ last' \in [Handler -> UNION {[D -> Event] : D \in SUBSET Loc}]
         /\ held' \in [Handler -> SUBSET Node]
         /\ shared' \in [Handler -> SUBSET Loc]
  <1>1. <<>> \in UNION {[D -> Event] : D \in SUBSET Loc}
    <2>1. <<>> \in [{} -> Event] /\ {} \in SUBSET Loc
      OBVIOUS
    <2> QED  BY <2>1
  <1> QED  BY <1>1 DEF End, Goto, HwTypeOK

LEMMA BudgetTypes ==
  ASSUME HwTypeOK, Request \/ Fault \/ UNCHANGED budget
  PROVE  requests' \in 0..MaxRequests /\ faults' \in 0..MaxFaults
  BY BoundsAreNaturals DEF HwTypeOK, Request, Fault, budget

LEMMA PostTypes ==
  ASSUME HwTypeOK, NEW h \in Handler, DoHWInvByLocationPost(h)
  PROVE  HwTypeOK'
  <1>1. PICK new \in Hardware :
          /\ frus' = FrusWith(new) /\ locs' = LocsWith(new)
          /\ work' = [work EXCEPT ![h] = new]
          /\ Touch(h, DOMAIN new)
          /\ mixed' = mixed \cup DOMAIN new
    BY DEF DoHWInvByLocationPost
  <1>2. DOMAIN new \subseteq Loc
    BY HardwareType
  <1>3. /\ pc' = [pc EXCEPT ![h] = "readLast"] /\ Request
        /\ UNCHANGED <<endpoint, ceps, services, empty, hist, last, held>>
    BY DEF DoHWInvByLocationPost, Goto
  <1>4. shared' \in [Handler -> SUBSET Loc]
    BY <1>1, <1>2, TouchTypes
  <1>5. requests' \in 0..MaxRequests /\ faults' \in 0..MaxFaults
    BY <1>3, BudgetTypes
  <1> QED  BY <1>1, <1>2, <1>3, <1>4, <1>5, StoreTypes DEF HwTypeOK

LEMMA UpdateAllTypes ==
  ASSUME HwTypeOK, NEW h \in Handler, UpdateAll(h)
  PROVE  HwTypeOK'
  <1>1. PICK new \in Hardware :
          LET found == DOMAIN new \cap Node
          IN /\ ceps' = ceps \cup found
             /\ empty' = (empty \ found) \cup {n \in found : new[n] = Vacant}
             /\ frus' = FrusWith(new) /\ locs' = LocsWith(new)
             /\ services' = Service
             /\ work' = [work EXCEPT ![h] = new]
             /\ Touch(h, DOMAIN new)
             /\ mixed' = mixed \cup DOMAIN new
    BY DEF UpdateAll
  <1>2. DOMAIN new \subseteq Loc
    BY HardwareType
  <1>3. /\ pc' = [pc EXCEPT ![h] = "readLast"] /\ Request /\ endpoint
        /\ UNCHANGED <<endpoint, hist, last, held>>
    BY DEF UpdateAll, Goto
  <1>4. shared' \in [Handler -> SUBSET Loc]
    BY <1>1, <1>2, TouchTypes
  <1>5. requests' \in 0..MaxRequests /\ faults' \in 0..MaxFaults
    BY <1>3, BudgetTypes
  <1> QED  BY <1>1, <1>2, <1>3, <1>4, <1>5, StoreTypes DEF HwTypeOK

LEMMA ReadTypes ==
  ASSUME HwTypeOK, NEW h \in Handler, GenerateHWInvHistRead(h)
  PROVE  HwTypeOK'
  <1> DEFINE L == {l \in DOMAIN work[h] : work[h][l] # Vacant}
  <1>1. LastEvents(L) \in UNION {[D -> Event] : D \in SUBSET Loc}
    <2>1. L \subseteq Loc
      BY WorkType
    <2>2. \A l \in Loc : hist[l] \in Seq(Event)
      BY DEF HwTypeOK
    <2> HIDE DEF L
    <2>3. \A l \in {k \in L : hist[k] # <<>>} : Last(hist[l]) \in Event
      BY <2>1, <2>2, LastOf
    <2>4. LastEvents(L) \in [{k \in L : hist[k] # <<>>} -> Event]
      BY <2>3 DEF LastEvents
    <2>5. {k \in L : hist[k] # <<>>} \in SUBSET Loc
      BY <2>1
    <2> QED  BY <2>4, <2>5
  <1>2. /\ last' = [last EXCEPT ![h] = LastEvents(L)]
        /\ pc' = [pc EXCEPT ![h] = "insertHist"]
        /\ UNCHANGED <<tables, work, held, budget, ghosts>>
    BY DEF GenerateHWInvHistRead, Goto
  <1> HIDE DEF L
  <1> QED  BY <1>1, <1>2 DEF HwTypeOK, tables, budget, ghosts

LEMMA InsertTypes ==
  ASSUME HwTypeOK, NEW h \in Handler, GenerateHWInvHistInsert(h)
  PROVE  HwTypeOK'
  <1>1. hist' \in [Loc -> Seq(Event)]
    <2>1. \A l \in Loc : hist[l] \in Seq(Event)
      BY DEF HwTypeOK
    <2>2. \A l \in News(work[h], last[h]) :
            l \in Loc /\ Append(hist[l], Detected(work[h][l])) \in Seq(Event)
      <3> TAKE l \in News(work[h], last[h])
      <3>1. l \in Loc /\ work[h][l] \in Fru
        BY WorkType DEF News
      <3>2. Detected(work[h][l]) \in Event
        BY <3>1, EventType
      <3> QED  BY <2>1, <3>1, <3>2, LastAppended
    <2>3. hist' = [l \in Loc |-> IF l \in News(work[h], last[h])
                                 THEN Append(hist[l], Detected(work[h][l])) ELSE hist[l]]
      BY DEF GenerateHWInvHistInsert
    <2> QED  BY <2>1, <2>2, <2>3
  <1>2. /\ End(h) /\ mixed' \subseteq mixed
        /\ UNCHANGED <<endpoint, ceps, services, empty, locs, frus, budget>>
    BY DEF GenerateHWInvHistInsert
  <1> QED  BY <1>1, <1>2, EndTypes DEF HwTypeOK, budget

LEMMA LostTypes ==
  ASSUME HwTypeOK, NEW h \in Handler, LoseHistory(h) \/ RollBack(h)
  PROVE  HwTypeOK'
  <1>1. End(h) /\ Fault /\ UNCHANGED <<tables, mixed>>
    BY DEF LoseHistory, RollBack
  <1> QED  BY <1>1, EndTypes, BudgetTypes DEF HwTypeOK, tables

LEMMA SelectTypes ==
  ASSUME HwTypeOK, NEW h \in Handler, DeleteRFEndpointSelect(h)
  PROVE  HwTypeOK'
  <1>1. ToDetach \subseteq Loc /\ \A l \in ToDetach : locs[l] \in Fru \cup {Vacant}
    BY DEF ToDetach, Live, Loc, HwTypeOK
  <1>2. [l \in ToDetach |-> locs[l]] \in Hardware \cup {Nothing}
    <2>1. CASE ToDetach = {}
      BY <2>1 DEF Nothing
    <2>2. CASE ToDetach # {}
      <3>1. [l \in ToDetach |-> locs[l]] \in [ToDetach -> Fru \cup {Vacant}]
        BY <1>1
      <3> QED  BY <1>1, <2>2, <3>1 DEF Hardware
    <2> QED  BY <2>1, <2>2
  <1>3. shared' \in [Handler -> SUBSET Loc]
    BY <1>1, TouchTypes DEF DeleteRFEndpointSelect
  <1>4. /\ work' = [work EXCEPT ![h] = [l \in ToDetach |-> locs[l]]]
        /\ held' = [held EXCEPT ![h] = ceps] /\ pc' = [pc EXCEPT ![h] = "deleteEndpoint"]
        /\ Request /\ UNCHANGED <<tables, last, mixed>>
    BY DEF DeleteRFEndpointSelect, Goto
  <1> QED  BY <1>2, <1>3, <1>4, BudgetTypes DEF HwTypeOK, tables

(* What a deletion of the endpoint adds to a history. *)
LEMMA EventsAdded ==
  ASSUME HwTypeOK, NEW h \in Handler, NEW l \in Loc
  PROVE  /\ hist[l] \o Events(h, l) \in Seq(Event)
         /\ l \in Gone(h) /\ work[h][l] # Vacant =>
              /\ hist[l] \o Events(h, l) # <<>>
              /\ Last(hist[l] \o Events(h, l)) = Removed(work[h][l])
              /\ work[h][l] \in Fru
         /\ ~(l \in Gone(h) /\ work[h][l] # Vacant) => hist[l] \o Events(h, l) = hist[l]
  <1>1. hist[l] \in Seq(Event)
    BY DEF HwTypeOK
  <1>2. CASE l \in Gone(h) /\ work[h][l] # Vacant
    <2>1. work[h][l] \in Fru
      BY <1>2, WorkType DEF Gone
    <2>2. Removed(work[h][l]) \in Event
      BY <2>1, EventType
    <2>3. Events(h, l) = <<Removed(work[h][l])>>
      BY <1>2 DEF Events
    <2>4. /\ hist[l] \o <<Removed(work[h][l])>> \in Seq(Event)
          /\ hist[l] \o <<Removed(work[h][l])>> # <<>>
          /\ Last(hist[l] \o <<Removed(work[h][l])>>) = Removed(work[h][l])
      <3> DEFINE e == Removed(work[h][l])
      <3> HIDE DEF e
      <3>1. /\ Append(hist[l], e) \in Seq(Event) /\ Append(hist[l], e) # <<>>
            /\ Last(Append(hist[l], e)) = e /\ hist[l] \o <<e>> = Append(hist[l], e)
        BY <1>1, <2>2, LastAppended DEF e
      <3>2. /\ hist[l] \o <<e>> \in Seq(Event) /\ hist[l] \o <<e>> # <<>>
            /\ Last(hist[l] \o <<e>>) = e
        BY <3>1, Zenon
      <3> QED  BY <3>2, Zenon DEF e
    <2> QED  BY <1>2, <2>1, <2>3, <2>4, Zenon
  <1>3. CASE ~(l \in Gone(h) /\ work[h][l] # Vacant)
    <2>1. Events(h, l) = <<>>
      BY <1>3 DEF Events
    <2> QED  BY <1>1, <1>3, <2>1, ConcatEmptySeq
  <1> QED  BY <1>2, <1>3

LEMMA DeleteTypes ==
  ASSUME HwTypeOK, NEW h \in Handler, DeleteRFEndpoint(h)
  PROVE  HwTypeOK'
  <1>1. End(h) /\ UNCHANGED <<frus, budget>>
    BY DEF DeleteRFEndpoint
  <1>2. CASE ~endpoint
    <2>1. UNCHANGED <<endpoint, ceps, services, empty, locs, hist, mixed>>
      BY <1>2 DEF DeleteRFEndpoint
    <2> QED  BY <1>1, <2>1, EndTypes DEF HwTypeOK, budget
  <1>3. CASE endpoint
    <2>1. /\ endpoint' = FALSE /\ ceps' = {} /\ services' = {}
          /\ empty' = empty \cup held[h]
          /\ locs' = [l \in Loc |-> IF l \in Gone(h) THEN Absent ELSE locs[l]]
          /\ hist' = [l \in Loc |-> hist[l] \o Events(h, l)]
          /\ mixed' \subseteq mixed \cup Gone(h)
      BY <1>3 DEF DeleteRFEndpoint
    <2>2. hist' \in [Loc -> Seq(Event)]
      BY <2>1, EventsAdded
    <2>3. Gone(h) \subseteq Loc
      BY WorkType DEF Gone
    <2>4. held[h] \subseteq Node
      BY DEF HwTypeOK
    <2> QED  BY <1>1, <2>1, <2>2, <2>3, <2>4, EndTypes DEF HwTypeOK, budget
  <1> QED  BY <1>2, <1>3

(* The single statements. *)
LEMMA StatementTypes ==
  ASSUME HwTypeOK, NEW h \in Handler,
         \/ Register(h) \/ \E N \in SUBSET Node : DeleteCompEndpoints(h, N)
         \/ \E S \in SUBSET Service : DeleteServices(h, S)
         \/ \E F \in SUBSET Fru : DeleteFrus(h, F)
  PROVE  HwTypeOK'
  <1>1. CASE Register(h)
    BY <1>1, BudgetTypes DEF Register, HwTypeOK, handlers, ghosts
  <1>2. CASE \E N \in SUBSET Node : DeleteCompEndpoints(h, N)
    BY <1>2, BudgetTypes DEF DeleteCompEndpoints, Emptied, HwTypeOK, handlers, ghosts
  <1>3. CASE \E S \in SUBSET Service : DeleteServices(h, S)
    BY <1>3, BudgetTypes DEF DeleteServices, HwTypeOK, handlers, ghosts
  <1>4. CASE \E F \in SUBSET Fru : DeleteFrus(h, F)
    BY <1>4, BudgetTypes DEF DeleteFrus, Referenced, HwTypeOK, handlers, ghosts
  <1> QED  BY <1>1, <1>2, <1>3, <1>4

LEMMA DeleteLocsTypes ==
  ASSUME HwTypeOK, NEW h \in Handler, NEW L \in SUBSET Loc, DeleteLocs(h, L)
  PROVE  HwTypeOK'
  BY BudgetTypes, DisturbTypes DEF DeleteLocs, HwTypeOK, handlers

LEMMA DeleteHistTypes ==
  ASSUME HwTypeOK, NEW h \in Handler, NEW L \in SUBSET Loc, NEW F \in SUBSET Fru,
         DeleteHist(h, L, F)
  PROVE  HwTypeOK'
  <1>1. hist' \in [Loc -> Seq(Event)]
    <2>1. \A l \in Loc : hist[l] \in Seq(Event) /\ Without(hist[l], F) \in Seq(Event)
      BY WithoutType DEF HwTypeOK
    <2> QED  BY <2>1 DEF DeleteHist
  <1>2. PICK D \in SUBSET Loc : shared' = Disturbed(D) /\ mixed' = mixed \cup D
    BY DEF DeleteHist
  <1>3. shared' \in [Handler -> SUBSET Loc]
    BY <1>2, DisturbTypes
  <1>4. Request /\ UNCHANGED <<endpoint, ceps, services, empty, locs, frus, handlers>>
    BY DEF DeleteHist
  <1> QED  BY <1>1, <1>2, <1>3, <1>4, BudgetTypes DEF HwTypeOK, handlers

(* ----------------------- The history, step by step ------------------------ *)

(* A request or a discovery stores its rows and goes on to the history.       *)
LEMMA StoreStep ==
  ASSUME HwTypeOK, Told, NEW h \in Handler, NEW new \in Hardware,
         pc[h] = "idle", pc' = [pc EXCEPT ![h] = "readLast"],
         work' = [work EXCEPT ![h] = new], Touch(h, DOMAIN new),
         locs' = LocsWith(new), mixed' = mixed \cup DOMAIN new, UNCHANGED <<hist, last>>
  PROVE  Told'
  <1>1. \A g \in Handler \ {h} :
          /\ pc'[g] = pc[g] /\ work'[g] = work[g] /\ last'[g] = last[g]
          /\ shared'[g] = shared[g] \cup {l \in DOMAIN new : Open(g, l)}
    BY DEF HwTypeOK, Touch, Disturbed
  <1>2. /\ pc'[h] = "readLast" /\ work'[h] = new
        /\ shared'[h] = {l \in DOMAIN new : \E k \in Handler \ {h} : Open(k, l)}
    BY DEF HwTypeOK, Touch, Disturbed
  <1>3. \A l \in Loc : locs'[l] = IF l \in DOMAIN new THEN new[l] ELSE locs[l]
    BY DEF LocsWith
  <1>4. \A g \in Handler, l \in Loc :
          Open(g, l)' <=> IF g = h THEN l \in DOMAIN new ELSE Open(g, l)
    BY <1>1, <1>2 DEF Open
  <1>5. \A g \in Handler \ {h} : DOMAIN work[g] \subseteq Loc
    BY WorkType
  <1>6. DOMAIN new \subseteq Loc
    BY HardwareType
  <1>7. Overlaps'
    BY <1>1, <1>2, <1>4 DEF Told, Overlaps
  <1>8. Lagging'
    BY <1>1, <1>2 DEF Told, Lagging, Busy
  <1>9. \A g \in Handler \ {h} : pc[g] # "idle" => Mine(g)' = Mine(g) \ DOMAIN new
    BY <1>1, <1>5 DEF Mine, Open
  <1>10. Stored'
    <2>1. ASSUME NEW g \in Handler, Busy(g)', NEW l \in Mine(g)'
          PROVE  locs'[l] = work'[g][l]
      <3>1. CASE g = h
        BY <1>2, <1>3, <1>6, <2>1, <3>1 DEF Mine
      <3>2. CASE g # h
        <4>1. Busy(g) /\ l \in Mine(g) /\ l \notin DOMAIN new /\ l \in Loc
          BY <1>1, <1>5, <1>9, <2>1, <3>2 DEF Busy, Mine
        <4> QED  BY <1>1, <1>3, <3>2, <4>1 DEF Told, Stored
      <3> QED  BY <3>1, <3>2
    <2> QED  BY <2>1 DEF Stored
  <1>11. Known'
    <2>1. ASSUME NEW g \in Handler, pc'[g] = "insertHist", NEW l \in Mine(g)',
                 work'[g][l] # Vacant
          PROVE  /\ l \in DOMAIN last'[g] <=> hist'[l] # <<>>
                 /\ l \in DOMAIN last'[g] => last'[g][l] = Last(hist'[l])
      <3>1. g # h
        BY <1>2, <2>1
      <3>2. l \in Mine(g)
        BY <1>1, <1>9, <2>1, <3>1
      <3> QED  BY <1>1, <2>1, <3>1, <3>2 DEF Told, Known
    <2> QED  BY <2>1 DEF Known
  <1>12. Agreed'
    BY <1>3 DEF Told, Agreed, Agrees
  <1> QED  BY <1>7, <1>8, <1>10, <1>11, <1>12 DEF Told

LEMMA ReadStep ==
  ASSUME HwTypeOK, Told, NEW h \in Handler, GenerateHWInvHistRead(h)
  PROVE  Told'
  <1> DEFINE L == {l \in DOMAIN work[h] : work[h][l] # Vacant}
  <1>1. /\ pc[h] = "readLast" /\ pc' = [pc EXCEPT ![h] = "insertHist"]
        /\ last' = [last EXCEPT ![h] = LastEvents(L)]
        /\ UNCHANGED <<locs, hist, work, shared, mixed>>
    BY DEF GenerateHWInvHistRead, Goto, tables, ghosts
  <1>2. \A g \in Handler \ {h} : pc'[g] = pc[g] /\ last'[g] = last[g]
    BY <1>1 DEF HwTypeOK
  <1>3. pc'[h] = "insertHist" /\ last'[h] = LastEvents(L)
    BY <1>1 DEF HwTypeOK
  <1>4. Overlaps'
    BY <1>1, <1>2, <1>3 DEF Told, Overlaps, Open
  <1>5. Lagging' /\ Stored'
    BY <1>1, <1>2, <1>3 DEF Told, Lagging, Stored, Busy, Mine
  <1>6. Known'
    <2>1. ASSUME NEW g \in Handler, pc'[g] = "insertHist", NEW l \in Mine(g),
                 work[g][l] # Vacant
          PROVE  /\ l \in DOMAIN last'[g] <=> hist[l] # <<>>
                 /\ l \in DOMAIN last'[g] => last'[g][l] = Last(hist[l])
      <3>1. CASE g = h
        BY <1>3, <2>1, <3>1 DEF LastEvents, Mine
      <3>2. CASE g # h
        BY <1>2, <2>1, <3>2 DEF Told, Known
      <3> QED  BY <3>1, <3>2
    <2> QED  BY <1>1, <2>1 DEF Known, Mine
  <1>7. Agreed'
    BY <1>1 DEF Told, Agreed, Agrees
  <1> QED  BY <1>4, <1>5, <1>6, <1>7 DEF Told

(* A handler that ends leaves what the others know as it is, if it has changed *)
(* no location or history but those it was at.                                 *)
LEMMA EndStep ==
  ASSUME HwTypeOK, Told, NEW h \in Handler, pc[h] # "idle", End(h),
         \A l \in Loc \ DOMAIN work[h] : locs'[l] = locs[l] /\ hist'[l] = hist[l],
         \A l \in DOMAIN work[h] : l \in mixed /\ l \notin mixed' => l \notin shared[h],
         \A l \in Loc \ DOMAIN work[h] : l \in mixed => l \in mixed',
         Agreed'
  PROVE  Told'
  <1>1. \A g \in Handler \ {h} : /\ pc'[g] = pc[g] /\ work'[g] = work[g]
                                 /\ last'[g] = last[g] /\ shared'[g] = shared[g]
    BY DEF HwTypeOK, End, Goto
  <1>2. pc'[h] = "idle"
    BY DEF HwTypeOK, End, Goto
  <1>3. \A g \in Handler : DOMAIN work[g] \subseteq Loc
    BY WorkType
  <1>4. Overlaps'
    BY <1>1, <1>2 DEF Told, Overlaps, Open
  <1>5. ASSUME NEW g \in Handler \ {h}, NEW l \in DOMAIN work[g], pc[g] # "idle"
        PROVE  /\ l \in DOMAIN work[h] => l \in shared[g] /\ l \in shared[h]
               /\ l \in mixed => l \in mixed'
               /\ l \in Mine(g) => locs'[l] = locs[l] /\ hist'[l] = hist[l]
    <2>1. l \in Loc
      BY <1>3
    <2>2. l \in DOMAIN work[h] => l \in shared[g] /\ l \in shared[h]
      BY <1>5, <2>1 DEF Told, Overlaps, Open
    <2> QED  BY <2>1, <2>2 DEF Mine
  <1>6. Lagging'
    BY <1>1, <1>2, <1>5 DEF Told, Lagging, Busy
  <1>7. Stored'
    <2>1. ASSUME NEW g \in Handler, Busy(g)', NEW l \in Mine(g)'
          PROVE  locs'[l] = work'[g][l]
      <3>1. g # h /\ Busy(g) /\ l \in Mine(g) /\ l \in DOMAIN work[g] /\ pc[g] # "idle"
        BY <1>1, <1>2, <2>1 DEF Busy, Mine
      <3> QED  BY <1>1, <1>5, <3>1 DEF Told, Stored
    <2> QED  BY <2>1 DEF Stored
  <1>8. Known'
    <2>1. ASSUME NEW g \in Handler, pc'[g] = "insertHist", NEW l \in Mine(g)',
                 work'[g][l] # Vacant
          PROVE  /\ l \in DOMAIN last'[g] <=> hist'[l] # <<>>
                 /\ l \in DOMAIN last'[g] => last'[g][l] = Last(hist'[l])
      <3>1. /\ g # h /\ pc[g] = "insertHist" /\ l \in Mine(g) /\ l \in DOMAIN work[g]
            /\ work[g][l] # Vacant
        BY <1>1, <1>2, <2>1 DEF Mine
      <3> QED  BY <1>1, <1>5, <3>1 DEF Told, Known
    <2> QED  BY <2>1 DEF Known
  <1> QED  BY <1>4, <1>6, <1>7, <1>8 DEF Told

LEMMA LostStep ==
  ASSUME HwTypeOK, Told, NEW h \in Handler, LoseHistory(h) \/ RollBack(h)
  PROVE  Told'
  <1>1. End(h) /\ pc[h] # "idle" /\ UNCHANGED <<locs, hist, mixed>>
    BY DEF LoseHistory, RollBack, tables
  <1>2. Agreed'
    BY <1>1 DEF Told, Agreed, Agrees
  <1> QED  BY <1>1, <1>2, EndStep

LEMMA InsertStep ==
  ASSUME HwTypeOK, Told, NEW h \in Handler, GenerateHWInvHistInsert(h)
  PROVE  Told'
  <1>1. /\ pc[h] = "insertHist" /\ End(h) /\ UNCHANGED locs
        /\ hist' = [l \in Loc |-> IF l \in News(work[h], last[h])
                                  THEN Append(hist[l], Detected(work[h][l])) ELSE hist[l]]
        /\ mixed' = mixed \ {l \in DOMAIN work[h] : work[h][l] # Vacant /\ l \notin shared[h]}
    BY DEF GenerateHWInvHistInsert
  <1>2. DOMAIN work[h] \subseteq mixed
    BY <1>1 DEF Told, Lagging, Busy
  <1>3. News(work[h], last[h]) \subseteq DOMAIN work[h]
    BY DEF News
  <1>4. ASSUME NEW l \in Loc \ mixed' PROVE Agrees(l)'
    <2>1. CASE l \notin mixed
      <3>1. hist'[l] = hist[l] /\ Agrees(l)
        BY <1>1, <1>2, <1>3, <2>1 DEF Told, Agreed
      <3> QED  BY <1>1, <3>1 DEF Agrees
    <2>2. CASE l \in mixed
      <3>1. l \in Mine(h) /\ work[h][l] # Vacant
        BY <1>1, <1>4, <2>2 DEF Mine
      <3>2. locs[l] = work[h][l]
        BY <1>1, <3>1 DEF Told, Stored, Busy
      <3>3. work[h][l] \in Fru
        BY <3>1, WorkType DEF Mine
      <3>4. hist[l] \in Seq(Event) /\ Detected(work[h][l]) \in Event
        BY <3>3, EventType DEF HwTypeOK
      <3>5. hist'[l] # <<>> /\ Last(hist'[l]) = Detected(work[h][l])
        <4>1. CASE l \in News(work[h], last[h])
          BY <1>1, <3>4, <4>1, LastAppended
        <4>2. CASE l \notin News(work[h], last[h])
          <5>1. l \in DOMAIN last[h] /\ last[h][l] = Detected(work[h][l])
            BY <3>1, <4>2 DEF News, Mine
          <5>2. hist[l] # <<>> /\ last[h][l] = Last(hist[l])
            BY <1>1, <3>1, <5>1 DEF Told, Known
          <5> QED  BY <1>1, <4>2, <5>1, <5>2
        <4> QED  BY <4>1, <4>2
      <3> QED  BY <1>1, <3>2, <3>3, <3>5, NullsAreNoFrus DEF Agrees
    <2> QED  BY <2>1, <2>2
  <1>5. Agreed'
    BY <1>4 DEF Agreed
  <1>6. \A l \in Loc \ DOMAIN work[h] : locs'[l] = locs[l] /\ hist'[l] = hist[l]
    BY <1>1, <1>3
  <1> QED  BY <1>1, <1>5, <1>6, EndStep

LEMMA SelectStep ==
  ASSUME HwTypeOK, Told, NEW h \in Handler, DeleteRFEndpointSelect(h)
  PROVE  Told'
  <1>1. /\ pc[h] = "idle" /\ pc' = [pc EXCEPT ![h] = "deleteEndpoint"]
        /\ work' = [work EXCEPT ![h] = [l \in ToDetach |-> locs[l]]]
        /\ Touch(h, ToDetach) /\ UNCHANGED <<locs, hist, last, mixed>>
    BY DEF DeleteRFEndpointSelect, Goto, tables
  <1>2. \A g \in Handler \ {h} :
          /\ pc'[g] = pc[g] /\ work'[g] = work[g]
          /\ shared'[g] = shared[g] \cup {l \in ToDetach : Open(g, l)}
    BY <1>1 DEF HwTypeOK, Touch, Disturbed
  <1>3. /\ pc'[h] = "deleteEndpoint" /\ DOMAIN work'[h] = ToDetach
        /\ shared'[h] = {l \in ToDetach : \E k \in Handler \ {h} : Open(k, l)}
    BY <1>1 DEF HwTypeOK, Touch, Disturbed
  <1>4. \A g \in Handler, l \in Loc :
          Open(g, l)' <=> IF g = h THEN l \in ToDetach ELSE Open(g, l)
    BY <1>2, <1>3 DEF Open
  <1>5. Overlaps'
    BY <1>2, <1>3, <1>4 DEF Told, Overlaps
  <1>6. \A g \in Handler \ {h} : Mine(g)' \subseteq Mine(g)
    BY <1>2 DEF Mine
  <1>7. \A g \in Handler : Busy(g)' => g # h /\ Busy(g)
    BY <1>2, <1>3 DEF Busy
  <1>8. Lagging'
    BY <1>1, <1>2, <1>7 DEF Told, Lagging
  <1>9. Stored'
    BY <1>1, <1>2, <1>6, <1>7 DEF Told, Stored
  <1>10. Known'
    BY <1>1, <1>2, <1>3, <1>6 DEF Told, Known
  <1>11. Agreed'
    BY <1>1 DEF Told, Agreed, Agrees
  <1> QED  BY <1>5, <1>8, <1>9, <1>10, <1>11 DEF Told

LEMMA DeleteStep ==
  ASSUME HwTypeOK, Told, NEW h \in Handler, DeleteRFEndpoint(h)
  PROVE  Told'
  <1>1. pc[h] = "deleteEndpoint" /\ End(h)
    BY DEF DeleteRFEndpoint
  <1>2. CASE ~endpoint
    <2>1. UNCHANGED <<locs, hist, mixed>>
      BY <1>2 DEF DeleteRFEndpoint
    <2>2. Agreed'
      BY <2>1 DEF Told, Agreed, Agrees
    <2> QED  BY <1>1, <2>1, <2>2, EndStep
  <1>3. CASE endpoint
    <2> DEFINE clean == {l \in Gone(h) : work[h][l] # Vacant /\ l \notin shared[h]}
    <2>1. /\ locs' = [l \in Loc |-> IF l \in Gone(h) THEN Absent ELSE locs[l]]
          /\ hist' = [l \in Loc |-> hist[l] \o Events(h, l)]
          /\ mixed' = (mixed \cup Gone(h)) \ clean
      BY <1>3 DEF DeleteRFEndpoint
    <2>2. Gone(h) \subseteq DOMAIN work[h]
      BY DEF Gone
    <2>3. \A l \in Loc \ Gone(h) : locs'[l] = locs[l] /\ hist'[l] = hist[l]
      BY <2>1, EventsAdded
    <2>4. ASSUME NEW l \in Loc \ mixed' PROVE Agrees(l)'
      <3>1. CASE l \in Gone(h)
        <4>1. l \in clean
          BY <2>1, <2>4, <3>1
        <4>2. locs'[l] = Absent /\ work[h][l] \in Fru /\ Last(hist'[l]) = Removed(work[h][l])
          BY <2>1, <3>1, <4>1, EventsAdded
        <4>3. Last(hist'[l]).type = "Removed"
          BY <4>2, EventType
        <4> QED  BY <4>2, <4>3, NullsAreNoFrus DEF Agrees
      <3>2. CASE l \notin Gone(h)
        <4>1. l \notin mixed
          BY <2>1, <2>4, <3>2
        <4> QED  BY <2>3, <3>2, <4>1 DEF Told, Agreed, Agrees
      <3> QED  BY <3>1, <3>2
    <2>5. Agreed'
      BY <2>4 DEF Agreed
    <2>6. \A l \in DOMAIN work[h] : l \in mixed /\ l \notin mixed' => l \notin shared[h]
      BY <2>1
    <2>7. \A l \in Loc \ DOMAIN work[h] : l \in mixed => l \in mixed'
      BY <2>1, <2>2
    <2> QED  BY <1>1, <2>2, <2>3, <2>5, <2>6, <2>7, EndStep
  <1> QED  BY <1>2, <1>3

(* A statement that changes the rows or the histories of some locations.       *)
LEMMA DisturbStep ==
  ASSUME HwTypeOK, Told, NEW L \in SUBSET Loc,
         shared' = Disturbed(L), mixed' = mixed \cup L, UNCHANGED <<pc, work, last>>,
         \A l \in Loc \ L : locs'[l] = locs[l] /\ hist'[l] = hist[l]
  PROVE  Told'
  <1>1. \A g \in Handler : shared'[g] = shared[g] \cup {l \in L : Open(g, l)}
    BY DEF Disturbed
  <1>2. \A g \in Handler : DOMAIN work[g] \subseteq Loc
    BY WorkType
  <1>3. \A g \in Handler : pc[g] # "idle" =>
          \A l \in Mine(g)' : l \in Mine(g) /\ l \in Loc \ L
    BY <1>1, <1>2 DEF Mine, Open
  <1>4. Overlaps'
    BY <1>1 DEF Told, Overlaps, Open
  <1>5. Lagging'
    BY DEF Told, Lagging, Busy
  <1>6. Stored'
    <2>1. ASSUME NEW g \in Handler, Busy(g), NEW l \in Mine(g)'
          PROVE  locs'[l] = work[g][l]
      <3>1. l \in Mine(g) /\ l \in Loc \ L
        BY <1>3, <2>1 DEF Busy
      <3> QED  BY <2>1, <3>1 DEF Told, Stored
    <2> QED  BY <2>1 DEF Stored, Busy
  <1>7. Known'
    <2>1. ASSUME NEW g \in Handler, pc[g] = "insertHist", NEW l \in Mine(g)',
                 work[g][l] # Vacant
          PROVE  /\ l \in DOMAIN last[g] <=> hist'[l] # <<>>
                 /\ l \in DOMAIN last[g] => last[g][l] = Last(hist'[l])
      <3>1. l \in Mine(g) /\ l \in Loc \ L
        BY <1>3, <2>1
      <3> QED  BY <2>1, <3>1 DEF Told, Known
    <2> QED  BY <2>1 DEF Known
  <1>8. Agreed'
    BY DEF Told, Agreed, Agrees
  <1> QED  BY <1>4, <1>5, <1>6, <1>7, <1>8 DEF Told

LEMMA QuietStep ==
  ASSUME Told, UNCHANGED <<pc, work, last, shared, mixed, locs, hist>>
  PROVE  Told'
  BY DEF Told, Overlaps, Lagging, Stored, Known, Agreed, Agrees, Open, Busy, Mine

(* Every step on the hardware keeps its types and what is known of histories.  *)
LEMMA HwStep ==
  ASSUME HwTypeOK, Told, HwNext
  PROVE  HwTypeOK' /\ Told'
  <1>1. PICK h \in Handler :
          \/ DoHWInvByLocationPost(h) \/ UpdateAll(h)
          \/ GenerateHWInvHistRead(h) \/ GenerateHWInvHistInsert(h) \/ LoseHistory(h)
          \/ DeleteRFEndpointSelect(h) \/ DeleteRFEndpoint(h) \/ RollBack(h) \/ Register(h)
          \/ \E N \in SUBSET Node : DeleteCompEndpoints(h, N)
          \/ \E S \in SUBSET Service : DeleteServices(h, S)
          \/ \E L \in SUBSET Loc : DeleteLocs(h, L)
          \/ \E F \in SUBSET Fru : DeleteFrus(h, F)
          \/ \E L \in SUBSET Loc, F \in SUBSET Fru : DeleteHist(h, L, F)
    <2>1. /\ ceps \in SUBSET Node /\ services \in SUBSET Service /\ frus \in SUBSET Fru
          /\ Rows \in SUBSET Loc
      BY DEF HwTypeOK, Rows
    <2>2. /\ \A n \in Node : {n} \in SUBSET Node
          /\ \A s \in Service : {s} \in SUBSET Service
          /\ \A f \in Fru : {f} \in SUBSET Fru
          /\ \A l \in Loc : {l} \in SUBSET Loc
          /\ Loc \in SUBSET Loc /\ Fru \in SUBSET Fru
      OBVIOUS
    <2>3. PICK h \in Handler :
            \/ DoHWInvByLocationPost(h) \/ UpdateAll(h)
            \/ GenerateHWInvHistRead(h) \/ GenerateHWInvHistInsert(h) \/ LoseHistory(h)
            \/ DeleteRFEndpointSelect(h) \/ DeleteRFEndpoint(h) \/ RollBack(h) \/ Register(h)
            \/ DoComponentEndpointDelete(h) \/ DoComponentEndpointsDeleteAll(h)
            \/ DoServiceEndpointDelete(h) \/ DoServiceEndpointsDeleteAll(h)
            \/ DoHWInvByLocationDelete(h) \/ DoHWInvByLocationDeleteAll(h)
            \/ DoHWInvByFRUDelete(h) \/ DoHWInvByFRUDeleteAll(h)
            \/ DoHWInvHistByLocationDelete(h) \/ DoHWInvHistByFRUDelete(h)
            \/ DoHWInvHistDeleteAll(h)
      BY Zenon DEF HwNext
    <2>4. DoComponentEndpointDelete(h) \/ DoComponentEndpointsDeleteAll(h) =>
            \E N \in SUBSET Node : DeleteCompEndpoints(h, N)
      BY <2>1, <2>2, Zenon DEF DoComponentEndpointDelete, DoComponentEndpointsDeleteAll
    <2>5. DoServiceEndpointDelete(h) \/ DoServiceEndpointsDeleteAll(h) =>
            \E S \in SUBSET Service : DeleteServices(h, S)
      BY <2>1, <2>2, Zenon DEF DoServiceEndpointDelete, DoServiceEndpointsDeleteAll
    <2>6. DoHWInvByLocationDelete(h) \/ DoHWInvByLocationDeleteAll(h) =>
            \E L \in SUBSET Loc : DeleteLocs(h, L)
      BY <2>1, <2>2, Zenon DEF DoHWInvByLocationDelete, DoHWInvByLocationDeleteAll
    <2>7. DoHWInvByFRUDelete(h) \/ DoHWInvByFRUDeleteAll(h) =>
            \E F \in SUBSET Fru : DeleteFrus(h, F)
      BY <2>1, <2>2, Zenon DEF DoHWInvByFRUDelete, DoHWInvByFRUDeleteAll
    <2>8. DoHWInvHistByLocationDelete(h) \/ DoHWInvHistByFRUDelete(h)
          \/ DoHWInvHistDeleteAll(h) =>
            \E L \in SUBSET Loc, F \in SUBSET Fru : DeleteHist(h, L, F)
      BY <2>2, Zenon DEF DoHWInvHistByLocationDelete, DoHWInvHistByFRUDelete, DoHWInvHistDeleteAll
    <2> QED  BY <2>3, <2>4, <2>5, <2>6, <2>7, <2>8
  <1>2. CASE DoHWInvByLocationPost(h)
    BY <1>2, PostTypes, StoreStep DEF DoHWInvByLocationPost, Goto
  <1>3. CASE UpdateAll(h)
    <2>1. PICK new \in Hardware :
            /\ work' = [work EXCEPT ![h] = new] /\ Touch(h, DOMAIN new)
            /\ locs' = LocsWith(new) /\ mixed' = mixed \cup DOMAIN new
      BY <1>3 DEF UpdateAll
    <2>2. pc[h] = "idle" /\ pc' = [pc EXCEPT ![h] = "readLast"] /\ UNCHANGED <<hist, last>>
      BY <1>3 DEF UpdateAll, Goto
    <2> QED  BY <1>3, <2>1, <2>2, UpdateAllTypes, StoreStep
  <1>4. CASE GenerateHWInvHistRead(h)
    BY <1>4, ReadTypes, ReadStep
  <1>5. CASE GenerateHWInvHistInsert(h)
    BY <1>5, InsertTypes, InsertStep
  <1>6. CASE LoseHistory(h) \/ RollBack(h)
    BY <1>6, LostTypes, LostStep
  <1>7. CASE DeleteRFEndpointSelect(h)
    BY <1>7, SelectTypes, SelectStep
  <1>8. CASE DeleteRFEndpoint(h)
    BY <1>8, DeleteTypes, DeleteStep
  <1>9. CASE \/ Register(h) \/ \E N \in SUBSET Node : DeleteCompEndpoints(h, N)
             \/ \E S \in SUBSET Service : DeleteServices(h, S)
             \/ \E F \in SUBSET Fru : DeleteFrus(h, F)
    <2>1. UNCHANGED <<pc, work, last, shared, mixed, locs, hist>>
      BY <1>9 DEF Register, DeleteCompEndpoints, DeleteServices, DeleteFrus, handlers, ghosts
    <2> QED  BY <1>9, <2>1, StatementTypes, QuietStep
  <1>10. CASE \E L \in SUBSET Loc : DeleteLocs(h, L)
    <2>1. PICK L \in SUBSET Loc : DeleteLocs(h, L)
      BY <1>10
    <2>2. /\ shared' = Disturbed(L) /\ mixed' = mixed \cup L
          /\ UNCHANGED <<pc, work, last>>
          /\ \A l \in Loc \ L : locs'[l] = locs[l] /\ hist'[l] = hist[l]
      BY <2>1 DEF DeleteLocs, handlers
    <2> QED  BY <2>1, <2>2, DeleteLocsTypes, DisturbStep
  <1>11. CASE \E L \in SUBSET Loc, F \in SUBSET Fru : DeleteHist(h, L, F)
    <2>1. PICK L \in SUBSET Loc, F \in SUBSET Fru : DeleteHist(h, L, F)
      BY <1>11
    <2> DEFINE D == {l \in Loc : hist'[l] # hist[l]}
    <2>2. shared' = Disturbed(D) /\ mixed' = mixed \cup D /\ UNCHANGED <<pc, work, last, locs>>
      BY <2>1 DEF DeleteHist, handlers
    <2>3. D \in SUBSET Loc /\ \A l \in Loc \ D : hist'[l] = hist[l]
      OBVIOUS
    <2> HIDE DEF D
    <2> QED  BY <2>1, <2>2, <2>3, DeleteHistTypes, DisturbStep
  <1> QED  BY <1>1, <1>2, <1>3, <1>4, <1>5, <1>6, <1>7, <1>8, <1>9, <1>10, <1>11

(* A handler that has written its part of the history has not repeated the     *)
(* last event of a location that it had for itself.                            *)
LEMMA NewsAreNew ==
  ASSUME HwTypeOK, Told, HwNext, NEW h \in Handler, NEW l \in Loc,
         pc[h] = "insertHist", pc'[h] = "idle", l \notin shared[h], hist'[l] # hist[l]
  PROVE  hist[l] = <<>> \/ Last(hist'[l]) # Last(hist[l])
  <1>1. GenerateHWInvHistInsert(h) \/ LoseHistory(h)
    <2>1. \A g \in Handler : pc'[h] = pc[h] \/ g = h \/ ~End(g)
      BY DEF HwTypeOK, End, Goto
    <2>2. \A g \in Handler, s \in {"readLast", "insertHist", "deleteEndpoint"} :
            Goto(g, s) => pc'[h] # "idle"
      BY DEF HwTypeOK, Goto
    <2>3. UNCHANGED handlers => pc'[h] = pc[h]
      BY DEF handlers
    <2>4. PICK g \in Handler :
            \/ DoHWInvByLocationPost(g) \/ UpdateAll(g)
            \/ GenerateHWInvHistRead(g) \/ GenerateHWInvHistInsert(g) \/ LoseHistory(g)
            \/ DeleteRFEndpointSelect(g) \/ DeleteRFEndpoint(g) \/ RollBack(g) \/ Register(g)
            \/ DoComponentEndpointDelete(g) \/ DoComponentEndpointsDeleteAll(g)
            \/ DoServiceEndpointDelete(g) \/ DoServiceEndpointsDeleteAll(g)
            \/ DoHWInvByLocationDelete(g) \/ DoHWInvByLocationDeleteAll(g)
            \/ DoHWInvByFRUDelete(g) \/ DoHWInvByFRUDeleteAll(g)
            \/ DoHWInvHistByLocationDelete(g) \/ DoHWInvHistByFRUDelete(g)
            \/ DoHWInvHistDeleteAll(g)
      BY Zenon DEF HwNext
    <2>5. ~(DoHWInvByLocationPost(g) \/ UpdateAll(g) \/ GenerateHWInvHistRead(g)
            \/ DeleteRFEndpointSelect(g))
      BY <2>2 DEF DoHWInvByLocationPost, UpdateAll, GenerateHWInvHistRead, DeleteRFEndpointSelect
    <2>6. ~(Register(g)
            \/ DoComponentEndpointDelete(g) \/ DoComponentEndpointsDeleteAll(g)
            \/ DoServiceEndpointDelete(g) \/ DoServiceEndpointsDeleteAll(g))
      BY <2>3 DEF Register, DoComponentEndpointDelete, DoComponentEndpointsDeleteAll,
         DeleteCompEndpoints, DoServiceEndpointDelete, DoServiceEndpointsDeleteAll, DeleteServices
    <2>7. ~(DoHWInvByLocationDelete(g) \/ DoHWInvByLocationDeleteAll(g)
            \/ DoHWInvByFRUDelete(g) \/ DoHWInvByFRUDeleteAll(g))
      BY <2>3 DEF DoHWInvByLocationDelete, DoHWInvByLocationDeleteAll, DeleteLocs,
         DoHWInvByFRUDelete, DoHWInvByFRUDeleteAll, DeleteFrus
    <2>8. ~(DoHWInvHistByLocationDelete(g) \/ DoHWInvHistByFRUDelete(g)
            \/ DoHWInvHistDeleteAll(g))
      BY <2>3 DEF DoHWInvHistByLocationDelete, DoHWInvHistByFRUDelete, DoHWInvHistDeleteAll,
         DeleteHist
    <2>9. ~(DeleteRFEndpoint(g) \/ RollBack(g))
      BY <2>1 DEF DeleteRFEndpoint, RollBack
    <2>10. GenerateHWInvHistInsert(g) \/ LoseHistory(g) => g = h
      BY <2>1 DEF GenerateHWInvHistInsert, LoseHistory
    <2> QED  BY <2>4, <2>5, <2>6, <2>7, <2>8, <2>9, <2>10
  <1>2. CASE LoseHistory(h)
    BY <1>2 DEF LoseHistory, tables
  <1>3. CASE GenerateHWInvHistInsert(h)
    <2>1. /\ l \in News(work[h], last[h])
          /\ hist'[l] = Append(hist[l], Detected(work[h][l]))
      BY <1>3 DEF GenerateHWInvHistInsert
    <2>2. l \in Mine(h) /\ work[h][l] # Vacant /\ work[h][l] \in Fru
      BY <2>1, WorkType DEF News, Mine
    <2>3. hist[l] \in Seq(Event) /\ Detected(work[h][l]) \in Event
      BY <2>2, EventType DEF HwTypeOK
    <2>4. Last(hist'[l]) = Detected(work[h][l])
      BY <2>1, <2>3, LastAppended
    <2>5. hist[l] # <<>> => Last(hist[l]) # Detected(work[h][l])
      BY <2>1, <2>2 DEF Told, Known, News
    <2> QED  BY <2>4, <2>5
  <1> QED  BY <1>1, <1>2, <1>3

(* ------------------------- Ethernet interfaces ---------------------------- *)

\* Who is about to write has read a row that had something to write.
Reads == \A h \in Client : step[h] = "write" => task[h] \in Task /\ ToWrite(task[h], seen[h])

LEMMA TaskKinds ==
  ASSUME NEW t \in Task
  PROVE  /\ t.mac \in Mac
         /\ \/ t.op = "add" /\ t.map \in Mapping
            \/ t.op = "remove" /\ t.ip \in Ip /\ t = Withdraw(t.mac, t.ip)
            \/ t.op = "rename" /\ t.ip \in Ip /\ t.network \in Network \cup {Keep}
            \/ t.op = "patch" /\ t.ips \in Lists \cup {Keep} /\ t.comp \in Component \cup {Keep}
  <1>1. CASE t \in {Add(m, x) : m \in Mac, x \in Mapping}
    BY <1>1 DEF Add
  <1>2. CASE t \in {Withdraw(m, i) : m \in Mac, i \in Ip}
    BY <1>2 DEF Withdraw
  <1>3. CASE t \in {Rename(m, i, w) : m \in Mac, i \in Ip, w \in IpPatches}
    BY <1>3, PatchesGiveNetworks DEF Rename
  <1>4. CASE t \in {Patch(m, S, c) : m \in Mac, S \in Lists \cup {Keep}, c \in Component \cup {Keep}}
    BY <1>4 DEF Patch
  <1> QED  BY <1>1, <1>2, <1>3, <1>4 DEF Task

(* The list a request writes is one, with each address at most once.           *)
LEMMA NewListType ==
  ASSUME NEW t \in Task, NEW row \in Row \cup {NoRow}, ToWrite(t, row), row # NoRow
  PROVE  NewList(t, row) \in Lists \cup {Keep}
  <1>1. /\ row.ips \subseteq Mapping
        /\ \A x, y \in row.ips : x.ip = y.ip => x = y
    BY DEF Row, Lists
  <1>2. CASE t.op = "add" /\ t.map \in Mapping
    <2>1. t.map.ip \notin {x.ip : x \in row.ips}
      BY <1>2 DEF ToWrite, Ips
    <2>2. Added(t, row) \in Lists
      BY <1>1, <1>2, <2>1 DEF Added, Lists
    <2> QED  BY <1>2, <2>2 DEF NewList
  <1>3. CASE t.op = "remove"
    <2>1. AlmostAll(t, row) \in Lists
      BY <1>1 DEF AlmostAll, Lists
    <2> QED  BY <1>3, <2>1 DEF NewList
  <1>4. CASE t.op = "rename" /\ t.network \in Network \cup {Keep}
    <2>1. CASE t.network = Keep
      BY <1>4, <2>1 DEF NewList, Renamed, Lists
    <2>2. CASE t.network # Keep
      <3> DEFINE New(x) == IF x.ip = t.ip THEN [x EXCEPT !.network = t.network] ELSE x
      <3>1. ASSUME NEW x \in row.ips PROVE New(x) \in Mapping /\ New(x).ip = x.ip
        <4>1. x \in Mapping
          BY <1>1
        <4> QED  BY <1>4, <2>2, <4>1 DEF Mapping
      <3>2. Renamed(t, row) = {New(x) : x \in row.ips}
        BY <2>2 DEF Renamed
      <3> HIDE DEF New
      <3>3. Renamed(t, row) \in Lists
        BY <1>1, <3>1, <3>2 DEF Lists
      <3> QED  BY <1>4, <3>3 DEF NewList
    <2> QED  BY <2>1, <2>2
  <1>5. CASE t.op = "patch" /\ t.ips \in Lists \cup {Keep}
    BY <1>5 DEF NewList
  <1> QED  BY <1>2, <1>3, <1>4, <1>5, TaskKinds

LEMMA UpdatedType ==
  ASSUME NEW t \in Task, NEW was \in Row \cup {NoRow}, ToWrite(t, was), NEW row \in Row
  PROVE  Updated(t, was, row) \in Row
  <1>2. was # NoRow
    BY TaskKinds DEF ToWrite, Ips
  <1>3. NewList(t, was) \in Lists \cup {Keep}
    BY <1>2, NewListType
  <1>4. row.comp \in Component /\ row.ips \in Lists
    BY DEF Row
  <1>5. t.op = "patch" => t.comp \in Component \cup {Keep}
    BY TaskKinds
  <1> DEFINE c == IF t.op = "patch" /\ t.comp # Keep THEN t.comp ELSE row.comp
             L == IF NewList(t, was) = Keep THEN row.ips ELSE NewList(t, was)
  <1>6. c \in Component /\ L \in Lists
    BY <1>3, <1>4, <1>5
  <1>7. Updated(t, was, row) = [comp |-> c, ips |-> L]
    BY DEF Updated
  <1> HIDE DEF c, L
  <1> QED  BY <1>6, <1>7 DEF Row

(* A statement that writes rows and is a request of its own.                   *)
LEMMA WriteRows ==
  ASSUME CeiTypeOK, Reads, UNCHANGED <<step, task, seen>>,
         cei' \in [Mac -> Row \cup {NoRow}], calls < MaxCalls, calls' = calls + 1
  PROVE  CeiTypeOK' /\ Reads'
  <1>1. calls' \in 0..MaxCalls
    BY CallsAreNatural DEF CeiTypeOK
  <1>2. CeiTypeOK'
    BY <1>1 DEF CeiTypeOK
  <1>3. Reads'
    BY DEF Reads, ToWrite, Ips
  <1> QED  BY <1>2, <1>3

LEMMA BeginStep ==
  ASSUME CeiTypeOK, Reads, NEW h \in Client, NEW t \in Task, Begin(h, t)
  PROVE  CeiTypeOK' /\ Reads'
  <1>1. /\ step[h] = "idle" /\ calls < MaxCalls /\ calls' = calls + 1
        /\ ToWrite(t, cei[t.mac])
        /\ step' = [step EXCEPT ![h] = "write"] /\ task' = [task EXCEPT ![h] = t]
        /\ seen' = [seen EXCEPT ![h] = cei[t.mac]]
        /\ UNCHANGED cei
    BY DEF Begin, Call
  <1>2. t.mac \in Mac
    BY TaskKinds
  <1>3. calls' \in 0..MaxCalls
    BY <1>1, CallsAreNatural DEF CeiTypeOK
  <1>4. CeiTypeOK'
    BY <1>1, <1>2, <1>3 DEF CeiTypeOK
  <1>5. \A g \in Client \ {h} : step'[g] = step[g] /\ task'[g] = task[g] /\ seen'[g] = seen[g]
    BY <1>1 DEF CeiTypeOK
  <1>6. step'[h] = "write" /\ task'[h] = t /\ seen'[h] = cei[t.mac]
    BY <1>1 DEF CeiTypeOK
  <1>7. ASSUME NEW g \in Client, step'[g] = "write"
        PROVE  /\ task'[g] \in Task /\ ToWrite(task'[g], seen'[g])
    <2>1. CASE g = h
      BY <1>1, <1>6, <2>1
    <2>2. CASE g # h
      BY <1>1, <1>5, <1>7, <2>2 DEF Reads
    <2> QED  BY <2>1, <2>2
  <1>8. Reads'
    BY <1>7 DEF Reads, ToWrite, Ips
  <1> QED  BY <1>4, <1>8

LEMMA UpdateStep ==
  ASSUME CeiTypeOK, Reads, NEW h \in Client, UpdateCompEthInterface(h)
  PROVE  CeiTypeOK' /\ Reads'
  <1> DEFINE t == task[h]
  <1>1. /\ step[h] = "write"
        /\ cei' = IF cei[t.mac] = NoRow THEN cei
                  ELSE [cei EXCEPT ![t.mac] = Updated(t, seen[h], cei[t.mac])]
        /\ step' = [step EXCEPT ![h] = "idle"]
        /\ task' = [task EXCEPT ![h] = Idle] /\ seen' = [seen EXCEPT ![h] = NoRow]
        /\ UNCHANGED calls
    BY DEF UpdateCompEthInterface
  <1>2. t \in Task /\ ToWrite(t, seen[h]) /\ t.mac \in Mac
    BY <1>1, TaskKinds DEF Reads
  <1>3. cei[t.mac] # NoRow => Updated(t, seen[h], cei[t.mac]) \in Row
    BY <1>2, UpdatedType DEF CeiTypeOK
  <1> HIDE DEF t
  <1>4. cei' \in [Mac -> Row \cup {NoRow}]
    BY <1>1, <1>2, <1>3 DEF CeiTypeOK
  <1>5. CeiTypeOK'
    BY <1>1, <1>4 DEF CeiTypeOK
  <1>6. \A g \in Client \ {h} : step'[g] = step[g] /\ task'[g] = task[g] /\ seen'[g] = seen[g]
    BY <1>1 DEF CeiTypeOK
  <1>8. ASSUME NEW g \in Client, step'[g] = "write"
        PROVE  /\ task'[g] \in Task /\ ToWrite(task'[g], seen'[g])
    <2>1. g # h
      BY <1>1, <1>8 DEF CeiTypeOK
    <2>2. task[g] \in Task /\ ToWrite(task[g], seen[g])
      BY <1>6, <1>8, <2>1 DEF Reads
    <2> QED  BY <1>6, <2>1, <2>2
  <1>9. Reads'
    BY <1>8 DEF Reads, ToWrite, Ips
  <1> QED  BY <1>5, <1>9

LEMMA ClaimedType ==
  ASSUME NEW row \in Row \cup {NoRow}, NEW new \in Row
  PROVE  /\ Claimed(row, new) \in Row
         /\ row # NoRow => Claimed(row, new).ips = row.ips
  <1>1. CASE row = NoRow
    BY <1>1 DEF Claimed
  <1>2. CASE row # NoRow
    <2>1. row \in Row
      BY <1>2
    <2>2. PICK r : r = [row EXCEPT !.comp = new.comp]
      OBVIOUS
    <2>3. r \in Row /\ r.ips = row.ips
      BY <2>1, <2>2 DEF Row
    <2> QED  BY <1>2, <2>2, <2>3 DEF Claimed
  <1> QED  BY <1>1, <1>2

\* An interface that stays has the addresses it had.
Kept(m) == cei[m] # NoRow /\ cei'[m] # NoRow => Ips(cei'[m]) = Ips(cei[m])

LEMMA WriteStep ==
  ASSUME CeiTypeOK, Reads, NEW h \in Client,
         \/ DoCompEthInterfacePostV2(h) \/ InsertCompEthInterfacesCompInfo(h)
         \/ \E M \in SUBSET Mac : Delete(h, M)
  PROVE  CeiTypeOK' /\ Reads' /\ \A m \in Mac : Kept(m)
  <1>1. cei \in [Mac -> Row \cup {NoRow}]
    BY DEF CeiTypeOK
  <1>2. CASE DoCompEthInterfacePostV2(h)
    <2>1. PICK m \in Mac, row \in Row :
            cei[m] = NoRow /\ cei' = [cei EXCEPT ![m] = row]
      BY <1>2 DEF DoCompEthInterfacePostV2, Inserted
    <2>2. calls < MaxCalls /\ calls' = calls + 1 /\ UNCHANGED <<step, task, seen>>
      BY <1>2 DEF DoCompEthInterfacePostV2, Call
    <2>3. /\ cei' \in [Mac -> Row \cup {NoRow}]
          /\ \A k \in Mac \ {m} : cei'[k] = cei[k]
      BY <1>1, <2>1
    <2>4. CeiTypeOK' /\ Reads'
      BY <2>2, <2>3, WriteRows
    <2> QED  BY <2>1, <2>3, <2>4 DEF Kept
  <1>3. CASE InsertCompEthInterfacesCompInfo(h)
    <2>1. PICK M \in SUBSET Mac, c \in Component, S \in Lists :
            cei' = [m \in Mac |-> IF m \in M THEN Claimed(cei[m], [comp |-> c, ips |-> S])
                                  ELSE cei[m]]
      BY <1>3 DEF InsertCompEthInterfacesCompInfo
    <2>2. calls < MaxCalls /\ calls' = calls + 1 /\ UNCHANGED <<step, task, seen>>
      BY <1>3 DEF InsertCompEthInterfacesCompInfo, Call
    <2>3. PICK new \in Row : new = [comp |-> c, ips |-> S]
      BY DEF Row
    <2>4. \A m \in M : /\ cei'[m] \in Row
                       /\ cei[m] # NoRow => cei'[m].ips = cei[m].ips
      BY <1>1, <2>1, <2>3, ClaimedType
    <2>5. /\ cei' \in [Mac -> Row \cup {NoRow}]
          /\ \A m \in Mac \ M : cei'[m] = cei[m]
      BY <1>1, <2>1, <2>4
    <2>6. CeiTypeOK' /\ Reads'
      BY <2>2, <2>5, WriteRows
    <2>7. ASSUME NEW m \in Mac PROVE Kept(m)
      BY <2>4, <2>5 DEF Ips, Kept
    <2> QED  BY <2>6, <2>7
  <1>4. CASE \E M \in SUBSET Mac : Delete(h, M)
    <2>1. PICK M \in SUBSET Mac : Delete(h, M)
      BY <1>4
    <2>2. /\ cei' = [m \in Mac |-> IF m \in M THEN NoRow ELSE cei[m]]
          /\ calls < MaxCalls /\ calls' = calls + 1 /\ UNCHANGED <<step, task, seen>>
      BY <2>1 DEF Delete, Call
    <2>3. cei' \in [Mac -> Row \cup {NoRow}] /\ \A m \in Mac \ M : cei'[m] = cei[m]
      BY <1>1, <2>2
    <2>4. CeiTypeOK' /\ Reads'
      BY <2>2, <2>3, WriteRows
    <2> QED  BY <2>2, <2>3, <2>4 DEF Kept
  <1> QED  BY <1>2, <1>3, <1>4

(* What a step on the interfaces may be.                                       *)
LEMMA CeiSteps ==
  ASSUME CeiTypeOK, CeiNext
  PROVE  \E h \in Client :
           \/ DoCompEthInterfacePostV2(h) \/ InsertCompEthInterfacesCompInfo(h)
           \/ \E M \in SUBSET Mac : Delete(h, M)
           \/ \E t \in Task : Begin(h, t)
           \/ UpdateCompEthInterface(h)
  <1>1. PICK h \in Client :
          \/ DoCompEthInterfacePostV2(h) \/ InsertCompEthInterfacesCompInfo(h)
          \/ DoCompEthInterfaceDelete(h) \/ DoCompEthInterfaceDeleteAll(h)
          \/ DoCompEthInterfaceIPAddressPostV2(h) \/ DoCompEthInterfaceIPAddressDeleteV2(h)
          \/ DoCompEthInterfaceIPAddressPatchV2(h) \/ DoCompEthInterfacePatchV2(h)
          \/ UpdateCompEthInterface(h)
    BY Zenon DEF CeiNext
  <1>2. DoCompEthInterfaceDelete(h) \/ DoCompEthInterfaceDeleteAll(h) =>
          \E M \in SUBSET Mac : Delete(h, M)
    <2>1. \A m \in Mac : {m} \in SUBSET Mac
      OBVIOUS
    <2>2. {m \in Mac : cei[m] # NoRow} \in SUBSET Mac
      OBVIOUS
    <2> QED  BY <2>1, <2>2, Zenon DEF DoCompEthInterfaceDelete, DoCompEthInterfaceDeleteAll
  <1>3. DoCompEthInterfaceIPAddressPostV2(h) => \E t \in Task : Begin(h, t)
    <2>1. \A m \in Mac, x \in Mapping : Add(m, x) \in Task
      BY DEF Task
    <2> QED  BY <2>1, Zenon DEF DoCompEthInterfaceIPAddressPostV2
  <1>4. DoCompEthInterfaceIPAddressDeleteV2(h) => \E t \in Task : Begin(h, t)
    <2>1. \A m \in Mac, i \in Ip : Withdraw(m, i) \in Task
      BY DEF Task
    <2> QED  BY <2>1, Zenon DEF DoCompEthInterfaceIPAddressDeleteV2
  <1>5. DoCompEthInterfaceIPAddressPatchV2(h) => \E t \in Task : Begin(h, t)
    <2>1. \A m \in Mac, i \in Ip, w \in IpPatches : Rename(m, i, w) \in Task
      BY DEF Task
    <2> QED  BY <2>1, Zenon DEF DoCompEthInterfaceIPAddressPatchV2
  <1>6. DoCompEthInterfacePatchV2(h) => \E t \in Task : Begin(h, t)
    <2>1. \A m \in Mac, S \in Lists \cup {Keep}, c \in Component \cup {Keep} :
            Patch(m, S, c) \in Task
      BY DEF Task
    <2> QED  BY <2>1, Zenon DEF DoCompEthInterfacePatchV2
  <1> QED  BY <1>1, <1>2, <1>3, <1>4, <1>5, <1>6

LEMMA CeiStep ==
  ASSUME CeiTypeOK, Reads, CeiNext
  PROVE  CeiTypeOK' /\ Reads'
  BY CeiSteps, WriteStep, BeginStep, UpdateStep

\* The requests that may take an address away, and those that may give one.
TakenBy(h, m, i) ==
  /\ Writes(h, m)
  /\ \/ task[h] = Withdraw(m, i)
     \/ task[h].op = "patch" /\ task[h].ips # Keep
     \/ task[h].op = "rename" /\ task[h].network = Keep
     \/ i \notin Ips(seen[h])
GivenBy(h, m, i) ==
  /\ Writes(h, m)
  /\ \/ task[h].op = "add" /\ task[h].map.ip = i
     \/ task[h].op = "patch" /\ task[h].ips # Keep
     \/ i \in Ips(seen[h])

(* An update that changes the addresses writes a list made from what was read. *)
LEMMA UpdateWrites ==
  ASSUME CeiTypeOK, Reads, NEW h \in Client, UpdateCompEthInterface(h),
         NEW m \in Mac, ~Kept(m),
         NEW t, t = task[h], NEW was, was = seen[h]
  PROVE  /\ Writes(h, m) /\ t \in Task /\ t.mac = m
         /\ ToWrite(t, was) /\ was # NoRow /\ was \in Row
         /\ NewList(t, was) # Keep
         /\ Ips(cei'[m]) = {x.ip : x \in NewList(t, was)}
  <1>1. step[h] = "write" /\ step'[h] = "idle"
    BY DEF UpdateCompEthInterface, CeiTypeOK
  <1>2. t \in Task /\ ToWrite(t, was)
    BY <1>1 DEF Reads
  <1>3. was # NoRow /\ was \in Row
    BY <1>2, TaskKinds DEF CeiTypeOK, ToWrite, Ips
  <1>4. cei' = IF cei[t.mac] = NoRow THEN cei
               ELSE [cei EXCEPT ![t.mac] = Updated(t, was, cei[t.mac])]
    BY DEF UpdateCompEthInterface
  <1>5. cei[m] # NoRow /\ cei'[m] # NoRow /\ Ips(cei'[m]) # Ips(cei[m])
    BY DEF Kept
  <1>6. t.mac = m
    BY <1>4, <1>5 DEF CeiTypeOK
  <1>7. PICK row : row = cei[m]
    OBVIOUS
  <1>8. cei'[m] = Updated(t, was, row)
    BY <1>4, <1>5, <1>6, <1>7 DEF CeiTypeOK
  <1>9. cei'[m].ips = IF NewList(t, was) = Keep THEN row.ips ELSE NewList(t, was)
    BY <1>8 DEF Updated
  <1>10. NewList(t, was) # Keep
    BY <1>5, <1>7, <1>9 DEF Ips
  <1>11. Ips(cei'[m]) = {x.ip : x \in NewList(t, was)}
    BY <1>5, <1>9, <1>10 DEF Ips
  <1> QED  BY <1>1, <1>2, <1>3, <1>6, <1>10, <1>11 DEF Writes

(* The list of a patch of one address that gives a network: the addresses are  *)
(* those that were read.                                                       *)
LEMMA RenamedIps ==
  ASSUME NEW t \in Task, t.op = "rename", t.network # Keep, NEW was \in Row
  PROVE  {x.ip : x \in NewList(t, was)} = {x.ip : x \in was.ips}
  <1> DEFINE New(x) == IF x.ip = t.ip THEN [x EXCEPT !.network = t.network] ELSE x
  <1>1. was.ips \subseteq Mapping
    BY DEF Row, Lists
  <1>2. ASSUME NEW x \in was.ips PROVE New(x).ip = x.ip
    BY <1>1 DEF Mapping
  <1>3. NewList(t, was) = {New(x) : x \in was.ips}
    BY DEF NewList, Renamed
  <1> HIDE DEF New
  <1> QED  BY <1>2, <1>3

(* What an update takes away: an address it was to remove, what a new list     *)
(* does not name, all of them without a network, or what had not been read.    *)
LEMMA UpdateTakes ==
  ASSUME CeiTypeOK, Reads, NEW h \in Client, UpdateCompEthInterface(h),
         NEW m \in Mac, ~Kept(m), NEW i \in Ips(cei[m]), i \notin Ips(cei'[m])
  PROVE  TakenBy(h, m, i)
  <1>1. PICK t, was : t = task[h] /\ was = seen[h]
    OBVIOUS
  <1>2. /\ Writes(h, m) /\ t \in Task /\ t.mac = m
        /\ ToWrite(t, was) /\ was # NoRow /\ was \in Row
        /\ Ips(cei'[m]) = {x.ip : x \in NewList(t, was)}
    BY <1>1, UpdateWrites
  <1>3. SUFFICES ASSUME i \in Ips(was), t.op = "patch" => t.ips = Keep,
                        t.op = "rename" => t.network # Keep
                 PROVE  t = Withdraw(m, i)
    BY <1>1, <1>2 DEF TakenBy
  <1>4. PICK x \in was.ips : x.ip = i
    BY <1>2, <1>3 DEF Ips
  <1>5. \A y \in NewList(t, was) : y.ip # i
    BY <1>2
  <1>6. t.op # "add"
    BY <1>4, <1>5 DEF NewList, Added
  <1>7. t.op # "rename"
    <2>1. SUFFICES ASSUME t.op = "rename" PROVE FALSE
      OBVIOUS
    <2>2. {y.ip : y \in NewList(t, was)} = {y.ip : y \in was.ips}
      BY <1>2, <1>3, <2>1, RenamedIps
    <2> QED  BY <1>4, <1>5, <2>2
  <1>8. t.op # "patch"
    BY <1>1, <1>2, <1>3, UpdateWrites DEF NewList
  <1>9. t.op = "remove" /\ t = Withdraw(t.mac, t.ip)
    BY <1>2, <1>6, <1>7, <1>8, TaskKinds
  <1>10. t.ip = i
    BY <1>4, <1>5, <1>9 DEF NewList, AlmostAll
  <1> QED  BY <1>2, <1>9, <1>10

(* What an update gives: the address it was to add, what a new list names, or  *)
(* what had been read.                                                         *)
LEMMA UpdateGives ==
  ASSUME CeiTypeOK, Reads, NEW h \in Client, UpdateCompEthInterface(h),
         NEW m \in Mac, ~Kept(m), NEW i \in Ips(cei'[m])
  PROVE  GivenBy(h, m, i)
  <1>1. PICK t, was : t = task[h] /\ was = seen[h]
    OBVIOUS
  <1>2. /\ Writes(h, m) /\ t \in Task /\ was # NoRow /\ was \in Row
        /\ NewList(t, was) # Keep
        /\ Ips(cei'[m]) = {x.ip : x \in NewList(t, was)}
    BY <1>1, UpdateWrites
  <1>3. PICK x \in NewList(t, was) : x.ip = i
    BY <1>2
  <1>4. \A y \in was.ips : y.ip \in Ips(was)
    BY <1>2 DEF Ips
  <1>5. CASE t.op = "add"
    <2>1. x \in was.ips \/ x = t.map
      BY <1>3, <1>5 DEF NewList, Added
    <2> QED  BY <1>1, <1>2, <1>3, <1>4, <1>5, <2>1 DEF GivenBy
  <1>6. CASE t.op = "remove"
    <2>1. x \in was.ips
      BY <1>3, <1>6 DEF NewList, AlmostAll
    <2> QED  BY <1>1, <1>2, <1>3, <1>4, <2>1 DEF GivenBy
  <1>7. CASE t.op = "rename"
    <2>1. t.network # Keep
      BY <1>3, <1>7 DEF NewList, Renamed
    <2>2. i \in {y.ip : y \in was.ips}
      BY <1>2, <1>3, <1>7, <2>1, RenamedIps
    <2> QED  BY <1>1, <1>2, <1>4, <2>2 DEF GivenBy
  <1>8. CASE t.op = "patch"
    <2>1. t.ips # Keep
      BY <1>2, <1>8 DEF NewList
    <2> QED  BY <1>1, <1>2, <1>8, <2>1 DEF GivenBy
  <1> QED  BY <1>2, <1>5, <1>6, <1>7, <1>8, TaskKinds

(* -------------------------------- Theorems -------------------------------- *)

IInv == TypeOK /\ Told /\ Reads

(* Nothing is known in the initial state, and every step of the one or the     *)
(* other keeps what has come to be.                                            *)
THEOREM InvCorrect == Spec => []IInv
  <1>1. Init => IInv
    <2> SUFFICES ASSUME Init PROVE IInv
      OBVIOUS
    <2>1. HwTypeOK
      <3>1. <<>> \in UNION {[D -> Event] : D \in SUBSET Loc}
        <4>1. <<>> \in [{} -> Event] /\ {} \in SUBSET Loc
          OBVIOUS
        <4> QED  BY <4>1
      <3>2. last \in [Handler -> UNION {[D -> Event] : D \in SUBSET Loc}]
        BY <3>1 DEF Init, HwInit
      <3>3. hist \in [Loc -> Seq(Event)]
        BY EmptySeq DEF Init, HwInit
      <3>4. /\ pc \in [Handler -> {"idle", "readLast", "insertHist", "deleteEndpoint"}]
            /\ work \in [Handler -> Hardware \cup {Nothing}]
            /\ held \in [Handler -> SUBSET Node] /\ shared \in [Handler -> SUBSET Loc]
        BY DEF Init, HwInit
      <3>5. /\ locs \in [Loc -> Fru \cup {Vacant, Absent}]
            /\ \A l \in Loc : locs[l] \in frus \cup {Vacant, Absent}
        BY DEF Init, HwInit
      <3>6. /\ endpoint \in BOOLEAN /\ ceps = {} /\ services = {} /\ empty = {} /\ frus = {}
            /\ mixed = {} /\ requests \in 0..MaxRequests /\ faults \in 0..MaxFaults
        BY BoundsAreNaturals DEF Init, HwInit
      <3> QED  BY <3>2, <3>3, <3>4, <3>5, <3>6 DEF HwTypeOK
    <2>2. Told
      BY NullsAreNoFrus DEF Init, HwInit, Told, Overlaps, Lagging, Stored, Known, Agreed, Agrees,
         Open, Busy
    <2>3. CeiTypeOK /\ Reads
      BY CallsAreNatural DEF Init, CeiInit, CeiTypeOK, Reads
    <2> QED  BY <2>1, <2>2, <2>3 DEF IInv, TypeOK
  <1>2. IInv /\ [Next]_mcvars => IInv'
    <2> SUFFICES ASSUME IInv, [Next]_mcvars PROVE IInv'
      OBVIOUS
    <2>1. UNCHANGED hwvars => HwTypeOK' /\ Told'
      BY DEF IInv, TypeOK, hwvars, tables, handlers, budget, ghosts, HwTypeOK, Told, Overlaps,
         Lagging, Stored, Known, Agreed, Agrees, Open, Busy, Mine
    <2>2. UNCHANGED cvars => CeiTypeOK' /\ Reads'
      BY DEF IInv, TypeOK, cvars, CeiTypeOK, Reads, ToWrite, Ips
    <2>3. HwNext => HwTypeOK' /\ Told'
      BY HwStep DEF IInv, TypeOK
    <2>4. CeiNext => CeiTypeOK' /\ Reads'
      BY CeiStep DEF IInv, TypeOK
    <2>5. (HwNext \/ UNCHANGED hwvars) /\ (CeiNext \/ UNCHANGED cvars)
      BY DEF Next, mcvars
    <2> QED  BY <2>1, <2>2, <2>3, <2>4, <2>5 DEF IInv, TypeOK
  <1> QED  BY <1>1, <1>2, PTL DEF Spec

(* Every variable of the inventory and of the interfaces keeps its type: each   *)
(* location holds a FRU that has a row, or none, and no interface has an        *)
(* address twice.                                                               *)
THEOREM TypeCorrect == Spec => []TypeOK
  <1>1. IInv => TypeOK
    BY DEF IInv
  <1> QED  BY <1>1, InvCorrect, PTL

(* Where no request is at work and the last one had the location for itself,   *)
(* the last event is that of the FRU which is there, or of its removal: what   *)
(* GenerateHWInvHist compares with is still the last event if nobody else came *)
(* to the location, and each of those who did knows of the other.              *)
THEOREM HistoryCorrect == Spec => []HistoryAgrees
  <1>1. IInv => HistoryAgrees
    BY DEF IInv, Told, Agreed, Agrees, HistoryAgrees
  <1> QED  BY <1>1, InvCorrect, PTL

(* A scan that finds what the last one found adds no event, for any number of  *)
(* handlers and locations, unless another touched the location meanwhile.      *)
THEOREM HistoryBounded == Spec => ScansAddNothing
  <1> DEFINE A == \A h \in Handler, l \in Loc :
        (pc[h] = "insertHist" /\ pc'[h] = "idle" /\ l \notin shared[h] /\ hist'[l] # hist[l]) =>
          (hist[l] = <<>> \/ Last(hist'[l]) # Last(hist[l]))
  <1>1. IInv /\ [Next]_mcvars => [A]_hwvars
    <2> SUFFICES ASSUME IInv, HwNext PROVE A
      BY DEF Next, mcvars
    <2>1. HwTypeOK /\ Told
      BY DEF IInv, TypeOK
    <2> QED  BY <2>1, NewsAreNew
  <1> HIDE DEF A
  <1>2. Spec => [][Next]_mcvars
    BY PTL DEF Spec
  <1>3. Spec => [][A]_hwvars
    BY <1>1, <1>2, InvCorrect, PTL
  <1> QED  BY <1>3, PTL DEF A, ScansAddNothing

(* Whatever other requests come between the read and the write of a list of    *)
(* addresses, an interface that stays loses one only to a request that removes *)
(* it, replaces the list, gives no network (PatchKeepsAddresses) or had not    *)
(* seen it, and gains one only from a request that adds it, replaces the list  *)
(* or had seen it.                                                             *)
THEOREM AddressesSafe == Spec => AddressesKept
  <1> DEFINE A == \A m \in Mac, i \in Ip : cei[m] # NoRow /\ cei'[m] # NoRow =>
        /\ i \in Ips(cei[m]) \ Ips(cei'[m]) =>
             \E h \in Client :
               /\ Writes(h, m)
               /\ \/ task[h] = Withdraw(m, i)
                  \/ task[h].op = "patch" /\ task[h].ips # Keep
                  \/ task[h].op = "rename" /\ task[h].network = Keep
                  \/ i \notin Ips(seen[h])
        /\ i \in Ips(cei'[m]) \ Ips(cei[m]) =>
             \E h \in Client :
               /\ Writes(h, m)
               /\ \/ task[h].op = "add" /\ task[h].map.ip = i
                  \/ task[h].op = "patch" /\ task[h].ips # Keep
                  \/ i \in Ips(seen[h])
  <1>1. IInv /\ [Next]_mcvars => [A]_cvars
    <2> SUFFICES ASSUME IInv, CeiNext PROVE A
      BY DEF Next, mcvars
    <2>1. CeiTypeOK /\ Reads
      BY DEF IInv, TypeOK
    <2>2. PICK h \in Client :
            \/ DoCompEthInterfacePostV2(h) \/ InsertCompEthInterfacesCompInfo(h)
            \/ \E M \in SUBSET Mac : Delete(h, M)
            \/ \E t \in Task : Begin(h, t)
            \/ UpdateCompEthInterface(h)
      BY <2>1, CeiSteps
    <2>3. (\A m \in Mac : Kept(m)) => A
      BY DEF Kept
    <2>4. CASE \/ DoCompEthInterfacePostV2(h) \/ InsertCompEthInterfacesCompInfo(h)
               \/ \E M \in SUBSET Mac : Delete(h, M)
      BY <2>1, <2>3, <2>4, WriteStep
    <2>5. CASE \E t \in Task : Begin(h, t)
      <3>1. UNCHANGED cei
        BY <2>5 DEF Begin
      <3> QED  BY <2>3, <3>1 DEF Kept, Ips
    <2>6. CASE UpdateCompEthInterface(h)
      <3> SUFFICES ASSUME NEW m \in Mac, NEW i \in Ip, cei[m] # NoRow /\ cei'[m] # NoRow
                   PROVE  /\ i \in Ips(cei[m]) \ Ips(cei'[m]) => TakenBy(h, m, i)
                          /\ i \in Ips(cei'[m]) \ Ips(cei[m]) => GivenBy(h, m, i)
        BY DEF TakenBy, GivenBy
      <3>1. Kept(m) => Ips(cei'[m]) = Ips(cei[m])
        BY DEF Kept
      <3>2. ~Kept(m) /\ i \in Ips(cei[m]) \ Ips(cei'[m]) => TakenBy(h, m, i)
        BY <2>1, <2>6, UpdateTakes
      <3>3. ~Kept(m) /\ i \in Ips(cei'[m]) => GivenBy(h, m, i)
        BY <2>1, <2>6, UpdateGives
      <3> QED  BY <3>1, <3>2, <3>3
    <2> QED  BY <2>2, <2>4, <2>5, <2>6
  <1> HIDE DEF A
  <1>2. Spec => [][Next]_mcvars
    BY PTL DEF Spec
  <1>3. Spec => [][A]_cvars
    BY <1>1, <1>2, InvCorrect, PTL
  <1> QED  BY <1>3, PTL DEF A, AddressesKept

(* ------------------------ The filters of components ----------------------- *)

(* The first of some numbers is one of them. *)
LEMMA FirstIsThere ==
  ASSUME NEW S \in SUBSET Nat, S # {}
  PROVE  First(S) \in S
BY LeastNumber DEF First

(* A list of arguments, field by field. *)
LEMMA ArgumentTypes ==
  ASSUME NEW args \in Seq(Argument)
  PROVE  /\ Len(args) \in Nat
         /\ DOMAIN args = 1..Len(args)
         /\ \A i \in DOMAIN args : args[i] \in Argument
OBVIOUS

(* The values of parsed arguments are the normal forms of theirs. *)
LEMMA ParsedValues ==
  ASSUME NEW args \in Seq(Argument), NEW c, NEW neg
  PROVE  /\ DOMAIN Parsed(args, c) = DOMAIN args
         /\ \A i \in DOMAIN args : /\ Parsed(args, c)[i].val = Parse(c, args[i].val)
                                   /\ Parsed(args, c)[i].neg = args[i].neg
         /\ Values(Parsed(args, c), neg) = Normed(args, c, neg)
<1>1. DOMAIN Parsed(args, c) = DOMAIN args
  BY DEF Parsed
<1>2. ASSUME NEW i \in DOMAIN args
      PROVE  /\ Parsed(args, c)[i].val = Parse(c, args[i].val)
             /\ Parsed(args, c)[i].neg = args[i].neg
  <2>1. args[i] \in Argument
    BY <1>2, ArgumentTypes
  <2>2. Parsed(args, c)[i] = [args[i] EXCEPT !.val = Parse(c, @)]
    BY <1>2 DEF Parsed
  <2> QED  BY <2>1, <2>2 DEF Argument
<1>3. ASSUME NEW v
      PROVE  v \in Values(Parsed(args, c), neg) <=> v \in Normed(args, c, neg)
  <2>1. v \in Values(Parsed(args, c), neg) <=>
          \E i \in DOMAIN args : args[i].neg = neg /\ v = Parse(c, args[i].val)
    BY <1>1, <1>2 DEF Values
  <2>2. v \in Normed(args, c, neg) <=>
          \E i \in DOMAIN args : args[i].neg = neg /\ v = Parse(c, args[i].val)
    BY DEF Normed, Values
  <2> QED  BY <2>1, <2>2
<1> QED  BY <1>1, <1>2, <1>3

(* A column of a WHERE clause asks what its arguments ask. *)
LEMMA ColumnAsks ==
  ASSUME NEW args \in Seq(Argument), NEW c, NEW v
  PROVE  WhereComponentCol(Parsed(args, c), v) <=> Asked(args, c, v)
BY ParsedValues DEF WhereComponentCol, Asked

(* Nothing is asked by no arguments. *)
LEMMA NothingAsked ==
  ASSUME NEW args, DOMAIN args = {}, NEW c, NEW v
  PROVE  /\ \A neg : Normed(args, c, neg) = {} /\ Values(args, neg) = {}
         /\ Asked(args, c, v)
         /\ ~ BadArgument(args, c)
<1>1. ASSUME NEW neg PROVE Values(args, neg) = {}
  <2>1. {j \in DOMAIN args : args[j].neg = neg} = {}
    OBVIOUS
  <2> QED  BY <2>1 DEF Values
<1> QED  BY <1>1 DEF Normed, Asked, BadArgument

LEMMA NoArguments ==
  ASSUME NEW c, NEW v
  PROVE  /\ \A neg : Normed(<<>>, c, neg) = {} /\ Values(<<>>, neg) = {}
         /\ Asked(<<>>, c, v)
         /\ ~ BadArgument(<<>>, c)
<1>1. DOMAIN <<>> = {}
  OBVIOUS
<1> QED  BY <1>1, NothingAsked

(* One argument. *)
LEMMA OneArgument ==
  ASSUME NEW neg \in BOOLEAN, NEW w, NEW c
  PROVE  LET args == <<[neg |-> neg, val |-> w]>> IN
         /\ Normed(args, c, neg) = {Parse(c, w)}
         /\ Normed(args, c, ~neg) = {}
         /\ BadArgument(args, c) <=> w # Blank /\ Parse(c, w) = Blank
<1> DEFINE args == <<[neg |-> neg, val |-> w]>>
<1>1. DOMAIN args = {1} /\ args[1].neg = neg /\ args[1].val = w
  OBVIOUS
<1>2. Values(args, neg) = {w} /\ Values(args, ~neg) = {}
  BY <1>1 DEF Values
<1> QED  BY <1>1, <1>2 DEF Normed, BadArgument

(* ---------------------------------- Updates --------------------------------- *)

Columns == {"id", "type", "state", "flag", "softwarestatus", "enabled", "role", "subrole",
            "subtype", "arch", "class"}

LEMMA WhereOrderFields ==
  /\ DOMAIN WhereOrder = 1..15
  /\ \A i \in 1..15 : WhereOrder[i] # Blank /\ WhereOrder[i] \in Columns \cup OrFields
  /\ \A c \in Columns \cup OrFields : \E i \in 1..15 : WhereOrder[i] = c
  /\ Columns \cap OrFields = {}
<1>1. \A c \in Columns \cup OrFields : c # Blank
  BY DEF Columns, OrFields, Blank
<1>2. /\ DOMAIN WhereOrder = 1..15
      /\ \A i \in 1..15 : WhereOrder[i] \in Columns \cup OrFields
      /\ \A c \in Columns \cup OrFields : \E i \in 1..15 : WhereOrder[i] = c
      /\ Columns \cap OrFields = {}
  BY DEF WhereOrder, Columns, OrFields
<1> QED  BY <1>1, <1>2

(* An answer has what it was made from. *)
LEMMA FoundOrFailed ==
  /\ \A S : Found(S).err = Blank /\ Found(S).rows = S
  /\ \A e : Failed(e).err = e /\ Failed(e).rows = {}
BY Zenon DEF Found, Failed

(* The numbers that the older builder asks for. *)
NumbersAsked(f, nid) == WhereComponentNIDCol([c \in Fields |-> Parsed(f[c], c)], nid)

AskedAll(f) ==
  {r \in Components : /\ \A c \in Columns : Asked(f[c], c, r[c])
                      /\ DoQueryArgsWithOR(f, "orState", "orFlag", r.state, r.flag)
                      /\ DoQueryArgsWithOR(f, "orRole", "orSubRole", r.role, r.subrole)
                      /\ NumbersAsked(f, r.nid)}

(* The builder of updates selects what each field asks for, or fails. *)
LEMMA WhereSelects ==
  ASSUME NEW f \in Filter
  PROVE  LET good == /\ \A c \in Columns \cup OrFields : ~ BadArgument(f[c], c)
                     /\ ~ BadNumbers(f) /\ ~ EmptyNumbers(f)
         IN /\ SetCompWhereQuery(f).err = Blank <=> good
            /\ good => SetCompWhereQuery(f).rows = AskedAll(f)
<1> DEFINE bad == {i \in DOMAIN WhereOrder : BadArgument(f[WhereOrder[i]], WhereOrder[i])}
           sel == {r \in Components :
            /\ \A i \in DOMAIN WhereOrder :
                 WhereOrder[i] \notin OrFields =>
                   DoQueryArg(f[WhereOrder[i]], WhereOrder[i], r[WhereOrder[i]])
            /\ DoQueryArgsWithOR(f, "orState", "orFlag", r.state, r.flag)
            /\ DoQueryArgsWithOR(f, "orRole", "orSubRole", r.role, r.subrole)
            /\ WhereComponentNIDCol([c \in Fields |-> Parsed(f[c], c)], r.nid)}
<1>1. bad = {} <=> \A c \in Columns \cup OrFields : ~ BadArgument(f[c], c)
  BY WhereOrderFields
<1>2. bad # {} => WhereOrder[First(bad)] # Blank
  <2>1. bad \in SUBSET Nat /\ bad \subseteq 1..15
    <3>1. bad \subseteq DOMAIN WhereOrder
      OBVIOUS
    <3>2. 1..15 \subseteq Nat
      OBVIOUS
    <3> HIDE DEF bad
    <3> QED  BY <3>1, <3>2, WhereOrderFields
  <2>2. bad # {} => First(bad) \in bad
    BY <2>1, FirstIsThere
  <2> QED  BY <2>1, <2>2, WhereOrderFields
<1>3. sel = AskedAll(f)
  <2>1. ASSUME NEW r \in Components
        PROVE  (\A i \in DOMAIN WhereOrder : WhereOrder[i] \notin OrFields =>
                  DoQueryArg(f[WhereOrder[i]], WhereOrder[i], r[WhereOrder[i]]))
               <=> \A c \in Columns : Asked(f[c], c, r[c])
    <3>1. (\A i \in DOMAIN WhereOrder : WhereOrder[i] \notin OrFields =>
             DoQueryArg(f[WhereOrder[i]], WhereOrder[i], r[WhereOrder[i]]))
          <=> \A c \in Columns : DoQueryArg(f[c], c, r[c])
      BY WhereOrderFields
    <3>2. ASSUME NEW c \in Columns
          PROVE  DoQueryArg(f[c], c, r[c]) <=> Asked(f[c], c, r[c])
      <4>1. f[c] \in Seq(Argument)
        BY DEF Filter, Fields, Columns, PlainFields
      <4> QED  BY <4>1, ColumnAsks DEF DoQueryArg
    <3> QED  BY <3>1, <3>2
  <2> QED  BY <2>1 DEF AskedAll, NumbersAsked
<1>4. SetCompWhereQuery(f) =
        IF bad # {} THEN Failed(WhereOrder[First(bad)])
        ELSE IF BadNumbers(f) THEN Failed("NotAnInt")
        ELSE IF EmptyNumbers(f) THEN Failed("sql") ELSE Found(sel)
  BY DEF SetCompWhereQuery
<1> HIDE DEF bad, sel
<1> DEFINE good == /\ \A c \in Columns \cup OrFields : ~ BadArgument(f[c], c)
                   /\ ~ BadNumbers(f) /\ ~ EmptyNumbers(f)
<1>5. ASSUME bad # {} PROVE ~ good /\ SetCompWhereQuery(f).err # Blank
  <2>1. SetCompWhereQuery(f) = Failed(WhereOrder[First(bad)])
    BY <1>4, <1>5
  <2>2. ~ good
    BY <1>1, <1>5
  <2> HIDE DEF good
  <2>3. WhereOrder[First(bad)] # Blank
    BY <1>2, <1>5
  <2>4. SetCompWhereQuery(f).err = WhereOrder[First(bad)]
    BY <2>1, FoundOrFailed
  <2> QED  BY <2>2, <2>3, <2>4
<1>6. ASSUME bad = {}, BadNumbers(f) PROVE ~ good /\ SetCompWhereQuery(f).err # Blank
  <2>1. SetCompWhereQuery(f) = Failed("NotAnInt")
    BY <1>4, <1>6
  <2>2. ~ good
    BY <1>6
  <2> HIDE DEF good
  <2> QED  BY <2>1, <2>2, FoundOrFailed DEF Blank
<1>7. ASSUME bad = {}, ~ BadNumbers(f), EmptyNumbers(f)
      PROVE  ~ good /\ SetCompWhereQuery(f).err # Blank
  <2>1. SetCompWhereQuery(f) = Failed("sql")
    BY <1>4, <1>7
  <2>2. ~ good
    BY <1>7
  <2> HIDE DEF good
  <2> QED  BY <2>1, <2>2, FoundOrFailed DEF Blank
<1>8. ASSUME bad = {}, ~ BadNumbers(f), ~ EmptyNumbers(f)
      PROVE  good /\ SetCompWhereQuery(f).err = Blank /\ SetCompWhereQuery(f).rows = AskedAll(f)
  <2>1. SetCompWhereQuery(f) = Found(sel)
    BY <1>4, <1>8
  <2>2. good
    BY <1>1, <1>8
  <2> HIDE DEF good
  <2>3. SetCompWhereQuery(f).err = Blank /\ SetCompWhereQuery(f).rows = sel
    BY <2>1, FoundOrFailed
  <2> QED  BY <1>3, <2>2, <2>3
<1> HIDE DEF good
<1>9. /\ SetCompWhereQuery(f).err = Blank <=> good
      /\ good => SetCompWhereQuery(f).rows = AskedAll(f)
  BY <1>5, <1>6, <1>7, <1>8
<1> QED  BY <1>9 DEF good

(* A filter without numbers asks for none. *)
LEMMA NoNumbersAsked ==
  ASSUME NEW f \in Filter, \A c \in NumberFields : f[c] = <<>>, NEW nid
  PROVE  ~ BadNumbers(f) /\ ~ EmptyNumbers(f) /\ NumbersAsked(f, nid)
<1> DEFINE g == [c \in Fields |-> Parsed(f[c], c)]
<1>1. f["nid"] = <<>> /\ f["nid_start"] = <<>> /\ f["nid_end"] = <<>>
  BY DEF NumberFields
<1>2. <<>> \in Seq(Argument) /\ DOMAIN <<>> = {}
  OBVIOUS
<1>3. \A c \in NumberFields : Parsed(f[c], c) = <<>>
  BY <1>2 DEF Parsed
<1>4. g["nid"] = <<>> /\ g["nid_start"] = <<>> /\ g["nid_end"] = <<>>
  BY <1>3 DEF NumberFields, Fields
<1>5. \A neg : Values(g["nid"], neg) = {}
  <2> QED  BY <1>4, NoArguments
<1>6. NumbersAsked(f, nid)
  BY <1>4, <1>5 DEF NumbersAsked, WhereComponentNIDCol
<1>7. ~ BadArgument(f["nid"], "nid")
  BY <1>1, NoArguments
<1> QED  BY <1>1, <1>6, <1>7 DEF BadNumbers, EmptyNumbers

(* Two columns joined by OR. *)
LEMMA ColumnsOr ==
  ASSUME NEW f \in Filter, NEW c1 \in Fields, NEW c2 \in Fields, NEW v1, NEW v2
  PROVE  /\ f[c1] = <<>> /\ f[c2] = <<>> => DoQueryArgsWithOR(f, c1, c2, v1, v2)
         /\ \A s, t : f[c1] = <<No(s)>> /\ f[c2] = <<No(t)>> =>
              (DoQueryArgsWithOR(f, c1, c2, v1, v2) <=> v1 # Parse(c1, s) \/ v2 # Parse(c2, t))
<1>1. ASSUME NEW c \in Fields, NEW v
      PROVE  Clauses(f[c], c, v) =
               (IF Normed(f[c], c, FALSE) = {} THEN {} ELSE {v \in Normed(f[c], c, FALSE)}) \cup
               (IF Normed(f[c], c, TRUE) = {} THEN {} ELSE {v \notin Normed(f[c], c, TRUE)})
  <2>1. f[c] \in Seq(Argument)
    BY DEF Filter
  <2> QED  BY <2>1, ParsedValues DEF Clauses
<1>2. ASSUME f[c1] = <<>>, f[c2] = <<>>
      PROVE  DoQueryArgsWithOR(f, c1, c2, v1, v2)
  <2>1. Clauses(f[c1], c1, v1) = {} /\ Clauses(f[c2], c2, v2) = {}
    BY <1>1, <1>2, NoArguments
  <2> QED  BY <2>1 DEF DoQueryArgsWithOR
<1>3. ASSUME NEW s, NEW t, f[c1] = <<No(s)>>, f[c2] = <<No(t)>>
      PROVE  DoQueryArgsWithOR(f, c1, c2, v1, v2) <=> v1 # Parse(c1, s) \/ v2 # Parse(c2, t)
  <2>1. ASSUME NEW c, NEW w
        PROVE  Normed(<<No(w)>>, c, TRUE) = {Parse(c, w)} /\ Normed(<<No(w)>>, c, FALSE) = {}
    BY OneArgument DEF No
  <2>2. ASSUME NEW c \in Fields, NEW v, NEW w, f[c] = <<No(w)>>
        PROVE  \A b : b \in Clauses(f[c], c, v) <=> b = (v \notin {Parse(c, w)})
    <3>1. Normed(f[c], c, TRUE) = {Parse(c, w)} /\ Normed(f[c], c, FALSE) = {}
      BY <2>1, <2>2
    <3>2. Clauses(f[c], c, v) = {} \cup {v \notin Normed(f[c], c, TRUE)}
      BY <1>1, <2>2, <3>1
    <3> QED  BY <3>1, <3>2
  <2>3. \A b : b \in Clauses(f[c1], c1, v1) <=> b = (v1 \notin {Parse(c1, s)})
    BY <1>3, <2>2
  <2>4. \A b : b \in Clauses(f[c2], c2, v2) <=> b = (v2 \notin {Parse(c2, t)})
    BY <1>3, <2>2
  <2>5. TRUE \in Clauses(f[c1], c1, v1) <=> v1 # Parse(c1, s)
    BY <2>3
  <2>6. TRUE \in Clauses(f[c2], c2, v2) <=> v2 # Parse(c2, t)
    BY <2>4
  <2>7. Clauses(f[c1], c1, v1) # {}
    BY <2>3
  <2> QED  BY <2>5, <2>6, <2>7 DEF DoQueryArgsWithOR
<1> QED  BY <1>2, <1>3

LEMMA ColumnsDiffer ==
  ASSUME NEW f \in Filter, NEW c1 \in Fields, NEW c2 \in Fields, NEW v1, NEW v2, NEW s, NEW t,
         f[c1] = <<No(s)>>, f[c2] = <<No(t)>>
  PROVE  DoQueryArgsWithOR(f, c1, c2, v1, v2) <=> v1 # Parse(c1, s) \/ v2 # Parse(c2, t)
BY ColumnsOr

(* Where the builder of updates can fail. *)
Good(f) == /\ \A c \in Columns \cup OrFields : ~ BadArgument(f[c], c)
           /\ ~ BadNumbers(f) /\ ~ EmptyNumbers(f)

LEMMA GoodSelects ==
  ASSUME NEW f \in Filter
  PROVE  /\ SetCompWhereQuery(f).err = Blank <=> Good(f)
         /\ Good(f) => SetCompWhereQuery(f).rows = AskedAll(f)
BY WhereSelects DEF Good

(* These fields hold what has a normal form. *)
LEMMA NormalFields ==
  /\ Columns \subseteq Fields /\ OrFields \subseteq Fields /\ NumberFields \subseteq Fields
  /\ Columns \cap OrFields = {} /\ Columns \cap NumberFields = {} /\ OrFields \cap NumberFields = {}
  /\ \A c \in OrFields \cup {"id", "state", "flag", "role", "subrole"} : \A v : Parse(c, v) = Norm(c, v)
<1>1. /\ Columns \subseteq Fields /\ OrFields \subseteq Fields /\ NumberFields \subseteq Fields
      /\ Columns \cap OrFields = {} /\ Columns \cap NumberFields = {} /\ OrFields \cap NumberFields = {}
  BY DEF Columns, OrFields, NumberFields, Fields, PlainFields
<1>2. ASSUME NEW c \in OrFields \cup {"id", "state", "flag", "role", "subrole"}, NEW v
      PROVE  Parse(c, v) = Norm(c, v)
  BY DEF Parse, OrFields, NumberFields
<1> QED  BY <1>1, <1>2

(* No filter, and filters with some fields. *)
LEMMA NoFilterType ==
  /\ NoFilter \in Filter /\ <<>> \in Seq(Argument)
  /\ \A c \in Fields : NoFilter[c] = <<>>
  /\ \A w \in Words : /\ Yes(w) \in Argument /\ <<Yes(w)>> \in Seq(Argument)
                      /\ No(w) \in Argument /\ <<No(w)>> \in Seq(Argument)
BY DEF NoFilter, Filter, Yes, No, Argument

(* The ids that an update names. *)
Naming(ids, r) == ids # <<>> /\ Asked(ids, "id", r.id)

LEMMA IDsField ==
  ASSUME NEW ids \in Seq(Argument)
  PROVE  /\ IDs(NoFilter, ids) \in Filter
         /\ \A c \in Fields \ {"id"} : IDs(NoFilter, ids)[c] = <<>>
         /\ \A r \in Components :
              Asked(IDs(NoFilter, ids)["id"], "id", r.id) <=> Naming(ids, r)
<1> DEFINE list == IF ids = <<>> THEN <<Yes(Blank)>> ELSE ids
<1>1. Blank \in Words /\ Norm("id", Blank) = Blank
  BY WordsAssumption
<1>2. list \in Seq(Argument)
  BY <1>1, NoFilterType
<1>3. "id" \in Fields
  BY DEF Fields, PlainFields
<1>4. IDs(NoFilter, ids) = [NoFilter EXCEPT !["id"] = list]
  BY DEF IDs
<1>5. ASSUME NEW r \in Components
      PROVE  Asked(list, "id", r.id) <=> Naming(ids, r)
  <2>1. CASE ids = <<>>
    <3>1. list = <<Yes(Blank)>>
      BY <2>1
    <3>2. Normed(<<Yes(Blank)>>, "id", FALSE) = {Parse("id", Blank)}
      BY OneArgument DEF Yes
    <3>3. Parse("id", Blank) = Blank
      BY <1>1, NormalFields
    <3>4. r.id # Blank
      BY TablesAssumption DEF ComponentsAssumption
    <3> QED  BY <2>1, <3>1, <3>2, <3>3, <3>4 DEF Asked, Naming
  <2>2. CASE ids # <<>>
    BY <2>2 DEF Naming
  <2> QED  BY <2>1, <2>2
<1> HIDE DEF list
<1>6. NoFilter \in [Fields -> Seq(Argument)] /\ \A c \in Fields : NoFilter[c] = <<>>
  BY NoFilterType DEF Filter
<1>7. [NoFilter EXCEPT !["id"] = list] \in Filter
  BY <1>2, <1>6 DEF Filter
<1>8. [NoFilter EXCEPT !["id"] = list]["id"] = list
  BY <1>3, <1>6
<1>9. \A c \in Fields \ {"id"} : [NoFilter EXCEPT !["id"] = list][c] = <<>>
  BY <1>6
<1> QED  BY <1>4, <1>5, <1>7, <1>8, <1>9

(* A filter of ids, states and flags. *)
LEMMA StateFilter ==
  ASSUME NEW f \in Filter, \A c \in Fields \ {"id", "state", "orState", "orFlag"} : f[c] = <<>>
  PROVE  /\ Good(f) <=> \A c \in {"id", "state", "orState", "orFlag"} : ~ BadArgument(f[c], c)
         /\ AskedAll(f) =
              {r \in Components : /\ Asked(f["id"], "id", r.id)
                                  /\ Asked(f["state"], "state", r.state)
                                  /\ DoQueryArgsWithOR(f, "orState", "orFlag", r.state, r.flag)}
<1>1. \A c \in NumberFields : f[c] = <<>>
  BY NormalFields DEF NumberFields
<1>2. f["orRole"] = <<>> /\ f["orSubRole"] = <<>> /\ {"orRole", "orSubRole"} \subseteq Fields
  BY DEF Fields, OrFields
<1>3. Good(f) <=> \A c \in {"id", "state", "orState", "orFlag"} : ~ BadArgument(f[c], c)
  <2>1. ~ BadNumbers(f) /\ ~ EmptyNumbers(f)
    BY <1>1, NoNumbersAsked
  <2>2. {"id", "state", "orState", "orFlag"} \subseteq Columns \cup OrFields
    BY DEF Columns, OrFields
  <2>3. \A c \in (Columns \cup OrFields) \ {"id", "state", "orState", "orFlag"} : f[c] = <<>>
    BY NormalFields
  <2>4. \A c \in (Columns \cup OrFields) \ {"id", "state", "orState", "orFlag"} : ~ BadArgument(f[c], c)
    BY <2>3, NoArguments
  <2> QED  BY <2>1, <2>2, <2>4 DEF Good
<1>4. ASSUME NEW r \in Components
      PROVE  /\ (\A c \in Columns : Asked(f[c], c, r[c]))
                  <=> Asked(f["id"], "id", r.id) /\ Asked(f["state"], "state", r.state)
             /\ DoQueryArgsWithOR(f, "orRole", "orSubRole", r.role, r.subrole)
             /\ NumbersAsked(f, r.nid)
  <2>1. {"id", "state"} \subseteq Columns /\ Columns \cap {"orState", "orFlag"} = {}
    BY DEF Columns
  <2>2. \A c \in Columns \ {"id", "state"} : f[c] = <<>>
    BY <2>1, NormalFields
  <2>3. \A c \in Columns \ {"id", "state"} : Asked(f[c], c, r[c])
    BY <2>2, NoArguments
  <2>4. (\A c \in Columns : Asked(f[c], c, r[c]))
        <=> Asked(f["id"], "id", r["id"]) /\ Asked(f["state"], "state", r["state"])
    BY <2>1, <2>3
  <2>5. DoQueryArgsWithOR(f, "orRole", "orSubRole", r.role, r.subrole)
    BY <1>2, ColumnsOr
  <2>6. NumbersAsked(f, r.nid)
    BY <1>1, NoNumbersAsked
  <2> QED  BY <2>4, <2>5, <2>6
<1>5. AskedAll(f) =
        {r \in Components : /\ Asked(f["id"], "id", r.id)
                            /\ Asked(f["state"], "state", r.state)
                            /\ DoQueryArgsWithOR(f, "orState", "orFlag", r.state, r.flag)}
  BY <1>4 DEF AskedAll
<1> QED  BY <1>3, <1>5

(* The rows that an update by ids names, and all that differ from it. *)
Named(ids) == {r \in Components : Naming(ids, r)}
Differing(state, flag, start) ==
  {r \in Components : /\ Asked(start, "state", r.state)
                      /\ r.state # state \/ r.flag # flag}

(* What has its normal form is no bad argument. *)
LEMMA NormalIsGood ==
  ASSUME NEW c \in {"id", "state"}, NEW args \in Seq(Argument), NormalValues(args, c)
  PROVE  ~ BadArgument(args, c)
<1>1. ASSUME NEW i \in DOMAIN args PROVE args[i].val = Parse(c, args[i].val)
  <2>1. args[i] = Yes(Norm(c, args[i].val))
    BY DEF NormalValues
  <2>2. \A v : Yes(v).val = v
    BY DEF Yes
  <2>3. Parse(c, args[i].val) = Norm(c, args[i].val)
    BY NormalFields
  <2> QED  BY <2>1, <2>2, <2>3
<1> QED  BY <1>1 DEF BadArgument

LEMMA StartSelects ==
  ASSUME NEW ids \in Seq(Argument), ids # <<>>, NormalValues(ids, "id")
  PROVE  StartCompUpdate(ids).err = Blank /\ StartCompUpdate(ids).rows = Named(ids)
<1> DEFINE f == IDs(NoFilter, ids)
<1>1. f \in Filter /\ \A c \in Fields \ {"id"} : f[c] = <<>>
  BY IDsField
<1>2. \A r \in Components : Asked(f["id"], "id", r.id) <=> Naming(ids, r)
  BY IDsField
<1>3. f["id"] = ids
  <2>1. "id" \in Fields /\ NoFilter \in [Fields -> Seq(Argument)]
    BY NoFilterType DEF Fields, PlainFields, Filter
  <2> QED  BY <2>1 DEF IDs
<1>4. StartCompUpdate(ids) = SetCompWhereQuery(f)
  BY DEF StartCompUpdate, IDs
<1> HIDE DEF f
<1>5. f["state"] = <<>> /\ f["orState"] = <<>> /\ f["orFlag"] = <<>>
  BY <1>1 DEF Fields, OrFields, PlainFields
<1>6. {"orState", "orFlag"} \subseteq Fields
  BY DEF Fields, OrFields
<1>7. ~ BadArgument(f["id"], "id")
  BY <1>3, NormalIsGood
<1>8. Good(f)
  BY <1>1, <1>5, <1>7, StateFilter, NoArguments
<1>9. \A r \in Components : /\ Asked(f["state"], "state", r.state)
                             /\ DoQueryArgsWithOR(f, "orState", "orFlag", r.state, r.flag)
  BY <1>1, <1>5, <1>6, NoArguments, ColumnsOr
<1>10. AskedAll(f) = Named(ids)
  BY <1>1, <1>2, <1>9, StateFilter DEF Named
<1> QED  BY <1>1, <1>4, <1>8, <1>10, GoodSelects

(* What restricts an update of states, added to a filter of ids. *)
LEMMA RestField ==
  ASSUME NEW f \in Filter, \A c \in Fields \ {"id"} : f[c] = <<>>,
         NEW state \in Words, NEW flag \in Words, NEW start \in Seq(Argument),
         Norm("orState", state) = state, Norm("orFlag", flag) = flag
  PROVE  LET g == States(NotStateOrFlag(f, state, flag), start) IN
         /\ g \in Filter
         /\ g["id"] = f["id"]
         /\ Good(g) <=> /\ ~ BadArgument(f["id"], "id") /\ ~ BadArgument(start, "state")
         /\ AskedAll(g) = {r \in Components : Asked(f["id"], "id", r.id)} \cap Differing(state, flag, start)
<1> DEFINE g == States(NotStateOrFlag(f, state, flag), start)
<1>1. {"id", "state", "orState", "orFlag"} \subseteq Fields
  BY DEF Fields, OrFields, PlainFields
<1>2. <<No(state)>> \in Seq(Argument) /\ <<No(flag)>> \in Seq(Argument)
  BY NoFilterType
<1>3. f \in [Fields -> Seq(Argument)]
  BY DEF Filter
<1>4. g = [[f EXCEPT !["orState"] = <<No(state)>>, !["orFlag"] = <<No(flag)>>] EXCEPT !["state"] = start]
  BY DEF States, NotStateOrFlag, StateOrFlag
<1>5. g \in Filter
  BY <1>2, <1>3, <1>4 DEF Filter
<1>6. /\ g["id"] = f["id"] /\ g["state"] = start
      /\ g["orState"] = <<No(state)>> /\ g["orFlag"] = <<No(flag)>>
  BY <1>1, <1>3, <1>4
<1>7. \A c \in Fields \ {"id", "state", "orState", "orFlag"} : g[c] = <<>>
  BY <1>3, <1>4
<1> HIDE DEF g
<1>8. Parse("orState", state) = state /\ Parse("orFlag", flag) = flag
  BY NormalFields DEF OrFields
<1>9. ~ BadArgument(g["orState"], "orState") /\ ~ BadArgument(g["orFlag"], "orFlag")
  <2>1. ~ BadArgument(<<No(state)>>, "orState")
    BY <1>8, OneArgument DEF No
  <2>2. ~ BadArgument(<<No(flag)>>, "orFlag")
    BY <1>8, OneArgument DEF No
  <2> QED  BY <1>6, <2>1, <2>2
<1>10. Good(g) <=> ~ BadArgument(f["id"], "id") /\ ~ BadArgument(start, "state")
  BY <1>5, <1>6, <1>7, <1>9, StateFilter
<1>11. ASSUME NEW r \in Components
       PROVE  DoQueryArgsWithOR(g, "orState", "orFlag", r.state, r.flag)
                <=> r.state # state \/ r.flag # flag
  BY <1>1, <1>5, <1>6, <1>8, ColumnsOr
<1>12. AskedAll(g) = {r \in Components : Asked(f["id"], "id", r.id)} \cap Differing(state, flag, start)
  <2>1. AskedAll(g) =
          {r \in Components : /\ Asked(f["id"], "id", r.id) /\ Asked(start, "state", r.state)
                              /\ DoQueryArgsWithOR(g, "orState", "orFlag", r.state, r.flag)}
    BY <1>5, <1>6, <1>7, StateFilter
  <2> QED  BY <1>11, <2>1 DEF Differing
<1> QED  BY <1>5, <1>6, <1>10, <1>12 DEF g

(* The statement of an update, whether it compares or takes the rows as    *)
(* they were read, and the read of those that need it.                     *)
Touching(ids, state, flag, start) == UpdateCompStatesTx(ids, state, flag, start, FALSE)
Locking(ids, state, flag, start)  == UpdateCompStatesTx(ids, state, flag, start, TRUE)
Reading(ids, state, flag, start) ==
  GetComponentIDs(States(NotStateOrFlag(IDs(NoFilter, ids), state, flag), start))

LEMMA UpdateSelects ==
  ASSUME NEW ids \in Seq(Argument), NEW start \in Seq(Argument),
         NEW state \in Words, NEW flag \in Words,
         ids # <<>>, NormalValues(ids, "id"), NormalValues(start, "state"),
         Norm("orState", state) = state, Norm("orFlag", flag) = flag, state # Blank
  PROVE  LET touched == Touching(ids, state, flag, start)
             locked  == Locking(ids, state, flag, start)
             read    == Reading(ids, state, flag, start)
             differ  == Named(ids) \cap Differing(state, flag, start)
         IN /\ touched.err = Blank /\ touched.rows = differ
            /\ locked.err = Blank /\ locked.rows = Named(ids)
            /\ read.err = Blank /\ read.rows = differ
<1> DEFINE g == States(NotStateOrFlag(NoFilter, state, flag), start)
           h == States(NotStateOrFlag(IDs(NoFilter, ids), state, flag), start)
           first == StartCompUpdate(ids)
           rest == SetCompWhereQuery(g)
           touched == Touching(ids, state, flag, start)
           locked  == Locking(ids, state, flag, start)
           read    == Reading(ids, state, flag, start)
           differ  == Named(ids) \cap Differing(state, flag, start)
<1>0. ~ BadArgument(start, "state")
  BY NormalIsGood
<1>1. first.err = Blank /\ first.rows = Named(ids)
  BY StartSelects
<1>2. rest.err = Blank /\ rest.rows = Differing(state, flag, start)
  <2>1. NoFilter \in Filter /\ \A c \in Fields : NoFilter[c] = <<>>
    BY NoFilterType
  <2>2. NoFilter["id"] = <<>>
    BY <2>1 DEF Fields, PlainFields
  <2>3. ~ BadArgument(NoFilter["id"], "id") /\ \A r \in Components : Asked(NoFilter["id"], "id", r.id)
    BY <2>2, NoArguments
  <2>4. /\ g \in Filter
        /\ Good(g) <=> ~ BadArgument(NoFilter["id"], "id") /\ ~ BadArgument(start, "state")
        /\ AskedAll(g) = {r \in Components : Asked(NoFilter["id"], "id", r.id)} \cap Differing(state, flag, start)
    BY <2>1, RestField
  <2>5. AskedAll(g) = Differing(state, flag, start)
    BY <2>3, <2>4 DEF Differing
  <2> HIDE DEF g
  <2> QED  BY <1>0, <2>3, <2>4, <2>5, GoodSelects
<1>3. SetCompWhereQuery(h).err = Blank /\ SetCompWhereQuery(h).rows = differ
  <2>1. IDs(NoFilter, ids) \in Filter /\ \A c \in Fields \ {"id"} : IDs(NoFilter, ids)[c] = <<>>
    BY IDsField
  <2>2. IDs(NoFilter, ids)["id"] = ids
    <3>1. "id" \in Fields /\ NoFilter \in [Fields -> Seq(Argument)]
      BY NoFilterType DEF Fields, PlainFields, Filter
    <3> QED  BY <3>1 DEF IDs
  <2>3. ~ BadArgument(IDs(NoFilter, ids)["id"], "id")
    BY <2>2, NormalIsGood
  <2>4. /\ h \in Filter
        /\ Good(h) <=> /\ ~ BadArgument(IDs(NoFilter, ids)["id"], "id")
                       /\ ~ BadArgument(start, "state")
        /\ AskedAll(h) = {r \in Components : Asked(IDs(NoFilter, ids)["id"], "id", r.id)}
                           \cap Differing(state, flag, start)
    BY <2>1, RestField
  <2>5. AskedAll(h) = differ
    BY <2>4, IDsField DEF Named
  <2> HIDE DEF h, differ
  <2> QED  BY <1>0, <2>3, <2>4, <2>5, GoodSelects
<1>4. touched = Both(first, rest)
  BY DEF UpdateCompStatesTx, FinishCompUpdate, Touching
<1>5. locked = Both(first, SetCompWhereQuery(NoFilter))
  BY DEF UpdateCompStatesTx, FinishCompUpdate, Locking
<1>6. SetCompWhereQuery(NoFilter).err = Blank /\ SetCompWhereQuery(NoFilter).rows = Components
  <2>1. NoFilter \in Filter /\ \A c \in Fields : NoFilter[c] = <<>>
    BY NoFilterType
  <2>2. \A c \in {"id", "state", "orState", "orFlag"} : NoFilter[c] = <<>> /\ c \in Fields
    BY <2>1 DEF Fields, PlainFields, OrFields
  <2>3. Good(NoFilter)
    BY <2>1, <2>2, StateFilter, NoArguments
  <2>4. ASSUME NEW r \in Components
        PROVE  /\ Asked(NoFilter["id"], "id", r.id) /\ Asked(NoFilter["state"], "state", r.state)
               /\ DoQueryArgsWithOR(NoFilter, "orState", "orFlag", r.state, r.flag)
    BY <2>1, <2>2, NoArguments, ColumnsOr
  <2>5. AskedAll(NoFilter) = Components
    BY <2>1, <2>4, StateFilter
  <2> QED  BY <2>1, <2>3, <2>5, GoodSelects
<1>7. read = SetCompWhereQuery(h)
  BY DEF GetComponentIDs, Reading
<1>8. touched.err = Blank /\ touched.rows = differ
  <2>1. touched = Found(first.rows \cap rest.rows)
    BY <1>1, <1>2, <1>4 DEF Both
  <2> HIDE DEF first, rest, touched, differ
  <2>2. touched.err = Blank /\ touched.rows = first.rows \cap rest.rows
    BY <2>1, FoundOrFailed
  <2> QED  BY <1>1, <1>2, <2>2 DEF differ
<1>9. locked.err = Blank /\ locked.rows = Named(ids)
  <2>1. locked = Found(first.rows \cap Components)
    BY <1>1, <1>5, <1>6 DEF Both
  <2>2. Named(ids) \subseteq Components
    BY DEF Named
  <2> HIDE DEF first, locked
  <2>3. locked.err = Blank /\ locked.rows = first.rows \cap Components
    BY <2>1, FoundOrFailed
  <2> QED  BY <1>1, <2>2, <2>3
<1> HIDE DEF first, rest, touched, read, locked, differ, g, h
<1>10. /\ touched.err = Blank /\ touched.rows = differ
       /\ locked.err = Blank /\ locked.rows = Named(ids)
       /\ read.err = Blank /\ read.rows = differ
  BY <1>3, <1>7, <1>8, <1>9
<1> QED  BY <1>10 DEF touched, locked, read, differ

(* The elements of a finite set as a list. *)
LEMMA ListOfSet ==
  ASSUME NEW S, IsFiniteSet(S)
  PROVE  /\ SetToSeq(S) \in Seq(S)
         /\ \A x \in S : \E i \in DOMAIN SetToSeq(S) : SetToSeq(S)[i] = x
<1>1. Cardinality(S) \in Nat /\ ExistsBijection(1 .. Cardinality(S), S)
  BY FS_CardinalityType
<1>2. PICK b : b \in Bijection(1 .. Cardinality(S), S)
  BY <1>1 DEF ExistsBijection
<1>3. b \in [1 .. Cardinality(S) -> S] /\ IsInjective(b)
  BY <1>2 DEF Bijection, Injection
<1> DEFINE l == SetToSeq(S)
<1>4. l \in [1 .. Cardinality(S) -> S] /\ IsInjective(l)
  BY <1>3 DEF SetToSeq
<1> HIDE DEF l
<1>5. l \in Injection(1 .. Cardinality(S), S)
  BY <1>4 DEF Injection
<1>6. IsFiniteSet(1 .. Cardinality(S)) /\ Cardinality(1 .. Cardinality(S)) = Cardinality(S)
  BY <1>1, FS_Interval
<1>7. l \in Surjection(1 .. Cardinality(S), S)
  BY <1>5, <1>6, FS_Injection
<1>8. \A x \in S : \E i \in 1 .. Cardinality(S) : l[i] = x
  BY <1>7 DEF Surjection
<1>9. l \in Seq(S) /\ DOMAIN l = 1 .. Cardinality(S)
  BY <1>1, <1>4
<1> QED  BY <1>8, <1>9 DEF l

(* The list of the ids that were read names the rows that were read. *)
LEMMA ListedIds ==
  ASSUME NEW rows \in SUBSET Components, rows # {}
  PROVE  /\ GetIDList(rows) \in Seq(Argument) /\ GetIDList(rows) # <<>>
         /\ NormalValues(GetIDList(rows), "id")
         /\ Named(GetIDList(rows)) = rows
         /\ {r \in Components : r.id \in Values(GetIDList(rows), FALSE)} = rows
<1> DEFINE args == {Yes(x) : x \in IdsOfRows(rows)}
           l == GetIDList(rows)
<1>1. /\ IsFiniteSet(Components)
      /\ \A r \in Components : r.id \in Words /\ Norm("id", r.id) = r.id
      /\ \A r, t \in Components : r.id = t.id => r = t
  BY TablesAssumption DEF ComponentsAssumption
<1>2. IsFiniteSet(args)
  <2> DEFINE f == [r \in rows |-> Yes(r.id)]
  <2>1. f \in [rows -> args] /\ \A a \in args : \E r \in rows : f[r] = a
    BY DEF IdsOfRows
  <2> HIDE DEF f, args
  <2>2. f \in Surjection(rows, args)
    BY <2>1 DEF Surjection
  <2>3. IsFiniteSet(rows)
    BY <1>1, FS_Subset
  <2> QED  BY <2>2, <2>3, FS_Surjection
<1>3. /\ l \in Seq(args)
      /\ \A a \in args : \E i \in DOMAIN l : l[i] = a
  BY <1>2, ListOfSet DEF GetIDList
<1>4. \A a \in args : \E x \in IdsOfRows(rows) : a = Yes(x)
  OBVIOUS
<1>5. \A x \in IdsOfRows(rows) : Yes(x) \in args
  OBVIOUS
<1> HIDE DEF args, l
<1>6. \A x \in IdsOfRows(rows) : x \in Words /\ Norm("id", x) = x /\ Parse("id", x) = x
  BY <1>1, NormalFields DEF IdsOfRows
<1>7. \A x : Yes(x).val = x /\ Yes(x).neg = FALSE
  BY DEF Yes
<1>8. \A i \in DOMAIN l : \E x \in IdsOfRows(rows) : l[i] = Yes(x)
  BY <1>3, <1>4
<1>9. args \subseteq Argument
  BY <1>4, <1>6, NoFilterType
<1>10. l \in Seq(Argument)
  BY <1>3, <1>9
<1>11. l # <<>>
  <2>1. PICK x \in IdsOfRows(rows) : TRUE
    BY DEF IdsOfRows
  <2>2. PICK i \in DOMAIN l : l[i] = Yes(x)
    BY <1>3, <1>5
  <2> QED  BY <2>2
<1>12. NormalValues(l, "id")
  BY <1>6, <1>7, <1>8 DEF NormalValues
<1>13. Values(l, FALSE) = IdsOfRows(rows)
  BY <1>3, <1>5, <1>7, <1>8 DEF Values
<1>14. Values(l, TRUE) = {}
  BY <1>7, <1>8 DEF Values
<1>15. Normed(l, "id", FALSE) = IdsOfRows(rows) /\ Normed(l, "id", TRUE) = {}
  BY <1>6, <1>13, <1>14 DEF Normed
<1>16. \A r \in Components : r.id \in IdsOfRows(rows) <=> r \in rows
  BY <1>1 DEF IdsOfRows
<1>17. IdsOfRows(rows) # {}
  BY DEF IdsOfRows
<1>18. Named(l) = rows
  BY <1>11, <1>15, <1>16, <1>17 DEF Named, Naming, Asked
<1>19. {r \in Components : r.id \in Values(l, FALSE)} = rows
  BY <1>13, <1>16
<1> QED  BY <1>10, <1>11, <1>12, <1>18, <1>19 DEF l

(* One normal id names at most the row that has it. *)
LEMMA OneNamed ==
  ASSUME NEW ids \in Seq(Argument), Len(ids) = 1, NormalValues(ids, "id")
  PROVE  Named(ids) = {r \in Components : r.id = ids[1].val}
<1>1. ids = <<ids[1]>> /\ 1 \in DOMAIN ids /\ ids # <<>>
  OBVIOUS
<1>2. ids[1] = Yes(Norm("id", ids[1].val))
  BY <1>1 DEF NormalValues
<1> DEFINE x == Norm("id", ids[1].val)
<1>3. ids[1].val = x
  BY <1>2 DEF Yes
<1>4. Parse("id", ids[1].val) = x
  BY NormalFields
<1> HIDE DEF x
<1>5. ids = <<Yes(x)>>
  BY <1>1, <1>2 DEF x
<1>6. Normed(<<Yes(x)>>, "id", FALSE) = {Parse("id", x)} /\ Normed(<<Yes(x)>>, "id", TRUE) = {}
  BY OneArgument DEF Yes
<1>7. Normed(ids, "id", FALSE) = {x} /\ Normed(ids, "id", TRUE) = {}
  BY <1>3, <1>4, <1>5, <1>6
<1> QED  BY <1>1, <1>3, <1>7 DEF Named, Naming, Asked

LEMMA AppendToNone == ASSUME NEW S, NEW x \in S PROVE Append(<<>>, x) = <<x>>
OBVIOUS

(* Whom an update of roles tells. *)
OtherRole(rows, role, sub) ==
  {r \in rows : r.role # role \/ sub \notin {Blank, r.subrole}}

LEMMA RolesSelect ==
  ASSUME NEW ids \in Seq(Argument), NEW role \in Words, NEW sub \in Words,
         ids # <<>>, NormalValues(ids, "id"),
         Norm("role", role) = role, Norm("orRole", role) = role, Norm("orSubRole", sub) = sub
  PROVE  /\ OtherRoles(ids, role, sub).err = Blank
         /\ OtherRoles(ids, role, sub).rows = OtherRole(Named(ids), role, sub)
<1> DEFINE f == IDs(NoFilter, ids)
           g == IF sub = Blank THEN Role(f, No(role)) ELSE NotRoleOrSubRole(f, role, sub)
<1>1. f \in Filter /\ \A c \in Fields \ {"id"} : f[c] = <<>>
  BY IDsField
<1>2. \A r \in Components : Asked(f["id"], "id", r.id) <=> Naming(ids, r)
  BY IDsField
<1>3. OtherRoles(ids, role, sub) = SetCompWhereQuery(g)
  BY DEF OtherRoles, GetComponentIDs
<1>0. f["id"] = ids
  <2>1. "id" \in Fields /\ NoFilter \in [Fields -> Seq(Argument)]
    BY NoFilterType DEF Fields, PlainFields, Filter
  <2> QED  BY <2>1 DEF IDs
<1> HIDE DEF f
<1>4. {"id", "role", "orRole", "orSubRole", "orState", "orFlag"} \subseteq Fields
  BY DEF Fields, PlainFields, OrFields
<1>5. <<No(role)>> \in Seq(Argument) /\ <<No(sub)>> \in Seq(Argument)
  BY NoFilterType
<1>6. f \in [Fields -> Seq(Argument)]
  BY <1>1 DEF Filter
<1>7. Append(<<>>, No(role)) = <<No(role)>>
  <2>1. No(role) \in Argument
    BY NoFilterType
  <2> QED  BY <2>1, AppendToNone
<1>8. g = IF sub = Blank THEN [f EXCEPT !["role"] = <<No(role)>>]
          ELSE [f EXCEPT !["orRole"] = <<No(role)>>, !["orSubRole"] = <<No(sub)>>]
  BY <1>1, <1>4, <1>7 DEF Role, NotRoleOrSubRole, RoleOrSubRole
<1>9. g \in Filter
  BY <1>5, <1>6, <1>8 DEF Filter
<1>10. \A c \in Fields \ {"role", "orRole", "orSubRole"} : g[c] = f[c]
  BY <1>6, <1>8
<1>11. /\ sub = Blank => g["role"] = <<No(role)>> /\ g["orRole"] = <<>> /\ g["orSubRole"] = <<>>
       /\ sub # Blank => /\ g["role"] = <<>> /\ g["orRole"] = <<No(role)>>
                      /\ g["orSubRole"] = <<No(sub)>>
  BY <1>1, <1>4, <1>6, <1>8
<1> HIDE DEF g
<1>12. /\ Parse("role", role) = role /\ Parse("orRole", role) = role
       /\ Parse("orSubRole", sub) = sub
  BY NormalFields DEF OrFields
<1>13. ASSUME NEW r \in Components
       PROVE  r \in AskedAll(g) <=> Naming(ids, r) /\ (r.role # role \/ sub \notin {Blank, r.subrole})
  <2>1. \A c \in Columns \ {"id", "role"} : g[c] = <<>>
    BY <1>1, <1>10, NormalFields DEF OrFields
  <2>2. \A c \in Columns \ {"id", "role"} : Asked(g[c], c, r[c])
    BY <2>1, NoArguments
  <2>3. {"id", "role"} \subseteq Columns
    BY DEF Columns
  <2>4. (\A c \in Columns : Asked(g[c], c, r[c]))
        <=> Asked(g["id"], "id", r["id"]) /\ Asked(g["role"], "role", r["role"])
    BY <2>2, <2>3
  <2>5. g["id"] = f["id"] /\ g["orState"] = <<>> /\ g["orFlag"] = <<>>
    BY <1>1, <1>4, <1>10
  <2>6. DoQueryArgsWithOR(g, "orState", "orFlag", r.state, r.flag)
    BY <1>4, <1>9, <2>5, ColumnsOr
  <2>7. NumbersAsked(g, r.nid)
    <3>1. \A c \in NumberFields : g[c] = <<>>
      BY <1>1, <1>10, NormalFields DEF NumberFields
    <3> QED  BY <1>9, <3>1, NoNumbersAsked
  <2>8. r \in AskedAll(g) <=>
          /\ Naming(ids, r) /\ Asked(g["role"], "role", r.role)
          /\ DoQueryArgsWithOR(g, "orRole", "orSubRole", r.role, r.subrole)
    BY <1>2, <2>4, <2>5, <2>6, <2>7 DEF AskedAll
  <2>9. CASE sub = Blank
    <3>1. Normed(<<No(role)>>, "role", TRUE) = {role} /\ Normed(<<No(role)>>, "role", FALSE) = {}
      <4>1. /\ Normed(<<No(role)>>, "role", TRUE) = {Parse("role", role)}
            /\ Normed(<<No(role)>>, "role", FALSE) = {}
        BY OneArgument DEF No
      <4> QED  BY <1>12, <4>1
    <3>2. Asked(g["role"], "role", r.role) <=> r.role # role
      BY <1>11, <2>9, <3>1 DEF Asked
    <3>3. DoQueryArgsWithOR(g, "orRole", "orSubRole", r.role, r.subrole)
      BY <1>4, <1>9, <1>11, <2>9, ColumnsOr
    <3> QED  BY <2>8, <2>9, <3>2, <3>3
  <2>10. CASE sub # Blank
    <3>1. Asked(g["role"], "role", r.role)
      BY <1>11, <2>10, NoArguments
    <3>2. DoQueryArgsWithOR(g, "orRole", "orSubRole", r.role, r.subrole)
            <=> r.role # role \/ r.subrole # sub
      <4>1. g["orRole"] = <<No(role)>> /\ g["orSubRole"] = <<No(sub)>>
        BY <1>11, <2>10
      <4>2. DoQueryArgsWithOR(g, "orRole", "orSubRole", r.role, r.subrole)
              <=> r.role # Parse("orRole", role) \/ r.subrole # Parse("orSubRole", sub)
        <5>1. "orRole" \in Fields /\ "orSubRole" \in Fields
          BY <1>4
        <5> QED  BY <1>9, <4>1, <5>1, ColumnsDiffer
      <4> QED  BY <1>12, <4>2
    <3> QED  BY <2>8, <2>10, <3>1, <3>2
  <2> QED  BY <2>9, <2>10
<1>14. Good(g)
  <2>1. ~ BadArgument(g["id"], "id")
    <3>1. g["id"] = ids
      BY <1>0, <1>4, <1>10
    <3> QED  BY <3>1, NormalIsGood
  <2>2. \A c \in (Columns \cup OrFields) \ {"id", "role", "orRole", "orSubRole"} : g[c] = <<>>
    BY <1>1, <1>10, NormalFields
  <2>3. \A c \in (Columns \cup OrFields) \ {"id", "role", "orRole", "orSubRole"} : ~ BadArgument(g[c], c)
    BY <2>2, NoArguments
  <2>4. ~ BadArgument(<<No(role)>>, "role") /\ ~ BadArgument(<<No(role)>>, "orRole")
    BY <1>12, OneArgument DEF No
  <2>5. ~ BadArgument(<<No(sub)>>, "orSubRole")
    BY <1>12, OneArgument DEF No
  <2>6. ~ BadArgument(g["role"], "role") /\ ~ BadArgument(g["orRole"], "orRole")
        /\ ~ BadArgument(g["orSubRole"], "orSubRole")
    BY <1>11, <2>4, <2>5, NoArguments
  <2>7. \A c \in NumberFields : g[c] = <<>>
    BY <1>1, <1>10, NormalFields DEF NumberFields
  <2>8. ~ BadNumbers(g) /\ ~ EmptyNumbers(g)
    BY <1>9, <2>7, NoNumbersAsked
  <2> QED  BY <2>1, <2>3, <2>6, <2>8 DEF Good
<1>16. SetCompWhereQuery(g).err = Blank /\ SetCompWhereQuery(g).rows = AskedAll(g)
  BY <1>9, <1>14, GoodSelects
<1>15. AskedAll(g) \subseteq Components
  BY DEF AskedAll
<1> QED  BY <1>3, <1>13, <1>15, <1>16 DEF Named, OtherRole

(* What a transaction that is committed comes to, and one that is not. *)
LEMMA CommittedIs ==
  ASSUME NEW told, NEW q
  PROVE  /\ q.err = Blank => /\ Committed(told, q).err = Blank
                             /\ Committed(told, q).told = told
                             /\ Committed(told, q).rows = q.rows
         /\ q.err # Blank => Committed(told, q) = Rejected(q.err)
BY Zenon DEF Committed

LEMMA RejectedIs ==
  ASSUME NEW e
  PROVE  Rejected(e).err = e /\ Rejected(e).told = {} /\ Rejected(e).rows = {}
BY Zenon DEF Rejected

(* What an update comes to that changes these rows, and tells them. *)
ComesTo(u, rows) == u.err = Blank /\ u.told = IdsOfRows(rows) /\ u.rows = rows

(* An update of one id tells it if its row has changed. *)
LEMMA OneUpdates ==
  ASSUME NEW ids \in Seq(Argument), NEW start \in Seq(Argument),
         NEW state \in Words, NEW flag \in Words,
         Len(ids) = 1, NormalValues(ids, "id"), NormalValues(start, "state"),
         Norm("orState", state) = state, Norm("orFlag", flag) = flag, state # Blank,
         NEW differ, differ = Named(ids) \cap Differing(state, flag, start)
  PROVE  ComesTo(UpdateOne(ids, state, flag, start), differ)
<1> DEFINE q == Touching(ids, state, flag, start)
           told == IF q.rows = {} THEN {} ELSE {ids[1].val}
<1>1. ids # <<>>
  OBVIOUS
<1>2. q.err = Blank /\ q.rows = differ
  BY <1>1, UpdateSelects
<1>3. UpdateOne(ids, state, flag, start) = Committed(told, q)
  BY DEF UpdateOne, Touching
<1>4. \A r \in differ : r.id = ids[1].val
  BY OneNamed
<1>5. told = IdsOfRows(differ)
  BY <1>2, <1>4 DEF IdsOfRows
<1> HIDE DEF q, told
<1> QED  BY <1>2, <1>3, <1>5, CommittedIs DEF ComesTo

(* An update of several writes just those that its read has found. *)
LEMMA ManyUpdates ==
  ASSUME NEW ids \in Seq(Argument), NEW start \in Seq(Argument),
         NEW state \in Words, NEW flag \in Words,
         ids # <<>>, NormalValues(ids, "id"), NormalValues(start, "state"),
         Norm("orState", state) = state, Norm("orFlag", flag) = flag, state # Blank,
         NEW differ, differ = Named(ids) \cap Differing(state, flag, start)
  PROVE  ComesTo(UpdateMany(ids, state, flag, start), differ)
<1> DEFINE read == Reading(ids, state, flag, start)
           l == GetIDList(read.rows)
           q == IF read.err # Blank \/ read.rows = {} THEN read
                ELSE Locking(l, state, flag, start)
           told == IdsOfRows(read.rows)
<1>1. read.err = Blank /\ read.rows = differ
  BY UpdateSelects
<1>2. UpdateMany(ids, state, flag, start) = Committed(told, q)
  BY DEF UpdateMany, Reading, Locking
<1>3. differ \subseteq Components
  BY DEF Named
<1>4. q.err = Blank /\ q.rows = differ
  <2>1. CASE differ = {}
    <3>1. q = read
      BY <1>1, <2>1
    <3> QED  BY <1>1, <3>1
  <2>2. CASE differ # {}
    <3>1. /\ l \in Seq(Argument) /\ l # <<>> /\ NormalValues(l, "id")
          /\ Named(l) = differ
      BY <1>1, <1>3, <2>2, ListedIds
    <3>2. q = Locking(l, state, flag, start)
      BY <1>1, <2>2
    <3> HIDE DEF l, q
    <3>3. Locking(l, state, flag, start).err = Blank /\ Locking(l, state, flag, start).rows = Named(l)
      BY <3>1, UpdateSelects
    <3> QED  BY <3>1, <3>2, <3>3
  <2> QED  BY <2>1, <2>2
<1>5. told = IdsOfRows(differ)
  BY <1>1
<1> HIDE DEF q, told, read
<1> QED  BY <1>2, <1>4, <1>5, CommittedIs DEF ComesTo

(* So does an update of roles. *)
LEMMA RolesUpdate ==
  ASSUME NEW ids \in Seq(Argument), NEW role \in Words, NEW sub \in Words,
         ids # <<>>, NormalValues(ids, "id"), role # Blank,
         Norm("role", role) = role, Norm("orRole", role) = role, Norm("orSubRole", sub) = sub,
         NEW differ, differ = OtherRole(Named(ids), role, sub)
  PROVE  /\ BulkUpdateCompRole(ids, role, sub).err = Blank
         /\ BulkUpdateCompRole(ids, role, sub).told = IdsOfRows(differ)
         /\ BulkUpdateCompRole(ids, role, sub).rows = differ
<1> DEFINE read == OtherRoles(ids, role, sub)
           l == GetIDList(read.rows)
           q == IF read.err # Blank \/ read.rows = {} THEN read ELSE BulkUpdateCompRoleTx(l)
           told == IdsOfRows(read.rows)
<1>1. read.err = Blank /\ read.rows = differ
  BY RolesSelect
<1>2. BulkUpdateCompRole(ids, role, sub) = Committed(told, q)
  BY DEF BulkUpdateCompRole
<1>3. differ \subseteq Components
  BY DEF Named, OtherRole
<1>4. q.err = Blank /\ q.rows = differ
  <2>1. CASE differ = {}
    <3>1. q = read
      BY <1>1, <2>1
    <3> QED  BY <1>1, <3>1
  <2>2. CASE differ # {}
    <3>1. l # <<>> /\ {r \in Components : r.id \in Values(l, FALSE)} = differ
      BY <1>1, <1>3, <2>2, ListedIds
    <3>2. q = BulkUpdateCompRoleTx(l)
      BY <1>1, <2>2
    <3> HIDE DEF l, q
    <3>3. q = Found(differ)
      BY <3>1, <3>2 DEF BulkUpdateCompRoleTx
    <3> QED  BY <3>3, FoundOrFailed
  <2> QED  BY <2>1, <2>2
<1>5. told = IdsOfRows(differ)
  BY <1>1
<1> HIDE DEF q, told, read
<1> QED  BY <1>2, <1>4, <1>5, CommittedIs

(* The code of an answer tells whether its query failed. *)
LEMMA CodeTells ==
  ASSUME NEW err
  PROVE  Code(err) = 200 <=> err = Blank
<1>1. ASSUME err = Blank PROVE Code(err) = 200
  BY <1>1 DEF Code
<1>2. ASSUME err # Blank, err = "sql" PROVE Code(err) # 200
  <2>1. Code(err) = 500
    BY <1>2 DEF Code
  <2> QED  BY <2>1
<1>3. ASSUME err # Blank, err # "sql" PROVE Code(err) # 200
  <2>1. Code(err) = 400
    BY <1>3 DEF Code
  <2> QED  BY <2>1
<1> QED  BY <1>1, <1>2, <1>3

(* ------------------------- The requests and answers ------------------------ *)

(* What a request of each kind holds. *)
LEMMA UpdateRequest ==
  ASSUME NEW q, IsRequest(q), q.kind = "update"
  PROVE  /\ q.ids \in Seq(Argument) /\ q.start \in Seq(Argument)
         /\ q.state \in Words /\ q.flag \in Words
         /\ NormalValues(q.ids, "id") /\ NormalValues(q.start, "state")
         /\ Norm("orState", q.state) = q.state /\ Norm("orFlag", q.flag) = q.flag
BY DEF IsRequest

LEMMA RolesRequest ==
  ASSUME NEW q, IsRequest(q), q.kind = "roles"
  PROVE  /\ q.ids \in Seq(Argument) /\ q.role \in Words /\ q.sub \in Words
         /\ NormalValues(q.ids, "id")
         /\ Norm("role", q.role) = q.role /\ Norm("orRole", q.role) = q.role
         /\ Norm("orSubRole", q.sub) = q.sub
BY DEF IsRequest

LEMMA ListingNames ==
  Listings = {"locations", "frus", "history", "rfeps", "ceps", "seps", "interfaces"}
BY DEF Listings, Params

(* A request is answered once, by the handler of its kind. *)
LEMMA AnswerOfUpdate ==
  ASSUME QueryNext
  PROVE  /\ answer = NotYet /\ request' = request
         /\ request.kind \in {"update", "roles"} => answer' = Outcome(Update(request))
BY ListingNames DEF QueryNext, On

(* The components that a request asks to change, and when it is refused. *)
Changed(q) ==
  {r \in Components : Asked(q.ids, "id", r.id) /\ NeedsUpdate(q, r)}
Value(q) == IF q.kind = "update" THEN q.state ELSE q.role

LEMMA ChangedIs ==
  ASSUME NEW q, q.ids # <<>>
  PROVE  /\ q.kind = "update" =>
              Changed(q) = Named(q.ids) \cap Differing(q.state, q.flag, q.start)
         /\ q.kind = "roles" => Changed(q) = OtherRole(Named(q.ids), q.role, q.sub)
<1>1. Named(q.ids) = {r \in Components : Asked(q.ids, "id", r.id)}
  BY DEF Named, Naming
<1> QED  BY <1>1 DEF Changed, NeedsUpdate, Differing, OtherRole

(* An update that has ids and a value changes and tells what it should. *)
LEMMA UpdateDone ==
  ASSUME NEW q, IsRequest(q), q.kind \in {"update", "roles"}, q.ids # <<>>, Value(q) # Blank
  PROVE  /\ Update(q).err = Blank
         /\ Update(q).told = IdsOfRows(Changed(q))
         /\ Update(q).rows = Changed(q)
<1>1. CASE q.kind = "update"
  <2>1. /\ q.ids \in Seq(Argument) /\ q.start \in Seq(Argument)
        /\ q.state \in Words /\ q.flag \in Words
        /\ NormalValues(q.ids, "id") /\ NormalValues(q.start, "state")
        /\ Norm("orState", q.state) = q.state /\ Norm("orFlag", q.flag) = q.flag
    BY <1>1, UpdateRequest
  <2>2. PICK ids \in Seq(Argument), start \in Seq(Argument), state \in Words, flag \in Words :
          ids = q.ids /\ start = q.start /\ state = q.state /\ flag = q.flag
    BY <2>1
  <2>3. PICK differ : differ = Named(ids) \cap Differing(state, flag, start)
    OBVIOUS
  <2>4. /\ Norm("orState", state) = state /\ Norm("orFlag", flag) = flag
        /\ NormalValues(ids, "id") /\ NormalValues(start, "state")
        /\ ids # <<>> /\ state # Blank
    BY <1>1, <2>1, <2>2 DEF Value
  <2>5. Update(q) = UpdateCompStates(ids, state, flag, start)
    BY <1>1, <2>2 DEF Update
  <2>6. Changed(q) = differ
    BY <1>1, <2>2, <2>3, ChangedIs
  <2>7. CASE Len(ids) = 1
    <3>1. Update(q) = UpdateOne(ids, state, flag, start)
      BY <2>4, <2>5, <2>7 DEF UpdateCompStates
    <3>2. ComesTo(UpdateOne(ids, state, flag, start), differ)
      BY <2>3, <2>4, <2>7, OneUpdates
    <3> QED  BY <2>6, <3>1, <3>2 DEF ComesTo
  <2>8. CASE Len(ids) # 1
    <3>1. Update(q) = UpdateMany(ids, state, flag, start)
      BY <2>4, <2>5, <2>8 DEF UpdateCompStates
    <3>2. ComesTo(UpdateMany(ids, state, flag, start), differ)
      BY <2>3, <2>4, ManyUpdates
    <3> QED  BY <2>6, <3>1, <3>2 DEF ComesTo
  <2> QED  BY <2>7, <2>8
<1>2. CASE q.kind = "roles"
  <2>1. /\ q.ids \in Seq(Argument) /\ q.role \in Words /\ q.sub \in Words
        /\ NormalValues(q.ids, "id") /\ Norm("role", q.role) = q.role
        /\ Norm("orRole", q.role) = q.role /\ Norm("orSubRole", q.sub) = q.sub
    BY <1>2, RolesRequest
  <2>2. PICK differ : differ = OtherRole(Named(q.ids), q.role, q.sub)
    OBVIOUS
  <2>3. Update(q) = BulkUpdateCompRole(q.ids, q.role, q.sub)
    BY <1>2 DEF Update
  <2>4. Changed(q) = differ
    BY <1>2, <2>2, ChangedIs
  <2>5. q.role # Blank
    BY <1>2 DEF Value
  <2>6. /\ BulkUpdateCompRole(q.ids, q.role, q.sub).err = Blank
        /\ BulkUpdateCompRole(q.ids, q.role, q.sub).told = IdsOfRows(differ)
        /\ BulkUpdateCompRole(q.ids, q.role, q.sub).rows = differ
    BY <2>1, <2>2, <2>5, RolesUpdate
  <2> QED  BY <2>3, <2>4, <2>6
<1> QED  BY <1>1, <1>2

(* One without ids or without a value is refused. *)
LEMMA UpdateRefused ==
  ASSUME NEW q, q.kind \in {"update", "roles"}, q.ids = <<>> \/ Value(q) = Blank
  PROVE  Code(Update(q).err) = 400 /\ Update(q).rows = {}
<1>1. \A e \in {"ArgMissing", "BadState", "NoMatch"} : Code(e) = 400
  BY DEF Code, Blank
<1>2. CASE q.kind = "update" /\ q.ids = <<>>
  <2>1. Update(q) = Rejected("ArgMissing")
    BY <1>2 DEF Update, UpdateCompStates
  <2> QED  BY <1>1, <2>1, RejectedIs
<1>3. CASE q.kind = "update" /\ q.ids # <<>>
  <2>1. q.state = Blank
    BY <1>3 DEF Value
  <2>2. Update(q) = Rejected("BadState")
    <3>1. Update(q) = IF Len(q.ids) = 1 THEN UpdateOne(q.ids, q.state, q.flag, q.start)
                      ELSE Rejected("BadState")
      BY <1>3, <2>1 DEF Update, UpdateCompStates
    <3> DEFINE x == Touching(q.ids, q.state, q.flag, q.start)
               told == IF x.rows = {} THEN {} ELSE {q.ids[1].val}
    <3>2. x = Failed("BadState")
      BY <1>3, <2>1 DEF Touching, UpdateCompStatesTx
    <3>3. UpdateOne(q.ids, q.state, q.flag, q.start) = Committed(told, x)
      BY DEF UpdateOne, Touching
    <3> HIDE DEF x, told
    <3>4. x.err = "BadState" /\ x.err # Blank
      BY <3>2, FoundOrFailed DEF Blank
    <3>5. Committed(told, x) = Rejected(x.err)
      BY <3>4, CommittedIs
    <3> QED  BY <3>1, <3>3, <3>4, <3>5
  <2> QED  BY <1>1, <2>2, RejectedIs
<1>4. CASE q.kind = "roles" /\ q.ids = <<>>
  <2>1. Update(q) = Rejected("ArgMissing")
    BY <1>4 DEF Update, BulkUpdateCompRole
  <2> QED  BY <1>1, <2>1, RejectedIs
<1>5. CASE q.kind = "roles" /\ q.ids # <<>>
  <2>1. q.role = Blank
    BY <1>5 DEF Value
  <2>2. Update(q) = Rejected("NoMatch")
    BY <1>5, <2>1 DEF Update, BulkUpdateCompRole
  <2> QED  BY <1>1, <2>2, RejectedIs
<1> QED  BY <1>2, <1>3, <1>4, <1>5

(* The answer to an update. *)
LEMMA ToldIs ==
  ASSUME NEW u, NEW rows, u.told = IdsOfRows(rows)
  PROVE  /\ Outcome(u).code = Code(u.err)
         /\ u.err = Blank => Outcome(u) = [code |-> 200, rows |-> {[id |-> r.id] : r \in rows}]
<1>1. {[id |-> x] : x \in IdsOfRows(rows)} = {[id |-> r.id] : r \in rows}
  BY Zenon DEF IdsOfRows
<1> DEFINE c == Code(u.err)
           ids == {[id |-> x] : x \in IdsOfRows(rows)}
<1>2. Outcome(u) = [code |-> c, rows |-> ids]
  BY Zenon DEF Outcome
<1>3. u.err = Blank => c = 200
  BY CodeTells
<1>4. Outcome(u).code = Code(u.err)
  BY Zenon DEF Outcome
<1> HIDE DEF c, ids
<1>5. u.err = Blank => Outcome(u) = [code |-> 200, rows |-> ids]
  BY <1>2, <1>3
<1> QED  BY <1>1, <1>4, <1>5 DEF c, ids

(* What is written differs from what was there, but for a locked flag. *)
LEMMA WritingChanges ==
  ASSUME NEW r \in Components, NEW state, NEW flag, r.state # state \/ r.flag # flag
  PROVE  Written(r, state, flag) # r \/ r.flag = "Locked"
<1>1. r = [c \in DOMAIN r |-> r[c]] /\ {"state", "flag"} \subseteq DOMAIN r
  BY TablesAssumption DEF ComponentsAssumption, IsRow, PlainFields
<1>2. Written(r, state, flag).state = state
  BY <1>1 DEF Written
<1>3. r.flag # "Locked" => Written(r, state, flag).flag = flag
  BY <1>1 DEF Written, FlagCondNoChange
<1> QED  BY <1>2, <1>3

(* The requests are asked once, and answered as the properties say. *)
Asking == request \in QueryRequests

LEMMA AskingIsRequest == Asking => IsRequest(request)
BY RequestsAssumption DEF Asking

(* What UpdatesAgree asks of the answer to a request. *)
AnsweredWell(q, a) ==
  IF q.ids = <<>> \/ Value(q) = Blank
  THEN a.code = 400 /\ Update(q).rows = {}
  ELSE /\ a = [code |-> 200, rows |-> {[id |-> r.id] : r \in Changed(q)}]
       /\ Update(q).rows = Changed(q)
       /\ q.kind = "update" =>
            \A r \in Changed(q) : Written(r, q.state, q.flag) # r \/ r.flag = "Locked"

LEMMA UpdatesMeaning ==
  UpdatesAgree <=>
    (answer # NotYet /\ request.kind \in {"update", "roles"} => AnsweredWell(request, answer))
BY Zenon DEF UpdatesAgree, AnsweredWell, Value, Changed

LEMMA UpdateAnswered ==
  ASSUME NEW q, IsRequest(q), q.kind \in {"update", "roles"}
  PROVE  AnsweredWell(q, Outcome(Update(q)))
<1>1. CASE q.ids = <<>> \/ Value(q) = Blank
  <2>1. Code(Update(q).err) = 400 /\ Update(q).rows = {}
    BY <1>1, UpdateRefused
  <2>2. Outcome(Update(q)).code = Code(Update(q).err)
    BY Zenon DEF Outcome
  <2> QED  BY <1>1, <2>1, <2>2 DEF AnsweredWell
<1>2. CASE q.ids # <<>> /\ Value(q) # Blank
  <2>1. /\ Update(q).err = Blank
        /\ Update(q).told = IdsOfRows(Changed(q))
        /\ Update(q).rows = Changed(q)
    BY <1>2, UpdateDone
  <2>2. Outcome(Update(q)) = [code |-> 200, rows |-> {[id |-> r.id] : r \in Changed(q)}]
    BY <2>1, ToldIs
  <2>3. ASSUME q.kind = "update", NEW r \in Changed(q)
        PROVE  Written(r, q.state, q.flag) # r \/ r.flag = "Locked"
    BY <2>3, WritingChanges DEF Changed, NeedsUpdate
  <2> QED  BY Zenon, <1>2, <2>1, <2>2, <2>3 DEF AnsweredWell
<1> QED  BY <1>1, <1>2

LEMMA UpdatesStep ==
  ASSUME Asking, QueryNext
  PROVE  UpdatesAgree'
<1>1. IsRequest(request) /\ request' = request
  BY AskingIsRequest, AnswerOfUpdate
<1>2. ASSUME request.kind \in {"update", "roles"}
      PROVE  AnsweredWell(request, answer')
  <2>1. answer' = Outcome(Update(request))
    BY <1>2, AnswerOfUpdate
  <2>2. AnsweredWell(request, Outcome(Update(request)))
    BY <1>1, <1>2, UpdateAnswered
  <2> QED  BY <2>1, <2>2
<1>3. UpdatesAgree' <=>
        (answer # NotYet /\ request.kind \in {"update", "roles"} => AnsweredWell(request, answer))'
  BY UpdatesMeaning, PTL
<1>4. AnsweredWell(request, answer)' <=> AnsweredWell(request', answer')
  BY DEF AnsweredWell, Changed, Value, Update
<1> QED  BY <1>1, <1>2, <1>3, <1>4

(* An update changes the components that it should and tells just these,   *)
(* whatever its path; without ids, where its statement would have no       *)
(* condition, it is refused.                                               *)
THEOREM UpdatesAreAgreed == QuerySpec => []UpdatesAgree
<1>1. QueryInit => Asking /\ UpdatesAgree
  BY DEF QueryInit, Asking, UpdatesAgree
<1>2. Asking /\ UpdatesAgree /\ [QueryNext]_asked => (Asking /\ UpdatesAgree)'
  <2>1. ASSUME Asking, QueryNext PROVE Asking' /\ UpdatesAgree'
    BY <2>1, UpdatesStep, AnswerOfUpdate DEF Asking
  <2>2. ASSUME Asking, UpdatesAgree, UNCHANGED asked PROVE Asking' /\ UpdatesAgree'
    BY <2>2 DEF asked, Asking, UpdatesAgree, Update, NeedsUpdate
  <2> QED  BY <2>1, <2>2
<1> QED  BY <1>1, <1>2, PTL DEF QuerySpec

(* ------------------------- What a filter verifies to ------------------------ *)

(* The normal form of a filter, field by field. *)
NormalForm(f) == [c \in Fields |-> Parsed(f[c], c)]

LEMMA CheckFields ==
  /\ DOMAIN Checks = 1..19
  /\ \A i \in 1..19 : Checks[i].err # Blank /\ Checks[i].c \in Fields
  /\ \A c \in NumberFields : \E i \in 1..19 : Checks[i].c = c /\ ~ Checks[i].strict
  /\ \A c \in {"group", "partition"} : \E i \in 1..19 : Checks[i].c = c /\ Checks[i].strict
<1>1. DOMAIN Checks = 1..19
  BY DEF Checks
<1>2. \A i \in 1..19 : Checks[i].c \in Fields
  BY DEF Checks, Check, Fields, PlainFields, NumberFields, OrFields
<1>3. \A i \in 1..19 : Checks[i].err \in {"BadID", "BadType", "BadState", "BadFlag", "BadRole",
        "BadSubRole", "NoMatch", "BadSubtype", "BadArch", "BadClass", "NotAnInt", "NoGroup",
        "NoPartition"}
  BY DEF Checks, Check
<1>4. \A c \in NumberFields : \E i \in 1..19 : Checks[i].c = c /\ ~ Checks[i].strict
  BY DEF Checks, Check, NumberFields
<1>5. \A c \in {"group", "partition"} : \E i \in 1..19 : Checks[i].c = c /\ Checks[i].strict
  BY DEF Checks, Check
<1>6. Blank \notin {"BadID", "BadType", "BadState", "BadFlag", "BadRole",
        "BadSubRole", "NoMatch", "BadSubtype", "BadArch", "BadClass", "NotAnInt", "NoGroup",
        "NoPartition"}
  BY DEF Blank
<1> QED  BY <1>1, <1>2, <1>3, <1>4, <1>5, <1>6

(* What passes the verification is normalised, has the numbers that are    *)
(* asked for, and names groups and partitions without negation.            *)
(* A number: none stands for -1. *)
LEMMA NumberParsed ==
  ASSUME NEW c \in NumberFields, NEW w
  PROVE  /\ Parse(c, w) = NidStrTransform(w)
         /\ Parse(c, w) # Blank =>
              /\ w = Blank => Parse(c, w) = "-1" /\ Numbered(Parse(c, w)) = -1
              /\ w # Blank => /\ w \in DOMAIN Number /\ Parse(c, w) = w
                               /\ Numbered(Parse(c, w)) = Number[w] /\ Number[w] \in Nat
         /\ w = Blank => Parse(c, w) # Blank
<1>1. Parse(c, w) = NidStrTransform(w)
  <2>1. /\ c # "enabled" /\ c \notin {"group", "partition"}
        /\ c \notin {"softwarestatus", "locked", "reservation_disabled"}
    BY DEF NumberFields
  <2> QED  BY <2>1 DEF Parse
<1>2. "-1" # Blank
  BY DEF Blank
<1>3. w = Blank => NidStrTransform(w) = "-1"
  BY DEF NidStrTransform
<1>4. w # Blank /\ NidStrTransform(w) # Blank => w \in DOMAIN Number /\ NidStrTransform(w) = w
  BY DEF NidStrTransform, IsNumeric
<1>5. \A n \in DOMAIN Number : n # "-1" /\ Number[n] \in Nat
  BY WordsAssumption
<1> QED  BY <1>1, <1>2, <1>3, <1>4, <1>5 DEF Numbered

LEMMA VerifyNormalizes ==
  ASSUME NEW f \in Filter
  PROVE  /\ VerifyNormalize(f).f = NormalForm(f)
         /\ VerifyNormalize(f).err = Blank =>
              /\ \A c \in NumberFields : \A i \in DOMAIN f[c] : Parse(c, f[c][i].val) # Blank
              /\ \A c \in {"group", "partition"} : \A i \in DOMAIN f[c] : ~ f[c][i].neg
<1> DEFINE v == VerifyNormalize(f)
           bad == {i \in DOMAIN Checks :
                     LET k == Checks[i] IN
                     IF k.strict THEN ~CheckFilterFieldStrict(f[k.c], k)
                                 ELSE ~CheckFilterField(f[k.c], k)}
           err == IF bad = {} THEN Blank ELSE Checks[First(bad)].err
           g == [c \in Fields |-> [i \in DOMAIN f[c] |-> [f[c][i] EXCEPT !.val = Parse(c, @)]]]
<1>1. v = [err |-> err, f |-> g]
  BY Zenon DEF VerifyNormalize
<1>2. g = NormalForm(f)
  BY DEF NormalForm, Parsed
<1>3. ASSUME NEW i \in bad PROVE err # Blank
  <2>1. bad \in SUBSET Nat /\ bad \subseteq 1..19
    BY CheckFields
  <2>2. First(bad) \in bad
    BY <1>3, <2>1, FirstIsThere
  <2> HIDE DEF bad
  <2> QED  BY <1>3, <2>1, <2>2, CheckFields
<1>4. v.f = NormalForm(f) /\ v.err = err
  <2> HIDE DEF v, err, g
  <2> QED  BY <1>1, <1>2, Zenon
<1>5. ASSUME NEW c \in NumberFields, NEW i \in DOMAIN f[c], Parse(c, f[c][i].val) = Blank
      PROVE  err # Blank
  <2>1. PICK k \in 1..19 : Checks[k].c = c /\ ~ Checks[k].strict
    BY CheckFields
  <2>2. f[c][i].val # Blank
    BY <1>5, NumberParsed
  <2>3. ~ CheckFilterField(f[Checks[k].c], Checks[k])
    BY <1>5, <2>1, <2>2 DEF CheckFilterField
  <2>4. k \in bad
    BY <2>1, <2>3, CheckFields
  <2> QED  BY <1>3, <2>4
<1>6. ASSUME NEW c \in {"group", "partition"}, NEW i \in DOMAIN f[c], f[c][i].neg
      PROVE  err # Blank
  <2>1. PICK k \in 1..19 : Checks[k].c = c /\ Checks[k].strict
    BY CheckFields
  <2>2. ~ CheckFilterFieldStrict(f[Checks[k].c], Checks[k])
    BY <1>6, <2>1 DEF CheckFilterFieldStrict
  <2>3. k \in bad
    BY <2>1, <2>2, CheckFields
  <2> QED  BY <1>3, <2>3
<1> HIDE DEF v, err
<1> QED  BY <1>4, <1>5, <1>6 DEF v

(* The normal form of a filter asks for what the filter asks for. *)
LEMMA NormalFormAsks ==
  ASSUME NEW f \in Filter
  PROVE  /\ \A c \in Fields : /\ f[c] \in Seq(Argument)
                              /\ NormalForm(f)[c] = Parsed(f[c], c)
                              /\ DOMAIN NormalForm(f)[c] = DOMAIN f[c]
                              /\ \A neg : Values(NormalForm(f)[c], neg) = Normed(f[c], c, neg)
                              /\ \A v : WhereComponentCol(NormalForm(f)[c], v) <=> Asked(f[c], c, v)
         /\ \A c \in Fields : \A i \in DOMAIN f[c] :
              /\ NormalForm(f)[c][i].val = Parse(c, f[c][i].val)
              /\ NormalForm(f)[c][i].neg = f[c][i].neg
<1>1. \A c \in Fields : f[c] \in Seq(Argument)
  BY DEF Filter
<1>2. \A c \in Fields : NormalForm(f)[c] = Parsed(f[c], c)
  BY DEF NormalForm
<1>3. ASSUME NEW c \in Fields
      PROVE  /\ DOMAIN Parsed(f[c], c) = DOMAIN f[c]
             /\ \A neg : Values(Parsed(f[c], c), neg) = Normed(f[c], c, neg)
             /\ \A v : WhereComponentCol(Parsed(f[c], c), v) <=> Asked(f[c], c, v)
             /\ \A i \in DOMAIN f[c] : /\ Parsed(f[c], c)[i].val = Parse(c, f[c][i].val)
                                      /\ Parsed(f[c], c)[i].neg = f[c][i].neg
  BY <1>1, ParsedValues, ColumnAsks
<1> QED  BY <1>1, <1>2, <1>3

(* The numbers of a filter, all of them read. *)
NumbersRead(f) == \A c \in NumberFields : \A i \in DOMAIN f[c] : Parse(c, f[c][i].val) # Blank

LEMMA NumberOf ==
  ASSUME NEW f \in Filter, NumbersRead(f), NEW c \in NumberFields, NEW i \in DOMAIN f[c]
  PROVE  /\ NormalForm(f)[c][i].val = Parse("nid", f[c][i].val)
         /\ Numbered(NormalForm(f)[c][i].val) \in Int
         /\ f[c][i].val # Blank => Numbered(NormalForm(f)[c][i].val) >= 0
         /\ f[c][i].val = Blank => Numbered(NormalForm(f)[c][i].val) = -1
<1>1. "nid" \in NumberFields /\ c \in Fields
  BY DEF NumberFields, Fields
<1>2. NormalForm(f)[c][i].val = Parse(c, f[c][i].val)
  BY <1>1, NormalFormAsks
<1>3. Parse(c, f[c][i].val) = Parse("nid", f[c][i].val)
  BY <1>1, NumberParsed
<1>4. Parse(c, f[c][i].val) # Blank
  BY DEF NumbersRead
<1> QED  BY <1>2, <1>3, <1>4, NumberParsed

LEMMA NormalNone ==
  ASSUME NEW f \in Filter, NEW c \in Fields
  PROVE  /\ NormalForm(f)[c] = <<>> <=> f[c] = <<>>
         /\ f[c] = <<>> <=> DOMAIN f[c] = {}
<1>1. f[c] \in Seq(Argument) /\ NormalForm(f)[c] = Parsed(f[c], c) /\ DOMAIN <<>> = {}
  BY NormalFormAsks
<1>2. f[c] = <<>> <=> DOMAIN f[c] = {}
  <2>1. DOMAIN f[c] = 1..Len(f[c]) /\ Len(f[c]) \in Nat
    BY <1>1
  <2>2. DOMAIN f[c] = {} => Len(f[c]) = 0
    <3>1. Len(f[c]) # 0 => 1 \in 1..Len(f[c])
      BY <2>1
    <3> QED  BY <2>1, <3>1
  <2>3. Len(f[c]) = 0 => f[c] = <<>>
    BY <1>1
  <2> QED  BY <1>1, <2>2, <2>3
<1>3. DOMAIN f[c] = {} => Parsed(f[c], c) = <<>>
  BY <1>1 DEF Parsed
<1>4. DOMAIN Parsed(f[c], c) = DOMAIN f[c]
  BY <1>1, ParsedValues
<1> QED  BY <1>1, <1>2, <1>3, <1>4

(* A number matches the ranges and the list of a filter if the filter      *)
(* means it, unless an end has no start.                                   *)
LEMMA NumbersMeant ==
  ASSUME NEW f \in Filter, NEW nid \in Nat \cup {-1}, NumbersRead(f), ~ LooseEnd(f),
         ~ NumbersRefused(NormalForm(f))
  PROVE  WhereComponentNIDCol(NormalForm(f), nid) <=> HasNumber(f, nid)
<1> DEFINE g == NormalForm(f)
           ss == f["nid_start"]
           es == f["nid_end"]
           ls == f["nid"]
           S(i) == Numbered(g["nid_start"][i].val)
           E(i) == Numbered(g["nid_end"][i].val)
           yes == Normed(ls, "nid", FALSE)
           no == Normed(ls, "nid", TRUE)
           list == {Numbered(v) : v \in yes}
<1>1. {"nid", "nid_start", "nid_end"} \subseteq Fields /\ NumberFields = {"nid", "nid_start", "nid_end"}
  BY DEF NumberFields, Fields
<1>2. ss \in Seq(Argument) /\ es \in Seq(Argument) /\ ls \in Seq(Argument)
  BY <1>1, NormalFormAsks
<1>3. /\ DOMAIN g["nid_start"] = DOMAIN ss /\ DOMAIN g["nid_end"] = DOMAIN es
      /\ \A neg : Values(g["nid"], neg) = Normed(ls, "nid", neg)
  BY <1>1, NormalFormAsks
<1>4. DOMAIN ss = 1..Len(ss) /\ DOMAIN es = 1..Len(es) /\ Len(ss) \in Nat /\ Len(es) \in Nat
  BY <1>2
<1>5. (g["nid_start"] = <<>> <=> ss = <<>>) /\ (g["nid_end"] = <<>> <=> es = <<>>)
  BY <1>1, NormalNone
<1>6. /\ \A i \in DOMAIN ss : S(i) = Numbered(Parse("nid", ss[i].val)) /\ S(i) \in Int
      /\ \A i \in DOMAIN es : E(i) = Numbered(Parse("nid", es[i].val)) /\ E(i) \in Int
  BY <1>1, NumberOf
<1>7. nid \in Int /\ (nid >= 0 \/ nid = -1)
  OBVIOUS
<1>8. CASE ss = <<>> /\ es = <<>>
  <2>1. WhereComponentNIDCol(g, nid) <=> /\ yes # {} => \E v \in yes : nid = Numbered(v)
                                         /\ \A v \in no : nid # Numbered(v)
    BY <1>3, <1>5, <1>8 DEF WhereComponentNIDCol
  <2>2. HasNumber(f, nid) <=> /\ list = {} \/ nid \in list
                              /\ ~ \E v \in no : nid = Numbered(v)
    BY <1>8 DEF HasNumber
  <2> QED  BY <2>1, <2>2
<1>9. CASE ~ (ss = <<>> /\ es = <<>>)
  <2> DEFINE From(i) == nid >= S(i)
             UpTo(i) == nid <= E(i)
             Within1(i) == IF i \in DOMAIN ss THEN nid >= S(i) /\ (i \in DOMAIN es => nid <= E(i))
                           ELSE 0 <= nid /\ nid <= E(i)
  <2>1. WhereComponentNIDCol(g, nid) <=>
          /\ \/ \E i \in DOMAIN ss : From(i) /\ (i \in DOMAIN es => UpTo(i))
             \/ \E i \in DOMAIN es \ DOMAIN ss : UpTo(i)
             \/ \E v \in yes : nid = Numbered(v)
          /\ ss = <<>> => nid >= 0
    BY <1>3, <1>5, <1>9 DEF WhereComponentNIDCol
  <2>2. HasNumber(f, nid) <=> nid \in list \/ InRange(f, nid)
    BY <1>9 DEF HasNumber
  <2>3. InRange(f, nid) <=> \E i \in DOMAIN ss \cup DOMAIN es : Within1(i)
    <3>1. ASSUME NEW i \in DOMAIN ss \cup DOMAIN es
          PROVE  nid \in (IF i \in DOMAIN ss THEN Numbered(Parse("nid", ss[i].val)) ELSE 0) ..
                         (IF i \in DOMAIN es THEN Numbered(Parse("nid", es[i].val)) ELSE nid)
                 <=> Within1(i)
      <4> DEFINE lo == IF i \in DOMAIN ss THEN Numbered(Parse("nid", ss[i].val)) ELSE 0
                 hi == IF i \in DOMAIN es THEN Numbered(Parse("nid", es[i].val)) ELSE nid
      <4>1. lo = (IF i \in DOMAIN ss THEN S(i) ELSE 0) /\ hi = (IF i \in DOMAIN es THEN E(i) ELSE nid)
        BY <1>6
      <4>2. lo \in Int /\ hi \in Int
        BY <1>6, <1>7, <4>1
      <4>3. nid \in lo..hi <=> lo <= nid /\ nid <= hi
        BY <1>7, <4>2
      <4>4. Within1(i) <=> lo <= nid /\ nid <= hi
        BY <1>7, <3>1, <4>1, <4>2
      <4> QED  BY <4>3, <4>4
    <3> HIDE DEF Within1
    <3> QED  BY <3>1 DEF InRange
  <2>4. nid \in list <=> \E v \in yes : nid = Numbered(v)
    OBVIOUS
  <2>5. CASE ss # <<>>
    <3>1. Len(es) <= Len(ss)
      BY <1>4, <2>5 DEF LooseEnd
    <3>2. DOMAIN es \ DOMAIN ss = {}
      BY <1>4, <3>1
    <3>3. \A i \in DOMAIN ss \cup DOMAIN es : i \in DOMAIN ss
      BY <3>2
    <3> QED  BY <2>1, <2>2, <2>3, <2>4, <2>5, <3>2, <3>3
  <2>6. CASE ss = <<>>
    <3>1. DOMAIN ss = {}
      BY <2>6
    <3>2. \A i \in DOMAIN ls : ls[i] # Yes(Blank)
      BY <1>9, <2>6 DEF LooseEnd, Members
    <3>3. ASSUME NEW v \in yes, nid = Numbered(v) PROVE nid >= 0
      <4>1. PICK i \in DOMAIN ls : ~ ls[i].neg /\ v = Parse("nid", ls[i].val)
        BY DEF Normed, Values
      <4>2. ls[i] \in Argument
        BY <1>2, ArgumentTypes
      <4>3. ls[i].val # Blank
        <5> SUFFICES ASSUME ls[i].val = Blank PROVE ls[i] = Yes(Blank)
          BY <3>2
        <5> QED  BY <4>1, <4>2 DEF Argument, Yes
      <4>4. Numbered(g["nid"][i].val) >= 0 /\ g["nid"][i].val = v
        BY <1>1, <4>1, <4>3, NumberOf
      <4> QED  BY <3>3, <4>4
    <3>4. \A i \in DOMAIN es : Within1(i) <=> 0 <= nid /\ UpTo(i)
      BY <3>1
    <3>5. nid >= 0 <=> 0 <= nid
      BY <1>7
    <3> HIDE DEF Within1
    <3> QED  BY <2>1, <2>2, <2>3, <2>4, <2>6, <3>1, <3>3, <3>4, <3>5
  <2> QED  BY <2>5, <2>6
<1> QED  BY <1>8, <1>9

(* -------------------------- Groups and partitions -------------------------- *)

(* The pairs of the left join: each row is there, and each of its          *)
(* memberships.                                                            *)
LEMMA JoinPairs ==
  ASSUME NEW rows, NEW spaces, NEW j
  PROVE  j \in LeftJoin(rows, spaces) <=>
           \E r \in rows : \/ \E x \in Memberships(r) : x.ns \in spaces /\ j = <<r, x>>
                           \/ (\A x \in Memberships(r) : x.ns \notin spaces) /\ j = <<r, Null>>
<1> DEFINE m(r) == {x \in Memberships(r) : x.ns \in spaces}
           pairs(r) == {<<r, x>> : x \in IF m(r) = {} THEN {Null} ELSE m(r)}
<1>1. LeftJoin(rows, spaces) = UNION {pairs(r) : r \in rows}
  BY DEF LeftJoin
<1>2. \A r \in rows : j \in pairs(r) <=>
         \/ \E x \in Memberships(r) : x.ns \in spaces /\ j = <<r, x>>
         \/ (\A x \in Memberships(r) : x.ns \notin spaces) /\ j = <<r, Null>>
  OBVIOUS
<1> HIDE DEF pairs
<1> QED  BY <1>1, <1>2

(* The memberships of a row, and what a listing shows of them. *)
LEMMA MembershipsOf ==
  ASSUME NEW r
  PROVE  /\ \A x : x \in Memberships(r) <=>
              \/ \E g \in r.groups : x = [ns |-> "group", name |-> g]
              \/ \E p \in PartsOf(r) : x = [ns |-> "partition", name |-> p]
         /\ \A x \in Memberships(r) : x # Null /\ x.ns \in {"group", "partition"}
<1>1. Memberships(r) = {[ns |-> "group", name |-> g] : g \in r.groups} \cup
                       {[ns |-> "partition", name |-> p] : p \in PartsOf(r)}
  BY DEF Memberships, PartsOf
<1>2. \A x \in Memberships(r) : x.ns \in {"group", "partition"}
  BY <1>1
<1>3. Null.ns = "NULL"
  BY DEF Null
<1> QED  BY <1>1, <1>2, <1>3

(* Both memberships of a pair are there if the rows of the component are   *)
(* two.                                                                    *)
LEMMA TwoOf ==
  ASSUME NEW a, NEW b, a # b, NEW S \in SUBSET {a, b}
  PROVE  Cardinality(S) = 2 <=> a \in S /\ b \in S
<1>1. S = {} \/ S = {a} \/ S = {b} \/ S = {a, b}
  OBVIOUS
<1>2. Cardinality({}) = 0 /\ Cardinality({a}) = 1 /\ Cardinality({b}) = 1
  BY FS_EmptySet, FS_Singleton
<1>3. Cardinality({a, b}) = 2
  <2>1. IsFiniteSet({a}) /\ b \notin {a} /\ {a, b} = {a} \cup {b}
    BY FS_Singleton
  <2> QED  BY <1>2, <2>1, FS_AddElement
<1> QED  BY <1>1, <1>2, <1>3

(* Which rows an answer is about. *)
RowsOf(q) == {j[1] : j \in q.rows}

(* A column of the filter that may ask for no membership. *)
Names(args) == Values(args, FALSE)
Belongs(mine, names) == IF names = {"NULL"} THEN mine = {} ELSE names = {} \/ mine \cap names # {}

(* Arguments none of which is negated. *)
Positive(args) == \E S : args \in Seq(S) /\ \A i \in DOMAIN args : args[i].neg = FALSE

LEMMA NamesOf ==
  ASSUME NEW args, Positive(args)
  PROVE  /\ Names(args) = {} <=> args = <<>>
         /\ Len(args) = 1 => Names(args) = {args[1].val}
<1>0. PICK S : args \in Seq(S) /\ \A i \in DOMAIN args : args[i].neg = FALSE
  BY DEF Positive
<1>1. DOMAIN args = 1..Len(args) /\ Len(args) \in Nat
  BY <1>0
<1>2. Names(args) = {args[i].val : i \in DOMAIN args}
  BY <1>0 DEF Names, Values
<1>3. args # <<>> => 1 \in DOMAIN args
  BY <1>0, <1>1
<1>4. args = <<>> => DOMAIN args = {}
  BY <1>0, <1>1
<1>5. Len(args) = 1 => DOMAIN args = {1}
  BY <1>1
<1> QED  BY <1>2, <1>3, <1>4, <1>5

(* The errors of the join leave these cases. *)
LEMMA JoinCases ==
  ASSUME NEW rows, NEW gs, NEW ps
  PROVE  LET inter == Len(ps) = 1 /\ Len(gs) = 1
             pn == Len(ps) = 1 /\ Names(ps) = {"NULL"}
             gn == Len(gs) = 1 /\ Names(gs) = {"NULL"}
             spaces == (IF pn \/ ~gn THEN {"partition"} ELSE {}) \cup
                       (IF gn \/ ~pn THEN {"group"} ELSE {})
             joined == LeftJoin(rows, spaces)
             kept == WhereComponentGrpCol(joined, Names(gs), Names(ps))
             q == JoinComponentsWithGroups(rows, gs, ps)
         IN q.err = Blank =>
              /\ inter \/ ps = <<>> \/ gs = <<>>
              /\ pn /\ ~gn => gs = <<>>
              /\ gn /\ ~pn => ps = <<>>
              /\ pn \/ gn => q.rows = {j \in joined : j[2] = Null}
              /\ ~pn /\ ~gn => /\ "NULL" \notin Names(gs) /\ "NULL" \notin Names(ps)
                               /\ q.rows = IF inter THEN HavingBoth(kept) ELSE kept
<1> DEFINE inter == Len(ps) = 1 /\ Len(gs) = 1
           pn == Len(ps) = 1 /\ Names(ps) = {"NULL"}
           gn == Len(gs) = 1 /\ Names(gs) = {"NULL"}
           spaces == (IF pn \/ ~gn THEN {"partition"} ELSE {}) \cup
                     (IF gn \/ ~pn THEN {"group"} ELSE {})
           joined == LeftJoin(rows, spaces)
           kept == WhereComponentGrpCol(joined, Names(gs), Names(ps))
           nulls == {j \in joined : j[2] = Null}
           chosen == IF inter THEN HavingBoth(kept) ELSE kept
           q == JoinComponentsWithGroups(rows, gs, ps)
<1>1. q = IF ~inter /\ ps # <<>> /\ gs # <<>> THEN Failed("MultipleGroupAndPart")
          ELSE IF pn /\ gs # <<>> /\ ~gn THEN Failed("NullPartBadGroup")
          ELSE IF gn /\ ps # <<>> /\ ~pn THEN Failed("NullGroupBadPart")
          ELSE IF pn \/ gn THEN Found(nulls)
          ELSE IF "NULL" \in Names(gs) THEN Failed("NullBadMixGroup")
          ELSE IF "NULL" \in Names(ps)  THEN Failed("NullBadMixPart")
          ELSE Found(chosen)
  BY Zenon DEF JoinComponentsWithGroups, Names
<1>2. \A e \in {"MultipleGroupAndPart", "NullPartBadGroup", "NullGroupBadPart",
               "NullBadMixGroup", "NullBadMixPart"} : Failed(e).err # Blank
  <2>1. \A e \in {"MultipleGroupAndPart", "NullPartBadGroup", "NullGroupBadPart",
               "NullBadMixGroup", "NullBadMixPart"} : e # Blank
    BY DEF Blank
  <2> QED  BY <2>1, FoundOrFailed
<1> HIDE DEF inter, pn, gn, nulls, chosen, q
<1>3. ASSUME q.err = Blank
      PROVE  /\ inter \/ ps = <<>> \/ gs = <<>>
             /\ pn /\ ~gn => gs = <<>>
             /\ gn /\ ~pn => ps = <<>>
             /\ pn \/ gn => q = Found(nulls)
             /\ ~pn /\ ~gn => /\ "NULL" \notin Names(gs) /\ "NULL" \notin Names(ps)
                              /\ q = Found(chosen)
  BY <1>1, <1>2, <1>3
<1>4. ASSUME q.err = Blank
      PROVE  /\ inter \/ ps = <<>> \/ gs = <<>>
             /\ pn /\ ~gn => gs = <<>>
             /\ gn /\ ~pn => ps = <<>>
             /\ pn \/ gn => q.rows = nulls
             /\ ~pn /\ ~gn => /\ "NULL" \notin Names(gs) /\ "NULL" \notin Names(ps)
                              /\ q.rows = chosen
  BY <1>3, <1>4, FoundOrFailed
<1> QED  BY <1>4 DEF inter, pn, gn, nulls, chosen, q

(* A null on the right of the join: a row without memberships there. *)
LEMMA JoinNulls ==
  ASSUME NEW rows, NEW spaces
  PROVE  {j[1] : j \in {k \in LeftJoin(rows, spaces) : k[2] = Null}}
           = {r \in rows : \A x \in Memberships(r) : x.ns \notin spaces}
<1> DEFINE joined == LeftJoin(rows, spaces)
           none(r) == \A x \in Memberships(r) : x.ns \notin spaces
<1>1. ASSUME NEW j \in joined, j[2] = Null PROVE j[1] \in rows /\ none(j[1])
  <2>1. PICK r \in rows : \/ \E x \in Memberships(r) : x.ns \in spaces /\ j = <<r, x>>
                          \/ none(r) /\ j = <<r, Null>>
    BY JoinPairs
  <2>2. \A x \in Memberships(r) : j # <<r, x>>
    BY <1>1, MembershipsOf
  <2> QED  BY <2>1, <2>2
<1>2. ASSUME NEW r \in rows, none(r) PROVE <<r, Null>> \in joined
  BY <1>2, JoinPairs
<1> HIDE DEF joined, none
<1>3. ASSUME NEW r \in rows, none(r) PROVE \E j \in joined : j[2] = Null /\ j[1] = r
  BY <1>2, <1>3
<1>4. {j[1] : j \in {k \in joined : k[2] = Null}} = {r \in rows : none(r)}
  BY <1>1, <1>3
<1> QED  BY <1>4 DEF joined, none

(* The ones with a membership that is asked for. *)
LEMMA GroupsOrPartitions ==
  ASSUME NEW r, NEW gs, NEW ps
  PROVE  /\ (\A x \in Memberships(r) : x.ns \notin {"partition"}) <=> PartsOf(r) = {}
         /\ (\A x \in Memberships(r) : x.ns \notin {"group"}) <=> r.groups = {}
         /\ (\A x \in Memberships(r) : x.ns \notin {"group", "partition"})
              <=> r.groups = {} /\ PartsOf(r) = {}
         /\ (\E x \in Memberships(r) : x.ns = "group" /\ x.name \in gs) <=> r.groups \cap gs # {}
         /\ (\E x \in Memberships(r) : x.ns = "partition" /\ x.name \in ps) <=> PartsOf(r) \cap ps # {}
<1>1. \A g \in r.groups : [ns |-> "group", name |-> g] \in Memberships(r)
  BY MembershipsOf
<1>2. \A p \in PartsOf(r) : [ns |-> "partition", name |-> p] \in Memberships(r)
  BY MembershipsOf
<1>3. ASSUME NEW x \in Memberships(r)
      PROVE  /\ x.ns = "group" => x.name \in r.groups
             /\ x.ns = "partition" => x.name \in PartsOf(r)
             /\ x.ns \in {"group", "partition"}
  <2>1. \/ \E g \in r.groups : x = [ns |-> "group", name |-> g]
        \/ \E p \in PartsOf(r) : x = [ns |-> "partition", name |-> p]
    BY MembershipsOf
  <2> QED  BY <2>1
<1>4. \A g : [ns |-> "group", name |-> g].ns = "group" /\ [ns |-> "group", name |-> g].name = g
  OBVIOUS
<1>5. \A p : [ns |-> "partition", name |-> p].ns = "partition" /\ [ns |-> "partition", name |-> p].name = p
  OBVIOUS
<1> QED  BY <1>1, <1>2, <1>3, <1>4, <1>5

(* A filter of groups and of partitions selects the components that are in *)
(* one of each: whatever the join and the count of its rows.               *)
LEMMA JoinSelects ==
  ASSUME NEW rows, NEW gs, NEW ps, Positive(gs), Positive(ps)
  PROVE  LET q == JoinComponentsWithGroups(rows, gs, ps) IN
         q.err = Blank =>
           RowsOf(q) = {r \in rows : Belongs(r.groups, Names(gs)) /\ Belongs(PartsOf(r), Names(ps))}
<1> DEFINE inter == Len(ps) = 1 /\ Len(gs) = 1
           pn == Len(ps) = 1 /\ Names(ps) = {"NULL"}
           gn == Len(gs) = 1 /\ Names(gs) = {"NULL"}
           spaces == (IF pn \/ ~gn THEN {"partition"} ELSE {}) \cup
                     (IF gn \/ ~pn THEN {"group"} ELSE {})
           joined == LeftJoin(rows, spaces)
           kept == WhereComponentGrpCol(joined, Names(gs), Names(ps))
           q == JoinComponentsWithGroups(rows, gs, ps)
           meant == {r \in rows : Belongs(r.groups, Names(gs)) /\ Belongs(PartsOf(r), Names(ps))}
<1>1. q.err = Blank =>
        /\ inter \/ ps = <<>> \/ gs = <<>>
        /\ pn /\ ~gn => gs = <<>>
        /\ gn /\ ~pn => ps = <<>>
        /\ pn \/ gn => q.rows = {j \in joined : j[2] = Null}
        /\ ~pn /\ ~gn => /\ "NULL" \notin Names(gs) /\ "NULL" \notin Names(ps)
                         /\ q.rows = IF inter THEN HavingBoth(kept) ELSE kept
  BY JoinCases
<1>2. /\ Names(gs) = {} <=> gs = <<>>
      /\ Names(ps) = {} <=> ps = <<>>
      /\ Len(gs) = 1 => Names(gs) = {gs[1].val}
      /\ Len(ps) = 1 => Names(ps) = {ps[1].val}
  BY NamesOf
<1>3. ASSUME q.err = Blank, pn \/ gn PROVE RowsOf(q) = meant
  <2>1. RowsOf(q) = {r \in rows : \A x \in Memberships(r) : x.ns \notin spaces}
    <3>1. q.rows = {j \in joined : j[2] = Null}
      BY <1>1, <1>3
    <3>2. RowsOf(q) = {j[1] : j \in {k \in joined : k[2] = Null}}
      BY <3>1 DEF RowsOf
    <3> HIDE DEF spaces, q
    <3> QED  BY <3>2, JoinNulls
  <2>2. {} # {"NULL"}
    OBVIOUS
  <2>3. CASE pn /\ ~gn
    <3>1. gs = <<>> /\ Names(gs) = {} /\ Names(ps) = {"NULL"} /\ spaces = {"partition"}
      BY <1>1, <1>2, <1>3, <2>3
    <3>2. \A r \in rows : r \in meant <=> PartsOf(r) = {}
      BY <2>2, <3>1 DEF Belongs
    <3>3. meant \subseteq rows
      OBVIOUS
    <3> HIDE DEF spaces, q, meant
    <3>4. \A r \in rows : r \in RowsOf(q) <=> PartsOf(r) = {}
      BY <2>1, <3>1, GroupsOrPartitions
    <3>5. RowsOf(q) \subseteq rows
      BY <2>1
    <3> QED  BY <3>2, <3>3, <3>4, <3>5
  <2>4. CASE gn /\ ~pn
    <3>1. ps = <<>> /\ Names(ps) = {} /\ Names(gs) = {"NULL"} /\ spaces = {"group"}
      BY <1>1, <1>2, <1>3, <2>4
    <3>2. \A r \in rows : r \in meant <=> r.groups = {}
      BY <2>2, <3>1 DEF Belongs
    <3>3. meant \subseteq rows
      OBVIOUS
    <3> HIDE DEF spaces, q, meant
    <3>4. \A r \in rows : r \in RowsOf(q) <=> r.groups = {}
      BY <2>1, <3>1, GroupsOrPartitions
    <3>5. RowsOf(q) \subseteq rows
      BY <2>1
    <3> QED  BY <3>2, <3>3, <3>4, <3>5
  <2>5. CASE gn /\ pn
    <3>1. Names(ps) = {"NULL"} /\ Names(gs) = {"NULL"} /\ spaces = {"group", "partition"}
      BY <2>5
    <3>2. \A r \in rows : r \in meant <=> r.groups = {} /\ PartsOf(r) = {}
      BY <3>1 DEF Belongs
    <3>3. meant \subseteq rows
      OBVIOUS
    <3> HIDE DEF spaces, q, meant
    <3>4. \A r \in rows : r \in RowsOf(q) <=> r.groups = {} /\ PartsOf(r) = {}
      BY <2>1, <3>1, GroupsOrPartitions
    <3>5. RowsOf(q) \subseteq rows
      BY <2>1
    <3> QED  BY <3>2, <3>3, <3>4, <3>5
  <2> QED  BY <1>3, <2>3, <2>4, <2>5
<1>4. ASSUME q.err = Blank, ~pn, ~gn PROVE RowsOf(q) = meant
  <2>1. spaces = {"group", "partition"}
    BY <1>4
  <2>2. \A r \in rows : r \in meant <=>
          /\ Names(gs) = {} \/ r.groups \cap Names(gs) # {}
          /\ Names(ps) = {} \/ PartsOf(r) \cap Names(ps) # {}
    BY <1>1, <1>4 DEF Belongs
  <2>3. \A j : j \in joined <=>
          \E r \in rows : \/ \E x \in Memberships(r) : j = <<r, x>>
                          \/ Memberships(r) = {} /\ j = <<r, Null>>
    <3>1. \A r : \A x \in Memberships(r) : x.ns \in spaces
      BY <2>1, MembershipsOf
    <3> HIDE DEF spaces
    <3>2. \A r : (\A x \in Memberships(r) : x.ns \notin spaces) <=> Memberships(r) = {}
      BY <3>1
    <3> QED  BY <3>1, <3>2, JoinPairs
  <2> DEFINE Hit(x) == \/ x.ns = "group" /\ x.name \in Names(gs)
                       \/ x.ns = "partition" /\ x.name \in Names(ps)
  <2>4. Null.ns \notin {"group", "partition"}
    BY DEF Null
  <2> HIDE DEF joined
  <2>5. CASE gs = <<>> /\ ps = <<>>
    <3>1. kept = joined /\ ~ inter
      BY <1>2, <2>5 DEF WhereComponentGrpCol
    <3>2. q.rows = joined
      BY <1>1, <1>4, <3>1
    <3>3. ASSUME NEW r \in rows PROVE \E j \in joined : j[1] = r
      <4>1. PICK x : \/ x \in Memberships(r)
                     \/ Memberships(r) = {} /\ x = Null
        OBVIOUS
      <4>2. <<r, x>> \in joined
        BY <2>3, <4>1
      <4> QED  BY <4>2
    <3>4. \A j \in joined : j[1] \in rows
      BY <2>3
    <3>5. RowsOf(q) = rows
      BY <3>2, <3>3, <3>4 DEF RowsOf
    <3> QED  BY <1>2, <2>2, <2>5, <3>5
  <2>6. CASE ~ (gs = <<>> /\ ps = <<>>)
    <3>1. \A j : j \in kept <=> j \in joined /\ Hit(j[2])
      BY <1>2, <2>6 DEF WhereComponentGrpCol
    <3>2. \A j : j \in kept <=> \E r \in rows : \E x \in Memberships(r) : j = <<r, x>> /\ Hit(x)
      <4>1. ASSUME NEW j \in kept
            PROVE  \E r \in rows : \E x \in Memberships(r) : j = <<r, x>> /\ Hit(x)
        <5>1. j \in joined /\ Hit(j[2])
          BY <3>1
        <5>2. PICK r \in rows : \/ \E x \in Memberships(r) : j = <<r, x>>
                                \/ Memberships(r) = {} /\ j = <<r, Null>>
          BY <2>3, <5>1
        <5>3. ~ Hit(Null)
          BY <2>4
        <5>4. j # <<r, Null>>
          BY <5>1, <5>3
        <5> QED  BY <5>1, <5>2, <5>4
      <4>2. ASSUME NEW r \in rows, NEW x \in Memberships(r), Hit(x)
            PROVE  <<r, x>> \in kept
        BY <2>3, <3>1, <4>2
      <4> QED  BY <4>1, <4>2
    <3>3. \A r \in rows : (\E x \in Memberships(r) : Hit(x)) <=>
            r.groups \cap Names(gs) # {} \/ PartsOf(r) \cap Names(ps) # {}
      BY GroupsOrPartitions
    <3> HIDE DEF kept, Hit, meant, q
    <3>4. CASE ~ inter
      <4>1. q.rows = kept
        BY <1>1, <1>4, <3>4
      <4>2. RowsOf(q) = {r \in rows : \E x \in Memberships(r) : Hit(x)}
        <5>1. ASSUME NEW r \in rows, NEW x \in Memberships(r), Hit(x)
              PROVE  \E j \in kept : r = j[1]
          <6>1. <<r, x>> \in kept
            BY <3>2, <5>1
          <6> QED  BY <6>1
        <5>2. ASSUME NEW j \in kept
              PROVE  j[1] \in rows /\ \E x \in Memberships(j[1]) : Hit(x)
          BY <3>2
        <5> QED  BY <4>1, <5>1, <5>2 DEF RowsOf
      <4>3. ps = <<>> \/ gs = <<>>
        BY <1>1, <1>4, <3>4
      <4>4. \A r \in rows : r \in meant <=> (\E x \in Memberships(r) : Hit(x))
        BY <1>2, <2>2, <2>6, <3>3, <4>3
      <4>5. meant \subseteq rows
        BY DEF meant
      <4> QED  BY <4>2, <4>4, <4>5
    <3>5. CASE inter
      <4>1. q.rows = HavingBoth(kept)
        BY <1>1, <1>4, <3>5
      <4> DEFINE g == gs[1].val
                 p == ps[1].val
                 A(r) == <<r, [ns |-> "group", name |-> g]>>
                 B(r) == <<r, [ns |-> "partition", name |-> p]>>
                 Of(r) == {k \in kept : k[1] = r}
      <4>2. Names(gs) = {g} /\ Names(ps) = {p}
        BY <1>2, <3>5
      <4>3. ASSUME NEW r \in rows
            PROVE  /\ Of(r) \in SUBSET {A(r), B(r)} /\ A(r) # B(r)
                   /\ A(r) \in Of(r) <=> g \in r.groups
                   /\ B(r) \in Of(r) <=> p \in PartsOf(r)
        <5>1. ASSUME NEW x \in Memberships(r), Hit(x)
              PROVE  \/ g \in r.groups /\ x = [ns |-> "group", name |-> g]
                     \/ p \in PartsOf(r) /\ x = [ns |-> "partition", name |-> p]
          <6>1. \/ \E h \in r.groups : x = [ns |-> "group", name |-> h]
                \/ \E h \in PartsOf(r) : x = [ns |-> "partition", name |-> h]
            BY MembershipsOf
          <6>2. \/ x.ns = "group" /\ x.name = g
                \/ x.ns = "partition" /\ x.name = p
            BY <4>2, <5>1 DEF Hit
          <6> QED  BY <6>1, <6>2
        <5>2. ASSUME NEW k \in Of(r)
              PROVE  \/ g \in r.groups /\ k = A(r)
                     \/ p \in PartsOf(r) /\ k = B(r)
          <6>1. PICK s \in rows : \E x \in Memberships(s) : k = <<s, x>> /\ Hit(x)
            BY <3>2
          <6>2. PICK x \in Memberships(s) : k = <<s, x>> /\ Hit(x)
            BY <6>1
          <6>3. s = r
            BY <6>2
          <6> QED  BY <5>1, <6>2, <6>3
        <5>3. g \in r.groups => A(r) \in Of(r)
          <6>1. [ns |-> "group", name |-> g] \in Memberships(r) <=> g \in r.groups
            BY MembershipsOf
          <6>2. Hit([ns |-> "group", name |-> g])
            BY <4>2 DEF Hit
          <6> QED  BY <3>2, <6>1, <6>2
        <5>4. p \in PartsOf(r) => B(r) \in Of(r)
          <6>1. [ns |-> "partition", name |-> p] \in Memberships(r) <=> p \in PartsOf(r)
            BY MembershipsOf
          <6>2. Hit([ns |-> "partition", name |-> p])
            BY <4>2 DEF Hit
          <6> QED  BY <3>2, <6>1, <6>2
        <5>5. A(r) # B(r)
          <6>1. A(r)[2].ns = "group" /\ B(r)[2].ns = "partition"
            OBVIOUS
          <6> QED  BY <6>1
        <5> HIDE DEF A, B, Of
        <5> QED  BY <5>2, <5>3, <5>4, <5>5
      <4> HIDE DEF A, B, Of
      <4>4. \A r \in rows : Cardinality(Of(r)) = 2 <=> g \in r.groups /\ p \in PartsOf(r)
        BY <4>3, TwoOf
      <4>5. \A r \in rows : r \in meant <=> g \in r.groups /\ p \in PartsOf(r)
        BY <2>2, <4>2
      <4>6. \A r \in RowsOf(q) : r \in rows /\ Cardinality(Of(r)) = 2
        <5>1. ASSUME NEW j \in HavingBoth(kept)
              PROVE  j[1] \in rows /\ Cardinality(Of(j[1])) = 2
          BY <3>2 DEF HavingBoth, Of
        <5> QED  BY <4>1, <5>1 DEF RowsOf
      <4>7. ASSUME NEW r \in rows, Cardinality(Of(r)) = 2 PROVE r \in RowsOf(q)
        <5>1. A(r) \in Of(r)
          BY <4>3, <4>4, <4>7
        <5>2. A(r) \in kept /\ A(r)[1] = r
          BY <5>1 DEF Of, A
        <5>3. A(r) \in HavingBoth(kept)
          BY <4>7, <5>2 DEF HavingBoth, Of
        <5> QED  BY <4>1, <5>2, <5>3 DEF RowsOf
      <4>8. meant \subseteq rows
        BY DEF meant
      <4> QED  BY <4>4, <4>5, <4>6, <4>7, <4>8
    <3> QED  BY <3>4, <3>5
  <2> QED  BY <2>5, <2>6
<1> HIDE DEF pn, gn, q, meant
<1>5. q.err = Blank => RowsOf(q) = meant
  BY <1>3, <1>4
<1> QED  BY <1>5 DEF q, meant

(* ------------------------- The queries of components ------------------------ *)

(* What the builder asks of a component. *)
Selects(f, r) ==
  /\ \A c \in PlainFields : Asked(f[c], c, r[c])
  /\ NumbersAsked(f, r.nid)
  /\ MemberOf(r.groups, f["group"], "group")
  /\ MemberOf(PartsOf(r), f["partition"], "partition")
Selection(f) == {r \in Components : Selects(f, r)}

WithoutGroups(f) == MakeComponentQuery(f, FALSE)
WithGroups(f)    == MakeComponentQuery(f, TRUE)

LEMMA SentAsIs ==
  ASSUME NEW f, NEW q, Sent(f, q).err = Blank
  PROVE  ~ NumbersRefused(f) /\ Sent(f, q) = q
<1>1. Failed("sql").err # Blank
  <2>1. "sql" # Blank
    BY DEF Blank
  <2> QED  BY <2>1, FoundOrFailed
<1> QED  BY <1>1 DEF Sent

LEMMA NormalArguments ==
  ASSUME NEW f \in Filter, NEW c \in Fields, \A i \in DOMAIN f[c] : ~ f[c][i].neg
  PROVE  Positive(NormalForm(f)[c])
<1> DEFINE s == NormalForm(f)[c]
           S == {s[i] : i \in DOMAIN s}
<1>1. f[c] \in Seq(Argument) /\ DOMAIN s = DOMAIN f[c] /\ s = Parsed(f[c], c)
      /\ \A i \in DOMAIN f[c] : s[i].neg = f[c][i].neg
  BY NormalFormAsks
<1>2. DOMAIN s = 1..Len(f[c]) /\ Len(f[c]) \in Nat
  BY <1>1
<1>3. s = [i \in 1..Len(f[c]) |-> s[i]]
  <2>1. s = [i \in DOMAIN f[c] |-> [f[c][i] EXCEPT !.val = Parse(c, @)]]
    BY <1>1 DEF Parsed
  <2> HIDE DEF s
  <2> QED  BY <1>1, <1>2, <2>1
<1>4. \A i \in DOMAIN f[c] : f[c][i].neg = FALSE
  <2>1. \A i \in DOMAIN f[c] : f[c][i].neg \in BOOLEAN
    BY <1>1, ArgumentTypes DEF Argument
  <2> QED  BY <2>1
<1> HIDE DEF s
<1>5. s \in Seq(S)
  BY <1>2, <1>3
<1>6. \A i \in DOMAIN s : s[i].neg = FALSE
  BY <1>1, <1>4
<1>7. Positive(s)
  BY <1>5, <1>6 DEF Positive
<1> QED  BY <1>7 DEF s

(* A query finds the components that each column and each list of          *)
(* memberships asks for.                                                   *)
LEMMA QuerySelects ==
  ASSUME NEW f \in Filter, NEW q \in {WithoutGroups(f), WithGroups(f)}, q.err = Blank
  PROVE  /\ RowsOf(q) = Selection(f)
         /\ NumbersRead(f) /\ ~ NumbersRefused(NormalForm(f))
         /\ f["group"] = <<>> /\ f["partition"] = <<>> /\ q = WithGroups(f) =>
              q = JoinComponentsWithGroups(Selection(f), <<>>, <<>>)
<1> DEFINE v == VerifyNormalize(f)
           g == NormalForm(f)
           rows == WhereComponentCols(g)
           joins == JoinComponentsWithGroups(rows, g["group"], g["partition"])
           lists == Found(NoMembership(rows))
           none == f["group"] = <<>> /\ f["partition"] = <<>>
<1>1. v.f = g
  BY VerifyNormalizes
<1>2. /\ WithGroups(f) = IF v.err # Blank THEN Failed(v.err) ELSE Sent(g, joins)
      /\ WithoutGroups(f) = IF v.err # Blank THEN Failed(v.err)
                            ELSE Sent(g, IF ~none THEN joins ELSE lists)
  BY <1>1 DEF WithGroups, WithoutGroups, MakeComponentQuery, Verified, QueryOf
<1> HIDE DEF joins, lists, none, g
<1>3. v.err = Blank
  <2>1. v.err # Blank => Failed(v.err).err # Blank
    BY FoundOrFailed
  <2> HIDE DEF v
  <2> QED  BY <1>2, <2>1
<1>4. /\ NumbersRead(f)
      /\ \A c \in {"group", "partition"} : \A i \in DOMAIN f[c] : ~ f[c][i].neg
  BY <1>3, VerifyNormalizes DEF NumbersRead
<1>5. /\ ~ NumbersRefused(g)
      /\ q = joins \/ (none /\ q = lists)
      /\ q = WithGroups(f) => q = joins
  BY <1>2, <1>3, SentAsIs
<1>6. {"group", "partition"} \subseteq Fields
  BY DEF Fields
<1>7. \A c \in {"group", "partition"} : /\ Names(g[c]) = Normed(f[c], c, FALSE)
                                        /\ g[c] = <<>> <=> f[c] = <<>>
  BY <1>6, NormalFormAsks, NormalNone DEF Names, g
<1>8. rows = {r \in Components : /\ \A c \in PlainFields : Asked(f[c], c, r[c])
                                 /\ NumbersAsked(f, r.nid)}
  <2>1. PlainFields \subseteq Fields
    BY DEF Fields
  <2>2. \A r \in Components : \A c \in PlainFields : WhereComponentCol(g[c], r[c]) <=> Asked(f[c], c, r[c])
    BY <2>1, NormalFormAsks DEF g
  <2>3. \A r \in Components : WhereComponentNIDCol(g, r.nid) <=> NumbersAsked(f, r.nid)
    BY DEF NumbersAsked, NormalForm, g
  <2> QED  BY <2>2, <2>3 DEF WhereComponentCols
<1>9. \A r : /\ MemberOf(r.groups, f["group"], "group") <=> Belongs(r.groups, Names(g["group"]))
             /\ MemberOf(PartsOf(r), f["partition"], "partition")
                  <=> Belongs(PartsOf(r), Names(g["partition"]))
  BY <1>7 DEF MemberOf, Belongs
<1>10. Selection(f) = {r \in rows : /\ Belongs(r.groups, Names(g["group"]))
                                    /\ Belongs(PartsOf(r), Names(g["partition"]))}
  BY <1>8, <1>9 DEF Selection, Selects
<1> HIDE DEF rows
<1>11. joins.err = Blank => RowsOf(joins) = Selection(f)
  <2>1. Positive(g["group"]) /\ Positive(g["partition"])
    BY <1>4, <1>6, NormalArguments DEF g
  <2> QED  BY <1>10, <2>1, JoinSelects DEF joins
<1>12. none => RowsOf(lists) = Selection(f) /\ Selection(f) = rows
  <2>1. none => Names(g["group"]) = {} /\ Names(g["partition"]) = {}
    BY <1>7, NoArguments DEF none
  <2>2. {} # {"NULL"}
    OBVIOUS
  <2>3. none => Selection(f) = rows
    BY <1>10, <2>1, <2>2 DEF Belongs
  <2>4. lists.rows = {<<r, Null>> : r \in rows}
    BY FoundOrFailed DEF lists, NoMembership
  <2>5. RowsOf(lists) = rows
    <3>1. \A r \in rows : <<r, Null>> \in lists.rows /\ <<r, Null>>[1] = r
      BY <2>4
    <3>2. \A j \in lists.rows : j[1] \in rows
      BY <2>4
    <3>3. \A r \in rows : \E j \in lists.rows : r = j[1]
      BY <3>1
    <3> HIDE DEF lists
    <3> QED  BY <3>2, <3>3 DEF RowsOf
  <2> QED  BY <2>3, <2>5
<1>13. none => joins = JoinComponentsWithGroups(Selection(f), <<>>, <<>>)
  BY <1>7, <1>12 DEF joins, none
<1> QED  BY <1>4, <1>5, <1>11, <1>12, <1>13 DEF none, g

(* What a filter means, if its numbers are read and no end is loose. *)
MeantBy(f) == {r \in Components : Meant(f, r)}

LEMMA SelectionMeant ==
  ASSUME NEW f \in Filter, NumbersRead(f), ~ LooseEnd(f), ~ NumbersRefused(NormalForm(f))
  PROVE  Selection(f) = MeantBy(f)
<1>1. ASSUME NEW r \in Components PROVE NumbersAsked(f, r.nid) <=> HasNumber(f, r.nid)
  <2>1. r.nid \in Nat \cup {-1}
    BY TablesAssumption DEF ComponentsAssumption
  <2> QED  BY <2>1, NumbersMeant DEF NumbersAsked, NormalForm
<1> QED  BY <1>1 DEF Selection, Selects, MeantBy, Meant

(* An answer of components. *)
PlainRows(rows) == {[id |-> r.id, of |-> {}] : r \in rows}

LEMMA PlainAnswer ==
  ASSUME NEW q
  PROVE  /\ Plain(q).code = 200 <=> q.err = Blank
         /\ Plain(q).rows = PlainRows(RowsOf(q))
<1>1. Plain(q).code = Code(q.err) /\ Plain(q).rows = {[id |-> j[1].id, of |-> {}] : j \in q.rows}
  BY Zenon DEF Plain
<1>2. {[id |-> j[1].id, of |-> {}] : j \in q.rows} = PlainRows(RowsOf(q))
  BY DEF PlainRows, RowsOf
<1> QED  BY <1>1, <1>2, CodeTells

LEMMA RefusedAnswer ==
  /\ Refused.code = 400 /\ Refused.rows = {}
  /\ Missing.code = 404 /\ Missing.rows = {}
BY DEF Refused, Missing

(* The listing of components. *)
LEMMA GetAnswered ==
  ASSUME NEW f \in Filter, DoComponentsGet(f).code = 200
  PROVE  /\ DoComponentsGet(f).rows = PlainRows(Selection(f))
         /\ ~ LooseEnd(f) => DoComponentsGet(f).rows = PlainRows(MeantBy(f))
<1> DEFINE q == WithoutGroups(f)
<1>1. DoComponentsGet(f) = Plain(q)
  BY DEF DoComponentsGet, SelectComponents, WithoutGroups
<1>2. q.err = Blank
  BY <1>1, PlainAnswer
<1>3. /\ RowsOf(q) = Selection(f)
      /\ NumbersRead(f) /\ ~ NumbersRefused(NormalForm(f))
  BY <1>2, QuerySelects
<1> HIDE DEF q
<1> QED  BY <1>1, <1>3, PlainAnswer, SelectionMeant

(* A query of a part of the system. *)
LEMMA HierarchyAnswered ==
  ASSUME NEW f \in Filter, NEW ids, ids # {}, ~ LooseEnd(f),
         Plain(GetComponentsQuery(f, ids)).code = 200
  PROVE  Plain(GetComponentsQuery(f, ids)).rows =
           PlainRows({r \in MeantBy(f) :
             \/ ids \cap {"s0", "all"} # {}
             \/ r.id \in ids
             \/ f["type"] # <<>> /\ Above[r.id] \cap ids # {}})
<1> DEFINE all == ids \cap {"s0", "all"} # {}
           few == IF all THEN {} ELSE ids
           typed == f["type"] # <<>>
           q == WithoutGroups(f)
           In1(r) == IF typed THEN ({r.id} \cup Above[r.id]) \cap ids # {} ELSE r.id \in ids
           found == GetComponentsQuery(f, ids)
           part == {j \in q.rows : In1(j[1])}
<1>1. found = IF q.err # Blank \/ few = {} THEN q
              ELSE Found({j \in q.rows : IF typed THEN ({j[1].id} \cup Above[j[1].id]) \cap few # {}
                                         ELSE j[1].id \in few})
  BY Zenon DEF GetComponentsQuery, SelectComponentsHierarchy, Within, WithoutGroups
<1>2. found.err = Blank
  BY PlainAnswer
<1>3. found = IF q.err # Blank \/ all THEN q ELSE Found(part)
  BY <1>1
<1> HIDE DEF q, found, all, part, typed
<1>4. q.err = Blank
  BY <1>2, <1>3
<1>5. RowsOf(q) = MeantBy(f)
  <2>1. /\ RowsOf(q) = Selection(f)
        /\ NumbersRead(f) /\ ~ NumbersRefused(NormalForm(f))
    BY <1>4, QuerySelects DEF q
  <2> QED  BY <2>1, SelectionMeant
<1>6. \A r : In1(r) <=> r.id \in ids \/ (typed /\ Above[r.id] \cap ids # {})
  OBVIOUS
<1>7. all => RowsOf(found) = MeantBy(f)
  BY <1>3, <1>4, <1>5
<1>8. ~all => RowsOf(found) = {r \in MeantBy(f) : In1(r)}
  <2>1. ~all => found.rows = part
    BY <1>3, <1>4, FoundOrFailed
  <2>2. {j[1] : j \in part} = {r \in RowsOf(q) : In1(r)}
    <3> HIDE DEF In1
    <3> QED  BY DEF RowsOf, part
  <2> QED  BY <1>5, <2>1, <2>2 DEF RowsOf
<1> HIDE DEF In1
<1>9. RowsOf(found) = {r \in MeantBy(f) :
             \/ all
             \/ r.id \in ids
             \/ typed /\ Above[r.id] \cap ids # {}}
  BY <1>6, <1>7, <1>8
<1>10. Plain(found).rows = PlainRows(RowsOf(found))
  BY PlainAnswer
<1> QED  BY <1>9, <1>10 DEF found, all, typed

(* The listing of memberships shows all those of each component. *)
LEMMA JoinAll ==
  ASSUME NEW rows
  PROVE  LET q == JoinComponentsWithGroups(rows, <<>>, <<>>) IN
         /\ q.err = Blank
         /\ RowsOf(q) = rows
         /\ \A r \in rows : {j[2] : j \in {k \in q.rows : k[1] = r}} \ {Null} = Memberships(r)
<1> DEFINE q == JoinComponentsWithGroups(rows, <<>>, <<>>)
           joined == LeftJoin(rows, {"partition"} \cup {"group"})
<1>1. Values(<<>>, FALSE) = {} /\ Len(<<>>) # 1
  <2>1. {j \in DOMAIN <<>> : <<>>[j].neg = FALSE} = {}
    OBVIOUS
  <2>2. Len(<<>>) = 0
    OBVIOUS
  <2> QED  BY <2>1, <2>2 DEF Values
<1>2. q = Found(joined)
  BY <1>1 DEF JoinComponentsWithGroups, WhereComponentGrpCol
<1>3. q.err = Blank /\ q.rows = joined
  BY <1>2, FoundOrFailed
<1>4. \A j : j \in joined <=>
         \E r \in rows : \/ \E x \in Memberships(r) : j = <<r, x>>
                         \/ Memberships(r) = {} /\ j = <<r, Null>>
  <2>1. \A r : \A x \in Memberships(r) : x.ns \in {"partition"} \cup {"group"}
    BY MembershipsOf
  <2>2. \A r : (\A x \in Memberships(r) : x.ns \notin {"partition"} \cup {"group"}) <=> Memberships(r) = {}
    BY <2>1
  <2> QED  BY <2>1, <2>2, JoinPairs
<1> HIDE DEF q, joined
<1>5. \A r \in rows : \E j \in joined : j[1] = r
  <2> TAKE r \in rows
  <2>1. PICK x : \/ x \in Memberships(r)
                 \/ Memberships(r) = {} /\ x = Null
    OBVIOUS
  <2>2. <<r, x>> \in joined
    BY <1>4, <2>1
  <2> QED  BY <2>2
<1>6. \A j \in joined : j[1] \in rows /\ (j[2] \in Memberships(j[1]) \/ j[2] = Null)
  BY <1>4
<1>7. RowsOf(q) = rows
  BY <1>3, <1>5, <1>6 DEF RowsOf
<1>8. ASSUME NEW r \in rows
      PROVE  {j[2] : j \in {k \in joined : k[1] = r}} \ {Null} = Memberships(r)
  <2>1. ASSUME NEW x \in Memberships(r)
        PROVE  x # Null /\ \E j \in joined : j[1] = r /\ j[2] = x
    <3>1. <<r, x>> \in joined
      BY <1>4
    <3> QED  BY <3>1, MembershipsOf
  <2> QED  BY <1>6, <2>1
<1> QED  BY <1>3, <1>7, <1>8 DEF q

LEMMA MembershipsAnswered ==
  ASSUME NEW f \in Filter, DoMembershipsGet(f).code = 200
  PROVE  /\ DoMembershipsGet(f).rows =
              {[id |-> r.id, of |-> Memberships(r)] : r \in Selection(f)}
         /\ ~ LooseEnd(f) => Selection(f) = MeantBy(f)
<1> DEFINE q == SelectComponents(f, TRUE)
           shown(r) == {j[2] : j \in {k \in q.rows : k[1] = r}} \ {Null}
<1>1. /\ DoMembershipsGet(f).code = Code(q.err)
      /\ DoMembershipsGet(f).rows = {[id |-> r.id, of |-> shown(r)] : r \in RowsOf(q)}
  BY Zenon DEF DoMembershipsGet, Answer, RowsOf
<1>2. q.err = Blank
  <2> HIDE DEF q
  <2> QED  BY <1>1, CodeTells
<1>3. q = IF f["group"] # <<>> \/ f["partition"] # <<>>
          THEN AllMemberships(WithoutGroups(f)) ELSE WithGroups(f)
  BY DEF SelectComponents, WithoutGroups, WithGroups
<1>4. AllMemberships(WithoutGroups(f)) =
        IF WithoutGroups(f).err # Blank THEN WithoutGroups(f)
        ELSE JoinComponentsWithGroups(RowsOf(WithoutGroups(f)), <<>>, <<>>)
  BY DEF AllMemberships, RowsOf
<1> HIDE DEF q
<1>5. /\ q = JoinComponentsWithGroups(Selection(f), <<>>, <<>>)
      /\ NumbersRead(f) /\ ~ NumbersRefused(NormalForm(f))
  <2>1. CASE f["group"] # <<>> \/ f["partition"] # <<>>
    <3>1. WithoutGroups(f).err = Blank
      BY <1>2, <1>3, <1>4, <2>1
    <3>2. /\ RowsOf(WithoutGroups(f)) = Selection(f)
          /\ NumbersRead(f) /\ ~ NumbersRefused(NormalForm(f))
      BY <3>1, QuerySelects
    <3> QED  BY <1>3, <1>4, <2>1, <3>1, <3>2
  <2>2. CASE f["group"] = <<>> /\ f["partition"] = <<>>
    <3>1. q = WithGroups(f)
      BY <1>3, <2>2
    <3> QED  BY <1>2, <2>2, <3>1, QuerySelects
  <2> QED  BY <2>1, <2>2
<1>6. RowsOf(q) = Selection(f) /\ \A r \in Selection(f) : shown(r) = Memberships(r)
  BY <1>5, JoinAll
<1> HIDE DEF shown
<1> QED  BY <1>1, <1>5, <1>6, SelectionMeant

(* ---------------------------- Ranges of numbers ----------------------------- *)

(* What is picked is what there is at the positions. *)
LEMMA NthIsUnique ==
  ASSUME NEW n \in Nat, NEW K \in SUBSET (1..n), NEW i \in K
  PROVE  \E j \in 1..Cardinality(K) : Nth(K, j) = i
<1> DEFINE Upto(k) == {m \in K : m <= k}
<1>1. IsFiniteSet(K) /\ Cardinality(K) \in Nat
  <2>1. IsFiniteSet(1..n)
    BY FS_Interval
  <2> QED  BY <2>1, FS_Subset, FS_CardinalityType
<1>2. \A k \in K : k \in Nat
  OBVIOUS
<1>3. ASSUME NEW k \in K
      PROVE  /\ IsFiniteSet(Upto(k)) /\ Cardinality(Upto(k)) \in 1..Cardinality(K)
  <2>1. Upto(k) \in SUBSET K /\ k \in Upto(k)
    BY <1>2
  <2> HIDE DEF Upto
  <2>2. IsFiniteSet(Upto(k)) /\ Cardinality(Upto(k)) <= Cardinality(K)
    BY <1>1, <2>1, FS_Subset
  <2>3. Cardinality(Upto(k)) \in Nat /\ Cardinality(Upto(k)) # 0
    BY <2>1, <2>2, FS_CardinalityType, FS_EmptySet
  <2> QED  BY <1>1, <2>2, <2>3
<1>4. ASSUME NEW k \in K, NEW m \in K, k < m
      PROVE  Cardinality(Upto(k)) < Cardinality(Upto(m))
  <2>1. Upto(k) \subseteq Upto(m) /\ m \in Upto(m) /\ m \notin Upto(k)
    <3>1. k \in Nat /\ m \in Nat
      BY <1>2
    <3>2. \A l \in K : l <= k => l <= m
      BY <1>2, <1>4, <3>1
    <3>3. m <= m /\ ~(m <= k)
      BY <1>4, <3>1
    <3> QED  BY <3>2, <3>3
  <2> HIDE DEF Upto
  <2>2. Upto(k) # Upto(m)
    BY <2>1
  <2>3. Cardinality(Upto(k)) < Cardinality(Upto(m))
    BY <1>3, <2>1, <2>2, FS_Subset
  <2> QED  BY <2>3
<1> DEFINE j == Cardinality(Upto(i))
<1>5. j \in 1..Cardinality(K)
  BY <1>3
<1>6. \A k \in K : Cardinality(Upto(k)) = j => k = i
  <2> TAKE k \in K
  <2>1. Cardinality(Upto(k)) \in Nat /\ Cardinality(Upto(i)) \in Nat
    BY <1>3
  <2> HIDE DEF Upto
  <2>2. k < i => Cardinality(Upto(k)) < Cardinality(Upto(i))
    BY <1>4
  <2>3. i < k => Cardinality(Upto(i)) < Cardinality(Upto(k))
    BY <1>4
  <2> QED  BY <1>2, <2>1, <2>2, <2>3
<1>7. Nth(K, j) = i
  BY <1>6 DEF Nth
<1> QED  BY <1>5, <1>7

(* The positions of K, each once: every element picked is one of them. *)
PicksAll(s, K) ==
  /\ \A k \in 1..Cardinality(K) : \E i \in K : Pick(s, K)[k] = s[i]
  /\ \A i \in K : \E k \in 1..Cardinality(K) : Pick(s, K)[k] = s[i]

LEMMA PickedElements ==
  ASSUME NEW n \in Nat, NEW K \in SUBSET (1..n), NEW s
  PROVE  /\ Cardinality(K) \in Nat /\ DOMAIN Pick(s, K) = 1..Cardinality(K)
         /\ PicksAll(s, K)
<1>1. Pick(s, K) = [k \in 1..Cardinality(K) |-> s[Nth(K, k)]]
  BY DEF Pick, Nth
<1>2. Cardinality(K) \in Nat
  <2>1. IsFiniteSet(1..n)
    BY FS_Interval
  <2> QED  BY <2>1, FS_Subset, FS_CardinalityType
<1>3. \A k \in 1..Cardinality(K) : Nth(K, k) \in K
  BY NthExists
<1>4. \A i \in K : \E k \in 1..Cardinality(K) : Nth(K, k) = i
  BY NthIsUnique
<1> QED  BY <1>1, <1>2, <1>3, <1>4 DEF PicksAll

(* The filter that ranges make of a filter without numbers. *)
PairPositions(ranges) == {i \in DOMAIN ranges : Len(ranges[i]) > 1}
LonePositions(ranges) == {i \in DOMAIN ranges : Len(ranges[i]) = 1 /\ ranges[i][1] # Blank}

Ranged(g, f, ranges, pairs, lone) ==
  /\ g \in Filter
  /\ \A c \in Fields \ NumberFields : g[c] = f[c]
  /\ g["nid_start"] = [i \in DOMAIN pairs |-> Yes(pairs[i][1])]
  /\ g["nid_end"] = [i \in DOMAIN pairs |-> Yes(pairs[i][Len(pairs[i])])]
  /\ g["nid"] = [i \in DOMAIN lone |-> Yes(lone[i][1])]
  /\ DOMAIN pairs = 1..Len(g["nid_start"]) /\ Len(g["nid_start"]) = Len(g["nid_end"])
  /\ Len(g["nid_start"]) \in Nat
  /\ \A i \in DOMAIN pairs : /\ pairs[i] \in Members(ranges) /\ Len(pairs[i]) > 1
                             /\ pairs[i] \in Seq(Words)
                             /\ pairs[i][1] # Blank /\ pairs[i][Len(pairs[i])] # Blank
  /\ \A i \in DOMAIN lone : /\ lone[i] \in Members(ranges) /\ Len(lone[i]) = 1
                            /\ lone[i] \in Seq(Words) /\ lone[i][1] # Blank
  /\ \A b \in Members(ranges) \ {<<Blank>>} :
       (\E i \in DOMAIN pairs : pairs[i] = b) \/ (\E i \in DOMAIN lone : lone[i] = b)

LEMMA RangesFilter ==
  ASSUME NEW f \in Filter, \A c \in NumberFields : f[c] = <<>>,
         NEW ranges \in Seq(Seq(Words) \ {<<>>}),
         NidRangeToCompFilter(ranges, f).err = Blank
  PROVE  Ranged(NidRangeToCompFilter(ranges, f).f, f, ranges,
                Pick(ranges, PairPositions(ranges)), Pick(ranges, LonePositions(ranges)))
<1> DEFINE PP == PairPositions(ranges)
           LL == LonePositions(ranges)
           pairs == Pick(ranges, PP)
           lone == Pick(ranges, LL)
           A == [i \in DOMAIN pairs |-> Yes(pairs[i][1])]
           B == [i \in DOMAIN pairs |-> Yes(pairs[i][Len(pairs[i])])]
           C == [i \in DOMAIN lone |-> Yes(lone[i][1])]
           bad == \E i \in DOMAIN pairs : Blank \in {pairs[i][1], pairs[i][Len(pairs[i])]}
           h == [f EXCEPT !["nid_start"] = A \o @, !["nid_end"] = B \o @, !["nid"] = C \o @]
           q == NidRangeToCompFilter(ranges, f)
           g == q.f
<1>1. q = [err |-> IF bad THEN "BadRange" ELSE Blank, f |-> h]
  BY Zenon DEF NidRangeToCompFilter, PairPositions, LonePositions
<1>2. Len(ranges) \in Nat /\ DOMAIN ranges = 1..Len(ranges)
  OBVIOUS
<1>3. PP \in SUBSET (1..Len(ranges)) /\ LL \in SUBSET (1..Len(ranges))
  BY <1>2 DEF PairPositions, LonePositions
<1>4. \A i \in DOMAIN ranges : /\ ranges[i] \in Seq(Words) /\ ranges[i] # <<>>
                               /\ Len(ranges[i]) \in Nat /\ Len(ranges[i]) > 0
                               /\ ranges[i][1] \in Words /\ ranges[i][Len(ranges[i])] \in Words
  <2> TAKE i \in DOMAIN ranges
  <2>1. ranges[i] \in Seq(Words) /\ ranges[i] # <<>>
    BY <1>2
  <2>2. Len(ranges[i]) \in Nat /\ Len(ranges[i]) > 0 /\ DOMAIN ranges[i] = 1..Len(ranges[i])
    BY <2>1
  <2>3. 1 \in DOMAIN ranges[i] /\ Len(ranges[i]) \in DOMAIN ranges[i]
    BY <2>2
  <2> QED  BY <2>1, <2>2, <2>3
<1>5. /\ Cardinality(PP) \in Nat /\ DOMAIN pairs = 1..Cardinality(PP)
      /\ Cardinality(LL) \in Nat /\ DOMAIN lone = 1..Cardinality(LL)
  BY <1>2, <1>3, PickedElements
<1>6. /\ \A k \in DOMAIN pairs : \E i \in PP : pairs[k] = ranges[i]
      /\ \A i \in PP : \E k \in DOMAIN pairs : pairs[k] = ranges[i]
  <2>1. PICK m : m = Cardinality(PP)
    OBVIOUS
  <2>2. PICK s : s = pairs
    OBVIOUS
  <2>3. /\ \A k \in 1..Cardinality(PP) : \E i \in PP : Pick(ranges, PP)[k] = ranges[i]
        /\ \A i \in PP : \E k \in 1..Cardinality(PP) : Pick(ranges, PP)[k] = ranges[i]
    <3>1. PICK n \in Nat : n = Len(ranges)
      BY <1>2
    <3>2. PP \in SUBSET (1..n)
      BY <1>3, <3>1
    <3> HIDE DEF PP
    <3>3. PicksAll(ranges, PP)
      BY <3>2, PickedElements
    <3> QED  BY <3>3 DEF PicksAll
  <2>4. DOMAIN s = 1..m
    BY <1>5, <2>1, <2>2
  <2>5. /\ \A k \in 1..m : \E i \in PP : s[k] = ranges[i]
        /\ \A i \in PP : \E k \in 1..m : s[k] = ranges[i]
    BY <2>1, <2>2, <2>3, Zenon
  <2> HIDE DEF PP, pairs
  <2> QED  BY <2>2, <2>4, <2>5
<1>7. /\ \A k \in DOMAIN lone : \E i \in LL : lone[k] = ranges[i]
      /\ \A i \in LL : \E k \in DOMAIN lone : lone[k] = ranges[i]
  <2>1. PICK m : m = Cardinality(LL)
    OBVIOUS
  <2>2. PICK s : s = lone
    OBVIOUS
  <2>3. /\ \A k \in 1..Cardinality(LL) : \E i \in LL : Pick(ranges, LL)[k] = ranges[i]
        /\ \A i \in LL : \E k \in 1..Cardinality(LL) : Pick(ranges, LL)[k] = ranges[i]
    <3>1. PICK n \in Nat : n = Len(ranges)
      BY <1>2
    <3>2. LL \in SUBSET (1..n)
      BY <1>3, <3>1
    <3> HIDE DEF LL
    <3>3. PicksAll(ranges, LL)
      BY <3>2, PickedElements
    <3> QED  BY <3>3 DEF PicksAll
  <2>4. DOMAIN s = 1..m
    BY <1>5, <2>1, <2>2
  <2>5. /\ \A k \in 1..m : \E i \in LL : s[k] = ranges[i]
        /\ \A i \in LL : \E k \in 1..m : s[k] = ranges[i]
    BY <2>1, <2>2, <2>3, Zenon
  <2> HIDE DEF LL, lone
  <2> QED  BY <2>2, <2>4, <2>5
<1>8. \A i \in PP : i \in DOMAIN ranges /\ Len(ranges[i]) > 1
  BY DEF PairPositions
<1>9. \A i \in LL : i \in DOMAIN ranges /\ Len(ranges[i]) = 1 /\ ranges[i][1] # Blank
  BY DEF LonePositions
<1> HIDE DEF pairs, lone
<1>10. \A k \in DOMAIN pairs : /\ pairs[k] \in Members(ranges) /\ Len(pairs[k]) > 1
                               /\ pairs[k] \in Seq(Words)
                               /\ pairs[k][1] \in Words /\ pairs[k][Len(pairs[k])] \in Words
  <2> TAKE k \in DOMAIN pairs
  <2>1. PICK i \in PP : pairs[k] = ranges[i]
    BY <1>6
  <2> QED  BY <1>4, <1>8, <2>1 DEF Members
<1>11. \A k \in DOMAIN lone : /\ lone[k] \in Members(ranges) /\ Len(lone[k]) = 1
                              /\ lone[k] \in Seq(Words)
                              /\ lone[k][1] # Blank /\ lone[k][1] \in Words
  <2> TAKE k \in DOMAIN lone
  <2>1. PICK i \in LL : lone[k] = ranges[i]
    BY <1>7
  <2> QED  BY <1>4, <1>9, <2>1 DEF Members
<1>12. A \in Seq(Argument) /\ B \in Seq(Argument) /\ C \in Seq(Argument)
  <2>1. \A k \in DOMAIN pairs : Yes(pairs[k][1]) \in Argument /\ Yes(pairs[k][Len(pairs[k])]) \in Argument
    BY <1>10, NoFilterType
  <2>2. \A k \in DOMAIN lone : Yes(lone[k][1]) \in Argument
    BY <1>11, NoFilterType
  <2>3. PICK m \in Nat : m = Cardinality(PP) /\ DOMAIN pairs = 1..m
    BY <1>5
  <2>4. PICK l \in Nat : l = Cardinality(LL) /\ DOMAIN lone = 1..l
    BY <1>5
  <2>5. A \in [1..m -> Argument]
    BY <2>1, <2>3
  <2>6. B \in [1..m -> Argument]
    BY <2>1, <2>3
  <2>7. C \in [1..l -> Argument]
    BY <2>2, <2>4
  <2> HIDE DEF A, B, C
  <2>8. A \in Seq(Argument)
    BY <2>5
  <2>9. B \in Seq(Argument)
    BY <2>6
  <2>10. C \in Seq(Argument)
    BY <2>7
  <2> QED  BY <2>8, <2>9, <2>10
<1>13. /\ Len(A) = Cardinality(PP) /\ Len(B) = Cardinality(PP)
  BY <1>5
<1>14. f["nid_start"] = <<>> /\ f["nid_end"] = <<>> /\ f["nid"] = <<>>
       /\ {"nid", "nid_start", "nid_end"} \subseteq Fields
       /\ NumberFields = {"nid", "nid_start", "nid_end"}
  BY DEF NumberFields, Fields
<1>15. f \in [Fields -> Seq(Argument)]
  BY DEF Filter
<1> HIDE DEF A, B, C
<1>16. h = [f EXCEPT !["nid_start"] = A, !["nid_end"] = B, !["nid"] = C]
  <2>1. \A s \in Seq(Argument) : s \o <<>> = s
    OBVIOUS
  <2>2. A \o f["nid_start"] = A /\ B \o f["nid_end"] = B /\ C \o f["nid"] = C
    BY <1>12, <1>14, <2>1
  <2> QED  BY <2>2, <1>14, <1>15
<1>17. /\ h \in Filter /\ \A c \in Fields \ NumberFields : h[c] = f[c]
       /\ h["nid_start"] = A /\ h["nid_end"] = B /\ h["nid"] = C
  BY <1>12, <1>14, <1>15, <1>16 DEF Filter
<1> HIDE DEF h, bad, q
<1>18. q.f = h /\ (q.err = Blank => ~ bad)
  <2>1. "BadRange" # Blank
    BY DEF Blank
  <2>2. q.f = h /\ q.err = IF bad THEN "BadRange" ELSE Blank
    BY <1>1, Zenon
  <2> QED  BY <2>1, <2>2
<1>19. \A i \in DOMAIN pairs : pairs[i][1] # Blank /\ pairs[i][Len(pairs[i])] # Blank
  BY <1>18 DEF bad, q
<1>20. \A b \in Members(ranges) \ {<<Blank>>} :
         (\E i \in DOMAIN pairs : pairs[i] = b) \/ (\E i \in DOMAIN lone : lone[i] = b)
  <2> TAKE b \in Members(ranges) \ {<<Blank>>}
  <2>1. PICK i \in DOMAIN ranges : b = ranges[i]
    BY DEF Members
  <2>2. CASE Len(b) > 1
    <3>1. i \in PP
      BY <2>1, <2>2 DEF PairPositions
    <3> QED  BY <1>6, <2>1, <3>1
  <2>3. CASE ~ (Len(b) > 1)
    <3>1. Len(b) = 1
      <4>1. Len(b) \in Nat /\ Len(b) > 0
        BY <1>4, <2>1
      <4>2. PICK l \in Nat : l = Len(b) /\ l > 0 /\ ~ (l > 1)
        BY <2>3, <4>1
      <4>3. l = 1
        BY <4>2
      <4> QED  BY <4>2, <4>3
    <3>2. b[1] # Blank
      <4>1. b = <<b[1]>>
        BY <1>4, <2>1, <3>1
      <4> QED  BY <4>1
    <3>3. i \in LL
      BY <2>1, <3>1, <3>2 DEF LonePositions
    <3> QED  BY <1>7, <2>1, <3>3
  <2> QED  BY <2>2, <2>3
<1>21. Ranged(q.f, f, ranges, pairs, lone)
  BY <1>5, <1>10, <1>11, <1>13, <1>17, <1>18, <1>19, <1>20 DEF A, B, C, Ranged
<1> QED  BY <1>21 DEF q, pairs, lone

(* A number is in the ranges of a body, or there are none. *)
RangesHold(ranges, nid) ==
  LET given == Members(ranges) \ {<<Blank>>} IN
  \/ given = {}
  \/ \E b \in given : Number[b[1]] <= nid /\ nid <= Number[b[Len(b)]]

LEMMA RangesMeant ==
  ASSUME NEW f \in Filter, \A c \in NumberFields : f[c] = <<>>,
         NEW ranges \in Seq(Seq(Words) \ {<<>>}),
         NidRangeToCompFilter(ranges, f).err = Blank,
         NEW g, g = NidRangeToCompFilter(ranges, f).f, NumbersRead(g), NEW nid \in Nat \cup {-1}
  PROVE  HasNumber(g, nid) <=> RangesHold(ranges, nid)
<1>1. PICK pairs, lone : Ranged(g, f, ranges, pairs, lone)
  BY RangesFilter
<1> DEFINE ss == g["nid_start"]
           es == g["nid_end"]
           ls == g["nid"]
           Within1(b) == Number[b[1]] <= nid /\ nid <= Number[b[Len(b)]]
           given == Members(ranges) \ {<<Blank>>}
           list == {Numbered(v) : v \in Normed(ls, "nid", FALSE)}
<1>2. {"nid", "nid_start", "nid_end"} \subseteq Fields /\ NumberFields = {"nid", "nid_start", "nid_end"}
  BY DEF NumberFields, Fields
<1>3. /\ DOMAIN ss = DOMAIN pairs /\ DOMAIN es = DOMAIN pairs /\ DOMAIN ls = DOMAIN lone
      /\ \A i \in DOMAIN pairs : ss[i] = Yes(pairs[i][1]) /\ es[i] = Yes(pairs[i][Len(pairs[i])])
      /\ \A i \in DOMAIN lone : ls[i] = Yes(lone[i][1])
  BY <1>1 DEF Ranged
<1>4. \A w : Yes(w).neg = FALSE /\ Yes(w).val = w
  BY DEF Yes
<1>5. ASSUME NEW i \in DOMAIN pairs
      PROVE  /\ Numbered(Parse("nid", ss[i].val)) = Number[pairs[i][1]]
             /\ Numbered(Parse("nid", es[i].val)) = Number[pairs[i][Len(pairs[i])]]
             /\ Number[pairs[i][1]] \in Nat /\ Number[pairs[i][Len(pairs[i])]] \in Nat
  <2>1. ss[i].val = pairs[i][1] /\ es[i].val = pairs[i][Len(pairs[i])]
    BY <1>3, <1>4
  <2>2. pairs[i][1] # Blank /\ pairs[i][Len(pairs[i])] # Blank
    BY <1>1 DEF Ranged
  <2>3. Parse("nid_start", pairs[i][1]) # Blank /\ Parse("nid_end", pairs[i][Len(pairs[i])]) # Blank
    BY <1>2, <1>3, <2>1 DEF NumbersRead
  <2>4. /\ Parse("nid", pairs[i][1]) = Parse("nid_start", pairs[i][1])
        /\ Parse("nid", pairs[i][Len(pairs[i])]) = Parse("nid_end", pairs[i][Len(pairs[i])])
    BY <1>2, NumberParsed
  <2> QED  BY <1>2, <2>1, <2>2, <2>3, <2>4, NumberParsed
<1>6. ASSUME NEW i \in DOMAIN lone
      PROVE  /\ Numbered(Parse("nid", ls[i].val)) = Number[lone[i][1]] /\ Number[lone[i][1]] \in Nat
             /\ ls[i].neg = FALSE
  <2>1. ls[i].val = lone[i][1] /\ ls[i].neg = FALSE
    BY <1>3, <1>4
  <2>2. lone[i][1] # Blank
    BY <1>1 DEF Ranged
  <2>3. Parse("nid", lone[i][1]) # Blank
    BY <1>2, <1>3, <2>1 DEF NumbersRead
  <2> QED  BY <1>2, <2>1, <2>2, <2>3, NumberParsed
<1> HIDE DEF ss, es, ls
<1>7. /\ list = {Number[lone[i][1]] : i \in DOMAIN lone}
      /\ Normed(ls, "nid", TRUE) = {}
  <2>1. \A v : v \in Normed(ls, "nid", FALSE) <=> \E i \in DOMAIN lone : v = Parse("nid", ls[i].val)
    BY <1>3, <1>6 DEF Normed, Values
  <2>2. Normed(ls, "nid", TRUE) = {}
    <3>1. \A i \in DOMAIN ls : ls[i].neg # TRUE
      BY <1>3, <1>6
    <3> QED  BY <3>1 DEF Normed, Values
  <2>3. \A i \in DOMAIN lone : Parse("nid", ls[i].val) \in Normed(ls, "nid", FALSE)
    BY <2>1
  <2>4. \A n : n \in list <=> \E i \in DOMAIN lone : n = Number[lone[i][1]]
    <3>1. ASSUME NEW i \in DOMAIN lone PROVE Number[lone[i][1]] \in list
      <4>1. PICK v \in Normed(ls, "nid", FALSE) : v = Parse("nid", ls[i].val)
        BY <2>3
      <4> QED  BY <1>6, <4>1
    <3>2. ASSUME NEW n \in list PROVE \E i \in DOMAIN lone : n = Number[lone[i][1]]
      <4>1. PICK v \in Normed(ls, "nid", FALSE) : n = Numbered(v)
        OBVIOUS
      <4>2. PICK i \in DOMAIN lone : v = Parse("nid", ls[i].val)
        BY <2>1
      <4> QED  BY <1>6, <4>1, <4>2
    <3> HIDE DEF list
    <3> QED  BY <3>1, <3>2
  <2> HIDE DEF list
  <2> QED  BY <2>2, <2>4
<1>8. ASSUME NEW i \in DOMAIN lone
      PROVE  Within1(lone[i]) <=> nid = Number[lone[i][1]]
  <2>1. Len(lone[i]) = 1
    BY <1>1 DEF Ranged
  <2>2. PICK n \in Nat : n = Number[lone[i][1]]
    BY <1>6
  <2>3. n <= nid /\ nid <= n <=> nid = n
    OBVIOUS
  <2> QED  BY <2>1, <2>2, <2>3
<1>9. nid \in list <=> \E i \in DOMAIN lone : Within1(lone[i])
  <2> HIDE DEF list, Within1
  <2> QED  BY <1>7, <1>8
<1>10. (\E b \in given : Within1(b)) <=>
          (\E i \in DOMAIN pairs : Within1(pairs[i])) \/ (\E i \in DOMAIN lone : Within1(lone[i]))
  <2>1. /\ \A i \in DOMAIN pairs : pairs[i] \in given
        /\ \A i \in DOMAIN lone : lone[i] \in given
    <3>1. Len(<<Blank>>) = 1 /\ <<Blank>>[1] = Blank /\ ~ (1 > 1)
      OBVIOUS
    <3>2. \A i \in DOMAIN pairs : pairs[i] # <<Blank>>
      BY <1>1, <3>1 DEF Ranged
    <3>3. \A i \in DOMAIN lone : lone[i] # <<Blank>>
      BY <1>1, <3>1 DEF Ranged
    <3> QED  BY <1>1, <3>2, <3>3 DEF Ranged
  <2>2. \A b \in given : (\E i \in DOMAIN pairs : pairs[i] = b) \/ (\E i \in DOMAIN lone : lone[i] = b)
    BY <1>1 DEF Ranged
  <2> HIDE DEF Within1, given
  <2> QED  BY <2>1, <2>2
<1>11. given = {} <=> DOMAIN pairs = {} /\ DOMAIN lone = {}
  <2>1. Len(<<Blank>>) = 1 /\ <<Blank>>[1] = Blank /\ ~ (1 > 1)
    OBVIOUS
  <2>2. \A i \in DOMAIN pairs : pairs[i] # <<Blank>> /\ pairs[i] \in Members(ranges)
    BY <1>1, <2>1 DEF Ranged
  <2>3. \A i \in DOMAIN lone : lone[i] # <<Blank>> /\ lone[i] \in Members(ranges)
    BY <1>1, <2>1 DEF Ranged
  <2> QED  BY <1>1, <2>2, <2>3 DEF Ranged
<1>12. InRange(g, nid) <=> \E i \in DOMAIN pairs : Within1(pairs[i])
  <2>1. InRange(g, nid) <=>
          \E i \in DOMAIN pairs : nid \in Numbered(Parse("nid", ss[i].val))
                                           .. Numbered(Parse("nid", es[i].val))
    BY <1>3 DEF InRange, ss, es
  <2>2. ASSUME NEW i \in DOMAIN pairs
        PROVE  nid \in Numbered(Parse("nid", ss[i].val)) .. Numbered(Parse("nid", es[i].val))
                 <=> Within1(pairs[i])
    <3>1. PICK n \in Nat, m \in Nat : n = Number[pairs[i][1]] /\ m = Number[pairs[i][Len(pairs[i])]]
      BY <1>5
    <3> QED  BY <1>5, <3>1
  <2> HIDE DEF Within1
  <2> QED  BY <2>1, <2>2
<1>13. (ss = <<>> <=> DOMAIN pairs = {}) /\ (es = <<>> <=> DOMAIN pairs = {})
  BY <1>1, <1>2, <1>3, NormalNone DEF Ranged, ss, es
<1>14. HasNumber(g, nid) <=>
         IF ss = <<>> /\ es = <<>>
         THEN (list = {} \/ nid \in list) /\ ~ \E v \in Normed(ls, "nid", TRUE) : nid = Numbered(v)
         ELSE nid \in list \/ InRange(g, nid)
  BY Zenon DEF HasNumber, ss, es, ls
<1>15. list = {} <=> DOMAIN lone = {}
  BY <1>7
<1>16. RangesHold(ranges, nid) <=> given = {} \/ \E b \in given : Within1(b)
  BY DEF RangesHold
<1> HIDE DEF list, given, Within1
<1>17. CASE DOMAIN pairs = {}
  <2>1. HasNumber(g, nid) <=> list = {} \/ nid \in list
    BY <1>7, <1>13, <1>14, <1>17
  <2> QED  BY <1>9, <1>10, <1>11, <1>15, <1>16, <1>17, <2>1
<1>18. CASE DOMAIN pairs # {}
  <2>1. HasNumber(g, nid) <=> nid \in list \/ InRange(g, nid)
    BY <1>13, <1>14, <1>18
  <2> QED  BY <1>9, <1>10, <1>11, <1>12, <1>16, <1>18, <2>1
<1> QED  BY <1>17, <1>18

(* The listing of numbers and ranges: the rest of the filter still counts. *)
LEMMA NidsAnswered ==
  ASSUME NEW f \in Filter, NEW ranges \in Seq(Seq(Words) \ {<<>>}),
         DoComponentByNIDQueryPost(f, ranges).code = 200
  PROVE  DoComponentByNIDQueryPost(f, ranges).rows =
           PlainRows({r \in MeantBy(NoNumbers(f)) : RangesHold(ranges, r.nid)})
<1> DEFINE n == NoNumbers(f)
           q == NidRangeToCompFilter(ranges, n)
           g == q.f
           w == WithoutGroups(g)
           all == DoComponentByNIDQueryPost(f, ranges)
<1>1. n \in Filter /\ \A c \in NumberFields : n[c] = <<>>
  <2>1. NumberFields \subseteq Fields
    BY DEF Fields
  <2>2. f \in [Fields -> Seq(Argument)]
    BY DEF Filter
  <2>3. <<>> \in Seq(Argument)
    OBVIOUS
  <2> QED  BY <2>1, <2>2, <2>3 DEF NoNumbers, Filter
<1>2. all = IF ranges = <<>> \/ q.err # Blank THEN Refused ELSE Plain(w)
  BY Zenon DEF DoComponentByNIDQueryPost, SelectComponents, WithoutGroups
<1> HIDE DEF all, n
<1>3. all.code = 200
  BY DEF all
<1>4. q.err = Blank /\ all = Plain(w)
  <2>1. Refused.code # 200
    BY RefusedAnswer
  <2> HIDE DEF q, w
  <2> QED  BY <1>2, <1>3, <2>1
<1>5. PICK pairs, lone : Ranged(g, n, ranges, pairs, lone)
  BY <1>1, <1>4, RangesFilter
<1>6. g \in Filter /\ \A c \in Fields \ NumberFields : g[c] = n[c]
  BY <1>5 DEF Ranged
<1>7. w.err = Blank
  <2> HIDE DEF w
  <2> QED  BY <1>3, <1>4, PlainAnswer
<1>8. /\ RowsOf(w) = Selection(g) /\ NumbersRead(g) /\ ~ NumbersRefused(NormalForm(g))
  <2> HIDE DEF g
  <2> QED  BY <1>6, <1>7, QuerySelects
<1>9. ~ LooseEnd(g)
  <2>1. PICK l \in Nat : l = Len(g["nid_start"]) /\ l = Len(g["nid_end"])
    BY <1>5 DEF Ranged
  <2>2. "nid_end" \in Fields /\ "nid_start" \in Fields
    BY DEF Fields, NumberFields
  <2>3. g["nid_end"] \in Seq(Argument) /\ g["nid_start"] \in Seq(Argument)
    BY <1>6, <2>2, NormalFormAsks
  <2>4. g["nid_start"] = <<>> => g["nid_end"] = <<>>
    <3>1. \A a, b \in Seq(Argument) : Len(a) = Len(b) /\ a = <<>> => b = <<>>
      OBVIOUS
    <3> HIDE DEF g
    <3>2. PICK a \in Seq(Argument), b \in Seq(Argument) : a = g["nid_start"] /\ b = g["nid_end"]
      BY <2>3
    <3>3. Len(a) = Len(b)
      BY <2>1, <3>2
    <3>4. a = <<>> => b = <<>>
      BY <3>1, <3>3
    <3> QED  BY <3>2, <3>4
  <2>5. ~ (l > l)
    OBVIOUS
  <2> HIDE DEF g
  <2> QED  BY <2>1, <2>4, <2>5 DEF LooseEnd
<1>10. Selection(g) = MeantBy(g)
  <2> HIDE DEF g
  <2> QED  BY <1>6, <1>8, <1>9, SelectionMeant
<1>11. ASSUME NEW r \in Components
       PROVE  Meant(g, r) <=> Meant(n, r) /\ RangesHold(ranges, r.nid)
  <2>1. r.nid \in Nat \cup {-1}
    BY TablesAssumption DEF ComponentsAssumption
  <2>2. HasNumber(g, r.nid) <=> RangesHold(ranges, r.nid)
    BY <1>1, <1>4, <1>8, <2>1, RangesMeant
  <2>3. HasNumber(n, r.nid)
    <3>1. n["nid_start"] = <<>> /\ n["nid_end"] = <<>> /\ n["nid"] = <<>>
      BY <1>1 DEF NumberFields
    <3>2. Normed(<<>>, "nid", FALSE) = {} /\ Normed(<<>>, "nid", TRUE) = {}
      BY NoArguments
    <3>3. {Numbered(v) : v \in Normed(<<>>, "nid", FALSE)} = {}
      BY <3>2
    <3> QED  BY <3>1, <3>2, <3>3 DEF HasNumber
  <2>4. \A c \in PlainFields \cup {"group", "partition"} : g[c] = n[c]
    <3>1. PlainFields \cup {"group", "partition"} \subseteq Fields \ NumberFields
      BY DEF PlainFields, Fields, NumberFields
    <3> QED  BY <1>6, <3>1
  <2> HIDE DEF g
  <2> QED  BY <2>2, <2>3, <2>4 DEF Meant
<1>12. MeantBy(g) = {r \in MeantBy(n) : RangesHold(ranges, r.nid)}
  <2> HIDE DEF g
  <2> QED  BY <1>11 DEF MeantBy
<1>13. all.rows = PlainRows(RowsOf(w))
  <2> HIDE DEF w
  <2> QED  BY <1>4, PlainAnswer
<1> HIDE DEF w, g
<1>14. all.rows = PlainRows({r \in MeantBy(n) : RangesHold(ranges, r.nid)})
  <2>1. RowsOf(w) = MeantBy(g)
    BY <1>8, <1>10
  <2>2. RowsOf(w) = {r \in MeantBy(n) : RangesHold(ranges, r.nid)}
    BY <1>12, <2>1
  <2> QED  BY <1>13, <2>2
<1> QED  BY <1>14 DEF all, n

(* ---------------------- The listings of components ------------------------- *)

(* What the listings should hold. *)
MemberRows(rows) == {[id |-> r.id, of |-> Memberships(r)] : r \in rows}
PartOf(f, ids) ==
  {r \in MeantBy(f) : \/ ids \cap {"s0", "all"} # {}
                      \/ r.id \in ids
                      \/ f["type"] # <<>> /\ Above[r.id] \cap ids # {}}
Ranging(f, ranges) == {r \in MeantBy(NoNumbers(f)) : RangesHold(ranges, r.nid)}

LEMMA ComponentsMeaning ==
  ComponentsMatch <=>
    /\ Done({"components", "memberships"}) /\ ~ LooseEnd(request.form) =>
         answer.rows = IF request.kind = "memberships" THEN MemberRows(MeantBy(request.form))
                       ELSE PlainRows(MeantBy(request.form))
    /\ Done({"componentQuery"}) /\ ~ LooseEnd(request.form) =>
         answer.rows = PlainRows(PartOf(request.form, request.ids))
    /\ Done({"nids"}) =>
         answer.rows = PlainRows(Ranging(request.form, request.ranges))
<1> DEFINE meant == {c \in Components : Meant(request.form, c)}
           part == {c \in Components :
                      /\ Meant(request.form, c)
                      /\ \/ request.ids \cap {"s0", "all"} # {}
                         \/ c.id \in request.ids
                         \/ request.form["type"] # <<>> /\ Above[c.id] \cap request.ids # {}}
           ranging == {c \in Components : Meant(NoNumbers(request.form), c)
                                            /\ RangesHold(request.ranges, c.nid)}
           listed == {[id |-> r.id, of |-> IF request.kind = "memberships" THEN Memberships(r) ELSE {}]
                        : r \in meant}
<1>1. ComponentsMatch <=>
        /\ Done({"components", "memberships"}) /\ ~ LooseEnd(request.form) => answer.rows = listed
        /\ Done({"componentQuery"}) /\ ~ LooseEnd(request.form) => answer.rows = PlainRows(part)
        /\ Done({"nids"}) => answer.rows = PlainRows(ranging)
  BY Zenon DEF ComponentsMatch, PlainRows, RangesHold
<1>2. meant = MeantBy(request.form)
  BY DEF MeantBy
<1>3. part = PartOf(request.form, request.ids)
  BY DEF PartOf, MeantBy
<1>4. ranging = Ranging(request.form, request.ranges)
  BY DEF Ranging, MeantBy
<1> HIDE DEF meant, part, ranging
<1>5. listed = IF request.kind = "memberships" THEN MemberRows(meant) ELSE PlainRows(meant)
  BY DEF MemberRows, PlainRows
<1> HIDE DEF listed
<1> QED  BY <1>1, <1>2, <1>3, <1>4, <1>5

LEMMA ComponentRequest ==
  ASSUME NEW q, IsRequest(q)
  PROVE  /\ q.kind \in {"components", "memberships", "componentQuery", "nids"} => q.form \in Filter
         /\ q.kind = "nids" => q.ranges \in Seq(Seq(Words) \ {<<>>})
BY DEF IsRequest

LEMMA AnswerOfComponents ==
  ASSUME QueryNext
  PROVE  /\ request.kind = "components" => answer' = DoComponentsGet(request.form)
         /\ request.kind = "memberships" => answer' = DoMembershipsGet(request.form)
         /\ request.kind = "componentQuery" =>
              \/ \E x : request.ids = {x} /\ answer' = DoComponentsQueryGet(request.form, x)
              \/ answer' = DoComponentsQueryPost(request.form, request.ids)
         /\ request.kind = "nids" =>
              answer' = DoComponentByNIDQueryPost(request.form, request.ranges)
BY ListingNames DEF QueryNext, On

LEMMA ComponentsStep ==
  ASSUME Asking, QueryNext
  PROVE  ComponentsMatch'
<1>1. IsRequest(request) /\ request' = request
  BY AskingIsRequest, AnswerOfUpdate
<1>2. ASSUME request.kind = "components", answer'.code = 200, ~ LooseEnd(request.form)
      PROVE  answer'.rows = PlainRows(MeantBy(request.form))
  <2>1. answer' = DoComponentsGet(request.form)
    BY <1>2, AnswerOfComponents
  <2>2. request.form \in Filter
    BY <1>1, <1>2, ComponentRequest
  <2> QED  BY <1>2, <2>1, <2>2, GetAnswered
<1>3. ASSUME request.kind = "memberships", answer'.code = 200, ~ LooseEnd(request.form)
      PROVE  answer'.rows = MemberRows(MeantBy(request.form))
  <2>1. answer' = DoMembershipsGet(request.form)
    BY <1>3, AnswerOfComponents
  <2>2. request.form \in Filter
    BY <1>1, <1>3, ComponentRequest
  <2> QED  BY <1>3, <2>1, <2>2, MembershipsAnswered DEF MemberRows
<1>4. ASSUME request.kind = "componentQuery", answer'.code = 200, ~ LooseEnd(request.form)
      PROVE  answer'.rows = PlainRows(PartOf(request.form, request.ids))
  <2>1. request.ids # {} /\ answer' = Plain(GetComponentsQuery(request.form, request.ids))
    <3>1. CASE \E x : request.ids = {x} /\ answer' = DoComponentsQueryGet(request.form, x)
      BY <3>1 DEF DoComponentsQueryGet
    <3>2. CASE answer' = DoComponentsQueryPost(request.form, request.ids)
      BY <1>4, <3>2, RefusedAnswer DEF DoComponentsQueryPost
    <3> QED  BY <1>4, <3>1, <3>2, AnswerOfComponents
  <2>2. request.form \in Filter
    BY <1>1, <1>4, ComponentRequest
  <2>3. PICK f \in Filter : f = request.form
    BY <2>2
  <2>4. PICK ids : ids = request.ids
    OBVIOUS
  <2> QED  BY <1>4, <2>1, <2>3, <2>4, HierarchyAnswered DEF PartOf
<1>5. ASSUME request.kind = "nids", answer'.code = 200
      PROVE  answer'.rows = PlainRows(Ranging(request.form, request.ranges))
  <2>1. answer' = DoComponentByNIDQueryPost(request.form, request.ranges)
    BY <1>5, AnswerOfComponents
  <2>2. request.form \in Filter /\ request.ranges \in Seq(Seq(Words) \ {<<>>})
    BY <1>1, <1>5, ComponentRequest
  <2> QED  BY <1>5, <2>1, <2>2, NidsAnswered DEF Ranging
<1>6. ComponentsMatch' <=>
    ( /\ Done({"components", "memberships"}) /\ ~ LooseEnd(request.form) =>
         answer.rows = IF request.kind = "memberships" THEN MemberRows(MeantBy(request.form))
                       ELSE PlainRows(MeantBy(request.form))
      /\ Done({"componentQuery"}) /\ ~ LooseEnd(request.form) =>
         answer.rows = PlainRows(PartOf(request.form, request.ids))
      /\ Done({"nids"}) =>
         answer.rows = PlainRows(Ranging(request.form, request.ranges)) )'
  BY ComponentsMeaning, PTL
<1> QED  BY <1>1, <1>2, <1>3, <1>4, <1>5, <1>6 DEF Done

(* A listing of components holds those that every field of its filter asks *)
(* for, and no others: the joins, the counts and the ranges of numbers add *)
(* and lose none (selectComponents, joinComponentsWithGroups,              *)
(* nidRangeToCompFilter).                                                  *)
THEOREM ComponentsAreMatched == QuerySpec => []ComponentsMatch
<1>1. QueryInit => Asking /\ ComponentsMatch
  BY DEF QueryInit, Asking, ComponentsMatch, Done
<1>2. Asking /\ ComponentsMatch /\ [QueryNext]_asked => (Asking /\ ComponentsMatch)'
  <2>1. ASSUME Asking, QueryNext PROVE Asking' /\ ComponentsMatch'
    BY <2>1, ComponentsStep, AnswerOfUpdate DEF Asking
  <2>2. ASSUME Asking, ComponentsMatch, UNCHANGED asked PROVE Asking' /\ ComponentsMatch'
    BY <2>2 DEF asked, Asking, ComponentsMatch, Done
  <2> QED  BY <2>1, <2>2
<1> QED  BY <1>1, <1>2, PTL DEF QuerySpec

(* ------------------------- One parameter more or less ----------------------- *)

(* A form without one of its parameters. *)
Wider(f, c) == [f EXCEPT ![c] = <<>>]

LEMMA WiderFields ==
  ASSUME NEW f, NEW c \in DOMAIN f
  PROVE  /\ DOMAIN Wider(f, c) = DOMAIN f /\ Wider(f, c)[c] = <<>>
         /\ \A d \in DOMAIN f : d # c => Wider(f, c)[d] = f[d]
BY DEF Wider

LEMMA WiderFilter ==
  ASSUME NEW f \in Filter, NEW c \in Fields
  PROVE  Wider(f, c) \in Filter
<1>1. <<>> \in Seq(Argument)
  OBVIOUS
<1> QED  BY <1>1 DEF Wider, Filter

LEMMA WiderTexts ==
  ASSUME NEW C, NEW f \in [C -> Seq(Words)], NEW c \in C
  PROVE  Wider(f, c) \in [C -> Seq(Words)]
<1>1. <<>> \in Seq(Words)
  OBVIOUS
<1> QED  BY <1>1 DEF Wider

(* Of components. *)
LEMMA SelectionWiders ==
  ASSUME NEW f \in Filter, NEW c \in Fields \ NumberFields
  PROVE  Wider(f, c) \in Filter /\ Selection(f) \subseteq Selection(Wider(f, c))
<1> DEFINE g == Wider(f, c)
<1>1. g \in Filter /\ g[c] = <<>> /\ \A d \in Fields : d # c => g[d] = f[d]
  BY WiderFields, WiderFilter DEF Filter
<1> HIDE DEF g
<1>2. ASSUME NEW r \in Components, Selects(f, r) PROVE Selects(g, r)
  <2>1. \A d \in PlainFields : Asked(g[d], d, r[d])
    <3>1. PlainFields \subseteq Fields
      BY DEF Fields
    <3> QED  BY <1>1, <1>2, <3>1, NoArguments DEF Selects
  <2>2. NumbersAsked(g, r.nid)
    <3>1. {"nid", "nid_start", "nid_end"} \subseteq Fields /\ c \notin {"nid", "nid_start", "nid_end"}
      BY DEF Fields, NumberFields
    <3>2. \A d \in {"nid", "nid_start", "nid_end"} : NormalForm(g)[d] = NormalForm(f)[d]
      BY <1>1, <3>1 DEF NormalForm
    <3>3. WhereComponentNIDCol(NormalForm(f), r.nid)
      BY <1>2 DEF Selects, NumbersAsked, NormalForm
    <3>4. WhereComponentNIDCol(NormalForm(g), r.nid)
      BY <3>2, <3>3 DEF WhereComponentNIDCol
    <3> QED  BY <3>4 DEF NumbersAsked, NormalForm
  <2>3. Normed(<<>>, "group", FALSE) = {} /\ Normed(<<>>, "partition", FALSE) = {}
    BY NoArguments
  <2>4. {"group", "partition"} \subseteq Fields /\ {} # {"NULL"}
    BY DEF Fields
  <2>5. MemberOf(r.groups, g["group"], "group")
    BY <1>1, <1>2, <2>3, <2>4 DEF Selects, MemberOf
  <2>6. MemberOf(PartsOf(r), g["partition"], "partition")
    BY <1>1, <1>2, <2>3, <2>4 DEF Selects, MemberOf
  <2> QED  BY <2>1, <2>2, <2>5, <2>6 DEF Selects
<1> QED  BY <1>1, <1>2 DEF Selection, g

LEMMA ComponentsWiden ==
  ASSUME NEW f \in Filter, NEW c \in Fields \ NumberFields,
         DoComponentsGet(f).code = 200, DoComponentsGet(Wider(f, c)).code = 200
  PROVE  DoComponentsGet(f).rows \subseteq DoComponentsGet(Wider(f, c)).rows
<1>1. Wider(f, c) \in Filter /\ Selection(f) \subseteq Selection(Wider(f, c))
  BY SelectionWiders
<1>2. DoComponentsGet(f).rows = PlainRows(Selection(f))
  BY GetAnswered
<1>3. DoComponentsGet(Wider(f, c)).rows = PlainRows(Selection(Wider(f, c)))
  BY <1>1, GetAnswered
<1> QED  BY <1>1, <1>2, <1>3 DEF PlainRows

(* The texts of a form, normalised. *)
LEMMA NormalTexts ==
  ASSUME NEW C, NEW f \in [C -> Seq(Words)], NEW columns
  PROVE  /\ DOMAIN Normal(f, columns) = C
         /\ \A d \in C : f[d] = <<>> => Normal(f, columns)[d] = <<>>
         /\ \A d \in C \ columns : Normal(f, columns)[d] = f[d]
<1>1. /\ DOMAIN Normal(f, columns) = C
      /\ \A d \in C : Normal(f, columns)[d] =
           IF d \in columns THEN [i \in DOMAIN f[d] |-> Norm(d, f[d][i])] ELSE f[d]
  BY DEF Normal
<1>2. ASSUME NEW d \in C, f[d] = <<>> PROVE [i \in DOMAIN f[d] |-> Norm(d, f[d][i])] = <<>>
  <2>1. DOMAIN f[d] = {}
    BY <1>2
  <2> QED  BY <2>1
<1> QED  BY <1>1, <1>2

LEMMA NormalWithout ==
  ASSUME NEW C, NEW f \in [C -> Seq(Words)], NEW columns, NEW c \in C
  PROVE  /\ Normal(Wider(f, c), columns)[c] = <<>>
         /\ \A d \in C : d # c => Normal(Wider(f, c), columns)[d] = Normal(f, columns)[d]
<1> DEFINE g == Wider(f, c)
<1>1. g \in [C -> Seq(Words)] /\ g[c] = <<>> /\ \A d \in C : d # c => g[d] = f[d]
  BY WiderFields, WiderTexts
<1> HIDE DEF g
<1>2. Normal(g, columns)[c] = <<>>
  BY <1>1, NormalTexts
<1>3. \A d \in C : d # c => Normal(g, columns)[d] = Normal(f, columns)[d]
  BY <1>1 DEF Normal
<1> QED  BY <1>2, <1>3 DEF g

(* ------------------------------- The listings ------------------------------- *)

LEMMA ParamsOf ==
  /\ Params["locations"] = {"id", "type", "manufacturer", "partnumber", "serialnumber", "fruid", "partition"}
  /\ Params["frus"] = {"type", "manufacturer", "partnumber", "serialnumber", "fruid"}
  /\ Params["history"] = {"id", "fruid", "eventtype", "starttime", "endtime"}
  /\ Params["rfeps"] = {"id", "type", "fqdn", "uuid", "macaddr", "ipaddress", "laststatus"}
  /\ Params["ceps"] = {"id", "redfish_ep", "redfish_type", "type"}
  /\ Params["seps"] = {"redfish_ep", "service"}
  /\ Params["interfaces"] = {"id", "macaddress", "componentid", "type", "ipaddress", "network",
                             "olderthan", "newerthan"}
BY DEF Params

LEMMA ListOf ==
  ASSUME NEW f
  PROVE  /\ List("components", f) = DoComponentsGet(f)
         /\ List("locations", f) = DoHWInvByLocationGetAll(f)
         /\ List("frus", f) = DoHWInvByFRUGetAll(f)
         /\ List("history", f) = HwInvHistGetAll(f)
         /\ List("fruHistory", f) = HwInvHistGetAll(f)
         /\ List("rfeps", f) = DoRedfishEndpointsGet(f)
         /\ List("ceps", f) = DoComponentEndpointsGet(f)
         /\ List("seps", f) = DoServiceEndpointsGetAll(f)
         /\ List("interfaces", f) = DoCompEthInterfacesGet(f)
BY DEF List

LEMMA ListingAnswer ==
  ASSUME NEW rows
  PROVE  /\ Listing(rows).code = 200 /\ Listing(rows).rows = rows
         /\ Refused.code # 200 /\ Refused.rows = {}
         /\ Broken.code # 200 /\ Broken.rows = {}
         /\ One(rows).rows = rows
<1>1. Listing(rows).code = 200 /\ Listing(rows).rows = rows
  BY Zenon DEF Listing
<1>2. Broken.code = 500 /\ Broken.rows = {}
  BY Zenon DEF Broken
<1> QED  BY <1>1, <1>2, RefusedAnswer DEF One

(* Nothing more is asked of the columns. *)
Looser(columns, g, h) == \A d \in columns : h[d] = <<>> \/ h[d] = g[d]

LEMMA InWidens ==
  ASSUME NEW rows, NEW columns, NEW g, NEW h, Looser(columns, g, h)
  PROVE  In(rows, columns, g) \subseteq In(rows, columns, h)
<1>1. \A d \in columns : h[d] # <<>> => h[d] = g[d]
  BY DEF Looser
<1> QED  BY <1>1 DEF In

LEMMA MadeByWidens ==
  ASSUME NEW R, NEW S, R \subseteq S, NEW m, NEW n, n = m \/ n = <<>>
  PROVE  MadeBy(R, m) \subseteq MadeBy(S, n)
BY DEF MadeBy

LEMMA LocationsWiden ==
  ASSUME NEW f \in Texts("locations"), NEW c \in Params["locations"],
         DoHWInvByLocationGetAll(f).code = 200, DoHWInvByLocationGetAll(Wider(f, c)).code = 200
  PROVE  DoHWInvByLocationGetAll(f).rows \subseteq DoHWInvByLocationGetAll(Wider(f, c)).rows
<1> DEFINE g == Normal(f, {"id", "type", "partition"})
           h == Normal(Wider(f, c), {"id", "type", "partition"})
<1>1. f \in [Params["locations"] -> Seq(Words)]
  BY DEF Texts
<1>2. h[c] = <<>> /\ \A d \in Params["locations"] : d # c => h[d] = g[d]
  BY <1>1, NormalWithout
<1>3. /\ DoHWInvByLocationGetAll(f).rows = GetHWInvByLocFilter(g)
      /\ DoHWInvByLocationGetAll(Wider(f, c)).rows = GetHWInvByLocFilter(h)
  BY ListingAnswer DEF DoHWInvByLocationGetAll
<1> HIDE DEF g, h
<1>4. {"id", "type", "partnumber", "serialnumber", "fruid", "partition", "manufacturer"}
        \subseteq Params["locations"]
  BY ParamsOf
<1>5. In(Locations, {"id", "type", "partnumber", "serialnumber", "fruid", "partition"}, g)
        \subseteq In(Locations, {"id", "type", "partnumber", "serialnumber", "fruid", "partition"}, h)
  <2> DEFINE columns == {"id", "type", "partnumber", "serialnumber", "fruid", "partition"}
  <2>1. Looser(columns, g, h)
    BY <1>2, <1>4 DEF Looser
  <2> HIDE DEF columns
  <2>2. In(Locations, columns, g) \subseteq In(Locations, columns, h)
    BY <2>1, InWidens
  <2> QED  BY <2>2 DEF columns
<1>6. h["manufacturer"] = g["manufacturer"] \/ h["manufacturer"] = <<>>
  BY <1>2, <1>4
<1> QED  BY <1>3, <1>5, <1>6, MadeByWidens DEF GetHWInvByLocFilter

LEMMA FRUsWiden ==
  ASSUME NEW f \in Texts("frus"), NEW c \in Params["frus"],
         DoHWInvByFRUGetAll(f).code = 200, DoHWInvByFRUGetAll(Wider(f, c)).code = 200
  PROVE  DoHWInvByFRUGetAll(f).rows \subseteq DoHWInvByFRUGetAll(Wider(f, c)).rows
<1> DEFINE g == Normal(f, {"type"})
           h == Normal(Wider(f, c), {"type"})
<1>1. f \in [Params["frus"] -> Seq(Words)]
  BY DEF Texts
<1>2. h[c] = <<>> /\ \A d \in Params["frus"] : d # c => h[d] = g[d]
  BY <1>1, NormalWithout
<1>3. /\ DoHWInvByFRUGetAll(f).rows = GetHWInvByFRUFilter(g)
      /\ DoHWInvByFRUGetAll(Wider(f, c)).rows = GetHWInvByFRUFilter(h)
  BY ListingAnswer DEF DoHWInvByFRUGetAll
<1> HIDE DEF g, h
<1>4. {"type", "partnumber", "serialnumber", "fruid", "manufacturer"} \subseteq Params["frus"]
  BY ParamsOf
<1>5. In(FRUs, {"type", "partnumber", "serialnumber", "fruid"}, g)
        \subseteq In(FRUs, {"type", "partnumber", "serialnumber", "fruid"}, h)
  <2> DEFINE columns == {"type", "partnumber", "serialnumber", "fruid"}
  <2>1. Looser(columns, g, h)
    BY <1>2, <1>4 DEF Looser
  <2> HIDE DEF columns
  <2>2. In(FRUs, columns, g) \subseteq In(FRUs, columns, h)
    BY <2>1, InWidens
  <2> QED  BY <2>2 DEF columns
<1>6. h["manufacturer"] = g["manufacturer"] \/ h["manufacturer"] = <<>>
  BY <1>2, <1>4
<1> QED  BY <1>3, <1>5, <1>6, MadeByWidens DEF GetHWInvByFRUFilter

LEMMA HistoryWidens ==
  ASSUME NEW f \in Texts("history"), NEW c \in Params["history"],
         HwInvHistGetAll(f).code = 200, HwInvHistGetAll(Wider(f, c)).code = 200
  PROVE  HwInvHistGetAll(f).rows \subseteq HwInvHistGetAll(Wider(f, c)).rows
<1> DEFINE g == Normal(f, {"id", "eventtype"})
           h == Normal(Wider(f, c), {"id", "eventtype"})
<1>1. f \in [Params["history"] -> Seq(Words)]
  BY DEF Texts
<1>2. h[c] = <<>> /\ \A d \in Params["history"] : d # c => h[d] = g[d]
  BY <1>1, NormalWithout
<1>3. /\ HwInvHistGetAll(f).rows = GetHWInvHistFilterTx(g)
      /\ HwInvHistGetAll(Wider(f, c)).rows = GetHWInvHistFilterTx(h)
  BY ListingAnswer DEF HwInvHistGetAll
<1> HIDE DEF g, h
<1>4. {"id", "fruid", "eventtype", "starttime", "endtime"} \subseteq Params["history"]
  BY ParamsOf
<1>5. In(History, {"id", "fruid", "eventtype"}, g) \subseteq In(History, {"id", "fruid", "eventtype"}, h)
  <2>1. Looser({"id", "fruid", "eventtype"}, g, h)
    BY <1>2, <1>4 DEF Looser
  <2> QED  BY <2>1, InWidens
<1>6. \A d \in {"starttime", "endtime"} : h[d] # <<>> => h[d] = g[d]
  BY <1>2, <1>4
<1> QED  BY <1>3, <1>5, <1>6 DEF GetHWInvHistFilterTx

LEMMA InterfacesWiden ==
  ASSUME NEW f \in Texts("interfaces"), NEW c \in Params["interfaces"],
         DoCompEthInterfacesGet(f).code = 200, DoCompEthInterfacesGet(Wider(f, c)).code = 200
  PROVE  DoCompEthInterfacesGet(f).rows \subseteq DoCompEthInterfacesGet(Wider(f, c)).rows
<1> DEFINE g0 == Normal(f, {"componentid", "type"})
           h0 == Normal(Wider(f, c), {"componentid", "type"})
           g == [g0 EXCEPT !["id"] = ToLower(@), !["macaddress"] = ToLower(@)]
           h == [h0 EXCEPT !["id"] = ToLower(@), !["macaddress"] = ToLower(@)]
           columns == {"id", "macaddress", "componentid", "type"}
<1>1. f \in [Params["interfaces"] -> Seq(Words)]
  BY DEF Texts
<1>2. h0[c] = <<>> /\ \A d \in Params["interfaces"] : d # c => h0[d] = g0[d]
  BY <1>1, NormalWithout
<1>3. /\ DoCompEthInterfacesGet(f).rows = GetCompEthInterfaceFilter(g)
      /\ DoCompEthInterfacesGet(Wider(f, c)).rows = GetCompEthInterfaceFilter(h)
  BY ListingAnswer DEF DoCompEthInterfacesGet
<1>4. DOMAIN g0 = Params["interfaces"] /\ DOMAIN h0 = Params["interfaces"]
  <2>1. Wider(f, c) \in [Params["interfaces"] -> Seq(Words)]
    BY <1>1, WiderTexts
  <2>2. \A e \in [Params["interfaces"] -> Seq(Words)] :
          DOMAIN Normal(e, {"componentid", "type"}) = Params["interfaces"]
    BY DEF Normal
  <2> QED  BY <1>1, <2>1, <2>2
<1> HIDE DEF g0, h0
<1>5. columns \cup {"ipaddress", "network", "olderthan", "newerthan"} = Params["interfaces"]
  BY ParamsOf
<1>6. ToLower(<<>>) = <<>>
  <2>1. DOMAIN <<>> = {}
    OBVIOUS
  <2> QED  BY <2>1 DEF ToLower
<1>7. h[c] = <<>> /\ \A d \in Params["interfaces"] : d # c => h[d] = g[d]
  BY <1>2, <1>4, <1>5, <1>6
<1> HIDE DEF g, h, columns
<1>8. In(EthInterfaces, columns, g) \subseteq In(EthInterfaces, columns, h)
  <2>1. Looser(columns, g, h)
    BY <1>5, <1>7 DEF Looser
  <2> QED  BY <2>1, InWidens
<1>9. \A d \in {"ipaddress", "network", "olderthan", "newerthan"} : h[d] # <<>> => h[d] = g[d]
  BY <1>5, <1>7
<1> QED  BY <1>3, <1>8, <1>9 DEF GetCompEthInterfaceFilter, columns

(* The arguments of the endpoints. *)
LEMMA EPQueryMeans ==
  ASSUME NEW rows, NEW columns, NEW f, \A c \in columns : f[c] \in Seq(Argument)
  PROVE  EPQuery(rows, columns, f) = {r \in rows : \A c \in columns : Asked(f[c], c, r[c])}
BY ColumnAsks DEF EPQuery, DoQueryArg

LEMMA EPQueryWidens ==
  ASSUME NEW columns, NEW g, NEW h, \A d \in columns : g[d] \in Seq(Argument),
         Looser(columns, g, h)
  PROVE  \A rows : EPQuery(rows, columns, g) \subseteq EPQuery(rows, columns, h)
<1> TAKE rows
<1>1. <<>> \in Seq(Argument)
  OBVIOUS
<1>2. \A d \in columns : h[d] \in Seq(Argument) /\ (h[d] = g[d] \/ h[d] = <<>>)
  BY <1>1 DEF Looser
<1>3. /\ EPQuery(rows, columns, g) = {r \in rows : \A d \in columns : Asked(g[d], d, r[d])}
      /\ EPQuery(rows, columns, h) = {r \in rows : \A d \in columns : Asked(h[d], d, r[d])}
  BY <1>2, EPQueryMeans
<1>4. \A d, v : Asked(<<>>, d, v)
  BY NoArguments
<1> QED  BY <1>2, <1>3, <1>4

LEMMA ReplyOf ==
  ASSUME NEW q
  PROVE  Reply(q).rows = q.rows /\ (Reply(q).code = 200 <=> q.err = Blank)
<1>1. Reply(q).rows = q.rows /\ Reply(q).code = Code(q.err)
  BY Zenon DEF Reply
<1> QED  BY <1>1, CodeTells

(* What the three requests of endpoints answer. *)
LEMMA EndpointsAnswered ==
  ASSUME NEW f
  PROVE  /\ DoRedfishEndpointsGet(f).code = 200 <=> ~ EPBadArg({"id", "type"}, f)
         /\ DoRedfishEndpointsGet(f).rows =
              IF EPBadArg({"id", "type"}, f) THEN {} ELSE EPQuery(RFEndpoints, Params["rfeps"], f)
         /\ DoComponentEndpointsGet(f).code = 200 <=> ~ EPBadArg(Params["ceps"], f)
         /\ DoComponentEndpointsGet(f).rows =
              IF EPBadArg(Params["ceps"], f) THEN {} ELSE EPQuery(CompEndpoints, Params["ceps"], f)
         /\ DoServiceEndpointsGetAll(f).code = 200 <=> ~ EPBadArg(Params["seps"], f)
         /\ DoServiceEndpointsGetAll(f).rows =
              IF EPBadArg(Params["seps"], f) THEN {} ELSE EPQuery(ServiceEndpoints, Params["seps"], f)
<1>1. "BadArg" # Blank
  BY DEF Blank
<1>2. /\ Failed("BadArg").err # Blank /\ Failed("BadArg").rows = {}
      /\ \A rows : Found(rows).err = Blank /\ Found(rows).rows = rows
  BY <1>1, FoundOrFailed
<1>3. /\ BuildRedfishEPQuery(f) = IF EPBadArg({"id", "type"}, f) THEN Failed("BadArg")
                                  ELSE Found(EPQuery(RFEndpoints, Params["rfeps"], f))
      /\ BuildCompEPQuery(f) = IF EPBadArg(Params["ceps"], f) THEN Failed("BadArg")
                               ELSE Found(EPQuery(CompEndpoints, Params["ceps"], f))
      /\ BuildServiceEPQuery(f) = IF EPBadArg(Params["seps"], f) THEN Failed("BadArg")
                                  ELSE Found(EPQuery(ServiceEndpoints, Params["seps"], f))
  BY ParamsOf, Zenon DEF BuildRedfishEPQuery, BuildCompEPQuery, BuildServiceEPQuery
<1>4. /\ DoRedfishEndpointsGet(f) = Reply(BuildRedfishEPQuery(f))
      /\ DoComponentEndpointsGet(f) = Reply(BuildCompEPQuery(f))
      /\ DoServiceEndpointsGetAll(f) = Reply(BuildServiceEPQuery(f))
  BY DEF DoRedfishEndpointsGet, DoComponentEndpointsGet, DoServiceEndpointsGetAll
<1>5. /\ Reply(Failed("BadArg")).code # 200 /\ Reply(Failed("BadArg")).rows = {}
      /\ \A rows : Reply(Found(rows)).code = 200 /\ Reply(Found(rows)).rows = rows
  BY <1>2, ReplyOf
<1>6. EPBadArg({"id", "type"}, f) => DoRedfishEndpointsGet(f) = Reply(Failed("BadArg"))
  BY <1>3, <1>4
<1>7. EPBadArg(Params["ceps"], f) => DoComponentEndpointsGet(f) = Reply(Failed("BadArg"))
  BY <1>3, <1>4
<1>8. EPBadArg(Params["seps"], f) => DoServiceEndpointsGetAll(f) = Reply(Failed("BadArg"))
  BY <1>3, <1>4
<1>9. /\ ~ EPBadArg({"id", "type"}, f) =>
           DoRedfishEndpointsGet(f) = Reply(Found(EPQuery(RFEndpoints, Params["rfeps"], f)))
      /\ ~ EPBadArg(Params["ceps"], f) =>
           DoComponentEndpointsGet(f) = Reply(Found(EPQuery(CompEndpoints, Params["ceps"], f)))
      /\ ~ EPBadArg(Params["seps"], f) =>
           DoServiceEndpointsGetAll(f) = Reply(Found(EPQuery(ServiceEndpoints, Params["seps"], f)))
  BY <1>3, <1>4
<1> QED  BY <1>5, <1>6, <1>7, <1>8, <1>9

LEMMA EndpointsWiden ==
  ASSUME NEW k \in {"rfeps", "ceps", "seps"}, NEW f \in Arguments(k), NEW c \in Params[k],
         List(k, f).code = 200, List(k, Wider(f, c)).code = 200
  PROVE  List(k, f).rows \subseteq List(k, Wider(f, c)).rows
<1> DEFINE g == Wider(f, c)
<1>1. f \in [Params[k] -> Seq(Argument)]
  BY DEF Arguments
<1>2. g[c] = <<>> /\ \A d \in Params[k] : d # c => g[d] = f[d]
  BY <1>1, WiderFields
<1> HIDE DEF g
<1>3. \A rows : EPQuery(rows, Params[k], f) \subseteq EPQuery(rows, Params[k], g)
  <2>1. Looser(Params[k], f, g)
    BY <1>2 DEF Looser
  <2> QED  BY <1>1, <2>1, EPQueryWidens
<1>4. CASE k = "rfeps"
  BY <1>3, <1>4, ListOf, EndpointsAnswered DEF g
<1>5. CASE k = "ceps"
  BY <1>3, <1>5, ListOf, EndpointsAnswered DEF g
<1>6. CASE k = "seps"
  BY <1>3, <1>6, ListOf, EndpointsAnswered DEF g
<1> QED  BY <1>4, <1>5, <1>6

LEMMA ListingsWiden ==
  ASSUME NEW k \in Listings, NEW f, NEW c \in Params[k],
         f \in IF k \in {"rfeps", "ceps", "seps"} THEN Arguments(k) ELSE Texts(k),
         List(k, f).code = 200, List(k, Wider(f, c)).code = 200
  PROVE  List(k, f).rows \subseteq List(k, Wider(f, c)).rows
<1>1. CASE k = "locations"
  BY <1>1, ListOf, LocationsWiden
<1>2. CASE k = "frus"
  BY <1>2, ListOf, FRUsWiden
<1>3. CASE k = "history"
  BY <1>3, ListOf, HistoryWidens
<1>4. CASE k = "interfaces"
  BY <1>4, ListOf, InterfacesWiden
<1>5. CASE k \in {"rfeps", "ceps", "seps"}
  BY <1>5, EndpointsWiden
<1> QED  BY <1>1, <1>2, <1>3, <1>4, <1>5, ListingNames

(* --------------------------- One row by its key ----------------------------- *)

(* A form with one parameter. *)
Sole(f, C, c, s) == DOMAIN f = C /\ f[c] = s /\ \A d \in C : d # c => f[d] = <<>>

LEMMA OneParameter ==
  ASSUME NEW C, NEW c \in C, NEW s
  PROVE  Sole([Form(C) EXCEPT ![c] = s], C, c, s)
BY DEF Form, Sole

LEMMA OneText ==
  ASSUME NEW x
  PROVE  /\ DOMAIN <<x>> = {1} /\ <<x>>[1] = x /\ Members(<<x>>) = {x} /\ <<x>> # <<>>
         /\ DOMAIN <<>> = {} /\ Members(<<>>) = {}
<1>1. DOMAIN <<x>> = {1} /\ <<x>>[1] = x /\ <<x>> # <<>> /\ DOMAIN <<>> = {}
  OBVIOUS
<1> QED  BY <1>1 DEF Members

LEMMA OneNormal ==
  ASSUME NEW C, NEW c \in C, NEW f, NEW x, Sole(f, C, c, <<x>>), NEW columns
  PROVE  /\ c \in columns => Sole(Normal(f, columns), C, c, <<Norm(c, x)>>)
         /\ c \notin columns => Sole(Normal(f, columns), C, c, <<x>>)
         /\ Invalid(f, c) <=> Norm(c, x) = Blank
         /\ \A d \in C : d # c => ~ Invalid(f, d)
<1>0. DOMAIN f = C /\ f[c] = <<x>> /\ \A d \in C : d # c => f[d] = <<>>
  BY DEF Sole
<1>1. /\ DOMAIN <<x>> = {1} /\ <<x>>[1] = x /\ Members(<<x>>) = {x}
      /\ DOMAIN <<>> = {} /\ Members(<<>>) = {}
  BY OneText
<1>2. [i \in DOMAIN <<x>> |-> Norm(c, <<x>>[i])] = <<Norm(c, x)>>
  BY <1>1
<1>3. \A d : [i \in DOMAIN <<>> |-> Norm(d, <<>>[i])] = <<>>
  BY <1>1
<1>4. /\ DOMAIN Normal(f, columns) = DOMAIN f
      /\ \A d \in DOMAIN f : Normal(f, columns)[d] =
           IF d \in columns THEN [i \in DOMAIN f[d] |-> Norm(d, f[d][i])] ELSE f[d]
  BY DEF Normal
<1>5. Normal(f, columns)[c] = <<IF c \in columns THEN Norm(c, x) ELSE x>>
  BY <1>0, <1>2, <1>4
<1>6. \A d \in DOMAIN f : d # c => Normal(f, columns)[d] = <<>>
  BY <1>0, <1>3, <1>4
<1>7. /\ c \in columns => Sole(Normal(f, columns), C, c, <<Norm(c, x)>>)
      /\ c \notin columns => Sole(Normal(f, columns), C, c, <<x>>)
  BY <1>0, <1>4, <1>5, <1>6 DEF Sole
<1> QED  BY <1>0, <1>1, <1>7 DEF Invalid

LEMMA InOne ==
  ASSUME NEW C, NEW columns \in SUBSET C, NEW c \in columns, NEW x, NEW g, Sole(g, C, c, <<x>>)
  PROVE  \A rows : In(rows, columns, g) = {r \in rows : r[c] = x}
<1>1. <<x>> # <<>> /\ Members(<<x>>) = {x}
  BY OneText
<1>2. g[c] = <<x>> /\ \A d \in columns : d # c => g[d] = <<>>
  BY DEF Sole
<1>3. ASSUME NEW r
      PROVE  (\A d \in columns : g[d] # <<>> => r[d] \in Members(g[d])) <=> r[c] = x
  BY <1>1, <1>2
<1> QED  BY <1>3 DEF In

(* What is refused has no rows. *)
LEMMA RowsAnswered ==
  ASSUME NEW rows, NEW a,
         a = Listing(rows) \/ a = One(rows) \/ (a = Refused /\ rows = {})
  PROVE  a.rows = rows
<1>1. Listing(rows).rows = rows /\ One(rows).rows = rows /\ Refused.rows = {}
  BY ListingAnswer
<1> QED  BY <1>1, Zenon

LEMMA LocationSingle ==
  ASSUME NEW x
  PROVE  DoHWInvByLocationGet(x).rows = DoHWInvByLocationGetAll(Only("locations", x)).rows
<1> DEFINE f == Only("locations", x)
           g == Normal(f, {"id", "type", "partition"})
           n == Norm("id", x)
           found == {r \in Locations : r.id = n}
           columns == {"id", "type", "partnumber", "serialnumber", "fruid", "partition"}
<1>1. f = [Form(Params["locations"]) EXCEPT !["id"] = <<x>>]
  BY DEF Only
<1>2. columns \cup {"manufacturer"} = Params["locations"]
  BY ParamsOf
<1>3. Sole(f, Params["locations"], "id", <<x>>)
  BY <1>1, <1>2, OneParameter
<1> HIDE DEF f
<1> HIDE DEF columns
<1>4. /\ Sole(g, Params["locations"], "id", <<n>>)
      /\ Invalid(f, "id") <=> n = Blank
      /\ \A d \in Params["locations"] : d # "id" => ~ Invalid(f, d)
  <2>1. {"id", "type", "partition"} \subseteq Params["locations"]
    BY ParamsOf
  <2> QED  BY <1>3, <2>1, OneNormal DEF g
<1> HIDE DEF g
<1>5. In(Locations, columns, g) = {r \in Locations : r["id"] = n}
  <2>1. columns \in SUBSET Params["locations"] /\ "id" \in columns
    BY <1>2 DEF columns
  <2> QED  BY <1>4, <2>1, InOne
<1>6. GetHWInvByLocFilter(g) = found
  BY <1>2, <1>4, <1>5 DEF Sole, GetHWInvByLocFilter, MadeBy, columns
<1>7. n = Blank => found = {}
  BY TablesAssumption DEF KeysAssumption
<1>8. DoHWInvByLocationGetAll(f).rows = found
  <2>1. (\E c \in {"id", "type", "partition"} : Invalid(f, c)) <=> n = Blank
    BY <1>4, ParamsOf
  <2>2. n = Blank => DoHWInvByLocationGetAll(f) = Refused
    BY <2>1 DEF DoHWInvByLocationGetAll
  <2>3. n # Blank => DoHWInvByLocationGetAll(f) = Listing(found)
    BY <1>6, <2>1 DEF DoHWInvByLocationGetAll, g
  <2> HIDE DEF found, n
  <2> QED  BY <1>7, <2>2, <2>3, RowsAnswered
<1>9. DoHWInvByLocationGet(x).rows = found
  <2>1. x = Blank => n = Blank
    BY WordsAssumption
  <2>2. WithID(Locations, {n}) = found
    BY DEF WithID
  <2>3. x # Blank => DoHWInvByLocationGet(x) = One(found)
    BY <2>2 DEF DoHWInvByLocationGet
  <2>4. x = Blank => DoHWInvByLocationGet(x) = Refused
    BY DEF DoHWInvByLocationGet
  <2> HIDE DEF found, n
  <2> QED  BY <1>7, <2>1, <2>3, <2>4, RowsAnswered
<1> QED  BY <1>8, <1>9 DEF f

LEMMA FRUSingle ==
  ASSUME NEW x
  PROVE  DoHWInvByFRUGet(x).rows = DoHWInvByFRUGetAll(Only("frus", x)).rows
<1> DEFINE f == Only("frus", x)
           g == Normal(f, {"type"})
           found == {r \in FRUs : r.fruid = x}
           columns == {"type", "partnumber", "serialnumber", "fruid"}
<1>1. f = [Form(Params["frus"]) EXCEPT !["fruid"] = <<x>>]
  BY DEF Only
<1>2. columns \cup {"manufacturer"} = Params["frus"]
  BY ParamsOf
<1>3. Sole(f, Params["frus"], "fruid", <<x>>)
  BY <1>1, <1>2, OneParameter
<1> HIDE DEF f
<1> HIDE DEF columns
<1>4. /\ Sole(g, Params["frus"], "fruid", <<x>>)
      /\ ~ Invalid(f, "type")
  <2>1. {"fruid", "type"} \subseteq Params["frus"] /\ "fruid" \notin {"type"}
    BY ParamsOf
  <2> QED  BY <1>3, <2>1, OneNormal DEF g
<1> HIDE DEF g
<1>5. In(FRUs, columns, g) = {r \in FRUs : r["fruid"] = x}
  <2>1. columns \in SUBSET Params["frus"] /\ "fruid" \in columns
    BY <1>2 DEF columns
  <2> QED  BY <1>4, <2>1, InOne
<1>6. GetHWInvByFRUFilter(g) = found
  BY <1>2, <1>4, <1>5 DEF Sole, GetHWInvByFRUFilter, MadeBy, columns
<1>7. x = Blank => found = {}
  BY TablesAssumption DEF KeysAssumption
<1>8. DoHWInvByFRUGetAll(f) = Listing(found)
  BY <1>4, <1>6 DEF DoHWInvByFRUGetAll, g
<1>9. /\ x = Blank => DoHWInvByFRUGet(x) = Refused
      /\ x # Blank => DoHWInvByFRUGet(x) = One(found)
  BY DEF DoHWInvByFRUGet
<1> HIDE DEF found
<1> QED  BY <1>7, <1>8, <1>9, RowsAnswered DEF f

(* A form without parameters. *)
LEMMA NoneAsked ==
  ASSUME NEW C, NEW columns
  PROVE  /\ DOMAIN Form(C) = C /\ \A d \in C : Form(C)[d] = <<>> /\ ~ Invalid(Form(C), d)
         /\ DOMAIN Normal(Form(C), columns) = C /\ \A d \in C : Normal(Form(C), columns)[d] = <<>>
<1>1. DOMAIN Form(C) = C /\ \A d \in C : Form(C)[d] = <<>>
  BY DEF Form
<1>2. Form(C) \in [C -> Seq(Words)]
  <2>1. <<>> \in Seq(Words)
    OBVIOUS
  <2> QED  BY <2>1 DEF Form
<1>3. Members(<<>>) = {}
  BY OneText
<1> QED  BY <1>1, <1>2, <1>3, NormalTexts DEF Invalid

(* What happened to one location, or to one part. *)
LEMMA HistoryOfOne ==
  ASSUME NEW c, c = "id" \/ c = "fruid", NEW g, NEW x, Sole(g, Params["history"], c, <<x>>)
  PROVE  GetHWInvHistFilterTx(g) = {r \in History : r[c] = x} /\ ~ BadTime(g)
<1> DEFINE columns == {"id", "fruid", "eventtype"}
<1>1. columns \cup {"starttime", "endtime"} = Params["history"]
  BY ParamsOf
<1>2. g["starttime"] = <<>> /\ g["endtime"] = <<>>
  BY <1>1 DEF Sole
<1>3. In(History, columns, g) = {r \in History : r[c] = x}
  <2>1. columns \in SUBSET Params["history"] /\ c \in columns
    BY <1>1
  <2> HIDE DEF columns
  <2>2. \A rows : In(rows, columns, g) = {r \in rows : r[c] = x}
    BY <2>1, InOne
  <2> QED  BY <2>2
<1> QED  BY <1>2, <1>3 DEF GetHWInvHistFilterTx, BadTime

LEMMA HistorySingle ==
  ASSUME NEW x
  PROVE  HwInvHistGet(Form(Params["history"]), x, TRUE).rows = HwInvHistGetAll(Only("history", x)).rows
<1> DEFINE f == Only("history", x)
           none == Form(Params["history"])
           g == Normal(f, {"id", "eventtype"})
           h == [Normal(none, {"eventtype"}) EXCEPT !["id"] = <<Norm("id", x)>>, !["fruid"] = <<>>]
           found == {r \in History : r["id"] = Norm("id", x)}
<1>1. f = [Form(Params["history"]) EXCEPT !["id"] = <<x>>]
  BY DEF Only
<1>2. {"id", "fruid", "eventtype", "starttime", "endtime"} = Params["history"]
  BY ParamsOf
<1>3. Sole(f, Params["history"], "id", <<x>>)
  BY <1>1, <1>2, OneParameter
<1> HIDE DEF f
<1>4. /\ Sole(g, Params["history"], "id", <<Norm("id", x)>>)
      /\ Invalid(f, "id") <=> Norm("id", x) = Blank
      /\ ~ Invalid(f, "eventtype")
  <2>1. {"id", "eventtype"} \subseteq Params["history"]
    BY <1>2
  <2> QED  BY <1>3, <2>1, OneNormal DEF g
<1>5. Sole(h, Params["history"], "id", <<Norm("id", x)>>)
  BY <1>2, NoneAsked DEF Sole
<1>6. ~ Invalid(none, "eventtype") /\ ~ BadTime(none) /\ ~ BadTime(f)
  <2>1. none["starttime"] = <<>> /\ none["endtime"] = <<>> /\ ~ Invalid(none, "eventtype")
    BY <1>2, NoneAsked
  <2>2. ~ BadTime(f)
    BY <1>3, HistoryOfOne
  <2> QED  BY <2>1, <2>2 DEF BadTime
<1> HIDE DEF g, h
<1>7. GetHWInvHistFilterTx(g) = found /\ GetHWInvHistFilterTx(h) = found
  BY <1>4, <1>5, HistoryOfOne
<1>8. /\ Norm("id", x) = Blank => HwInvHistGetAll(f) = Refused
      /\ Norm("id", x) # Blank => HwInvHistGetAll(f) = Listing(found)
  BY <1>4, <1>6, <1>7 DEF HwInvHistGetAll, g
<1>9. /\ Norm("id", x) = Blank => HwInvHistGet(none, x, TRUE) = Refused
      /\ Norm("id", x) # Blank => HwInvHistGet(none, x, TRUE) = Listing(found)
  BY <1>6, <1>7 DEF HwInvHistGet, h
<1> HIDE DEF found
<1>10. HwInvHistGet(none, x, TRUE) = HwInvHistGetAll(f)
  BY <1>8, <1>9
<1> QED  BY <1>10 DEF f

LEMMA FRUHistorySingle ==
  ASSUME NEW x
  PROVE  HwInvHistGet(Form(Params["history"]), x, FALSE).rows
           = HwInvHistGetAll(Only("fruHistory", x)).rows
<1> DEFINE f == Only("fruHistory", x)
           none == Form(Params["history"])
           g == Normal(f, {"id", "eventtype"})
           h == [Normal(none, {"eventtype"}) EXCEPT !["id"] = <<>>, !["fruid"] = <<x>>]
           found == {r \in History : r["fruid"] = x}
<1>1. f = [Form(Params["history"]) EXCEPT !["fruid"] = <<x>>]
  BY DEF Only
<1>2. {"id", "fruid", "eventtype", "starttime", "endtime"} = Params["history"]
  BY ParamsOf
<1>3. Sole(f, Params["history"], "fruid", <<x>>)
  BY <1>1, <1>2, OneParameter
<1> HIDE DEF f
<1>4. /\ Sole(g, Params["history"], "fruid", <<x>>)
      /\ ~ Invalid(f, "id") /\ ~ Invalid(f, "eventtype")
  <2>1. {"id", "fruid", "eventtype"} \subseteq Params["history"] /\ "fruid" \notin {"id", "eventtype"}
    BY <1>2
  <2> QED  BY <1>3, <2>1, OneNormal DEF g
<1>5. Sole(h, Params["history"], "fruid", <<x>>)
  BY <1>2, NoneAsked DEF Sole
<1>6. ~ Invalid(none, "eventtype") /\ ~ BadTime(none) /\ ~ BadTime(f)
  <2>1. none["starttime"] = <<>> /\ none["endtime"] = <<>> /\ ~ Invalid(none, "eventtype")
    BY <1>2, NoneAsked
  <2>2. ~ BadTime(f)
    BY <1>3, HistoryOfOne
  <2> QED  BY <2>1, <2>2 DEF BadTime
<1> HIDE DEF g, h
<1>7. GetHWInvHistFilterTx(g) = found /\ GetHWInvHistFilterTx(h) = found
  BY <1>4, <1>5, HistoryOfOne
<1>8. HwInvHistGetAll(f) = Listing(found)
  BY <1>4, <1>6, <1>7 DEF HwInvHistGetAll, g
<1>9. /\ x = Blank => HwInvHistGet(none, x, FALSE) = Refused
      /\ x # Blank => HwInvHistGet(none, x, FALSE) = Listing(found)
  BY <1>6, <1>7 DEF HwInvHistGet, h
<1>10. x = Blank => found = {}
  BY TablesAssumption DEF KeysAssumption
<1> HIDE DEF found, none
<1>11. HwInvHistGet(none, x, FALSE).rows = found
  BY <1>9, <1>10, RowsAnswered
<1>12. HwInvHistGetAll(f).rows = found
  BY <1>8, RowsAnswered
<1> QED  BY <1>11, <1>12 DEF f, none

LEMMA InterfaceSingle ==
  ASSUME NEW x
  PROVE  DoCompEthInterfaceGet(x).rows = DoCompEthInterfacesGet(Only("interfaces", x)).rows
<1> DEFINE f == Only("interfaces", x)
           g0 == Normal(f, {"componentid", "type"})
           g == [g0 EXCEPT !["id"] = ToLower(@), !["macaddress"] = ToLower(@)]
           columns == {"id", "macaddress", "componentid", "type"}
           found == {r \in EthInterfaces : r["id"] = Norm("mac", x)}
<1>1. f = [Form(Params["interfaces"]) EXCEPT !["id"] = <<x>>]
  BY DEF Only
<1>2. columns \cup {"ipaddress", "network", "olderthan", "newerthan"} = Params["interfaces"]
  BY ParamsOf
<1>3. Sole(f, Params["interfaces"], "id", <<x>>)
  BY <1>1, <1>2, OneParameter
<1> HIDE DEF f
<1>4. Sole(g0, Params["interfaces"], "id", <<x>>) /\ ~ Invalid(f, "type")
  <2>1. {"id", "type"} \subseteq Params["interfaces"] /\ "id" \notin {"componentid", "type"}
    BY <1>2
  <2> QED  BY <1>3, <2>1, OneNormal DEF g0
<1> HIDE DEF g0
<1>5. ToLower(<<>>) = <<>> /\ ToLower(<<x>>) = <<Norm("mac", x)>>
  BY OneText DEF ToLower
<1>6. Sole(g, Params["interfaces"], "id", <<Norm("mac", x)>>)
  BY <1>2, <1>4, <1>5 DEF Sole
<1>7. /\ Members(f["id"]) = {x} /\ Members(f["macaddress"]) = {} /\ Members(f["componentid"]) = {}
      /\ \A d \in {"ipaddress", "network", "olderthan", "newerthan"} : f[d] = <<>>
  BY <1>2, <1>3, OneText DEF Sole
<1>8. ~ BadInterfaceTime(f)
  BY <1>7 DEF BadInterfaceTime
<1> HIDE DEF g, columns
<1>9. In(EthInterfaces, columns, g) = found
  <2>1. columns \in SUBSET Params["interfaces"] /\ "id" \in columns
    BY <1>2 DEF columns
  <2> QED  BY <1>6, <2>1, InOne
<1>10. GetCompEthInterfaceFilter(g) = found
  <2>1. \A d \in {"ipaddress", "network", "olderthan", "newerthan"} : g[d] = <<>>
    BY <1>6, ParamsOf DEF Sole
  <2> QED  BY <1>9, <2>1 DEF GetCompEthInterfaceFilter, columns
<1>11. /\ x = Blank => DoCompEthInterfacesGet(f) = Refused
       /\ x # Blank => DoCompEthInterfacesGet(f) = Listing(found)
  BY <1>4, <1>7, <1>8, <1>10 DEF DoCompEthInterfacesGet, g, g0
<1>12. /\ x = Blank => DoCompEthInterfaceGet(x) = Refused
       /\ x # Blank => DoCompEthInterfaceGet(x) = One(found)
  <2>1. WithID(EthInterfaces, {Norm("mac", x)}) = found
    BY DEF WithID
  <2> HIDE DEF found
  <2> QED  BY <2>1 DEF DoCompEthInterfaceGet
<1> HIDE DEF found
<1>13. x # Blank => DoCompEthInterfacesGet(f).rows = found /\ DoCompEthInterfaceGet(x).rows = found
  BY <1>11, <1>12, RowsAnswered
<1>14. x = Blank => DoCompEthInterfacesGet(f) = DoCompEthInterfaceGet(x)
  BY <1>11, <1>12
<1> QED  BY <1>13, <1>14 DEF f

(* One argument that is not negated. *)
LEMMA AskedOnce ==
  ASSUME NEW x, NEW c
  PROVE  /\ BadArgument(<<Yes(x)>>, c) <=> x # Blank /\ Parse(c, x) = Blank
         /\ \A v : Asked(<<Yes(x)>>, c, v) <=> v = Parse(c, x)
         /\ x \in Words => <<Yes(x)>> \in Seq(Argument)
<1>1. /\ Normed(<<Yes(x)>>, c, FALSE) = {Parse(c, x)} /\ Normed(<<Yes(x)>>, c, TRUE) = {}
      /\ BadArgument(<<Yes(x)>>, c) <=> x # Blank /\ Parse(c, x) = Blank
  BY OneArgument DEF Yes
<1>2. x \in Words => Yes(x) \in Argument
  BY DEF Yes, Argument
<1>3. \A v : Asked(<<Yes(x)>>, c, v) <=> v = Parse(c, x)
  BY <1>1 DEF Asked
<1>4. ASSUME NEW y \in Argument PROVE <<y>> \in Seq(Argument)
  OBVIOUS
<1> QED  BY <1>1, <1>2, <1>3, <1>4

LEMMA KeyParsed ==
  ASSUME NEW x
  PROVE  /\ Parse("id", x) = Norm("id", x)
         /\ Parse("redfish_ep", x) = Norm("redfish_ep", x)
         /\ Parse("service", x) = Norm("service", x)
<1>1. ASSUME NEW c, c = "id" \/ c = "redfish_ep" \/ c = "service"
      PROVE  Parse(c, x) = Norm(c, x)
  <2>1. /\ c \notin NumberFields /\ c # "enabled" /\ c \notin {"group", "partition"}
        /\ c \notin {"softwarestatus", "locked", "reservation_disabled"}
    BY <1>1 DEF NumberFields
  <2> QED  BY <2>1 DEF Parse
<1> QED  BY <1>1

LEMMA EndpointsOfOne ==
  ASSUME NEW C, NEW c \in C, NEW x \in Words, NEW f, Sole(f, C, c, <<Yes(x)>>)
  PROVE  /\ \A rows : EPQuery(rows, C, f) = {r \in rows : r[c] = Parse(c, x)}
         /\ \A columns \in SUBSET C : EPBadArg(columns, f) => Parse(c, x) = Blank
<1>1. f[c] = <<Yes(x)>> /\ \A d \in C : d # c => f[d] = <<>>
  BY DEF Sole
<1>2. \A d \in C : f[d] \in Seq(Argument)
  <2>1. <<>> \in Seq(Argument)
    OBVIOUS
  <2>2. <<Yes(x)>> \in Seq(Argument)
    BY AskedOnce
  <2> QED  BY <1>1, <2>1, <2>2
<1>3. ASSUME NEW r PROVE (\A d \in C : Asked(f[d], d, r[d])) <=> r[c] = Parse(c, x)
  <2>1. Asked(f[c], c, r[c]) <=> r[c] = Parse(c, x)
    BY <1>1, AskedOnce
  <2>2. \A d \in C : d # c => Asked(f[d], d, r[d])
    BY <1>1, NoArguments
  <2> QED  BY <2>1, <2>2
<1>4. \A d \in C : d # c => ~ BadArgument(f[d], d)
  BY <1>1, NoArguments
<1>5. BadArgument(f[c], c) => Parse(c, x) = Blank
  BY <1>1, AskedOnce
<1>6. \A rows : EPQuery(rows, C, f) = {r \in rows : \A d \in C : Asked(f[d], d, r[d])}
  BY <1>2, EPQueryMeans
<1> QED  BY <1>3, <1>4, <1>5, <1>6 DEF EPBadArg

LEMMA EndpointSingle ==
  ASSUME NEW x \in Words
  PROVE  /\ DoRedfishEndpointGet(x).rows = DoRedfishEndpointsGet(Only("rfeps", x)).rows
         /\ DoComponentEndpointGet(x).rows = DoComponentEndpointsGet(Only("ceps", x)).rows
<1> DEFINE f == Only("rfeps", x)
           g == Only("ceps", x)
           n == Norm("id", x)
           found == {r \in RFEndpoints : r["id"] = n}
           there == {r \in CompEndpoints : r["id"] = n}
<1>1. /\ f = [Form(Params["rfeps"]) EXCEPT !["id"] = <<Yes(x)>>]
      /\ g = [Form(Params["ceps"]) EXCEPT !["id"] = <<Yes(x)>>]
  BY DEF Only
<1>2. /\ {"id", "type"} \in SUBSET Params["rfeps"] /\ "id" \in Params["rfeps"]
      /\ "id" \in Params["ceps"]
  BY ParamsOf
<1>3. Sole(f, Params["rfeps"], "id", <<Yes(x)>>) /\ Sole(g, Params["ceps"], "id", <<Yes(x)>>)
  BY <1>1, <1>2, OneParameter
<1> HIDE DEF f, g
<1>4. Parse("id", x) = n
  BY KeyParsed
<1>5. /\ EPQuery(RFEndpoints, Params["rfeps"], f) = found
      /\ EPBadArg({"id", "type"}, f) => n = Blank
  BY <1>2, <1>3, <1>4, EndpointsOfOne
<1>6. /\ EPQuery(CompEndpoints, Params["ceps"], g) = there
      /\ EPBadArg(Params["ceps"], g) => n = Blank
  BY <1>2, <1>3, <1>4, EndpointsOfOne
<1>7. /\ n = Blank => found = {} /\ there = {}
      /\ x = Blank => n = Blank
  BY TablesAssumption, WordsAssumption DEF KeysAssumption
<1>8. WithID(RFEndpoints, {n}) = found /\ WithID(CompEndpoints, {n}) = there
  BY DEF WithID
<1>9. /\ DoRedfishEndpointGet(x) = Refused \/ DoRedfishEndpointGet(x) = One(found)
      /\ x # Blank => DoRedfishEndpointGet(x) = One(found)
      /\ DoComponentEndpointGet(x) = Refused \/ DoComponentEndpointGet(x) = One(there)
      /\ n # Blank => DoComponentEndpointGet(x) = One(there)
  BY <1>8 DEF DoRedfishEndpointGet, DoComponentEndpointGet
<1> HIDE DEF found, there, n
<1>10. DoRedfishEndpointGet(x).rows = found /\ DoComponentEndpointGet(x).rows = there
  BY <1>7, <1>9, RowsAnswered
<1>11. DoRedfishEndpointsGet(f).rows = found
  BY <1>5, <1>7, EndpointsAnswered
<1>12. DoComponentEndpointsGet(g).rows = there
  BY <1>6, <1>7, EndpointsAnswered
<1> QED  BY <1>10, <1>11, <1>12 DEF f, g

LEMMA ServiceSingle ==
  ASSUME NEW x \in Words
  PROVE  DoServiceEndpointGet("EventService", x).rows
           = DoServiceEndpointsGetAll(Only("seps", x)).rows
<1> DEFINE f == Only("seps", x)
           n == Norm("redfish_ep", x)
           found == {r \in ServiceEndpoints : r.service = "EventService" /\ r.redfish_ep = n}
<1>1. f = [Form(Params["seps"]) EXCEPT !["redfish_ep"] = <<Yes(x)>>,
                                       !["service"] = <<Yes("EventService")>>]
  BY DEF Only
<1>2. Params["seps"] = {"redfish_ep", "service"}
  BY ParamsOf
<1>3. f["redfish_ep"] = <<Yes(x)>> /\ f["service"] = <<Yes("EventService")>>
  BY <1>1, <1>2 DEF Form
<1> HIDE DEF f
<1>4. /\ "EventService" \in Words /\ Norm("service", "EventService") = "EventService"
      /\ x = Blank => n = Blank
  BY WordsAssumption
<1>5. "EventService" # Blank
  BY Zenon DEF Blank
<1>6. Parse("redfish_ep", x) = n /\ Parse("service", "EventService") = "EventService"
  BY <1>4, KeyParsed
<1>7. /\ f["redfish_ep"] \in Seq(Argument) /\ f["service"] \in Seq(Argument)
      /\ BadArgument(f["redfish_ep"], "redfish_ep") => n = Blank
      /\ ~ BadArgument(f["service"], "service")
      /\ \A v : Asked(f["redfish_ep"], "redfish_ep", v) <=> v = n
      /\ \A v : Asked(f["service"], "service", v) <=> v = "EventService"
  BY <1>3, <1>4, <1>5, <1>6, AskedOnce
<1>8. EPBadArg(Params["seps"], f) => n = Blank
  BY <1>2, <1>7 DEF EPBadArg
<1>9. EPQuery(ServiceEndpoints, Params["seps"], f) = found
  <2>1. EPQuery(ServiceEndpoints, Params["seps"], f)
          = {r \in ServiceEndpoints : \A c \in Params["seps"] : Asked(f[c], c, r[c])}
    BY <1>2, <1>7, EPQueryMeans
  <2> QED  BY <1>2, <1>7, <2>1
<1>10. n = Blank => found = {}
  BY TablesAssumption DEF KeysAssumption
<1>11. /\ n # Blank => DoServiceEndpointGet("EventService", x) = One(found)
       /\ n = Blank => DoServiceEndpointGet("EventService", x) = Refused
  BY <1>4, <1>5 DEF DoServiceEndpointGet
<1> HIDE DEF found, n
<1>12. DoServiceEndpointGet("EventService", x).rows = found
  BY <1>10, <1>11, RowsAnswered
<1>13. DoServiceEndpointsGetAll(f).rows = found
  BY <1>8, <1>9, <1>10, EndpointsAnswered
<1> QED  BY <1>12, <1>13 DEF f

(* All endpoints, and those of one service. *)
LEMMA EveryEndpoint ==
  ASSUME NEW k \in {"rfeps", "ceps"}, NEW x, Every(k, x).code = 200
  PROVE  Every(k, x).rows = List(k, Form(Params[k])).rows
<1> DEFINE f == Form(Params["rfeps"])
           g == Form(Params["ceps"])
<1>1. /\ \A c \in Params["rfeps"] : f[c] = <<>>
      /\ \A c \in Params["ceps"] : g[c] = <<>>
  BY DEF Form
<1> HIDE DEF f, g
<1>2. <<>> \in Seq(Argument)
  OBVIOUS
<1>3. /\ EPQuery(RFEndpoints, Params["rfeps"], f) = RFEndpoints
      /\ EPQuery(CompEndpoints, Params["ceps"], g) = CompEndpoints
  <2>1. /\ EPQuery(RFEndpoints, Params["rfeps"], f)
             = {r \in RFEndpoints : \A c \in Params["rfeps"] : Asked(f[c], c, r[c])}
        /\ EPQuery(CompEndpoints, Params["ceps"], g)
             = {r \in CompEndpoints : \A c \in Params["ceps"] : Asked(g[c], c, r[c])}
    <3>1. /\ \A c \in Params["rfeps"] : f[c] \in Seq(Argument)
          /\ \A c \in Params["ceps"] : g[c] \in Seq(Argument)
      BY <1>1, <1>2
    <3>2. EPQuery(RFEndpoints, Params["rfeps"], f)
            = {r \in RFEndpoints : \A c \in Params["rfeps"] : Asked(f[c], c, r[c])}
      BY <3>1, EPQueryMeans
    <3>3. EPQuery(CompEndpoints, Params["ceps"], g)
            = {r \in CompEndpoints : \A c \in Params["ceps"] : Asked(g[c], c, r[c])}
      BY <3>1, EPQueryMeans
    <3> QED  BY <3>2, <3>3
  <2>2. \A c, v : Asked(<<>>, c, v)
    BY NoArguments
  <2> QED  BY <1>1, <2>1, <2>2
<1>4. ~ EPBadArg({"id", "type"}, f) /\ ~ EPBadArg(Params["ceps"], g)
  <2>1. {"id", "type"} \subseteq Params["rfeps"]
    BY ParamsOf
  <2>2. \A c : ~ BadArgument(<<>>, c)
    BY NoArguments
  <2> QED  BY <1>1, <2>1, <2>2 DEF EPBadArg
<1>5. List("rfeps", f).rows = RFEndpoints /\ List("ceps", g).rows = CompEndpoints
  BY <1>3, <1>4, ListOf, EndpointsAnswered
<1>6. /\ k = "rfeps" => Every(k, x) = DoRedfishEndpointQueryGet(x)
      /\ k = "ceps" => Every(k, x) = DoComponentEndpointQueryGet(x)
  BY DEF Every
<1>7. /\ DoRedfishEndpointQueryGet(x) = Listing(RFEndpoints) \/ DoRedfishEndpointQueryGet(x) = Refused
      /\ DoComponentEndpointQueryGet(x) = Listing(CompEndpoints)
           \/ DoComponentEndpointQueryGet(x) = Refused
  BY DEF DoRedfishEndpointQueryGet, DoComponentEndpointQueryGet
<1>8. CASE k = "rfeps"
  <2>1. Every(k, x) = Listing(RFEndpoints)
    BY <1>6, <1>7, <1>8, ListingAnswer
  <2>2. Every(k, x).rows = RFEndpoints
    BY <2>1, RowsAnswered
  <2> QED  BY <1>5, <1>8, <2>2 DEF f
<1>9. CASE k = "ceps"
  <2>1. Every(k, x) = Listing(CompEndpoints)
    BY <1>6, <1>7, <1>9, ListingAnswer
  <2>2. Every(k, x).rows = CompEndpoints
    BY <2>1, RowsAnswered
  <2> QED  BY <1>5, <1>9, <2>2 DEF g
<1> QED  BY <1>8, <1>9

LEMMA OfService ==
  ASSUME NEW f \in Arguments("seps"), NEW x \in Words, DoServiceEndpointsGet(f, x).code = 200
  PROVE  DoServiceEndpointsGet(f, x).rows =
           {r \in List("seps", Wider(f, "service")).rows : r.service = Norm("service", x)}
<1> DEFINE g == [f EXCEPT !["service"] = <<Yes(x)>>]
           h == Wider(f, "service")
           n == Norm("service", x)
<1>1. Params["seps"] = {"redfish_ep", "service"}
  BY ParamsOf
<1>2. DOMAIN f = {"redfish_ep", "service"} /\ f["redfish_ep"] \in Seq(Argument)
  BY <1>1 DEF Arguments
<1>3. /\ g["service"] = <<Yes(x)>> /\ g["redfish_ep"] = f["redfish_ep"]
      /\ h["service"] = <<>> /\ h["redfish_ep"] = f["redfish_ep"]
  BY <1>2 DEF Wider
<1>4. DoServiceEndpointsGet(f, x) = DoServiceEndpointsGetAll(g)
  BY DEF DoServiceEndpointsGet, DoServiceEndpointsGetAll
<1> HIDE DEF g, h
<1>5. /\ ~ EPBadArg(Params["seps"], g)
      /\ DoServiceEndpointsGetAll(g).rows = EPQuery(ServiceEndpoints, Params["seps"], g)
  BY <1>4, EndpointsAnswered
<1>6. ~ EPBadArg(Params["seps"], h)
  BY <1>1, <1>3, <1>5, NoArguments DEF EPBadArg
<1>7. List("seps", h).rows = EPQuery(ServiceEndpoints, Params["seps"], h)
  BY <1>6, ListOf, EndpointsAnswered
<1>8. /\ g["service"] \in Seq(Argument) /\ h["service"] \in Seq(Argument)
      /\ \A v : Asked(g["service"], "service", v) <=> v = n
      /\ \A v : Asked(h["service"], "service", v)
  <2>1. <<>> \in Seq(Argument)
    OBVIOUS
  <2> QED  BY <1>3, <2>1, AskedOnce, KeyParsed, NoArguments
<1> HIDE DEF n
<1>9. /\ EPQuery(ServiceEndpoints, Params["seps"], g)
           = {r \in ServiceEndpoints : \A c \in Params["seps"] : Asked(g[c], c, r[c])}
      /\ EPQuery(ServiceEndpoints, Params["seps"], h)
           = {r \in ServiceEndpoints : \A c \in Params["seps"] : Asked(h[c], c, r[c])}
  <2>1. /\ \A c \in Params["seps"] : g[c] \in Seq(Argument)
        /\ \A c \in Params["seps"] : h[c] \in Seq(Argument)
    BY <1>1, <1>2, <1>3, <1>8
  <2>2. \A rows : EPQuery(rows, Params["seps"], g)
                     = {r \in rows : \A c \in Params["seps"] : Asked(g[c], c, r[c])}
    BY <2>1, EPQueryMeans
  <2>3. \A rows : EPQuery(rows, Params["seps"], h)
                     = {r \in rows : \A c \in Params["seps"] : Asked(h[c], c, r[c])}
    BY <2>1, EPQueryMeans
  <2> QED  BY <2>2, <2>3
<1>10. EPQuery(ServiceEndpoints, Params["seps"], g)
         = {r \in EPQuery(ServiceEndpoints, Params["seps"], h) : r.service = n}
  BY <1>1, <1>3, <1>8, <1>9
<1> QED  BY <1>4, <1>5, <1>7, <1>10 DEF h, n

(* The verification of a filter with one id, and what it asks for. *)
LEMMA CheckOfId ==
  /\ 1 \in DOMAIN Checks /\ Checks[1].c = "id"
  /\ \A i \in DOMAIN Checks : Checks[i].c \in Fields
  /\ \A i \in DOMAIN Checks : Checks[i].c = "id" => ~ Checks[i].strict /\ ~ Checks[i].empty
<1>1. /\ DOMAIN Checks = 1..19
      /\ \A i \in 1..19 : Checks[i].c \in Fields /\ Checks[i].err # Blank
  BY CheckFields
<1>2. Checks[1].c = "id"
  BY DEF Checks, Check
<1>3. \A i \in 1..19 : Checks[i].c = "id" => ~ Checks[i].strict /\ ~ Checks[i].empty
  BY DEF Checks, Check
<1> QED  BY <1>1, <1>2, <1>3

LEMMA IdVerified ==
  ASSUME NEW x \in Words, NEW f \in Filter, Sole(f, Fields, "id", <<Yes(x)>>)
  PROVE  VerifyNormalize(f).err = Blank <=> Norm("id", x) # Blank
<1> DEFINE v == VerifyNormalize(f)
           Fails(k) == IF k.strict THEN ~CheckFilterFieldStrict(f[k.c], k)
                                   ELSE ~CheckFilterField(f[k.c], k)
           bad == {i \in DOMAIN Checks : Fails(Checks[i])}
           err == IF bad = {} THEN Blank ELSE Checks[First(bad)].err
           g == [c \in Fields |-> [i \in DOMAIN f[c] |-> [f[c][i] EXCEPT !.val = Parse(c, @)]]]
<1>1. v.err = err
  <2>1. v = [err |-> err, f |-> g]
    BY Zenon DEF VerifyNormalize
  <2> HIDE DEF v, err, g
  <2> QED  BY <2>1, Zenon
<1>2. bad = {} <=> err = Blank
  <2>1. bad \in SUBSET Nat /\ bad \subseteq 1..19
    BY CheckFields
  <2>2. bad # {} => First(bad) \in bad
    BY <2>1, FirstIsThere
  <2> HIDE DEF bad
  <2> QED  BY <2>1, <2>2, CheckFields
<1>3. /\ DOMAIN f["id"] = {1} /\ f["id"][1].val = x
      /\ \A c \in Fields : c # "id" => DOMAIN f[c] = {}
  <2>1. f["id"] = <<Yes(x)>> /\ \A c \in Fields : c # "id" => f[c] = <<>>
    BY DEF Sole
  <2>2. Yes(x).val = x
    BY DEF Yes
  <2> QED  BY <2>1, <2>2, OneText
<1>4. Parse("id", x) = Norm("id", x)
  BY KeyParsed
<1>5. ASSUME NEW i \in DOMAIN Checks, Checks[i].c # "id" PROVE ~ Fails(Checks[i])
  BY <1>3, <1>5, CheckOfId DEF CheckFilterField, CheckFilterFieldStrict
<1>6. ASSUME NEW i \in DOMAIN Checks, Checks[i].c = "id"
      PROVE  Fails(Checks[i]) <=> Norm("id", x) = Blank
  BY <1>3, <1>4, <1>6, CheckOfId DEF CheckFilterField
<1> HIDE DEF Fails
<1>7. bad = {} <=> Norm("id", x) # Blank
  BY <1>5, <1>6, CheckOfId
<1> QED  BY <1>1, <1>2, <1>7 DEF v

LEMMA IdSelected ==
  ASSUME NEW x \in Words, NEW f \in Filter, Sole(f, Fields, "id", <<Yes(x)>>)
  PROVE  Selection(f) = {r \in Components : r.id = Norm("id", x)}
<1>1. f["id"] = <<Yes(x)>> /\ \A c \in Fields : c # "id" => f[c] = <<>>
  BY DEF Sole
<1>2. /\ "id" \in PlainFields /\ PlainFields \subseteq Fields
      /\ {"group", "partition"} \subseteq Fields \ {"id"} /\ NumberFields \subseteq Fields \ {"id"}
  BY DEF Fields, PlainFields, NumberFields
<1>3. ASSUME NEW r \in Components PROVE Selects(f, r) <=> r.id = Norm("id", x)
  <2>1. Asked(f["id"], "id", r["id"]) <=> r.id = Norm("id", x)
    <3>1. Asked(<<Yes(x)>>, "id", r["id"]) <=> r["id"] = Parse("id", x)
      BY AskedOnce
    <3> QED  BY <1>1, <3>1, KeyParsed
  <2>2. \A c \in PlainFields : c # "id" => Asked(f[c], c, r[c])
    <3>1. \A c, w : Asked(<<>>, c, w)
      BY NoArguments
    <3> QED  BY <1>1, <1>2, <3>1
  <2>3. NumbersAsked(f, r.nid)
    <3>1. \A c \in NumberFields : f[c] = <<>>
      BY <1>1, <1>2
    <3> QED  BY <3>1, NoNumbersAsked
  <2>4. MemberOf(r.groups, f["group"], "group") /\ MemberOf(PartsOf(r), f["partition"], "partition")
    <3>1. Normed(<<>>, "group", FALSE) = {} /\ Normed(<<>>, "partition", FALSE) = {}
      BY NoArguments
    <3>2. {} # {"NULL"}
      OBVIOUS
    <3> QED  BY <1>1, <1>2, <3>1, <3>2 DEF MemberOf
  <2> QED  BY <1>2, <2>1, <2>2, <2>3, <2>4 DEF Selects
<1> QED  BY <1>3 DEF Selection

LEMMA ComponentSingle ==
  ASSUME NEW x \in Words
  PROVE  DoComponentGet(x).rows = DoComponentsGet(Only("components", x)).rows
<1> DEFINE f == Only("components", x)
           n == Norm("id", x)
           found == {r \in Components : r.id = n}
           v == VerifyNormalize(f)
           q == WithoutGroups(f)
<1>1. f = [NoFilter EXCEPT !["id"] = <<Yes(x)>>]
  BY DEF Only
<1>2. "id" \in Fields /\ {"nid_start", "nid_end", "group", "partition"} \subseteq Fields \ {"id"}
  BY DEF Fields, PlainFields, NumberFields
<1>3. f \in Filter /\ Sole(f, Fields, "id", <<Yes(x)>>)
  <2>1. Sole(f, Fields, "id", <<Yes(x)>>)
    BY <1>1, <1>2 DEF NoFilter, Sole
  <2>2. f \in Filter
    BY <1>1, <1>2, NoFilterType DEF Filter
  <2> QED  BY <2>1, <2>2
<1> HIDE DEF f
<1>4. f["group"] = <<>> /\ f["partition"] = <<>> /\ f["nid_start"] = <<>> /\ f["nid_end"] = <<>>
  BY <1>2, <1>3 DEF Sole
<1>5. v.err = Blank <=> n # Blank
  BY <1>3, IdVerified
<1>6. v.f = NormalForm(f)
  BY <1>3, VerifyNormalizes
<1>7. DoComponentsGet(f) = Plain(q)
  BY DEF DoComponentsGet, SelectComponents, WithoutGroups
<1>8. q = IF v.err # Blank THEN Failed(v.err)
          ELSE Sent(v.f, Found(NoMembership(WhereComponentCols(v.f))))
  BY <1>4 DEF WithoutGroups, MakeComponentQuery, Verified, QueryOf
<1>9. n = Blank => found = {}
  BY TablesAssumption DEF ComponentsAssumption
<1>10. ~ NumbersRefused(v.f)
  <2>1. v.f["nid_start"] = <<>> /\ v.f["nid_end"] = <<>>
    <3>1. NormalForm(f)["nid_start"] = <<>> /\ NormalForm(f)["nid_end"] = <<>>
      BY <1>2, <1>3, <1>4, NormalNone
    <3> QED  BY <1>6, <3>1
  <2> QED  BY <2>1 DEF NumbersRefused
<1> HIDE DEF v
<1>11. n # Blank => q.err = Blank
  BY <1>5, <1>8, <1>10, FoundOrFailed DEF Sent
<1>12. n = Blank => q.rows = {}
  BY <1>5, <1>8, FoundOrFailed
<1>13. n # Blank => RowsOf(q) = found
  BY <1>3, <1>11, QuerySelects, IdSelected
<1>14. n = Blank => RowsOf(q) = found
  BY <1>9, <1>12 DEF RowsOf
<1> HIDE DEF q, n
<1>15. DoComponentsGet(f).rows = PlainRows(found)
  <2>1. RowsOf(q) = found
    BY <1>13, <1>14
  <2> HIDE DEF found
  <2> QED  BY <1>7, <2>1, PlainAnswer
<1>16. DoComponentGet(x).rows = PlainRows(found)
  <2>1. x = Blank => n = Blank
    BY WordsAssumption DEF n
  <2>2. Plain(Found(NoMembership(found))).rows = PlainRows(found)
    <3>1. Found(NoMembership(found)).rows = {<<r, Null>> : r \in found}
      BY FoundOrFailed DEF NoMembership
    <3> HIDE DEF found
    <3>2. \A r \in found : <<r, Null>>[1] = r
      OBVIOUS
    <3>3. PICK all : all = Found(NoMembership(found)).rows
      OBVIOUS
    <3>4. /\ \A r \in found : <<r, Null>> \in all
          /\ \A j \in all : \E r \in found : j = <<r, Null>>
      BY <3>1, <3>3
    <3>5. {j[1] : j \in all} = found
      <4>1. ASSUME NEW r \in found PROVE \E j \in all : r = j[1]
        BY <3>2, <3>4
      <4>2. ASSUME NEW j \in all PROVE j[1] \in found
        BY <3>2, <3>4
      <4> QED  BY <4>1, <4>2
    <3>6. RowsOf(Found(NoMembership(found))) = found
      BY <3>3, <3>5 DEF RowsOf
    <3> QED  BY <3>6, PlainAnswer
  <2>3. DoComponentGet(x) = IF x = Blank THEN Refused ELSE IF found = {} THEN Missing
                            ELSE Plain(Found(NoMembership(found)))
    BY DEF DoComponentGet, n
  <2>4. found = {} => PlainRows(found) = {}
    BY DEF PlainRows
  <2> HIDE DEF found
  <2>5. x = Blank => DoComponentGet(x).rows = {}
    BY <2>3, RefusedAnswer
  <2>6. x # Blank /\ found = {} => DoComponentGet(x).rows = {}
    BY <2>3, RefusedAnswer
  <2>7. x # Blank /\ found # {} => DoComponentGet(x).rows = PlainRows(found)
    BY <2>2, <2>3
  <2> QED  BY <1>9, <2>1, <2>4, <2>5, <2>6, <2>7
<1> QED  BY <1>15, <1>16 DEF f

(* --------------------------- The listings agree ----------------------------- *)

LEMMA SingleOf ==
  ASSUME NEW x
  PROVE  /\ Single("components", x) = DoComponentGet(x)
         /\ Single("locations", x) = DoHWInvByLocationGet(x)
         /\ Single("frus", x) = DoHWInvByFRUGet(x)
         /\ Single("history", x) = HwInvHistGet(Form(Params["history"]), x, TRUE)
         /\ Single("fruHistory", x) = HwInvHistGet(Form(Params["history"]), x, FALSE)
         /\ Single("rfeps", x) = DoRedfishEndpointGet(x)
         /\ Single("ceps", x) = DoComponentEndpointGet(x)
         /\ Single("seps", x) = DoServiceEndpointGet("EventService", x)
         /\ Single("interfaces", x) = DoCompEthInterfaceGet(x)
BY DEF Single

LEMMA SinglesAgree ==
  ASSUME NEW k, k \in Listings \cup {"components", "fruHistory"}, NEW x \in Words
  PROVE  Single(k, x).rows = List(k, Only(k, x)).rows
<1>1. CASE k = "components"
  BY <1>1, SingleOf, ListOf, ComponentSingle
<1>2. CASE k = "locations"
  BY <1>2, SingleOf, ListOf, LocationSingle
<1>3. CASE k = "frus"
  BY <1>3, SingleOf, ListOf, FRUSingle
<1>4. CASE k = "history"
  BY <1>4, SingleOf, ListOf, HistorySingle
<1>5. CASE k = "fruHistory"
  BY <1>5, SingleOf, ListOf, FRUHistorySingle
<1>6. CASE k = "rfeps"
  BY <1>6, SingleOf, ListOf, EndpointSingle
<1>7. CASE k = "ceps"
  BY <1>7, SingleOf, ListOf, EndpointSingle
<1>8. CASE k = "seps"
  BY <1>8, SingleOf, ListOf, ServiceSingle
<1>9. CASE k = "interfaces"
  BY <1>9, SingleOf, ListOf, InterfaceSingle
<1> QED  BY <1>1, <1>2, <1>3, <1>4, <1>5, <1>6, <1>7, <1>8, <1>9, ListingNames

(* What the listings should hold, and the requests for one or for all. *)
Widened(k, f, rows) ==
  \A c \in DOMAIN f \ NumberFields :
    List(k, Wider(f, c)).code = 200 => rows \subseteq List(k, Wider(f, c)).rows
Alike(k, x)    == List(k, Only(k, x)).rows
Unfiltered(k)  == List(k, Form(Params[k])).rows
Serving(f, x)  == {r \in List("seps", Wider(f, "service")).rows : r.service = Norm("service", x)}

LEMMA ListingsMeaning ==
  ListingsAgree <=>
    /\ Done(Listings \cup {"components"}) => Widened(request.kind, request.form, answer.rows)
    /\ answer # NotYet /\ request.kind = "one" => answer.rows = Alike(request.of, request.id)
    /\ Done({"every"}) => answer.rows = Unfiltered(request.of)
    /\ Done({"service"}) => answer.rows = Serving(request.form, request.id)
BY Zenon DEF ListingsAgree, Widened, Alike, Unfiltered, Serving, Wider

LEMMA ListingRequest ==
  ASSUME NEW q, IsRequest(q)
  PROVE  /\ q.kind = "components" => q.form \in Filter
         /\ q.kind \in Listings =>
              q.form \in IF q.kind \in {"rfeps", "ceps", "seps"} THEN Arguments(q.kind) ELSE Texts(q.kind)
         /\ q.kind = "one" => q.of \in Listings \cup {"components", "fruHistory"} /\ q.id \in Words
         /\ q.kind = "every" => q.of \in {"rfeps", "ceps"}
         /\ q.kind = "service" => q.form \in Arguments("seps") /\ q.id \in Words
BY ListingNames DEF IsRequest

LEMMA AnswerOfListings ==
  ASSUME QueryNext
  PROVE  /\ request.kind = "components" => answer' = DoComponentsGet(request.form)
         /\ request.kind \in Listings => answer' = List(request.kind, request.form)
         /\ request.kind = "one" => answer' = Single(request.of, request.id)
         /\ request.kind = "every" => answer' = Every(request.of, request.id)
         /\ request.kind = "service" => answer' = DoServiceEndpointsGet(request.form, request.id)
BY ListingNames DEF QueryNext, On

LEMMA ListingsStep ==
  ASSUME Asking, QueryNext
  PROVE  ListingsAgree'
<1>1. IsRequest(request) /\ request' = request
  BY AskingIsRequest, AnswerOfUpdate
<1>2. ASSUME request.kind = "components", answer'.code = 200
      PROVE  Widened(request.kind, request.form, answer'.rows)
  <2>1. answer' = List(request.kind, request.form) /\ answer' = DoComponentsGet(request.form)
    BY <1>2, AnswerOfListings, ListOf
  <2>2. PICK f \in Filter : f = request.form
    BY <1>1, <1>2, ListingRequest
  <2>3. DOMAIN f = Fields
    BY DEF Filter
  <2>4. ASSUME NEW c \in DOMAIN f \ NumberFields, List("components", Wider(f, c)).code = 200
        PROVE  DoComponentsGet(f).rows \subseteq List("components", Wider(f, c)).rows
    <3>1. DoComponentsGet(f).code = 200
      BY <1>2, <2>1, <2>2
    <3>2. DoComponentsGet(Wider(f, c)).code = 200
      BY <2>4, ListOf
    <3>3. c \in Fields \ NumberFields
      BY <2>3, <2>4
    <3>4. DoComponentsGet(f).rows \subseteq DoComponentsGet(Wider(f, c)).rows
      BY <3>1, <3>2, <3>3, ComponentsWiden
    <3> QED  BY <3>4, ListOf
  <2> QED  BY <1>2, <2>1, <2>2, <2>4 DEF Widened
<1>3. ASSUME request.kind \in Listings, answer'.code = 200
      PROVE  Widened(request.kind, request.form, answer'.rows)
  <2>1. PICK k \in Listings : k = request.kind
    BY <1>3
  <2>2. PICK f : f = request.form
    OBVIOUS
  <2>3. f \in IF k \in {"rfeps", "ceps", "seps"} THEN Arguments(k) ELSE Texts(k)
    BY <1>1, <1>3, <2>1, <2>2, ListingRequest
  <2>4. answer' = List(k, f) /\ List(k, f).code = 200
    BY <1>3, <2>1, <2>2, AnswerOfListings
  <2>5. DOMAIN f = Params[k]
    BY <2>3 DEF Arguments, Texts
  <2>6. ASSUME NEW c \in DOMAIN f \ NumberFields, List(k, Wider(f, c)).code = 200
        PROVE  List(k, f).rows \subseteq List(k, Wider(f, c)).rows
    BY <2>3, <2>4, <2>5, <2>6, ListingsWiden
  <2> QED  BY <2>1, <2>2, <2>4, <2>6 DEF Widened
<1>4. ASSUME request.kind = "one" PROVE answer'.rows = Alike(request.of, request.id)
  <2>1. answer' = Single(request.of, request.id)
    BY <1>4, AnswerOfListings
  <2>2. request.of \in Listings \cup {"components", "fruHistory"} /\ request.id \in Words
    BY <1>1, <1>4, ListingRequest
  <2> QED  BY <2>1, <2>2, SinglesAgree DEF Alike
<1>5. ASSUME request.kind = "every", answer'.code = 200 PROVE answer'.rows = Unfiltered(request.of)
  <2>1. answer' = Every(request.of, request.id) /\ request.of \in {"rfeps", "ceps"}
    BY <1>1, <1>5, AnswerOfListings, ListingRequest
  <2> QED  BY <1>5, <2>1, EveryEndpoint DEF Unfiltered
<1>6. ASSUME request.kind = "service", answer'.code = 200
      PROVE  answer'.rows = Serving(request.form, request.id)
  <2>1. answer' = DoServiceEndpointsGet(request.form, request.id)
    BY <1>6, AnswerOfListings
  <2>2. request.form \in Arguments("seps") /\ request.id \in Words
    BY <1>1, <1>6, ListingRequest
  <2> QED  BY <1>6, <2>1, <2>2, OfService DEF Serving
<1>7. ListingsAgree' <=>
    ( /\ Done(Listings \cup {"components"}) => Widened(request.kind, request.form, answer.rows)
      /\ answer # NotYet /\ request.kind = "one" => answer.rows = Alike(request.of, request.id)
      /\ Done({"every"}) => answer.rows = Unfiltered(request.of)
      /\ Done({"service"}) => answer.rows = Serving(request.form, request.id) )'
  BY ListingsMeaning, PTL
<1> QED  BY <1>1, <1>2, <1>3, <1>4, <1>5, <1>6, <1>7 DEF Done

(* However many parameters a listing has, one more adds no row; what the   *)
(* request for one entry finds, the listing of its collection finds by the *)
(* same id, and the requests for all endpoints and for those of a service  *)
(* answer what the listings answer (the builders of hmsds-api-filters.go   *)
(* against the queries by a key of hmsds-tx-postgres.go).                  *)
THEOREM ListingsAreAgreed == QuerySpec => []ListingsAgree
<1>1. QueryInit => Asking /\ ListingsAgree
  BY DEF QueryInit, Asking, ListingsAgree, Done
<1>2. Asking /\ ListingsAgree /\ [QueryNext]_asked => (Asking /\ ListingsAgree)'
  <2>1. ASSUME Asking, QueryNext PROVE Asking' /\ ListingsAgree'
    BY <2>1, ListingsStep, AnswerOfUpdate DEF Asking
  <2>2. ASSUME Asking, ListingsAgree, UNCHANGED asked PROVE Asking' /\ ListingsAgree'
    BY <2>2 DEF asked, Asking, ListingsAgree, Done
  <2> QED  BY <2>1, <2>2
<1> QED  BY <1>1, <1>2, PTL DEF QuerySpec

(* ------------------------- The hardware, rolled up -------------------------- *)

(* What a location is rolled up into, the entries of the answer, and what  *)
(* is below each.                                                          *)
Shown(rows, f) == NewSystemHWInventory(rows, ~FullyFlat(f))
Into(rows, f, r) ==
  {p \in rows : /\ ~FullyFlat(f) /\ p.id \in Above[r.id]
                /\ \/ r.type \in NodeParts /\ p.type = "Node"
                   \/ r.type \in Outlets /\ p.type = "CabinetPDU"}
Tops(rows, f) ==
  {t \in rows : Into(rows, f, t) = {} /\ (FullyFlat(f) \/ t.type \notin Outlets)}
Subordinates(rows, f, t) == {r \in rows : t \in Into(rows, f, r)}

LEMMA ShownRows ==
  ASSUME NEW rows \in SUBSET Locations, NEW f
  PROVE  Shown(rows, f) = {[top |-> t, below |-> Subordinates(rows, f, t)] : t \in Tops(rows, f)}
<1> DEFINE listed == {r \in rows : r.type \in Arrays}
           Owners(r) == {p \in listed : /\ ~FullyFlat(f) /\ p.id \in Above[r.id]
                                        /\ \/ r.type \in NodeParts /\ p.type = "Node"
                                           \/ r.type \in Outlets /\ p.type = "CabinetPDU"}
           orphans == {r \in listed : Owners(r) = {}}
           kept == IF ~FullyFlat(f) THEN {r \in orphans : r.type \notin Outlets} ELSE orphans
<1>1. Shown(rows, f) = {[top |-> t, below |-> {r \in listed : t \in Owners(r)}] : t \in kept}
  BY Zenon DEF Shown, NewSystemHWInventory
<1>2. listed = rows
  BY TablesAssumption DEF TreeAssumption
<1>3. \A r : Owners(r) = Into(rows, f, r)
  BY <1>2 DEF Into
<1> HIDE DEF listed, Owners
<1>4. kept = Tops(rows, f)
  BY <1>2, <1>3 DEF Tops
<1>5. \A t : {r \in listed : t \in Owners(r)} = Subordinates(rows, f, t)
  BY <1>2, <1>3 DEF Subordinates
<1> HIDE DEF kept
<1> QED  BY <1>1, <1>4, <1>5

(* Nothing is lost but outlets without their unit, and nothing is twice or *)
(* under another in the answer.                                            *)
Loose(rows, f) ==
  {r \in rows : /\ ~FullyFlat(f) /\ r.type \in Outlets
                /\ ~\E u \in rows : u.type = "CabinetPDU" /\ u.id \in Above[r.id]}

LEMMA KindsApart ==
  /\ "Node" \notin NodeParts \cup Outlets /\ "CabinetPDU" \notin NodeParts \cup Outlets
  /\ \A t \in Outlets : t \notin NodeParts
BY DEF NodeParts, Outlets

LEMMA RolledUp ==
  ASSUME NEW rows \in SUBSET Locations, NEW f
  PROVE  /\ UNION {{x.top} \cup x.below : x \in Shown(rows, f)} = rows \ Loose(rows, f)
         /\ \A x, y \in Shown(rows, f) : y.top \notin x.below /\ (x # y => x.below \cap y.below = {})
         /\ \A x \in Shown(rows, f) : \A r \in x.below : ~FullyFlat(f) /\ x.top.id \in Above[r.id]
<1> DEFINE tops == Tops(rows, f)
           Lower(t) == Subordinates(rows, f, t)
<1>1. Shown(rows, f) = {[top |-> t, below |-> Lower(t)] : t \in tops}
  BY ShownRows
<1>2. ASSUME NEW r \in rows, NEW p \in Into(rows, f, r)
      PROVE  /\ p \in tops /\ ~FullyFlat(f) /\ p.id \in Above[r.id]
             /\ r \notin Loose(rows, f)
  <2>1. /\ p \in rows /\ ~FullyFlat(f) /\ p.id \in Above[r.id]
        /\ \/ r.type \in NodeParts /\ p.type = "Node"
           \/ r.type \in Outlets /\ p.type = "CabinetPDU"
    BY <1>2 DEF Into
  <2>2. p.type \notin NodeParts \cup Outlets
    BY <2>1, KindsApart
  <2>3. Into(rows, f, p) = {}
    BY <2>2 DEF Into
  <2>4. r \notin Loose(rows, f)
    BY <2>1, KindsApart DEF Loose
  <2> QED  BY <2>1, <2>2, <2>3, <2>4 DEF Tops
<1>3. ASSUME NEW r \in rows, NEW p \in Into(rows, f, r), NEW q \in Into(rows, f, r)
      PROVE  p = q
  <2>1. /\ p \in Locations /\ q \in Locations /\ r \in Locations
        /\ {p.id, q.id} \subseteq Above[r.id]
        /\ p.type = q.type /\ p.type \in {"Node", "CabinetPDU"}
    BY <1>3, KindsApart DEF Into
  <2> QED  BY <2>1, TablesAssumption DEF TreeAssumption
<1>4. \A t : \A r : r \in Lower(t) <=> r \in rows /\ t \in Into(rows, f, r)
  BY DEF Subordinates
<1>5. \A t \in tops : t \in rows /\ Into(rows, f, t) = {} /\ (FullyFlat(f) \/ t.type \notin Outlets)
  BY DEF Tops
<1>6. \A t \in rows : Into(rows, f, t) = {} /\ (FullyFlat(f) \/ t.type \notin Outlets) => t \in tops
  BY DEF Tops
<1> HIDE DEF tops, Lower
<1>7. \A x : x \in Shown(rows, f) <=> \E t \in tops : x = [top |-> t, below |-> Lower(t)]
  BY <1>1
<1>8. \A x \in Shown(rows, f) : x.top \in tops /\ x.below = Lower(x.top)
  BY <1>7
<1>9. \A t \in tops : \E x \in Shown(rows, f) : x.top = t /\ x.below = Lower(t)
  <2> TAKE t \in tops
  <2>1. PICK x : x = [top |-> t, below |-> Lower(t)]
    OBVIOUS
  <2>2. x \in Shown(rows, f)
    BY <1>7, <2>1
  <2>3. x.top = t /\ x.below = Lower(t)
    BY <2>1, Zenon
  <2> QED  BY <2>2, <2>3
<1>10. ASSUME NEW r
       PROVE  (\E x \in Shown(rows, f) : r = x.top \/ r \in x.below) <=> r \in rows \ Loose(rows, f)
  <2>1. ASSUME NEW x \in Shown(rows, f), r = x.top PROVE r \in rows \ Loose(rows, f)
    <3>1. r \in tops
      BY <1>8, <2>1
    <3> QED  BY <1>5, <3>1 DEF Loose
  <2>2. ASSUME NEW x \in Shown(rows, f), r \in x.below PROVE r \in rows \ Loose(rows, f)
    <3>1. r \in rows /\ x.top \in Into(rows, f, r)
      BY <1>4, <1>8, <2>2
    <3> QED  BY <1>2, <3>1
  <2>3. ASSUME r \in rows \ Loose(rows, f) PROVE \E x \in Shown(rows, f) : r = x.top \/ r \in x.below
    <3>1. CASE Into(rows, f, r) = {}
      <4>1. FullyFlat(f) \/ r.type \notin Outlets
        <5>1. ASSUME ~FullyFlat(f), r.type \in Outlets PROVE FALSE
          <6>1. PICK u \in rows : u.type = "CabinetPDU" /\ u.id \in Above[r.id]
            BY <2>3, <5>1 DEF Loose
          <6>2. u \in Into(rows, f, r)
            BY <5>1, <6>1 DEF Into
          <6> QED  BY <3>1, <6>2
        <5> QED  BY <5>1
      <4>2. r \in tops
        BY <1>6, <2>3, <3>1, <4>1
      <4> QED  BY <1>9, <4>2
    <3>2. CASE Into(rows, f, r) # {}
      <4>1. PICK p : p \in Into(rows, f, r)
        BY <3>2
      <4>2. p \in tops /\ r \in Lower(p)
        BY <1>2, <1>4, <2>3, <4>1
      <4> QED  BY <1>9, <4>2
    <3> QED  BY <3>1, <3>2
  <2> QED  BY <2>1, <2>2, <2>3
<1>11. UNION {{x.top} \cup x.below : x \in Shown(rows, f)} = rows \ Loose(rows, f)
  BY <1>10
<1>12. ASSUME NEW x \in Shown(rows, f), NEW y \in Shown(rows, f)
       PROVE  y.top \notin x.below /\ (x # y => x.below \cap y.below = {})
  <2>1. y.top \notin x.below
    BY <1>4, <1>5, <1>8
  <2>2. ASSUME NEW r, r \in x.below, r \in y.below PROVE x = y
    <3>1. r \in rows /\ x.top \in Into(rows, f, r) /\ y.top \in Into(rows, f, r)
      BY <1>4, <1>8, <2>2
    <3>2. x.top = y.top
      BY <1>3, <3>1
    <3>3. x = [top |-> x.top, below |-> Lower(x.top)] /\ y = [top |-> y.top, below |-> Lower(y.top)]
      BY <1>7
    <3> QED  BY <3>2, <3>3
  <2> QED  BY <2>1, <2>2
<1>13. ASSUME NEW x \in Shown(rows, f), NEW r \in x.below
       PROVE  ~FullyFlat(f) /\ x.top.id \in Above[r.id]
  <2>1. r \in rows /\ x.top \in Into(rows, f, r)
    BY <1>4, <1>8, <1>13
  <2> QED  BY <1>2, <2>1
<1> QED  BY <1>11, <1>12, <1>13

(* --------------------- The query of the hardware, by cases ------------------ *)

(* Expressions of one or two alternatives. *)
LEMMA HoldsOfOne ==
  ASSUME NEW A
  PROVE  Holds(<<A>>) = A /\ Paren(<<A>>) = <<A>> /\ <<A>> # <<>>
<1>1. DOMAIN <<A>> = {1} /\ <<A>>[1] = A /\ <<A>> # <<>>
  OBVIOUS
<1>2. Alternatives(<<A>>) = {A}
  BY <1>1 DEF Alternatives
<1> QED  BY <1>1, <1>2 DEF Holds, Paren

LEMMA HoldsOfTwo ==
  ASSUME NEW A, NEW B
  PROVE  Holds(<<A>> \o <<B>>) = A \cup B /\ <<A>> \o <<B>> # <<>>
<1>1. /\ DOMAIN (<<A>> \o <<B>>) = {1, 2}
      /\ (<<A>> \o <<B>>)[1] = A /\ (<<A>> \o <<B>>)[2] = B
  OBVIOUS
<1>0. <<A>> \o <<B>> # <<>>
  OBVIOUS
<1>2. Alternatives(<<A>> \o <<B>>) = {A, B}
  BY <1>1 DEF Alternatives
<1>3. UNION {A, B} = A \cup B
  OBVIOUS
<1>4. Holds(<<A>> \o <<B>>) = A \cup B
  BY <1>2, <1>3, Zenon DEF Holds
<1> QED  BY <1>0, <1>4

LEMMA OnlyOne ==
  ASSUME NEW A
  PROVE  <<>> \o <<A>> \o <<>> = <<A>>
<1>1. <<A>> \in Seq({A})
  OBVIOUS
<1> QED  BY <1>1

LEMMA AndOfOne ==
  ASSUME NEW A, NEW B
  PROVE  And(<<>>, <<B>>) = <<B>> /\ And(<<A>>, <<B>>) = <<A \cap B>>
<1>1. And(<<>>, <<B>>) = <<B>>
  BY DEF And
<1>2. And(<<A>>, <<B>>) = <<A \cap B>>
  <2>1. <<A>> # <<>> /\ Len(<<A>>) = 1 /\ <<A>>[1] = A /\ <<B>>[1] = B
    OBVIOUS
  <2>2. SubSeq(<<A>>, 1, 0) = <<>> /\ Tail(<<B>>) = <<>>
    OBVIOUS
  <2>3. And(<<A>>, <<B>>) =
          SubSeq(<<A>>, 1, Len(<<A>>) - 1) \o <<<<A>>[Len(<<A>>)] \cap <<B>>[1]>> \o Tail(<<B>>)
    BY <2>1, Zenon DEF And
  <2>4. Len(<<A>>) - 1 = 0 /\ <<A>>[Len(<<A>>)] \cap <<B>>[1] = A \cap B
    BY <2>1
  <2>5. And(<<A>>, <<B>>) = <<>> \o <<A \cap B>> \o <<>>
    BY <2>2, <2>3, <2>4, Zenon
  <2> QED  BY <2>5, OnlyOne
<1> QED  BY <1>1, <1>2

(* The parts of the query. *)
Hierarchy(q) == q.children \/ (q.type # <<>> /\ ~q.parents)
Outer(q)     == q.children /\ q.type # <<>> /\ ~q.parents
ByType(q)    == q.type # <<>> /\ ~(q.parents /\ q.children)
OfTypes(q)   == {r \in Locations : r.type \in Members(q.type)}
InParts(q)   == {r \in Locations : r.partition \in Members(q.partition)}
Ids(rows)    == {r.id : r \in rows}
TypedIn(q, rows) == IF ByType(q) THEN rows \cap OfTypes(q) ELSE rows
Spread(q, rows) == IF Outer(q) THEN UnderSelected(Locations, Ids(rows)) ELSE rows
Ancestors(q, n) == IF q.parents THEN Above[n] \ {"s0"} ELSE {}

(* What the query is of the whole system, and of one xname. *)
LEMMA QueryOfWhole ==
  ASSUME NEW q, q.id = <<>>
  PROVE  HWInvByLocQuery(q) =
           LET rows == Spread(q, TypedIn(q, Locations))
           IN IF q.partition = <<>> THEN rows ELSE rows \cap InParts(q)
<1> DEFINE parentIDs == IF ~q.parents THEN {} ELSE UNION {Above[id] : id \in Members(q.id)}
           byId == IF q.id = <<>> THEN <<>>
                   ELSE IF Hierarchy(q) THEN [i \in DOMAIN q.id |-> Under(Locations, q.id[i])]
                   ELSE <<WithID(Locations, Members(q.id) \cup parentIDs)>>
           byType == IF q.type = <<>> \/ (q.parents /\ q.children) THEN byId
                     ELSE And(byId, <<OfTypes(q)>>)
           main == IF Outer(q) THEN <<UnderSelected(Locations, Ids(Holds(byType)))>> ELSE byType
           withParents ==
             IF ~Hierarchy(q) \/ parentIDs \ {"s0"} = {} THEN main
             ELSE (IF main = <<>> THEN <<>> ELSE Paren(main)) \o <<WithID(Locations, parentIDs \ {"s0"})>>
           all == IF withParents = <<>> THEN <<Locations>> ELSE withParents
           rows == Spread(q, TypedIn(q, Locations))
<1>1. HWInvByLocQuery(q) = Holds(IF q.partition = <<>> THEN all ELSE And(all, <<InParts(q)>>))
  BY Zenon DEF HWInvByLocQuery, Hierarchy, Outer, OfTypes, InParts, Ids
<1>2. byId = <<>> /\ parentIDs = {}
  BY OneText
<1> HIDE DEF byId, parentIDs
<1>3. OfTypes(q) \subseteq Locations
  BY DEF OfTypes
<1>4. byType = IF ByType(q) THEN <<OfTypes(q)>> ELSE <<>>
  BY <1>2, AndOfOne DEF ByType
<1>5. TypedIn(q, Locations) = IF ByType(q) THEN OfTypes(q) ELSE Locations
  BY <1>3 DEF TypedIn
<1> HIDE DEF byType
<1>6. Outer(q) => ByType(q)
  BY DEF Outer, ByType
<1>7. main = IF ByType(q) THEN <<rows>> ELSE <<>>
  <2>1. Holds(<<OfTypes(q)>>) = OfTypes(q)
    BY HoldsOfOne
  <2> QED  BY <1>4, <1>5, <1>6, <2>1 DEF Spread
<1>8. ~ByType(q) => rows = Locations
  BY <1>5, <1>6 DEF Spread
<1> HIDE DEF main, rows
<1>9. all = <<rows>>
  <2>1. withParents = main
    BY <1>2
  <2>2. <<rows>> # <<>>
    BY HoldsOfOne
  <2> HIDE DEF withParents
  <2> QED  BY <1>7, <1>8, <2>1, <2>2
<1> HIDE DEF all
<1>10. Holds(all) = rows /\ Holds(And(all, <<InParts(q)>>)) = rows \cap InParts(q)
  BY <1>9, AndOfOne, HoldsOfOne
<1> QED  BY <1>1, <1>10 DEF rows

LEMMA QueryOfOne ==
  ASSUME NEW q, NEW n, q.id = <<n>>
  PROVE  LET start == IF Hierarchy(q) THEN Under(Locations, n)
                      ELSE WithID(Locations, {n} \cup (IF q.parents THEN Above[n] ELSE {}))
             rows == Spread(q, TypedIn(q, start))
         IN /\ ~Hierarchy(q) \/ Ancestors(q, n) = {} =>
                 HWInvByLocQuery(q) = IF q.partition = <<>> THEN rows ELSE rows \cap InParts(q)
            /\ Hierarchy(q) /\ q.partition = <<>> =>
                 HWInvByLocQuery(q) = rows \cup WithID(Locations, Ancestors(q, n))
<1> DEFINE parentIDs == IF ~q.parents THEN {} ELSE UNION {Above[id] : id \in Members(q.id)}
           byId == IF q.id = <<>> THEN <<>>
                   ELSE IF Hierarchy(q) THEN [i \in DOMAIN q.id |-> Under(Locations, q.id[i])]
                   ELSE <<WithID(Locations, Members(q.id) \cup parentIDs)>>
           byType == IF q.type = <<>> \/ (q.parents /\ q.children) THEN byId
                     ELSE And(byId, <<OfTypes(q)>>)
           main == IF Outer(q) THEN <<UnderSelected(Locations, Ids(Holds(byType)))>> ELSE byType
           withParents ==
             IF ~Hierarchy(q) \/ parentIDs \ {"s0"} = {} THEN main
             ELSE (IF main = <<>> THEN <<>> ELSE Paren(main)) \o <<WithID(Locations, parentIDs \ {"s0"})>>
           all == IF withParents = <<>> THEN <<Locations>> ELSE withParents
           start == IF Hierarchy(q) THEN Under(Locations, n)
                    ELSE WithID(Locations, {n} \cup (IF q.parents THEN Above[n] ELSE {}))
           rows == Spread(q, TypedIn(q, start))
           W == WithID(Locations, Ancestors(q, n))
<1>1. HWInvByLocQuery(q) = Holds(IF q.partition = <<>> THEN all ELSE And(all, <<InParts(q)>>))
  BY Zenon DEF HWInvByLocQuery, Hierarchy, Outer, OfTypes, InParts, Ids
<1>2. /\ Members(q.id) = {n} /\ q.id # <<>> /\ DOMAIN q.id = {1} /\ q.id[1] = n
  BY OneText
<1>3. parentIDs = IF q.parents THEN Above[n] ELSE {}
  <2>1. UNION {Above[id] : id \in {n}} = Above[n]
    OBVIOUS
  <2> QED  BY <1>2, <2>1
<1> HIDE DEF parentIDs
<1>4. parentIDs \ {"s0"} = Ancestors(q, n)
  BY <1>3 DEF Ancestors
<1>5. byId = <<start>>
  <2>1. [i \in DOMAIN q.id |-> Under(Locations, q.id[i])] = <<Under(Locations, n)>>
    BY <1>2
  <2> QED  BY <1>2, <1>3, <2>1
<1> HIDE DEF byId, start
<1>6. byType = <<TypedIn(q, start)>>
  <2>1. And(<<start>>, <<OfTypes(q)>>) = <<start \cap OfTypes(q)>>
    BY AndOfOne
  <2> QED  BY <1>5, <2>1 DEF ByType, TypedIn
<1> HIDE DEF byType
<1>7. main = <<rows>>
  <2>1. Holds(byType) = TypedIn(q, start)
    BY <1>6, HoldsOfOne
  <2> QED  BY <1>6, <2>1 DEF Spread
<1> HIDE DEF main, rows, W
<1>8. <<rows>> # <<>> /\ Paren(<<rows>>) = <<rows>> /\ <<rows>> \o <<W>> # <<>>
  BY HoldsOfOne, HoldsOfTwo
<1>9. all = IF ~Hierarchy(q) \/ Ancestors(q, n) = {} THEN <<rows>> ELSE <<rows>> \o <<W>>
  <2>1. withParents = IF ~Hierarchy(q) \/ Ancestors(q, n) = {} THEN <<rows>> ELSE <<rows>> \o <<W>>
    BY <1>4, <1>7, <1>8 DEF W
  <2> HIDE DEF withParents
  <2> QED  BY <1>8, <2>1
<1> HIDE DEF all
<1>10. /\ Holds(<<rows>>) = rows /\ Holds(And(<<rows>>, <<InParts(q)>>)) = rows \cap InParts(q)
       /\ Holds(<<rows>> \o <<W>>) = rows \cup W
  <2>1. Holds(<<rows>>) = rows
    BY HoldsOfOne
  <2>2. Holds(<<rows \cap InParts(q)>>) = rows \cap InParts(q)
    BY HoldsOfOne
  <2>3. And(<<rows>>, <<InParts(q)>>) = <<rows \cap InParts(q)>>
    BY AndOfOne
  <2>4. Holds(<<rows>> \o <<W>>) = rows \cup W
    BY HoldsOfTwo
  <2> QED  BY <2>1, <2>2, <2>3, <2>4
<1>11. Ancestors(q, n) = {} => W = {}
  BY DEF W, WithID
<1>12. ASSUME ~Hierarchy(q) \/ Ancestors(q, n) = {}
       PROVE  HWInvByLocQuery(q) = IF q.partition = <<>> THEN rows ELSE rows \cap InParts(q)
  BY <1>1, <1>9, <1>10, <1>12
<1>13. ASSUME Hierarchy(q), q.partition = <<>>
       PROVE  HWInvByLocQuery(q) = rows \cup W
  <2>1. CASE Ancestors(q, n) = {}
    BY <1>11, <1>12, <1>13, <2>1
  <2>2. CASE Ancestors(q, n) # {}
    <3>1. all = <<rows>> \o <<W>>
      BY <1>9, <1>13, <2>2
    <3> QED  BY <1>1, <1>10, <1>13, <3>1
  <2> QED  BY <2>1, <2>2
<1> QED  BY <1>12, <1>13 DEF rows, W, start

(* What the query should find: with a type and the children, what is below *)
(* a location of the type; with both, every relative; else those of the    *)
(* type among the xname, its ancestors or what is below it.                *)
Selected(q, r) ==
  IF q.id # <<>> /\ q.parents /\ q.children
  THEN \A id \in Members(q.id) : Beneath(r, id) \/ r.id \in Above[id]
  ELSE IF q.children /\ ~q.parents
  THEN \E t \in Locations : /\ q.type # <<>> => t.type \in Members(q.type)
                            /\ Beneath(r, t.id)
                            /\ \A id \in Members(q.id) : Beneath(t, id)
  ELSE /\ ByType(q) => r.type \in Members(q.type)
       /\ \A id \in Members(q.id) : \/ r.id = id
                                    \/ q.parents /\ r.id \in Above[id]
                                    \/ ~q.parents /\ q.type # <<>> /\ Beneath(r, id)
SelectedBy(q) == {r \in Locations : Selected(q, r)}
Sought(q) == IF q.partition = <<>> THEN SelectedBy(q) ELSE SelectedBy(q) \cap InParts(q)

(* Some location of the types, if there are types and the children are     *)
(* asked for.                                                              *)
SomeOfType(q) ==
  Outer(q) => \E t \in Locations : /\ t.type \in Members(q.type)
                                   /\ \A id \in Members(q.id) : Beneath(t, id)

(* What is below something below an xname is below the xname.              *)
LEMMA BelowIsBelow ==
  ASSUME NEW r \in Locations, NEW t \in Locations, NEW n, Beneath(r, t.id), Beneath(t, n)
  PROVE  Beneath(r, n)
<1>1. t.id \in Above[r.id] => Above[t.id] \subseteq Above[r.id]
  BY TablesAssumption DEF TreeAssumption
<1> QED  BY <1>1 DEF Beneath

LEMMA SpreadOf ==
  ASSUME NEW q, NEW S, S \subseteq Locations, Outer(q), NEW s \in S
  PROVE  Spread(q, S) = {r \in Locations : \E t \in S : Beneath(r, t.id)}
<1>1. Ids(S) # {}
  BY DEF Ids
<1>2. Spread(q, S) = UNION {Under(Locations, id) : id \in Ids(S)}
  BY <1>1 DEF Spread, UnderSelected
<1>3. ASSUME NEW r PROVE r \in Spread(q, S) <=> r \in Locations /\ \E t \in S : Beneath(r, t.id)
  <2>1. r \in Spread(q, S) <=> \E id \in Ids(S) : r \in Under(Locations, id)
    BY <1>2
  <2>2. \A id : r \in Under(Locations, id) <=> r \in Locations /\ Beneath(r, id)
    BY DEF Under, Beneath
  <2>3. \A id : id \in Ids(S) <=> \E t \in S : id = t.id
    BY DEF Ids
  <2> QED  BY <2>1, <2>2, <2>3
<1> QED  BY <1>3

LEMMA WholeSought ==
  ASSUME NEW q, q.id = <<>>, SomeOfType(q)
  PROVE  HWInvByLocQuery(q) = Sought(q)
<1> DEFINE rows == Spread(q, TypedIn(q, Locations))
<1>1. HWInvByLocQuery(q) = IF q.partition = <<>> THEN rows ELSE rows \cap InParts(q)
  BY QueryOfWhole
<1>2. Members(q.id) = {}
  BY OneText
<1>3. OfTypes(q) \subseteq Locations /\ \A r : r \in OfTypes(q) <=> r \in Locations /\ r.type \in Members(q.type)
  BY DEF OfTypes
<1>4. rows = SelectedBy(q)
  <2>1. CASE Outer(q)
    <3>1. ByType(q) /\ q.type # <<>> /\ q.children /\ ~q.parents
      BY <2>1 DEF Outer, ByType
    <3>2. TypedIn(q, Locations) = OfTypes(q)
      BY <1>3, <3>1 DEF TypedIn
    <3>3. PICK t \in Locations : t.type \in Members(q.type)
      BY <2>1 DEF SomeOfType
    <3>4. rows = {r \in Locations : \E u \in OfTypes(q) : Beneath(r, u.id)}
      BY <1>3, <2>1, <3>2, <3>3, SpreadOf
    <3> HIDE DEF rows
    <3> QED  BY <1>2, <1>3, <3>1, <3>4 DEF SelectedBy, Selected
  <2>2. CASE ~Outer(q)
    <3>1. rows = TypedIn(q, Locations)
      BY <2>2 DEF Spread
    <3>2. CASE q.children /\ ~q.parents
      <4>1. q.type = <<>> /\ rows = Locations
        BY <2>2, <3>1, <3>2 DEF Outer, TypedIn, ByType
      <4>2. \A r \in Locations : Beneath(r, r.id)
        BY DEF Beneath
      <4> HIDE DEF rows
      <4> QED  BY <1>2, <3>2, <4>1, <4>2 DEF SelectedBy, Selected
    <3>3. CASE ~(q.children /\ ~q.parents)
      <4>1. \A r : r \in rows <=> r \in Locations /\ (ByType(q) => r.type \in Members(q.type))
        BY <1>3, <3>1 DEF TypedIn
      <4> HIDE DEF rows
      <4> QED  BY <1>2, <3>3, <4>1 DEF SelectedBy, Selected
    <3> QED  BY <3>2, <3>3
  <2> QED  BY <2>1, <2>2
<1> HIDE DEF rows
<1> QED  BY <1>1, <1>4 DEF Sought

LEMMA OneSought ==
  ASSUME NEW q, NEW n, q.id = <<n>>, SomeOfType(q),
         ~(q.parents /\ q.children /\ q.partition # <<>>)
  PROVE  HWInvByLocQuery(q) = Sought(q)
<1> DEFINE start == IF Hierarchy(q) THEN Under(Locations, n)
                    ELSE WithID(Locations, {n} \cup (IF q.parents THEN Above[n] ELSE {}))
           rows == Spread(q, TypedIn(q, start))
<1>1. /\ ~Hierarchy(q) \/ Ancestors(q, n) = {} =>
           HWInvByLocQuery(q) = IF q.partition = <<>> THEN rows ELSE rows \cap InParts(q)
      /\ Hierarchy(q) /\ q.partition = <<>> =>
           HWInvByLocQuery(q) = rows \cup WithID(Locations, Ancestors(q, n))
  BY QueryOfOne
<1>2. Members(q.id) = {n} /\ q.id # <<>>
  BY OneText
<1>3. \A r : r \in OfTypes(q) <=> r \in Locations /\ r.type \in Members(q.type)
  BY DEF OfTypes
<1>4. \A r : r \in Under(Locations, n) <=> r \in Locations /\ Beneath(r, n)
  BY DEF Under, Beneath
<1>5. \A ids, r : r \in WithID(Locations, ids) <=> r \in Locations /\ r.id \in ids
  BY DEF WithID
<1>6. CASE q.parents /\ q.children
  <2>1. Hierarchy(q) /\ ~Outer(q) /\ ~ByType(q)
    BY <1>6 DEF Hierarchy, Outer, ByType
  <2>2. rows = Under(Locations, n)
    BY <2>1 DEF Spread, TypedIn
  <2>3. Ancestors(q, n) = Above[n] \ {"s0"}
    BY <1>6 DEF Ancestors
  <2>4. HWInvByLocQuery(q) = Under(Locations, n) \cup WithID(Locations, Above[n] \ {"s0"})
    BY <1>1, <1>6, <2>1, <2>2, <2>3
  <2>5. \A r \in Locations : r.id # "s0"
    BY TablesAssumption DEF KeysAssumption
  <2>6. ASSUME NEW r PROVE r \in HWInvByLocQuery(q) <=> r \in SelectedBy(q)
    <3>1. r \in SelectedBy(q) <=> r \in Locations /\ (Beneath(r, n) \/ r.id \in Above[n])
      BY <1>2, <1>6 DEF SelectedBy, Selected
    <3>2. r \in HWInvByLocQuery(q) <=>
            r \in Locations /\ (Beneath(r, n) \/ r.id \in Above[n] \ {"s0"})
      BY <1>4, <1>5, <2>4
    <3> QED  BY <2>5, <3>1, <3>2
  <2>7. HWInvByLocQuery(q) = SelectedBy(q)
    BY <1>1, <1>6, <2>1, <2>6 DEF SelectedBy
  <2> QED  BY <1>6, <2>7 DEF Sought
<1>7. ASSUME ~(q.parents /\ q.children), rows = SelectedBy(q)
      PROVE  HWInvByLocQuery(q) = Sought(q)
  <2>1. ~Hierarchy(q) \/ Ancestors(q, n) = {}
    BY <1>7 DEF Hierarchy, Ancestors
  <2> QED  BY <1>1, <1>7, <2>1 DEF Sought
<1>8. CASE q.children /\ ~q.parents
  <2>1. Hierarchy(q) /\ start = Under(Locations, n)
    BY <1>8 DEF Hierarchy
  <2>2. CASE q.type = <<>>
    <3>1. rows = Under(Locations, n)
      BY <2>1, <2>2 DEF Spread, Outer, TypedIn, ByType
    <3>2. \A r \in Locations : Beneath(r, r.id)
      BY DEF Beneath
    <3>3. ASSUME NEW r PROVE r \in SelectedBy(q) <=> r \in Locations /\ Beneath(r, n)
      <4>1. r \in SelectedBy(q) <=>
              r \in Locations /\ \E t \in Locations : Beneath(r, t.id) /\ Beneath(t, n)
        BY <1>2, <1>8, <2>2 DEF SelectedBy, Selected
      <4> QED  BY <3>2, <4>1, BelowIsBelow
    <3>4. rows = SelectedBy(q)
      BY <1>4, <3>1, <3>3 DEF SelectedBy
    <3> QED  BY <1>7, <1>8, <3>4
  <2>3. CASE q.type # <<>>
    <3> DEFINE S == Under(Locations, n) \cap OfTypes(q)
    <3>1. Outer(q) /\ TypedIn(q, start) = S
      BY <1>8, <2>1, <2>3 DEF Outer, TypedIn, ByType
    <3>2. \A r : r \in S <=> r \in Locations /\ Beneath(r, n) /\ r.type \in Members(q.type)
      BY <1>3, <1>4
    <3>3. PICK t \in Locations : t.type \in Members(q.type) /\ Beneath(t, n)
      BY <1>2, <3>1 DEF SomeOfType
    <3> HIDE DEF S, start
    <3>4. t \in S /\ S \subseteq Locations
      BY <3>2, <3>3
    <3>5. rows = {r \in Locations : \E u \in S : Beneath(r, u.id)}
      BY <3>1, <3>4, SpreadOf
    <3>6. ASSUME NEW r
          PROVE  r \in SelectedBy(q) <=> r \in Locations /\ \E u \in S : Beneath(r, u.id)
      <4>1. r \in SelectedBy(q) <=>
              r \in Locations /\ \E u \in Locations : /\ u.type \in Members(q.type)
                                                      /\ Beneath(r, u.id) /\ Beneath(u, n)
        BY <1>2, <1>8, <2>3 DEF SelectedBy, Selected
      <4> QED  BY <3>2, <4>1
    <3> HIDE DEF rows
    <3>7. rows = SelectedBy(q)
      BY <3>5, <3>6 DEF SelectedBy
    <3> QED  BY <1>7, <1>8, <3>7 DEF rows, start
  <2> QED  BY <2>2, <2>3
<1>9. CASE ~q.children
  <2>1. rows = TypedIn(q, start) /\ (ByType(q) <=> q.type # <<>>)
    BY <1>9 DEF Spread, Outer, ByType
  <2>2. \A r : r \in start <=>
          r \in Locations /\ \/ r.id = n
                             \/ q.parents /\ r.id \in Above[n]
                             \/ ~q.parents /\ q.type # <<>> /\ Beneath(r, n)
    <3>1. Hierarchy(q) <=> q.type # <<>> /\ ~q.parents
      BY <1>9 DEF Hierarchy
    <3>2. \A r : r.id = n => Beneath(r, n)
      BY DEF Beneath
    <3> QED  BY <1>4, <1>5, <3>1, <3>2
  <2> HIDE DEF start
  <2>3. \A r : r \in TypedIn(q, start) <=> r \in start /\ (ByType(q) => r.type \in Members(q.type))
    BY <1>3, <2>2 DEF TypedIn
  <2>4. \A r : r \in SelectedBy(q) <=>
          /\ r \in Locations /\ (ByType(q) => r.type \in Members(q.type))
          /\ \/ r.id = n
             \/ q.parents /\ r.id \in Above[n]
             \/ ~q.parents /\ q.type # <<>> /\ Beneath(r, n)
    BY <1>2, <1>9 DEF SelectedBy, Selected
  <2> HIDE DEF rows
  <2>5. rows = SelectedBy(q)
    <3>1. \A r : r \in rows <=> r \in SelectedBy(q)
      BY <2>1, <2>2, <2>3, <2>4
    <3>2. rows = TypedIn(q, start)
      BY <2>1
    <3>3. TypedIn(q, start) = SelectedBy(q)
      BY <3>1, <3>2 DEF TypedIn, SelectedBy
    <3> QED  BY <3>2, <3>3
  <2> QED  BY <1>7, <1>9, <2>5 DEF rows, start
<1> QED  BY <1>6, <1>8, <1>9

(* ------------------ The filter of a request for the hardware ---------------- *)

WithParents(f)  == f["parents"] # <<>> /\ Bool(f["parents"])
WithChildren(f) == IF f["children"] = <<>> THEN ~WithParents(f) ELSE Bool(f["children"])
Entire(s)       == s \in {"partition", "system"}
Wanted(f, c)    == Members(Normal(f, {"type", "partition"})[c])
Partitions(f, x, s) ==
  Wanted(f, "partition") \cup (IF s = "partition" THEN {Norm("partition", x)} ELSE {})

LEMMA FilterFields ==
  ASSUME NEW f, NEW x, NEW s
  PROVE  LET q == QueryFilter(f, x, s)
             n == Normal(OrOfPartition(f, x, s), {"type", "partition"})
         IN /\ q.id = IF Entire(s) THEN <<>> ELSE <<Norm("id", x)>>
            /\ q.type = n["type"] /\ q.partition = n["partition"]
            /\ q.parents <=> WithParents(f)
            /\ q.children <=> WithChildren(f)
<1> DEFINE n == Normal(OrOfPartition(f, x, s), {"type", "partition"})
           id == IF Entire(s) THEN <<>> ELSE <<Norm("id", x)>>
           type == n["type"]
           partition == n["partition"]
           parents == WithParents(f)
           children == IF f["children"] # <<>> THEN Bool(f["children"]) ELSE ~WithParents(f)
<1>1. QueryFilter(f, x, s) =
        [id |-> id, type |-> type, partition |-> partition, parents |-> parents, children |-> children]
  BY Zenon DEF QueryFilter, WithParents, Entire
<1>2. children <=> WithChildren(f)
  BY DEF WithChildren
<1> HIDE DEF id, type, partition, parents, children
<1>3. /\ QueryFilter(f, x, s).id = id /\ QueryFilter(f, x, s).type = type
      /\ QueryFilter(f, x, s).partition = partition
      /\ QueryFilter(f, x, s).parents = parents /\ QueryFilter(f, x, s).children = children
  BY <1>1
<1>4. QueryFilter(f, x, s).parents <=> WithParents(f)
  BY <1>3 DEF parents
<1>5. QueryFilter(f, x, s).children <=> WithChildren(f)
  BY <1>2, <1>3
<1> QED  BY <1>3, <1>4, <1>5 DEF id, type, partition

LEMMA NormalMembers ==
  ASSUME NEW C, NEW f \in [C -> Seq(Words)], NEW columns, NEW c, c \in C /\ c \in columns
  PROVE  /\ Members(Normal(f, columns)[c]) = {Norm(c, v) : v \in Members(f[c])}
         /\ Normal(f, columns)[c] = <<>> <=> Members(Normal(f, columns)[c]) = {}
<1> DEFINE s == f[c]
           n == [i \in DOMAIN s |-> Norm(c, s[i])]
<1>1. Normal(f, columns)[c] = n
  BY DEF Normal
<1>2. Members(n) = {Norm(c, v) : v \in Members(s)}
  BY DEF Members
<1>3. n = <<>> <=> Members(n) = {}
  <2>1. DOMAIN n = DOMAIN s /\ DOMAIN <<>> = {} /\ Members(<<>>) = {}
    BY OneText
  <2>2. ASSUME Members(n) = {} PROVE n = <<>>
    <3>1. DOMAIN s = {}
      BY <2>1, <2>2 DEF Members
    <3> QED  BY <3>1
  <2> HIDE DEF n
  <2> QED  BY <2>1, <2>2
<1> QED  BY <1>1, <1>2, <1>3

LEMMA AppendedMembers ==
  ASSUME NEW s \in Seq(Words), NEW x \in Words
  PROVE  Append(s, x) \in Seq(Words) /\ Members(Append(s, x)) = Members(s) \cup {x}
<1>1. /\ DOMAIN s = 1..Len(s) /\ Len(s) \in Nat /\ Append(s, x) \in Seq(Words)
      /\ DOMAIN Append(s, x) = 1..(Len(s) + 1)
      /\ Append(s, x)[Len(s) + 1] = x /\ \A i \in 1..Len(s) : Append(s, x)[i] = s[i]
  OBVIOUS
<1>2. \A i : i \in DOMAIN Append(s, x) <=> i \in DOMAIN s \/ i = Len(s) + 1
  BY <1>1
<1>3. ASSUME NEW v PROVE v \in Members(Append(s, x)) <=> v \in Members(s) \/ v = x
  BY <1>1, <1>2 DEF Members
<1> QED  BY <1>1, <1>3

LEMMA FilterLists ==
  ASSUME NEW f \in [QueryParams -> Seq(Words)], NEW x \in Words, NEW s
  PROVE  LET q == QueryFilter(f, x, s)
         IN /\ Members(q.type) = Wanted(f, "type") /\ (q.type = <<>> <=> Wanted(f, "type") = {})
            /\ Members(q.partition) = Partitions(f, x, s)
            /\ q.partition = <<>> <=> Partitions(f, x, s) = {}
<1> DEFINE q == QueryFilter(f, x, s)
           g == OrOfPartition(f, x, s)
           columns == {"type", "partition"}
<1>1. q.type = Normal(g, columns)["type"] /\ q.partition = Normal(g, columns)["partition"]
  BY FilterFields
<1>2. "type" \in QueryParams /\ "partition" \in QueryParams
  BY DEF QueryParams
<1>3. f["partition"] \in Seq(Words) /\ DOMAIN f = QueryParams
  BY <1>2
<1>4. /\ Append(f["partition"], x) \in Seq(Words)
      /\ Members(Append(f["partition"], x)) = Members(f["partition"]) \cup {x}
  BY <1>3, AppendedMembers
<1>5. /\ s = "partition" => g = [f EXCEPT !["partition"] = Append(f["partition"], x)]
      /\ s # "partition" => g = f
  BY DEF OrOfPartition
<1> HIDE DEF g, q
<1>6. /\ g \in [QueryParams -> Seq(Words)] /\ g["type"] = f["type"]
      /\ Members(g["partition"]) = Members(f["partition"]) \cup (IF s = "partition" THEN {x} ELSE {})
  <2>1. CASE s = "partition"
    <3>1. g = [f EXCEPT !["partition"] = Append(f["partition"], x)]
      BY <1>5, <2>1
    <3>2. g \in [QueryParams -> Seq(Words)] /\ g["type"] = f["type"]
          /\ g["partition"] = Append(f["partition"], x)
      BY <1>2, <1>3, <1>4, <3>1
    <3> QED  BY <1>4, <2>1, <3>2
  <2>2. CASE s # "partition"
    BY <1>5, <2>2
  <2> QED  BY <2>1, <2>2
<1>7. /\ Members(Normal(g, columns)["type"]) = {Norm("type", v) : v \in Members(g["type"])}
      /\ Normal(g, columns)["type"] = <<>> <=> Members(Normal(g, columns)["type"]) = {}
  BY <1>2, <1>6, NormalMembers
<1>8. /\ Members(Normal(g, columns)["partition"]) = {Norm("partition", v) : v \in Members(g["partition"])}
      /\ Normal(g, columns)["partition"] = <<>> <=> Members(Normal(g, columns)["partition"]) = {}
  BY <1>2, <1>6, NormalMembers
<1>9. Wanted(f, "type") = {Norm("type", v) : v \in Members(f["type"])}
  BY <1>2, NormalMembers DEF Wanted
<1>10. Wanted(f, "partition") = {Norm("partition", v) : v \in Members(f["partition"])}
  BY <1>2, NormalMembers DEF Wanted
<1>11. Members(q.type) = Wanted(f, "type") /\ (q.type = <<>> <=> Wanted(f, "type") = {})
  BY <1>1, <1>6, <1>7, <1>9
<1>12. {Norm("partition", v) : v \in Members(g["partition"])} = Partitions(f, x, s)
  BY <1>6, <1>10 DEF Partitions
<1>13. /\ Members(q.partition) = Partitions(f, x, s)
       /\ q.partition = <<>> <=> Partitions(f, x, s) = {}
  BY <1>1, <1>8, <1>12
<1> QED  BY <1>11, <1>13 DEF q

(* ----------------------- What InventoryMatches asks for --------------------- *)

OfTypeOf(f, r) == Wanted(f, "type") = {} \/ r.type \in Wanted(f, "type")
NoType(f, x, s) ==
  /\ WithChildren(f) /\ ~WithParents(f)
  /\ ~\E r \in Locations : OfTypeOf(f, r) /\ (s # "xname" \/ Beneath(r, Norm("id", x)))
Related(f, s) == s = "xname" /\ WithParents(f) /\ WithChildren(f)
Matching(f, x, s, r) ==
  IF Related(f, s) THEN Beneath(r, Norm("id", x)) \/ r.id \in Above[Norm("id", x)]
  ELSE IF WithChildren(f) /\ ~WithParents(f)
  THEN \E t \in Locations : /\ OfTypeOf(f, t) /\ Beneath(r, t.id)
                            /\ s # "xname" \/ Beneath(t, Norm("id", x))
  ELSE /\ Wanted(f, "type") # {} /\ ~(WithParents(f) /\ WithChildren(f)) => OfTypeOf(f, r)
       /\ \/ s # "xname" \/ r.id = Norm("id", x)
          \/ WithParents(f) /\ r.id \in Above[Norm("id", x)]
          \/ ~WithParents(f) /\ Wanted(f, "type") # {} /\ Beneath(r, Norm("id", x))
Intended(f, x, s) ==
  {r \in Locations : /\ Partitions(f, x, s) = {} \/ r.partition \in Partitions(f, x, s)
                     /\ Matching(f, x, s, r)}
Rolled(given, rows, f) ==
  /\ UNION {{x.top} \cup x.below : x \in given} = rows \ Loose(rows, f)
  /\ \A x, y \in given : y.top \notin x.below /\ (x # y => x.below \cap y.below = {})
  /\ \A x \in given : \A r \in x.below : ~FullyFlat(f) /\ x.top.id \in Above[r.id]

LEMMA InventoryMeaning ==
  InventoryMatches <=>
    (/\ Done({"hardware"})
     /\ ~NoType(request.form, request.xname, request.scope)
     /\ ~(Related(request.form, request.scope)
          /\ Partitions(request.form, request.xname, request.scope) # {})
     => Rolled(answer.rows, Intended(request.form, request.xname, request.scope), request.form))
<1> DEFINE f == request.form
           x == request.xname
           s == request.scope
           meant ==
             {r \in Locations :
                /\ InPart(r)
                /\ IF Relatives THEN Beneath(r, Top) \/ r.id \in Above[Top]
                   ELSE IF Children /\ ~Parents
                   THEN \E t \in Locations : Typed(t) /\ Beneath(r, t.id) /\ (Whole \/ Beneath(t, Top))
                   ELSE /\ Wants("type") # {} /\ ~(Parents /\ Children) => Typed(r)
                        /\ \/ Whole \/ r.id = Top
                           \/ Parents /\ r.id \in Above[Top]
                           \/ ~Parents /\ Wants("type") # {} /\ Beneath(r, Top)}
           loose == {r \in meant : /\ Nested /\ r.type \in Outlets
                                 /\ ~\E u \in meant : u.type = "CabinetPDU" /\ u.id \in Above[r.id]}
           good == /\ Given = meant \ loose
                   /\ \A a, b \in answer.rows : b.top \notin a.below /\ (a # b => a.below \cap b.below = {})
                   /\ \A a \in answer.rows : \A r \in a.below : Nested /\ a.top.id \in Above[r.id]
<1>1. InventoryMatches <=> (Done({"hardware"}) /\ ~NoneOfType /\ ~(Relatives /\ Parts # {}) => good)
  BY Zenon DEF InventoryMatches
<1>2. /\ Wants("type") = Wanted(f, "type") /\ Parts = Partitions(f, x, s) /\ Top = Norm("id", x)
      /\ Nested <=> ~FullyFlat(f)
      /\ Whole <=> s # "xname"
      /\ Parents <=> WithParents(f)
  BY Zenon DEF Wants, Wanted, Parts, Partitions, Top, Nested, Whole, Parents, WithParents
<1>3. Children <=> WithChildren(f)
  BY <1>2 DEF Children, WithChildren
<1>4. Relatives <=> Related(f, s)
  BY <1>2, <1>3 DEF Relatives, Related
<1>5. \A r : Typed(r) <=> OfTypeOf(f, r)
  BY <1>2 DEF Typed, OfTypeOf
<1>6. NoneOfType <=> NoType(f, x, s)
  BY <1>2, <1>3, <1>5 DEF NoneOfType, NoType
<1> HIDE DEF f, x, s
<1>7. meant = Intended(f, x, s)
  BY <1>2, <1>3, <1>4, <1>5 DEF Intended, Matching, InPart
<1> HIDE DEF meant
<1>8. loose = Loose(Intended(f, x, s), f)
  BY <1>2, <1>7 DEF Loose
<1> HIDE DEF loose
<1>9. good <=> Rolled(answer.rows, Intended(f, x, s), f)
  BY <1>2, <1>7, <1>8 DEF Rolled, Given
<1> HIDE DEF good
<1> QED  BY <1>1, <1>2, <1>4, <1>6, <1>9 DEF f, x, s

(* It is what the query should find. *)
LEMMA IntendedIsSought ==
  ASSUME NEW f \in [QueryParams -> Seq(Words)], NEW x \in Words, NEW s, s \in Scopes \ {"invalid"},
         ~NoType(f, x, s), ~(Related(f, s) /\ Partitions(f, x, s) # {})
  PROVE  HWInvByLocQuery(QueryFilter(f, x, s)) = Intended(f, x, s)
<1> DEFINE q == QueryFilter(f, x, s)
           n == Norm("id", x)
<1>1. /\ q.id = IF Entire(s) THEN <<>> ELSE <<n>>
      /\ q.parents <=> WithParents(f)
      /\ q.children <=> WithChildren(f)
  BY FilterFields
<1>2. /\ Members(q.type) = Wanted(f, "type") /\ (q.type = <<>> <=> Wanted(f, "type") = {})
      /\ Members(q.partition) = Partitions(f, x, s)
      /\ q.partition = <<>> <=> Partitions(f, x, s) = {}
  BY FilterLists
<1>3. Entire(s) <=> s # "xname"
  BY DEF Entire, Scopes
<1>4. /\ s # "xname" => q.id = <<>> /\ Members(q.id) = {}
      /\ s = "xname" => q.id = <<n>> /\ Members(q.id) = {n} /\ q.id # <<>>
  <2>1. CASE s # "xname"
    BY <1>1, <1>3, <2>1, OneText
  <2>2. CASE s = "xname"
    <3>1. q.id = <<n>>
      BY <1>1, <1>3, <2>2
    <3> HIDE DEF q, n
    <3> QED  BY <2>2, <3>1, OneText
  <2> QED  BY <2>1, <2>2
<1> HIDE DEF q, n
<1>5. SomeOfType(q)
  BY <1>1, <1>2, <1>4 DEF SomeOfType, Outer, NoType, OfTypeOf, n
<1>6. HWInvByLocQuery(q) = Sought(q)
  <2>1. CASE s # "xname"
    BY <1>4, <1>5, <2>1, WholeSought
  <2>2. CASE s = "xname"
    <3>1. ~(q.parents /\ q.children /\ q.partition # <<>>)
      BY <1>1, <1>2, <2>2 DEF Related
    <3> QED  BY <1>4, <1>5, <2>2, <3>1, OneSought
  <2> QED  BY <2>1, <2>2
<1>7. ASSUME NEW r \in Locations PROVE Selected(q, r) <=> Matching(f, x, s, r)
  <2>1. CASE s = "xname" /\ WithParents(f) /\ WithChildren(f)
    <3>1. Selected(q, r) <=> Beneath(r, n) \/ r.id \in Above[n]
      BY <1>1, <1>4, <2>1 DEF Selected
    <3> QED  BY <2>1, <3>1 DEF Matching, Related, n
  <2>2. CASE WithChildren(f) /\ ~WithParents(f)
    <3>1. Selected(q, r) <=> \E t \in Locations : /\ OfTypeOf(f, t) /\ Beneath(r, t.id)
                                                  /\ s # "xname" \/ Beneath(t, n)
      BY <1>1, <1>2, <1>4, <2>2 DEF Selected, OfTypeOf
    <3> QED  BY <2>2, <3>1 DEF Matching, Related, n
  <2>3. CASE /\ ~(s = "xname" /\ WithParents(f) /\ WithChildren(f))
             /\ ~(WithChildren(f) /\ ~WithParents(f))
    <3>1. Selected(q, r) <=> /\ ByType(q) => r.type \in Members(q.type)
                             /\ \A id \in Members(q.id) :
                                  \/ r.id = id
                                  \/ q.parents /\ r.id \in Above[id]
                                  \/ ~q.parents /\ q.type # <<>> /\ Beneath(r, id)
      BY <1>1, <1>4, <2>3 DEF Selected
    <3>2. ByType(q) <=> Wanted(f, "type") # {} /\ ~(WithParents(f) /\ WithChildren(f))
      BY <1>1, <1>2 DEF ByType
    <3>3. Matching(f, x, s, r) <=>
            /\ ByType(q) => OfTypeOf(f, r)
            /\ \/ s # "xname" \/ r.id = n
               \/ q.parents /\ r.id \in Above[n]
               \/ ~q.parents /\ q.type # <<>> /\ Beneath(r, n)
      BY <1>1, <1>2, <2>3, <3>2 DEF Matching, Related, n
    <3>4. ByType(q) => (OfTypeOf(f, r) <=> r.type \in Members(q.type))
      BY <1>2, <3>2 DEF OfTypeOf
    <3> QED  BY <1>4, <3>1, <3>3, <3>4
  <2> QED  BY <2>1, <2>2, <2>3
<1>8. ASSUME NEW r PROVE r \in Sought(q) <=> r \in Intended(f, x, s)
  <2>1. r \in SelectedBy(q) <=> r \in Locations /\ Matching(f, x, s, r)
    BY <1>7 DEF SelectedBy
  <2>2. r \in Sought(q) <=> r \in SelectedBy(q) /\ (q.partition = <<>> \/ r.partition \in Partitions(f, x, s))
    BY <1>2 DEF Sought, InParts, SelectedBy
  <2> QED  BY <1>2, <2>1, <2>2 DEF Intended
<1>9. Sought(q) = Intended(f, x, s)
  BY <1>8 DEF Sought, Intended, SelectedBy
<1> QED  BY <1>6, <1>9 DEF q

LEMMA HardwareAnswer ==
  ASSUME NEW f, NEW x, NEW s, DoHWInvByLocationQueryGet(f, x, s).code = 200
  PROVE  /\ s # "invalid"
         /\ DoHWInvByLocationQueryGet(f, x, s).rows = Shown(HWInvByLocQuery(QueryFilter(f, x, s)), f)
<1> DEFINE bad == \/ s = "invalid"
                  \/ \E c \in {"type", "partition"} : Invalid(OrOfPartition(f, x, s), c)
                  \/ \E c \in {"parents", "children"} : BadBool(f[c])
                  \/ f["format"] # <<>> /\ f["format"][1] \notin {"fullyflat", "nestnodesonly"}
           rows == Shown(HWInvByLocQuery(QueryFilter(f, x, s)), f)
<1>1. DoHWInvByLocationQueryGet(f, x, s) = IF bad THEN Refused ELSE Listing(rows)
  BY Zenon DEF DoHWInvByLocationQueryGet, Shown
<1>2. s = "invalid" => bad
  OBVIOUS
<1> HIDE DEF bad, rows
<1> QED  BY <1>1, <1>2, ListingAnswer DEF rows

LEMMA HardwareStep ==
  ASSUME Asking, QueryNext
  PROVE  InventoryMatches'
<1>1. IsRequest(request) /\ request' = request
  BY AskingIsRequest, AnswerOfUpdate
<1>2. ASSUME request.kind = "hardware", answer'.code = 200,
             ~NoType(request.form, request.xname, request.scope),
             ~(Related(request.form, request.scope)
               /\ Partitions(request.form, request.xname, request.scope) # {})
      PROVE  Rolled(answer'.rows, Intended(request.form, request.xname, request.scope), request.form)
  <2>1. answer' = DoHWInvByLocationQueryGet(request.form, request.xname, request.scope)
    BY <1>2, ListingNames DEF QueryNext, On
  <2>2. /\ request.form \in [QueryParams -> Seq(Words)] /\ request.xname \in Words
        /\ request.scope \in Scopes
    BY <1>1, <1>2, ListingNames DEF IsRequest
  <2>3. PICK f \in [QueryParams -> Seq(Words)] : f = request.form
    BY <2>2
  <2>4. PICK x \in Words : x = request.xname
    BY <2>2
  <2>5. PICK s \in Scopes : s = request.scope
    BY <2>2
  <2>6. DoHWInvByLocationQueryGet(f, x, s).code = 200
    BY <1>2, <2>1, <2>3, <2>4, <2>5
  <2>7. /\ s # "invalid"
        /\ DoHWInvByLocationQueryGet(f, x, s).rows = Shown(HWInvByLocQuery(QueryFilter(f, x, s)), f)
    BY <2>6, HardwareAnswer
  <2>8. HWInvByLocQuery(QueryFilter(f, x, s)) = Intended(f, x, s)
    BY <1>2, <2>3, <2>4, <2>5, <2>7, IntendedIsSought
  <2>9. Intended(f, x, s) \in SUBSET Locations
    BY DEF Intended
  <2>10. Rolled(Shown(Intended(f, x, s), f), Intended(f, x, s), f)
    BY <2>9, RolledUp DEF Rolled
  <2> QED  BY <2>1, <2>3, <2>4, <2>5, <2>7, <2>8, <2>10
<1>3. InventoryMatches' <=>
        (/\ Done({"hardware"})
         /\ ~NoType(request.form, request.xname, request.scope)
         /\ ~(Related(request.form, request.scope)
              /\ Partitions(request.form, request.xname, request.scope) # {})
         => Rolled(answer.rows, Intended(request.form, request.xname, request.scope), request.form))'
  BY InventoryMeaning, PTL
<1> QED  BY <1>1, <1>2, <1>3 DEF Done

(* A query of the hardware, of whatever tables, types, partitions and      *)
(* xname, finds what its parameters mean and rolls it up without losing a  *)
(* location, but outlets without their unit, or showing one twice; but for *)
(* the two cases InventoryMatches leaves out (getHWInvByLocQuery and       *)
(* NewSystemHWInventory).                                                  *)
THEOREM InventoryIsMatched == QuerySpec => []InventoryMatches
<1>1. QueryInit => Asking /\ InventoryMatches
  BY DEF QueryInit, Asking, InventoryMatches, Done
<1>2. Asking /\ InventoryMatches /\ [QueryNext]_asked => (Asking /\ InventoryMatches)'
  <2>1. ASSUME Asking, QueryNext PROVE Asking' /\ InventoryMatches'
    BY <2>1, HardwareStep, AnswerOfUpdate DEF Asking
  <2>2. ASSUME Asking, InventoryMatches, UNCHANGED asked PROVE Asking' /\ InventoryMatches'
    <3>1. request' = request /\ answer' = answer
      BY <2>2 DEF asked
    <3>2. InventoryMatches' <=>
            (/\ Done({"hardware"})
             /\ ~NoType(request.form, request.xname, request.scope)
             /\ ~(Related(request.form, request.scope)
                  /\ Partitions(request.form, request.xname, request.scope) # {})
             => Rolled(answer.rows, Intended(request.form, request.xname, request.scope), request.form))'
      BY InventoryMeaning, PTL
    <3> QED  BY <2>2, <3>1, <3>2, InventoryMeaning DEF Asking, Done
  <2> QED  BY <2>1, <2>2
<1> QED  BY <1>1, <1>2, PTL DEF QuerySpec
=============================================================================
