------------------------ MODULE ReservationClientProofs ------------------------
(***************************************************************************)
(* Proofs about ReservationClient, for any number of goroutines that share *)
(* reservedMap, any components and keys, and any term that is longer than  *)
(* a call may take.                                                        *)
(***************************************************************************)
EXTENDS ReservationClient, TLAPS

-------------------------------------------------------------------------------
(* What a map m of reservations is to the server's table t, when the keys  *)
(* of f are forfeit.                                                       *)

(* The server has given c to who has key k. *)
Gives(t, c, k) == t[c] # NoRes /\ t[c].key = k

(* No row of the table ends before the map's entry: whosever it is.        *)
Below(m, t) ==
  \A c \in Component : m[c] # NoRes /\ t[c] # NoRes => m[c].left <= t[c].left

(* The server has what the map has, if there is time left. *)
Sound(m, t, f) ==
  \A c \in Component :
    m[c] # NoRes /\ m[c].left > 0 /\ m[c].key \notin f => Gives(t, c, m[c].key)

Safe(m, t, f) == Below(m, t) /\ Sound(m, t, f)

(* The server has what it has just given or renewed, for longer than the   *)
(* call that asked for it may still take.                                  *)
Live(m, t, f, n) ==
  \A c \in Component :
    m[c] # NoRes /\ m[c].key \notin f => Gives(t, c, m[c].key) /\ t[c].left > n

(* The rows of an answer are of the reservations that were asked about.    *)
OfThese(m, held) ==
  \A c \in Component : m[c] # NoRes => Gives(held, c, m[c].key)

(* A reservation that is checked and has given way to another in the map r *)
(* since: the server does not have it any more, nor will it again.         *)
Displaced(r, held, t, f) ==
  \A c \in Component :
    held[c] # NoRes /\ r[c] # NoRes /\ r[c].key \notin f /\ Gives(t, c, held[c].key)
      => r[c].key = held[c].key

(* The time that a check reports is that of the reservation in the map r,  *)
(* or over.                                                                *)
Reported(r, rows, t, f) ==
  \A c \in Component :
    rows[c] # NoRes /\ rows[c].left > 0 /\ r[c] # NoRes /\ r[c].key \notin f
      => Gives(t, c, r[c].key)

(* The inductive invariant.                                                *)
Maps ==
  /\ Safe(reservedMap, table, forfeit) /\ Safe(saved, table, forfeit)
  /\ \A p \in Process : /\ Safe(call[p].held, table, forfeit)
                        /\ Safe(answer[p].rows, table, forfeit)

Granted(p) ==
  pc[p] = "served" =>
    /\ call[p].op \in {"create", "reacquire"} =>
         Live(answer[p].rows, table, forfeit, call[p].left)
    /\ call[p].op = "reacquire" => OfThese(answer[p].rows, call[p].held)

Checked ==
  call[Renewer].op = "check" =>
    /\ Calling(Renewer) => Displaced(reservedMap, call[Renewer].held, table, forfeit)
    /\ pc[Renewer] = "served" => Reported(reservedMap, answer[Renewer].rows, table, forfeit)

IInv == TypeOK /\ Maps /\ (\A p \in Process : Granted(p)) /\ Checked

-------------------------------------------------------------------------------
(* Maps *)

LEMMA Constants ==
  /\ Term \in Nat /\ Timeout \in Nat /\ Timeout > 0 /\ Timeout < Term
  /\ NoRes \notin Entry /\ NoRes \notin Row /\ Other \notin Key
  /\ Renewer \in Process
  <1>1. Entry \subseteq [key : Key \cup {Other}, left : -1 .. Term]
    BY DEF Entry
  <1>2. Row \subseteq [key : Key \cup {Other}, left : -1 .. Term]
    BY ClientAssumption DEF Row
  <1> QED  BY <1>1, <1>2, ClientAssumption DEF Process

LEMMA EmptyMap ==
  /\ EmptyTable \in LocalMap
  /\ \A t, f : Safe(EmptyTable, t, f)
  /\ \A t, f, n : Live(EmptyTable, t, f, n)
  /\ \A held : OfThese(EmptyTable, held)
  /\ \A r, t, f : Reported(r, EmptyTable, t, f)
  BY DEF EmptyTable, LocalMap, Safe, Below, Sound, Live, OfThese, Reported

LEMMA OnlyMap ==
  ASSUME NEW m \in LocalMap, NEW C
  PROVE  /\ Only(m, C) \in LocalMap
         /\ \A t, f : Safe(m, t, f) => Safe(Only(m, C), t, f)
         /\ \A c \in Component : Only(m, C)[c] # NoRes => c \in C /\ Only(m, C)[c] = m[c]
  BY DEF Only, LocalMap, Safe, Below, Sound, Gives

LEMMA WithRowsMap ==
  ASSUME NEW m \in LocalMap, NEW rows \in LocalMap
  PROVE  /\ WithRows(m, rows) \in LocalMap
         /\ \A t, f : Safe(m, t, f) /\ Safe(rows, t, f) => Safe(WithRows(m, rows), t, f)
         /\ \A c \in Component :
              WithRows(m, rows)[c] = IF rows[c] # NoRes THEN rows[c] ELSE m[c]
  BY DEF WithRows, LocalMap, Safe, Below, Sound, Gives

LEMMA WithoutRowsMap ==
  ASSUME NEW m \in LocalMap, NEW C
  PROVE  /\ WithoutRows(m, C) \in LocalMap
         /\ \A t, f : Safe(m, t, f) => Safe(WithoutRows(m, C), t, f)
         /\ \A c \in Component : WithoutRows(m, C)[c] # NoRes => WithoutRows(m, C)[c] = m[c]
  BY DEF WithoutRows, LocalMap, Safe, Below, Sound, Gives

(* Without its expirations a map says nothing of time. *)
LEMMA KeysOnlyMap ==
  ASSUME NEW m, \A c \in Component : m[c] = NoRes \/ m[c] \in Entry,
         NEW t \in [Component -> Row \cup {NoRes}]
  PROVE  /\ KeysOnly(m) \in LocalMap
         /\ \A f : Safe(KeysOnly(m), t, f)
         /\ \A c \in Component :
              /\ KeysOnly(m)[c] # NoRes <=> m[c] # NoRes
              /\ m[c] # NoRes => KeysOnly(m)[c].key = m[c].key
  <1>1. \A c \in Component : m[c] # NoRes =>
          /\ KeysOnly(m)[c] \in Entry /\ KeysOnly(m)[c].key = m[c].key
          /\ KeysOnly(m)[c].left = -1
    <2> SUFFICES ASSUME NEW c \in Component, m[c] # NoRes
                 PROVE  /\ KeysOnly(m)[c] \in Entry /\ KeysOnly(m)[c].key = m[c].key
                        /\ KeysOnly(m)[c].left = -1
      OBVIOUS
    <2>1. PICK e \in Entry : e = m[c]
      OBVIOUS
    <2>2. -1 \in -1 .. Term
      BY Constants
    <2>3. /\ [e EXCEPT !.left = -1] \in Entry /\ [e EXCEPT !.left = -1].key = e.key
          /\ [e EXCEPT !.left = -1].left = -1
      BY <2>2 DEF Entry
    <2> QED  BY <2>1, <2>3 DEF KeysOnly
  <1>2. \A c \in Component : m[c] = NoRes => KeysOnly(m)[c] = NoRes
    BY DEF KeysOnly
  <1>3. KeysOnly(m) = [c \in Component |-> KeysOnly(m)[c]]
    BY DEF KeysOnly
  <1>4. KeysOnly(m) \in LocalMap
    BY <1>1, <1>2, <1>3 DEF LocalMap
  <1>5. \A c \in Component : t[c] # NoRes => -1 <= t[c].left
    BY Constants DEF Row
  <1>6. \A f : Safe(KeysOnly(m), t, f)
    BY <1>1, <1>2, <1>5 DEF Safe, Below, Sound
  <1> QED  BY <1>1, <1>2, <1>4, <1>6, Constants

-------------------------------------------------------------------------------
(* Steps of the server *)

(* Rows begin with the whole term and are given no less time than they     *)
(* had; a row of the client's with time left goes by a release or by       *)
(* force; and no key of which there is a trace comes back.                 *)
ServerStep ==
  /\ \A c \in Component : table'[c] # NoRes =>
       table'[c].left = Term \/ (table[c] # NoRes /\ table'[c].left >= table[c].left)
  /\ \A c \in Component :
       table[c] # NoRes /\ table[c].key \in Key \ forfeit' /\ table[c].left > 0
         => Gives(table', c, table[c].key) /\ table'[c].left >= table[c].left
  /\ forfeit \cap KeysInUse \subseteq forfeit'
  /\ \A c \in Component, k \in Key \cap KeysInUse : Gives(table', c, k) => Gives(table, c, k)

LEMMA InUse ==
  ASSUME NEW p \in Process
  PROVE  \A m \in {table, reservedMap, saved, call[p].held, answer[p].rows} :
           \A c \in Component : m[c] # NoRes => m[c].key \in KeysInUse
  BY DEF KeysInUse, KeysIn, Reserved

LEMMA MapFields ==
  ASSUME NEW m \in LocalMap, NEW c \in Component, m[c] # NoRes
  PROVE  m[c] \in Entry /\ m[c].key \in Key /\ m[c].left \in -1 .. Term
  BY DEF LocalMap, Entry

LEMMA RowFields ==
  ASSUME TypeOK, NEW c \in Component, table[c] # NoRes
  PROVE  table[c] \in Row /\ table[c].key \in Key \cup {Other} /\ table[c].left \in 0 .. Term
  BY DEF TypeOK, Row

LEMMA LocalMaps ==
  ASSUME TypeOK, NEW p \in Process
  PROVE  /\ reservedMap \in LocalMap /\ saved \in LocalMap
         /\ call[p] \in Call /\ call[p].held \in LocalMap /\ call[p].left \in 0 .. Timeout
         /\ answer[p] \in Answer /\ answer[p].rows \in LocalMap
  BY DEF TypeOK, Call, Answer

(* What holds of a map, holds of it after such a step. *)
LEMMA SafeStays ==
  ASSUME TypeOK, TypeOK', ServerStep, NEW m \in LocalMap,
         \A c \in Component : m[c] # NoRes => m[c].key \in KeysInUse
  PROVE  /\ Safe(m, table, forfeit) => Safe(m, table', forfeit')
         /\ \A n \in Nat : Live(m, table, forfeit, n) => Live(m, table', forfeit', n)
  <1> SUFFICES ASSUME NEW c \in Component, m[c] # NoRes
               PROVE  /\ Below(m, table) /\ table'[c] # NoRes => m[c].left <= table'[c].left
                      /\ Safe(m, table, forfeit) /\ m[c].left > 0 /\ m[c].key \notin forfeit'
                           => Gives(table', c, m[c].key)
                      /\ \A n \in Nat : Live(m, table, forfeit, n) /\ m[c].key \notin forfeit'
                           => Gives(table', c, m[c].key) /\ table'[c].left > n
    BY DEF Safe, Below, Sound, Live
  <1>1. m[c].key \in Key /\ m[c].key \in KeysInUse /\ m[c].left \in -1 .. Term
    BY MapFields
  <1>2. m[c].key \notin forfeit' => m[c].key \notin forfeit
    BY <1>1 DEF ServerStep
  <1>3. table[c] # NoRes => table[c].left \in Nat
    BY RowFields
  <1>4. table'[c] # NoRes => table'[c].left \in Nat
    BY DEF TypeOK, Row
  <1>5. table[c] # NoRes /\ table[c].key = m[c].key /\ m[c].key \notin forfeit'
          /\ table[c].left > 0
          => Gives(table', c, m[c].key) /\ table'[c].left >= table[c].left
    BY <1>1 DEF ServerStep
  <1>6. Below(m, table) /\ table'[c] # NoRes => m[c].left <= table'[c].left
    BY <1>1, <1>3, <1>4, Constants DEF ServerStep, Below
  <1>7. ASSUME Safe(m, table, forfeit), m[c].left > 0, m[c].key \notin forfeit'
        PROVE  Gives(table', c, m[c].key)
    <2>1. Gives(table, c, m[c].key) /\ m[c].left <= table[c].left
      BY <1>2, <1>7 DEF Safe, Sound, Below, Gives
    <2> QED  BY <1>1, <1>3, <1>5, <1>7, <2>1 DEF Gives
  <1>8. ASSUME NEW n \in Nat, Live(m, table, forfeit, n), m[c].key \notin forfeit'
        PROVE  Gives(table', c, m[c].key) /\ table'[c].left > n
    <2>1. Gives(table, c, m[c].key) /\ table[c].left > n
      BY <1>2, <1>8 DEF Live
    <2>2. table[c] # NoRes /\ table[c].left > 0
      BY <1>3, <2>1 DEF Gives
    <2>3. Gives(table', c, m[c].key) /\ table'[c].left >= table[c].left
      BY <1>5, <1>8, <2>1, <2>2 DEF Gives
    <2> QED  BY <1>3, <1>4, <2>1, <2>2, <2>3 DEF Gives
  <1> QED  BY <1>6, <1>7, <1>8

LEMMA CheckStays ==
  ASSUME TypeOK, ServerStep, NEW r \in LocalMap, NEW m \in LocalMap,
         \A c \in Component : /\ m[c] # NoRes => m[c].key \in KeysInUse
                              /\ r[c] # NoRes => r[c].key \in KeysInUse
  PROVE  /\ Displaced(r, m, table, forfeit) => Displaced(r, m, table', forfeit')
         /\ Below(m, table) /\ Reported(r, m, table, forfeit)
              => Reported(r, m, table', forfeit')
  <1>1. ASSUME NEW c \in Component, r[c] # NoRes, r[c].key \notin forfeit'
        PROVE  r[c].key \in Key \ forfeit
    BY <1>1, MapFields DEF ServerStep
  <1>2. ASSUME Displaced(r, m, table, forfeit)
        PROVE  Displaced(r, m, table', forfeit')
    BY <1>1, <1>2, MapFields DEF Displaced, ServerStep
  <1>3. ASSUME Below(m, table), Reported(r, m, table, forfeit), NEW c \in Component,
               m[c] # NoRes, m[c].left > 0, r[c] # NoRes, r[c].key \notin forfeit'
        PROVE  Gives(table', c, r[c].key)
    <2>1. Gives(table, c, r[c].key) /\ m[c].left <= table[c].left
      BY <1>1, <1>3 DEF Reported, Below, Gives
    <2>2. table[c].left > 0
      BY <1>3, <2>1, RowFields, MapFields DEF Gives
    <2> QED  BY <1>1, <1>3, <2>1, <2>2 DEF ServerStep, Gives
  <1> QED  BY <1>2, <1>3 DEF Reported

(* All that the client has. *)
LEMMA ServerStays ==
  ASSUME IInv, TypeOK', ServerStep
  PROVE  /\ Safe(reservedMap, table', forfeit') /\ Safe(saved, table', forfeit')
         /\ \A p \in Process :
              /\ Safe(call[p].held, table', forfeit') /\ Safe(answer[p].rows, table', forfeit')
              /\ pc[p] = "served" /\ call[p].op \in {"create", "reacquire"} =>
                   Live(answer[p].rows, table', forfeit', call[p].left)
         /\ call[Renewer].op = "check" =>
              /\ Calling(Renewer) =>
                   Displaced(reservedMap, call[Renewer].held, table', forfeit')
              /\ pc[Renewer] = "served" =>
                   Reported(reservedMap, answer[Renewer].rows, table', forfeit')
  <1>1. Safe(reservedMap, table', forfeit') /\ Safe(saved, table', forfeit')
    <2>1. reservedMap \in LocalMap /\ saved \in LocalMap /\ TypeOK
      BY DEF IInv, TypeOK
    <2>2. \A c \in Component : /\ reservedMap[c] # NoRes => reservedMap[c].key \in KeysInUse
                               /\ saved[c] # NoRes => saved[c].key \in KeysInUse
      BY InUse, Constants
    <2> QED  BY <2>1, <2>2, SafeStays DEF IInv, Maps
  <1>2. ASSUME NEW p \in Process
        PROVE  /\ Safe(call[p].held, table', forfeit') /\ Safe(answer[p].rows, table', forfeit')
               /\ pc[p] = "served" /\ call[p].op \in {"create", "reacquire"} =>
                    Live(answer[p].rows, table', forfeit', call[p].left)
    <2>1. TypeOK /\ call[p].held \in LocalMap /\ answer[p].rows \in LocalMap
          /\ call[p].left \in Nat
      BY LocalMaps, Constants DEF IInv
    <2>2. \A c \in Component :
            /\ call[p].held[c] # NoRes => call[p].held[c].key \in KeysInUse
            /\ answer[p].rows[c] # NoRes => answer[p].rows[c].key \in KeysInUse
      BY InUse
    <2>3. Safe(call[p].held, table, forfeit) /\ Safe(answer[p].rows, table, forfeit)
          /\ Granted(p)
      BY DEF IInv, Maps
    <2> QED  BY <2>1, <2>2, <2>3, SafeStays DEF Granted
  <1>3. ASSUME call[Renewer].op = "check"
        PROVE  /\ Calling(Renewer) =>
                    Displaced(reservedMap, call[Renewer].held, table', forfeit')
               /\ pc[Renewer] = "served" =>
                    Reported(reservedMap, answer[Renewer].rows, table', forfeit')
    <2>1. TypeOK /\ reservedMap \in LocalMap
          /\ call[Renewer].held \in LocalMap /\ answer[Renewer].rows \in LocalMap
      BY LocalMaps, Constants DEF IInv
    <2>2. \A c \in Component :
            /\ reservedMap[c] # NoRes => reservedMap[c].key \in KeysInUse
            /\ call[Renewer].held[c] # NoRes => call[Renewer].held[c].key \in KeysInUse
            /\ answer[Renewer].rows[c] # NoRes => answer[Renewer].rows[c].key \in KeysInUse
      BY InUse, Constants
    <2>3. Below(answer[Renewer].rows, table) /\ Checked
      BY Constants DEF IInv, Maps, Safe
    <2> QED  BY <1>3, <2>1, <2>2, <2>3, CheckStays DEF Checked
  <1> QED  BY <1>1, <1>2, <1>3

(* A request is served, whatever the answer to it. *)
LEMMA ServeDone ==
  ASSUME IInv, NEW p \in Process, pc[p] = "sent", TypeOK', ServerStep,
         UNCHANGED <<reservedMap, saved, call>>, pc' = [pc EXCEPT ![p] = "served"],
         \A q \in Process \ {p} : answer'[q] = answer[q],
         Safe(answer'[p].rows, table', forfeit'),
         call[p].op \in {"create", "reacquire"} =>
           Live(answer'[p].rows, table', forfeit', call[p].left),
         call[p].op = "reacquire" => OfThese(answer'[p].rows, call[p].held),
         p = Renewer /\ call[p].op = "check" =>
           Reported(reservedMap, answer'[p].rows, table', forfeit')
  PROVE  IInv'
  <1>1. \A q \in Process : pc'[q] = IF q = p THEN "served" ELSE pc[q]
    BY DEF IInv, TypeOK
  <1>2. Maps'
    BY ServerStays DEF Maps
  <1>3. ASSUME NEW q \in Process PROVE Granted(q)'
    <2>1. CASE q = p
      BY <2>1 DEF Granted
    <2>2. CASE q # p
      BY <1>1, <2>2, ServerStays DEF Granted, IInv
    <2> QED  BY <2>1, <2>2
  <1>4. Checked'
    <2> SUFFICES ASSUME call[Renewer].op = "check"
                 PROVE  /\ Calling(Renewer)' =>
                             Displaced(reservedMap, call[Renewer].held, table', forfeit')
                        /\ pc'[Renewer] = "served" =>
                             Reported(reservedMap, answer'[Renewer].rows, table', forfeit')
      BY DEF Checked
    <2>1. CASE Renewer = p
      BY <1>1, <2>1, ServerStays DEF Calling
    <2>2. CASE Renewer # p
      BY <1>1, <2>2, Constants, ServerStays DEF Calling
    <2> QED  BY <2>1, <2>2
  <1> QED  BY <1>2, <1>3, <1>4 DEF IInv

LEMMA SameTable ==
  ASSUME TypeOK, UNCHANGED <<table, forfeit>>
  PROVE  ServerStep
  BY RowFields DEF ServerStep, Gives

LEMMA AnsweredType ==
  ASSUME TypeOK, NEW p \in Process, NEW rows \in LocalMap, NEW failed \in SUBSET Component,
         Answered(p, rows, failed)
  PROVE  /\ answer' \in [Process -> Answer] /\ answer'[p].rows = rows
         /\ \A q \in Process \ {p} : answer'[q] = answer[q]
  <1>1. [ok |-> TRUE, rows |-> rows, failed |-> failed] \in Answer
    BY DEF Answer
  <1> QED  BY <1>1 DEF Answered, TypeOK

LEMMA RefuseStep ==
  ASSUME IInv, NEW p \in Process, pc[p] = "sent", Refuse(p),
         UNCHANGED <<reservedMap, saved, call>>, pc' = [pc EXCEPT ![p] = "served"]
  PROVE  IInv'
  <1>1. Refused \in Answer /\ Refused.rows = EmptyTable
    BY EmptyMap DEF Refused, Answer
  <1>2. TypeOK'
    BY <1>1 DEF Refuse, IInv, TypeOK
  <1>3. ServerStep
    BY SameTable DEF Refuse, IInv
  <1>4. answer'[p].rows = EmptyTable /\ \A q \in Process \ {p} : answer'[q] = answer[q]
    BY <1>1 DEF Refuse, IInv, TypeOK
  <1> QED  BY <1>2, <1>3, <1>4, EmptyMap, ServeDone

LEMMA ServeCreateStep ==
  ASSUME IInv, NEW p \in Process, pc[p] = "sent", call[p].op = "create", ServeCreate(p),
         UNCHANGED <<reservedMap, saved, call>>, pc' = [pc EXCEPT ![p] = "served"]
  PROVE  IInv'
  <1> DEFINE exists == call[p].ids \ Missing
             free == exists \ Reserved(table)
             keyOf == CHOOSE f \in NewKeys(free) : TRUE
             rows == [c \in Component |->
                        IF c \in free THEN [key |-> keyOf[c], left |-> Term] ELSE NoRes]
  <1>1. CASE exists = {} \/ (call[p].rigid /\ free # exists)
    BY <1>1, RefuseStep DEF ServeCreate
  <1>2. CASE ~ (exists = {} \/ (call[p].rigid /\ free # exists))
    <2>1. /\ NewKeys(free) # {} /\ table' = WithRows(table, rows)
          /\ Answered(p, rows, exists \ free) /\ forfeit' = forfeit \ KeysIn(rows)
      BY <1>2 DEF ServeCreate
    <2>2. keyOf \in [free -> Key \ KeysInUse]
      BY <2>1 DEF NewKeys
    <2>3. free \subseteq Component /\ exists \ free \in SUBSET Component
          /\ \A c \in free : table[c] = NoRes
      BY LocalMaps DEF Reserved, Call, IInv
    <2> HIDE DEF keyOf, free, exists
    <2>4. \A c \in free : /\ rows[c] \in Entry /\ rows[c] \in Row
                          /\ rows[c].key \in Key \ KeysInUse /\ rows[c].left = Term
      BY <2>2, <2>3, Constants DEF Entry, Row
    <2>5. \A c \in Component : c \notin free => rows[c] = NoRes
      OBVIOUS
    <2>6. rows = [c \in Component |-> rows[c]]
      OBVIOUS
    <2> HIDE DEF rows
    <2>7. rows \in LocalMap
      BY <2>4, <2>5, <2>6 DEF LocalMap
    <2>8. \A c \in Component : table'[c] = IF c \in free THEN rows[c] ELSE table[c]
      BY <2>1, <2>4, <2>5, Constants DEF WithRows
    <2>9. TypeOK'
      <3>1. table' \in [Component -> Row \cup {NoRes}]
        BY <2>1, <2>4, <2>8 DEF WithRows, IInv, TypeOK
      <3>2. answer' \in [Process -> Answer]
        BY <2>1, <2>3, <2>7, AnsweredType DEF IInv
      <3> QED  BY <2>1, <3>1, <3>2 DEF IInv, TypeOK
    <2>10. KeysIn(rows) \cap KeysInUse = {}
      BY <2>4, <2>5 DEF KeysIn, Reserved
    <2>11. ServerStep
      <3>1. \A c \in Component : table[c] # NoRes => table'[c] = table[c] /\ table[c].left \in Nat
        BY <2>3, <2>8, RowFields DEF IInv
      <3>2. \A c \in Component : table'[c] # NoRes =>
              table'[c].left = Term \/ (table[c] # NoRes /\ table'[c].left >= table[c].left)
        BY <2>4, <2>8, <3>1
      <3>3. \A c \in Component : table[c] # NoRes =>
              Gives(table', c, table[c].key) /\ table'[c].left >= table[c].left
        BY <3>1 DEF Gives
      <3>4. \A c \in Component, k \in KeysInUse : Gives(table', c, k) => Gives(table, c, k)
        BY <2>4, <2>8 DEF Gives
      <3>5. forfeit \cap KeysInUse \subseteq forfeit'
        BY <2>1, <2>10
      <3> QED  BY <3>2, <3>3, <3>4, <3>5 DEF ServerStep
    <2>12. \A c \in Component : rows[c] # NoRes =>
             /\ Gives(table', c, rows[c].key) /\ table'[c].left = Term /\ rows[c].left = Term
      BY <2>4, <2>5, <2>8, Constants DEF Gives
    <2>13. Safe(rows, table', forfeit')
      BY <2>12, Constants DEF Safe, Below, Sound
    <2>14. Live(rows, table', forfeit', call[p].left)
      <3>1. Term > call[p].left
        BY LocalMaps, Constants DEF IInv
      <3> QED  BY <2>12, <3>1 DEF Live
    <2>15. answer'[p].rows = rows /\ \A q \in Process \ {p} : answer'[q] = answer[q]
      BY <2>1, <2>3, <2>7, AnsweredType DEF IInv
    <2> QED  BY <2>9, <2>11, <2>13, <2>14, <2>15, ServeDone
  <1> QED  BY <1>1, <1>2

(* The rows that a keyed request finds. *)
LEMMA FoundRows ==
  ASSUME TypeOK, NEW m \in LocalMap
  PROVE  /\ Found(m) \subseteq Component
         /\ \A c \in Found(m) :
              /\ table[c] # NoRes /\ m[c] # NoRes /\ table[c].key = m[c].key
              /\ table[c] \in Entry
         /\ Only(table, Found(m)) \in LocalMap
         /\ \A c \in Component : Only(table, Found(m))[c] # NoRes <=> c \in Found(m)
         /\ \A c \in Found(m) : Only(table, Found(m))[c] = table[c]
  <1> DEFINE F == Found(m)
  <1>1. F \subseteq Component /\ \A c \in F : table[c] # NoRes /\ m[c] # NoRes
          /\ table[c].key = m[c].key
    BY DEF Found, Reserved
  <1>2. \A c \in F : table[c] \in Entry
    <2> SUFFICES ASSUME NEW c \in F PROVE table[c] \in Entry
      OBVIOUS
    <2>1. PICK r \in Row : r = table[c]
      BY <1>1, RowFields
    <2>2. r.key \in Key
      BY <1>1, <2>1, MapFields
    <2> QED  BY <2>1, <2>2, Constants DEF Row, Entry
  <1> HIDE DEF F
  <1>3. \A c \in Component : Only(table, F)[c] = IF c \in F THEN table[c] ELSE NoRes
    BY DEF Only
  <1>4. Only(table, F) \in LocalMap
    BY <1>2 DEF Only, LocalMap
  <1> QED  BY <1>1, <1>2, <1>3, <1>4 DEF F

LEMMA FoundKeys ==
  ASSUME TypeOK, NEW m \in LocalMap
  PROVE  /\ KeysOnly(Only(table, Found(m))) \in LocalMap
         /\ \A t \in [Component -> Row \cup {NoRes}] : \A f :
              Safe(KeysOnly(Only(table, Found(m))), t, f)
         /\ \A c \in Component : KeysOnly(Only(table, Found(m)))[c] # NoRes =>
              c \in Found(m) /\ KeysOnly(Only(table, Found(m)))[c].key = table[c].key
         /\ OfThese(KeysOnly(Only(table, Found(m))), m)
  <1>1. PICK o \in LocalMap : o = Only(table, Found(m))
    BY FoundRows
  <1>2. \A c \in Component : o[c] = NoRes \/ o[c] \in Entry
    BY DEF LocalMap
  <1>3. KeysOnly(o) \in LocalMap
        /\ \A t \in [Component -> Row \cup {NoRes}] : \A f : Safe(KeysOnly(o), t, f)
    <2>1. TypeOK => table \in [Component -> Row \cup {NoRes}]
      BY DEF TypeOK
    <2> QED  BY <1>2, <2>1, KeysOnlyMap
  <1>4. \A c \in Component : KeysOnly(o)[c] # NoRes => o[c] # NoRes /\ KeysOnly(o)[c].key = o[c].key
    <2>1. TypeOK => table \in [Component -> Row \cup {NoRes}]
      BY DEF TypeOK
    <2> QED  BY <1>2, <2>1, KeysOnlyMap
  <1>5. \A c \in Component : KeysOnly(o)[c] # NoRes =>
              c \in Found(m) /\ KeysOnly(o)[c].key = table[c].key
    BY <1>1, <1>4, FoundRows
  <1>6. OfThese(KeysOnly(o), m)
    BY <1>5, FoundRows DEF OfThese, Gives
  <1> QED  BY <1>1, <1>3, <1>5, <1>6

LEMMA ServeReleaseStep ==
  ASSUME IInv, NEW p \in Process, pc[p] = "sent", call[p].op = "release", ServeRelease(p),
         UNCHANGED <<reservedMap, saved, call>>, pc' = [pc EXCEPT ![p] = "served"]
  PROVE  IInv'
  <1>1. TypeOK
    BY DEF IInv
  <1>2. PICK m \in LocalMap : m = call[p].held
    BY <1>1, LocalMaps
  <1> DEFINE found == Found(m)
             rows == KeysOnly(Only(table, found))
             failed == call[p].ids \ found
  <1>3. table' = WithoutRows(table, found) /\ Answered(p, rows, failed)
        /\ forfeit' = forfeit \cup KeysIn(Only(table, found))
    BY <1>2 DEF ServeRelease
  <1>4. rows \in LocalMap /\ failed \in SUBSET Component
    BY <1>1, LocalMaps, FoundKeys DEF Call
  <1>5. \A c \in Component : c \in found => table[c] # NoRes /\ table[c].key \in forfeit'
    <2>1. \A c \in Component : c \in found => c \in Reserved(Only(table, found)) /\ Only(table, found)[c] = table[c]
      BY <1>1, FoundRows DEF Reserved
    <2> QED  BY <1>1, <1>3, <2>1, FoundRows DEF KeysIn
  <1>6. KeysIn(Only(table, found)) \subseteq Key
    BY <1>1, FoundRows, MapFields DEF KeysIn, Reserved
  <1> HIDE DEF found, rows, failed
  <1>7. \A c \in Component : table'[c] = IF c \in found THEN NoRes ELSE table[c]
    BY <1>3 DEF WithoutRows
  <1>8. answer' \in [Process -> Answer] /\ answer'[p].rows = rows
        /\ \A q \in Process \ {p} : answer'[q] = answer[q]
    BY <1>1, <1>3, <1>4, AnsweredType
  <1>9. TypeOK'
    <2>1. table' \in [Component -> Row \cup {NoRes}]
      BY <1>1, <1>3 DEF WithoutRows, TypeOK
    <2> QED  BY <1>1, <1>3, <1>6, <1>8, <2>1 DEF TypeOK
  <1>10. ServerStep
    <2>1. \A c \in Component : table'[c] # NoRes => table[c] # NoRes /\ table'[c] = table[c]
      BY <1>7
    <2>2. \A c \in Component : table[c] # NoRes => table[c].left \in Nat
      BY <1>1, RowFields
    <2>3. \A c \in Component : table[c] # NoRes /\ table[c].key \in Key \ forfeit'
            => table'[c] = table[c]
      BY <1>5, <1>7
    <2> QED  BY <1>3, <2>1, <2>2, <2>3 DEF ServerStep, Gives
  <1>11. Safe(rows, table', forfeit')
    BY <1>1, <1>9, FoundKeys DEF TypeOK, rows, found
  <1> QED  BY <1>8, <1>9, <1>10, <1>11, ServeDone

LEMMA ServeRenewStep ==
  ASSUME IInv, NEW p \in Process, pc[p] = "sent", call[p].op \in {"renew", "reacquire"},
         ServeRenew(p),
         UNCHANGED <<reservedMap, saved, call>>, pc' = [pc EXCEPT ![p] = "served"]
  PROVE  IInv'
  <1>1. TypeOK
    BY DEF IInv
  <1>2. PICK m \in LocalMap : m = call[p].held
    BY <1>1, LocalMaps
  <1> DEFINE found == Found(m)
             rows == KeysOnly(Only(table, found))
             failed == call[p].ids \ found
  <1>3. CASE call[p].rigid /\ found # call[p].ids
    BY <1>2, <1>3, RefuseStep DEF ServeRenew
  <1>4. CASE ~ (call[p].rigid /\ found # call[p].ids)
    <2>1. /\ table' = [c \in Component |-> IF c \in found
                                            THEN [table[c] EXCEPT !.left = Term]
                                            ELSE table[c]]
          /\ Answered(p, rows, failed) /\ forfeit' = forfeit
      BY <1>2, <1>4 DEF ServeRenew
    <2>2. rows \in LocalMap /\ failed \in SUBSET Component /\ OfThese(rows, m)
      BY <1>1, LocalMaps, FoundKeys DEF Call
    <2>3. \A c \in found : c \in Component /\ table[c] # NoRes
      BY <1>1, FoundRows
    <2>4. \A c \in Component : rows[c] # NoRes => c \in found /\ rows[c].key = table[c].key
      BY <1>1, FoundKeys
    <2>5. \A t \in [Component -> Row \cup {NoRes}] : \A f : Safe(rows, t, f)
      BY <1>1, FoundKeys
    <2> HIDE DEF found, rows, failed
    <2>6. \A c \in Component : IF c \in found
            THEN table'[c] \in Row /\ table'[c].key = table[c].key /\ table'[c].left = Term
            ELSE table'[c] = table[c]
      <3> SUFFICES ASSUME NEW c \in Component, c \in found
                   PROVE  table'[c] \in Row /\ table'[c].key = table[c].key /\ table'[c].left = Term
        BY <2>1
      <3>1. PICK r \in Row : r = table[c]
        BY <1>1, <2>3, RowFields
      <3>2. [r EXCEPT !.left = Term] \in Row /\ [r EXCEPT !.left = Term].key = r.key
            /\ [r EXCEPT !.left = Term].left = Term
        BY Constants DEF Row
      <3> QED  BY <2>1, <3>1, <3>2
    <2>7. table' \in [Component -> Row \cup {NoRes}]
      <3>1. table' = [c \in Component |-> table'[c]]
        BY <2>1
      <3>2. \A c \in Component : table'[c] \in Row \cup {NoRes}
        BY <1>1, <2>6 DEF TypeOK
      <3> QED  BY <3>1, <3>2
    <2>8. answer' \in [Process -> Answer] /\ answer'[p].rows = rows
          /\ \A q \in Process \ {p} : answer'[q] = answer[q]
      BY <1>1, <2>1, <2>2, AnsweredType
    <2>9. TypeOK'
      BY <1>1, <2>1, <2>7, <2>8 DEF TypeOK
    <2>10. \A c \in Component : c \in found => table'[c] # NoRes
      BY <2>6, Constants
    <2>11. ServerStep
      <3>1. \A c \in Component : table[c] # NoRes => table[c].left \in 0 .. Term
        BY <1>1, RowFields
      <3>2. \A c \in Component : table'[c] # NoRes =>
              table'[c].left = Term \/ (table[c] # NoRes /\ table'[c].left >= table[c].left)
        BY <2>6, <3>1
      <3>3. \A c \in Component : table[c] # NoRes =>
              Gives(table', c, table[c].key) /\ table'[c].left >= table[c].left
        BY <2>6, <2>10, <3>1, Constants DEF Gives
      <3>4. \A c \in Component, k \in Key : Gives(table', c, k) => Gives(table, c, k)
        BY <2>3, <2>6 DEF Gives
      <3> QED  BY <2>1, <3>2, <3>3, <3>4 DEF ServerStep
    <2>12. Safe(rows, table', forfeit')
      BY <2>5, <2>7
    <2>13. Live(rows, table', forfeit', call[p].left)
      <3>1. Term > call[p].left
        BY <1>1, LocalMaps, Constants
      <3>2. \A c \in Component : c \in found => Gives(table', c, table[c].key) /\ table'[c].left = Term
        BY <2>6, <2>10 DEF Gives
      <3> QED  BY <2>4, <3>1, <3>2 DEF Live
    <2>14. OfThese(answer'[p].rows, call[p].held)
      BY <1>2, <2>2, <2>8
    <2> QED  BY <2>8, <2>9, <2>11, <2>12, <2>13, <2>14, ServeDone
  <1> QED  BY <1>3, <1>4

(* The answer to a check is as the table is.  What gave way to another     *)
(* reservation in the map the server does not have: it is not reported.    *)
LEMMA ServeCheckStep ==
  ASSUME IInv, NEW p \in Process, pc[p] = "sent", call[p].op = "check", ServeCheck(p),
         UNCHANGED <<reservedMap, saved, call>>, pc' = [pc EXCEPT ![p] = "served"]
  PROVE  IInv'
  <1>1. TypeOK
    BY DEF IInv
  <1>2. PICK m \in LocalMap : m = call[p].held
    BY <1>1, LocalMaps
  <1>3. PICK rows \in LocalMap : rows = Only(table, Found(m))
    BY <1>1, FoundRows
  <1>4. \A c \in Component : rows[c] # NoRes =>
          rows[c] = table[c] /\ m[c] # NoRes /\ m[c].key = table[c].key
    BY <1>1, <1>3, FoundRows
  <1>5. PICK failed \in SUBSET Component : failed = call[p].ids \ Found(m)
    BY <1>1, LocalMaps DEF Call
  <1>6. Answered(p, rows, failed) /\ UNCHANGED <<table, forfeit>>
    BY <1>2, <1>3, <1>5 DEF ServeCheck
  <1>7. answer' \in [Process -> Answer] /\ answer'[p].rows = rows
        /\ \A q \in Process \ {p} : answer'[q] = answer[q]
    BY <1>1, <1>6, AnsweredType
  <1>8. TypeOK'
    BY <1>1, <1>6, <1>7 DEF TypeOK
  <1>9. ServerStep
    BY <1>1, <1>6, SameTable
  <1>10. \A c \in Component : rows[c] # NoRes => Gives(table, c, rows[c].key)
            /\ rows[c].left <= table[c].left
    BY <1>1, <1>4, RowFields DEF Gives
  <1>11. Safe(rows, table', forfeit')
    BY <1>6, <1>10 DEF Safe, Below, Sound
  <1>12. p = Renewer => Displaced(reservedMap, m, table, forfeit)
    BY <1>2 DEF IInv, Checked, Calling
  <1>13. p = Renewer => Reported(reservedMap, rows, table', forfeit')
    BY <1>4, <1>6, <1>12 DEF Displaced, Reported, Gives
  <1> QED  BY <1>7, <1>8, <1>9, <1>11, <1>13, ServeDone

LEMMA ServeStep ==
  ASSUME IInv, NEW p \in Process, Serve(p)
  PROVE  IInv'
  BY ServeCreateStep, ServeReleaseStep, ServeRenewStep, ServeCheckStep DEF Serve

(* The cleanup thread, other clients and the administrator change the      *)
(* table alone.                                                            *)
LEMMA TableStep ==
  ASSUME IInv, TypeOK', ServerStep, UNCHANGED <<reservedMap, saved, callVars>>
  PROVE  IInv'
  <1>1. Maps'
    BY ServerStays DEF Maps, callVars
  <1>2. ASSUME NEW p \in Process PROVE Granted(p)'
    BY ServerStays DEF Granted, IInv, callVars
  <1>3. Checked'
    BY ServerStays DEF Checked, Calling, callVars
  <1> QED  BY <1>1, <1>2, <1>3 DEF IInv

LEMMA ReapStep ==
  ASSUME IInv, Reap
  PROVE  IInv'
  <1>1. TypeOK
    BY DEF IInv
  <1>2. \A c \in Component :
          table'[c] = IF table[c] # NoRes /\ table[c].left = 0 THEN NoRes ELSE table[c]
    BY DEF Reap, WithoutRows, Reserved
  <1>3. TypeOK'
    BY <1>1 DEF Reap, WithoutRows, TypeOK, callVars
  <1>4. ServerStep
    <2>1. \A c \in Component : table[c] # NoRes => table[c].left \in Nat
      BY <1>1, RowFields
    <2>2. \A c \in Component : table'[c] # NoRes => table[c] # NoRes /\ table'[c] = table[c]
      BY <1>2
    <2>3. \A c \in Component : table[c] # NoRes /\ table[c].left > 0 => table'[c] = table[c]
      BY <1>2
    <2> QED  BY <2>1, <2>2, <2>3 DEF ServerStep, Gives, Reap
  <1> QED  BY <1>3, <1>4, TableStep DEF Reap

LEMMA OtherClientStep ==
  ASSUME IInv, NEW c \in Component, OtherClient(c)
  PROVE  IInv'
  <1>1. TypeOK
    BY DEF IInv
  <1>2. PICK r : r = [key |-> Other, left |-> Term]
    OBVIOUS
  <1>3. r \in Row /\ r.key = Other /\ r.left = Term
    BY <1>2, Constants DEF Row
  <1>4. CASE table[c] = NoRes /\ table' = [table EXCEPT ![c] = r]
    <2>1. \A d \in Component : table'[d] = IF d = c THEN r ELSE table[d]
      BY <1>1, <1>4 DEF TypeOK
    <2>2. TypeOK'
      BY <1>1, <1>3, <1>4 DEF TypeOK, OtherClient, callVars
    <2>3. ServerStep
      <3>1. \A d \in Component : table[d] # NoRes => table'[d] = table[d] /\ table[d].left \in Nat
        BY <1>1, <1>4, <2>1, RowFields
      <3>2. \A d \in Component : table'[d] = table[d] \/ table'[d] = r
        BY <2>1
      <3> QED  BY <1>3, <3>1, <3>2, Constants DEF ServerStep, Gives, OtherClient
    <2> QED  BY <2>2, <2>3, TableStep DEF OtherClient
  <1>5. CASE table[c] # NoRes /\ table[c].key = Other /\ table' = [table EXCEPT ![c] = NoRes]
    <2>1. \A d \in Component : table'[d] = IF d = c THEN NoRes ELSE table[d]
      BY <1>1, <1>5 DEF TypeOK
    <2>2. TypeOK'
      BY <1>1, <1>5 DEF TypeOK, OtherClient, callVars
    <2>3. ServerStep
      <3>1. \A d \in Component : table[d] # NoRes => table[d].left \in Nat
        BY <1>1, RowFields
      <3>2. \A d \in Component : table'[d] # NoRes => table'[d] = table[d]
        BY <2>1
      <3>3. \A d \in Component : table[d] # NoRes /\ table[d].key \in Key => table'[d] = table[d]
        BY <1>5, <2>1, Constants
      <3> QED  BY <3>1, <3>2, <3>3 DEF ServerStep, Gives, OtherClient
    <2> QED  BY <2>2, <2>3, TableStep DEF OtherClient
  <1> QED  BY <1>2, <1>4, <1>5 DEF OtherClient

LEMMA ForceRemoveStep ==
  ASSUME IInv, NEW c \in Component, ForceRemove(c)
  PROVE  IInv'
  <1>1. TypeOK
    BY DEF IInv
  <1>2. \A d \in Component : table'[d] = IF d = c THEN NoRes ELSE table[d]
    BY <1>1 DEF TypeOK, ForceRemove
  <1>3. table[c] # NoRes /\ table[c].key \in Key /\ forfeit' = forfeit \cup {table[c].key}
    BY <1>1, RowFields DEF ForceRemove
  <1>4. TypeOK'
    BY <1>1, <1>3 DEF TypeOK, ForceRemove, callVars
  <1>5. ServerStep
    <2>1. \A d \in Component : table[d] # NoRes => table[d].left \in Nat
      BY <1>1, RowFields
    <2>2. \A d \in Component : table'[d] # NoRes => table'[d] = table[d]
      BY <1>2
    <2>3. \A d \in Component :
            table[d] # NoRes /\ table[d].key \in Key \ forfeit' => table'[d] = table[d]
      BY <1>2, <1>3
    <2> QED  BY <1>3, <2>1, <2>2, <2>3 DEF ServerStep, Gives
  <1> QED  BY <1>4, <1>5, TableStep DEF ForceRemove

-------------------------------------------------------------------------------
(* Steps of the client *)

(* A step of the goroutine p that leaves it without an answer.  What p     *)
(* adds to the map while a check is under way, the server has.             *)
LEMMA LocalStep ==
  ASSUME IInv, TypeOK', UNCHANGED <<table, saved, forfeit>>, NEW p \in Process,
         \A q \in Process \ {p} :
           pc'[q] = pc[q] /\ call'[q] = call[q] /\ answer'[q] = answer[q],
         pc'[p] # "served",
         Safe(reservedMap', table, forfeit), Safe(call'[p].held, table, forfeit),
         Safe(answer'[p].rows, table, forfeit),
         p = Renewer /\ call'[p].op = "check" /\ pc'[p] = "sent" =>
           Displaced(reservedMap', call'[p].held, table, forfeit),
         p # Renewer => \A c \in Component : reservedMap'[c] # NoRes =>
           \/ reservedMap'[c] = reservedMap[c]
           \/ reservedMap'[c].key \in forfeit
           \/ Gives(table, c, reservedMap'[c].key)
  PROVE  IInv'
  <1>1. Maps'
    BY DEF Maps, IInv
  <1>2. ASSUME NEW q \in Process PROVE Granted(q)'
    BY DEF Granted, IInv
  <1>3. Checked'
    <2>1. CASE p = Renewer
      BY <2>1 DEF Checked, Calling
    <2>2. CASE p # Renewer
      <3>1. UNCHANGED <<pc[Renewer], call[Renewer], answer[Renewer]>>
        BY <2>2, Constants
      <3>2. \A c \in Component : reservedMap'[c] # NoRes /\ reservedMap'[c].key \notin forfeit =>
              (reservedMap[c] # NoRes /\ reservedMap'[c].key = reservedMap[c].key)
                \/ Gives(table, c, reservedMap'[c].key)
        BY <2>2
      <3>3. \A held : Displaced(reservedMap, held, table, forfeit)
                        => Displaced(reservedMap', held, table, forfeit)
        BY <3>2 DEF Displaced, Gives
      <3>4. \A rows : Reported(reservedMap, rows, table, forfeit)
                        => Reported(reservedMap', rows, table, forfeit)
        BY <3>2 DEF Reported
      <3>5. Checked
        BY DEF IInv
      <3> QED  BY <3>1, <3>3, <3>4, <3>5 DEF Checked, Calling
    <2> QED  BY <2>1, <2>2
  <1> QED  BY <1>1, <1>2, <1>3 DEF IInv

LEMMA SendStep ==
  ASSUME IInv, NEW p \in Process, NEW op \in Op, NEW rigid \in BOOLEAN,
         NEW ids \in SUBSET Component, NEW held \in LocalMap,
         Send(p, op, rigid, ids, held), Safe(held, table, forfeit), UNCHANGED forfeit,
         reservedMap' \in LocalMap, Safe(reservedMap', table, forfeit),
         p = Renewer /\ op = "check" => Displaced(reservedMap', held, table, forfeit),
         p # Renewer => reservedMap' = reservedMap
  PROVE  IInv'
  <1>1. TypeOK
    BY DEF IInv
  <1>2. PICK r : r = [op |-> op, rigid |-> rigid, ids |-> ids, held |-> held, left |-> Timeout]
    OBVIOUS
  <1>3. r \in Call /\ r.op = op /\ r.held = held
    BY <1>2, Constants DEF Call
  <1>4. call' = [call EXCEPT ![p] = r] /\ pc' = [pc EXCEPT ![p] = "sent"]
        /\ UNCHANGED <<table, saved, answer>>
    BY <1>2 DEF Send
  <1>5. /\ call' \in [Process -> Call] /\ pc' \in [Process -> {"idle", "scan", "sent", "served"}]
        /\ call'[p] = r /\ pc'[p] = "sent"
        /\ \A q \in Process \ {p} : pc'[q] = pc[q] /\ call'[q] = call[q] /\ answer'[q] = answer[q]
    BY <1>1, <1>3, <1>4 DEF TypeOK
  <1>6. TypeOK'
    BY <1>1, <1>4, <1>5 DEF TypeOK
  <1>7. Safe(answer'[p].rows, table, forfeit)
    BY <1>4 DEF IInv, Maps
  <1> QED  BY <1>3, <1>4, <1>5, <1>6, <1>7, LocalStep

LEMMA ReturnStep ==
  ASSUME IInv, NEW p \in Process, Return(p), UNCHANGED forfeit,
         reservedMap' \in LocalMap, Safe(reservedMap', table, forfeit),
         p # Renewer => \A c \in Component : reservedMap'[c] # NoRes =>
           \/ reservedMap'[c] = reservedMap[c]
           \/ reservedMap'[c].key \in forfeit
           \/ Gives(table, c, reservedMap'[c].key)
  PROVE  IInv'
  <1>1. TypeOK
    BY DEF IInv
  <1>2. NoCall \in Call /\ NoCall.held = EmptyTable /\ NoCall.op = "none"
    BY EmptyMap, Constants DEF NoCall, Call, Op
  <1>3. Refused \in Answer /\ Refused.rows = EmptyTable
    BY EmptyMap DEF Refused, Answer
  <1>4. PICK s \in {"idle", "scan"} : pc' = [pc EXCEPT ![p] = s]
    BY DEF Return
  <1>5. /\ pc' \in [Process -> {"idle", "scan", "sent", "served"}] /\ pc'[p] = s
        /\ call' \in [Process -> Call] /\ call'[p] = NoCall
        /\ answer' \in [Process -> Answer] /\ answer'[p] = Refused
        /\ \A q \in Process \ {p} : pc'[q] = pc[q] /\ call'[q] = call[q] /\ answer'[q] = answer[q]
    BY <1>1, <1>2, <1>3, <1>4 DEF TypeOK, Return
  <1>6. TypeOK'
    BY <1>1, <1>5 DEF TypeOK, Return
  <1>7. UNCHANGED <<table, saved, forfeit>>
    BY DEF Return
  <1> QED  BY <1>2, <1>3, <1>5, <1>6, <1>7, EmptyMap, LocalStep

LEMMA AquireStep ==
  ASSUME IInv, NEW p \in Process, NEW ids \in SUBSET Component, NEW rigid \in BOOLEAN,
         Aquire(p, ids, rigid)
  PROVE  IInv'
  <1>1. Send(p, "create", rigid, ids, EmptyTable) /\ UNCHANGED <<reservedMap, forfeit>>
        /\ UNCHANGED table
    BY DEF Aquire, Send
  <1>2. reservedMap \in LocalMap /\ Safe(reservedMap, table, forfeit)
    BY DEF IInv, TypeOK, Maps
  <1>3. "create" \in Op /\ "create" # "check"
    BY DEF Op
  <1> QED  BY <1>1, <1>2, <1>3, EmptyMap, SendStep

LEMMA ReleaseStep ==
  ASSUME IInv, NEW p \in Process, NEW ids \in SUBSET Component, Release(p, ids)
  PROVE  IInv'
  <1>1. reservedMap \in LocalMap /\ Safe(reservedMap, table, forfeit)
        /\ table \in [Component -> Row \cup {NoRes}]
    BY DEF IInv, TypeOK, Maps
  <1>2. PICK m \in LocalMap : m = Only(reservedMap, ids)
    BY <1>1, OnlyMap
  <1>3. PICK held \in LocalMap : held = KeysOnly(m) /\ Safe(held, table, forfeit)
    BY <1>1, <1>2, KeysOnlyMap DEF LocalMap
  <1>4. Send(p, "release", FALSE, ids, held) /\ UNCHANGED <<reservedMap, forfeit>>
    BY <1>2, <1>3 DEF Release
  <1>5. "release" \in Op /\ "release" # "check"
    BY DEF Op
  <1> QED  BY <1>1, <1>3, <1>4, <1>5, SendStep

LEMMA ReacquireStep ==
  ASSUME IInv, NEW p \in Process, NEW ids \in SUBSET Component, NEW rigid \in BOOLEAN,
         Reacquire(p, ids, rigid)
  PROVE  IInv'
  <1>1. reservedMap \in LocalMap /\ Safe(reservedMap, table, forfeit)
        /\ saved \in LocalMap /\ Safe(saved, table, forfeit)
    BY DEF IInv, TypeOK, Maps
  <1>2. PICK held \in LocalMap : held = Only(saved, ids) /\ Safe(held, table, forfeit)
    BY <1>1, OnlyMap
  <1>3. Send(p, "reacquire", rigid, ids, held) /\ UNCHANGED <<reservedMap, forfeit>>
    BY <1>2 DEF Reacquire
  <1>4. "reacquire" \in Op /\ "reacquire" # "check"
    BY DEF Op
  <1> QED  BY <1>1, <1>2, <1>3, <1>4, SendStep

(* A check begins with the keys of the map. *)
LEMMA UpdateStartStep ==
  ASSUME IInv, UpdateStart
  PROVE  IInv'
  <1>1. reservedMap \in LocalMap /\ Safe(reservedMap, table, forfeit)
        /\ table \in [Component -> Row \cup {NoRes}]
    BY DEF IInv, TypeOK, Maps
  <1>2. PICK held \in LocalMap :
          /\ held = KeysOnly(reservedMap) /\ Safe(held, table, forfeit)
          /\ \A c \in Component : reservedMap[c] # NoRes => held[c].key = reservedMap[c].key
    BY <1>1, KeysOnlyMap DEF LocalMap
  <1>3. PICK ids \in SUBSET Component : ids = Reserved(reservedMap)
    BY DEF Reserved
  <1>4. Send(Renewer, "check", FALSE, ids, held) /\ UNCHANGED <<reservedMap, forfeit>>
    BY <1>2, <1>3 DEF UpdateStart
  <1>5. Displaced(reservedMap, held, table, forfeit)
    BY <1>2 DEF Displaced
  <1>6. "check" \in Op
    BY DEF Op
  <1> QED  BY <1>1, <1>2, <1>4, <1>5, <1>6, Constants, SendStep

LEMMA ScanStep ==
  ASSUME IInv, Scan
  PROVE  IInv'
  <1>1. TypeOK
    BY DEF IInv
  <1>2. reservedMap \in LocalMap /\ Safe(reservedMap, table, forfeit)
        /\ table \in [Component -> Row \cup {NoRes}]
    BY DEF IInv, TypeOK, Maps
  <1>3. reservedMap' \in LocalMap /\ Safe(reservedMap', table, forfeit) /\ UNCHANGED forfeit
    BY <1>2, WithoutRowsMap DEF Scan
  <1>4. CASE pc' = [pc EXCEPT ![Renewer] = "idle"] /\ UNCHANGED <<table, saved, call, answer>>
    <2>1. pc' \in [Process -> {"idle", "scan", "sent", "served"}] /\ pc'[Renewer] = "idle"
          /\ \A q \in Process \ {Renewer} : pc'[q] = pc[q]
      BY <1>1, <1>4, Constants DEF TypeOK
    <2>2. TypeOK'
      BY <1>1, <1>3, <1>4, <2>1 DEF TypeOK
    <2>3. Safe(call[Renewer].held, table, forfeit) /\ Safe(answer[Renewer].rows, table, forfeit)
      BY Constants DEF IInv, Maps
    <2> QED  BY <1>3, <1>4, <2>1, <2>2, <2>3, Constants, LocalStep
  <1>5. CASE Send(Renewer, "renew", FALSE, RenewalCandidates,
                  KeysOnly(Only(reservedMap, RenewalCandidates)))
    <2>1. PICK ids \in SUBSET Component : ids = RenewalCandidates
      BY DEF RenewalCandidates, Reserved
    <2>2. PICK m \in LocalMap : m = Only(reservedMap, ids)
      BY <1>2, OnlyMap
    <2>3. PICK held \in LocalMap : held = KeysOnly(m) /\ Safe(held, table, forfeit)
      BY <1>2, <2>2, KeysOnlyMap DEF LocalMap
    <2>4. Send(Renewer, "renew", FALSE, ids, held)
      BY <1>5, <2>1, <2>2, <2>3
    <2>5. "renew" \in Op /\ "renew" # "check"
      BY DEF Op
    <2> QED  BY <1>3, <2>3, <2>4, <2>5, Constants, SendStep
  <1> QED  BY <1>4, <1>5 DEF Scan

LEMMA RetryStep ==
  ASSUME IInv, NEW p \in Process, Retry(p)
  PROVE  IInv'
  <1>1. TypeOK
    BY DEF IInv
  <1>2. Refused \in Answer /\ Refused.rows = EmptyTable
    BY EmptyMap DEF Refused, Answer
  <1>3. /\ pc' \in [Process -> {"idle", "scan", "sent", "served"}] /\ pc'[p] = "sent"
        /\ answer' \in [Process -> Answer] /\ answer'[p] = Refused
        /\ UNCHANGED <<table, reservedMap, saved, call, forfeit>>
        /\ \A q \in Process \ {p} : pc'[q] = pc[q] /\ answer'[q] = answer[q]
    BY <1>1, <1>2 DEF TypeOK, Retry
  <1>4. TypeOK'
    BY <1>1, <1>3 DEF TypeOK
  <1>5. Safe(reservedMap, table, forfeit) /\ Safe(call[p].held, table, forfeit)
    BY DEF IInv, Maps
  <1>6. p = Renewer /\ call[p].op = "check" =>
          Displaced(reservedMap, call[p].held, table, forfeit)
    BY DEF IInv, Checked, Calling, Retry
  <1> QED  BY <1>2, <1>3, <1>4, <1>5, <1>6, EmptyMap, LocalStep

LEMMA GiveUpStep ==
  ASSUME IInv, NEW p \in Process, GiveUp(p)
  PROVE  IInv'
  <1>1. reservedMap \in LocalMap /\ Safe(reservedMap, table, forfeit)
    BY DEF IInv, TypeOK, Maps
  <1> QED  BY <1>1, ReturnStep DEF GiveUp

LEMMA ApplyStep ==
  ASSUME IInv, NEW p \in Process, Apply(p)
  PROVE  IInv'
  <1>1. TypeOK /\ reservedMap \in LocalMap /\ Safe(reservedMap, table, forfeit)
    BY DEF IInv, TypeOK, Maps
  <1>2. PICK rows \in LocalMap : rows = answer[p].rows
    BY <1>1, LocalMaps
  <1>3. PICK held \in LocalMap : held = call[p].held
    BY <1>1, LocalMaps
  <1>4. Safe(rows, table, forfeit) /\ Safe(held, table, forfeit) /\ Granted(p)
    BY <1>2, <1>3 DEF IInv, Maps
  <1>5. pc[p] = "served" /\ Return(p) /\ UNCHANGED forfeit
    BY DEF Apply
  <1>6. CASE AquireDone(p)
    <2>1. \A c \in Component : rows[c] # NoRes =>
            rows[c].key \in forfeit \/ Gives(table, c, rows[c].key)
      BY <1>2, <1>4, <1>5, <1>6 DEF Granted, Live, AquireDone
    <2>2. CASE reservedMap' = WithRows(reservedMap, rows)
      <3>1. reservedMap' \in LocalMap /\ Safe(reservedMap', table, forfeit)
            /\ \A c \in Component :
                 reservedMap'[c] = IF rows[c] # NoRes THEN rows[c] ELSE reservedMap[c]
        BY <1>1, <1>4, <2>2, WithRowsMap
      <3>2. \A c \in Component : reservedMap'[c] # NoRes =>
              \/ reservedMap'[c] = reservedMap[c]
              \/ reservedMap'[c].key \in forfeit
              \/ Gives(table, c, reservedMap'[c].key)
        BY <2>1, <3>1
      <3> QED  BY <1>5, <3>1, <3>2, ReturnStep
    <2>3. CASE reservedMap' = reservedMap
      BY <1>1, <1>5, <2>3, ReturnStep
    <2> QED  BY <1>2, <1>6, <2>2, <2>3 DEF AquireDone
  <1>7. ASSUME NEW C, reservedMap' = WithoutRows(reservedMap, C)
        PROVE  IInv'
    <2>1. reservedMap' \in LocalMap /\ Safe(reservedMap', table, forfeit)
          /\ \A c \in Component : reservedMap'[c] # NoRes => reservedMap'[c] = reservedMap[c]
      BY <1>1, <1>7, WithoutRowsMap
    <2> QED  BY <1>5, <2>1, ReturnStep
  <1>8. CASE ReacquireDone(p)
    <2>1. PICK kept \in LocalMap :
            /\ kept = Only(held, Reserved(rows)) /\ Safe(kept, table, forfeit)
            /\ \A c \in Component : kept[c] # NoRes => c \in Reserved(rows) /\ kept[c] = held[c]
      BY <1>4, OnlyMap
    <2>2. reservedMap' = WithRows(reservedMap, kept)
      BY <1>2, <1>3, <1>8, <2>1 DEF ReacquireDone
    <2>3. \A c \in Component : kept[c] # NoRes =>
            kept[c].key \in forfeit \/ Gives(table, c, kept[c].key)
      <3>1. Live(rows, table, forfeit, call[p].left) /\ OfThese(rows, held)
        BY <1>2, <1>3, <1>4, <1>5, <1>8 DEF Granted, ReacquireDone
      <3>2. \A c \in Component : kept[c] # NoRes => rows[c] # NoRes /\ kept[c].key = rows[c].key
        BY <2>1, <3>1 DEF OfThese, Gives, Reserved
      <3> QED  BY <3>1, <3>2 DEF Live
    <2>4. reservedMap' \in LocalMap /\ Safe(reservedMap', table, forfeit)
          /\ \A c \in Component :
               reservedMap'[c] = IF kept[c] # NoRes THEN kept[c] ELSE reservedMap[c]
      BY <1>1, <2>1, <2>2, WithRowsMap
    <2>5. \A c \in Component : reservedMap'[c] # NoRes =>
            \/ reservedMap'[c] = reservedMap[c]
            \/ reservedMap'[c].key \in forfeit
            \/ Gives(table, c, reservedMap'[c].key)
      BY <2>3, <2>4
    <2> QED  BY <1>5, <2>4, <2>5, ReturnStep
  <1>9. CASE p = Renewer /\ UpdateDone
    <2>1. Reported(reservedMap, rows, table, forfeit)
      BY <1>2, <1>5, <1>9 DEF IInv, Checked, UpdateDone
    <2>2. reservedMap' = [c \in Component |->
            CASE c \in answer[Renewer].failed -> NoRes
              [] c \in Reserved(reservedMap) \cap Reserved(rows) ->
                   [reservedMap[c] EXCEPT !.left = rows[c].left]
              [] OTHER -> reservedMap[c]]
      BY <1>2, <1>9 DEF UpdateDone
    <2>3. \A c \in Component :
            \/ reservedMap'[c] = NoRes
            \/ reservedMap'[c] = reservedMap[c]
            \/ /\ reservedMap[c] # NoRes /\ rows[c] # NoRes
               /\ reservedMap'[c] = [reservedMap[c] EXCEPT !.left = rows[c].left]
      BY <2>2 DEF Reserved
    <2>4. \A c \in Component : reservedMap'[c] # NoRes =>
            /\ reservedMap'[c] \in Entry
            /\ \/ reservedMap'[c] = reservedMap[c]
               \/ /\ reservedMap[c] # NoRes /\ rows[c] # NoRes
                  /\ reservedMap'[c].key = reservedMap[c].key
                  /\ reservedMap'[c].left = rows[c].left
      <3> SUFFICES ASSUME NEW c \in Component, reservedMap[c] # NoRes, rows[c] # NoRes,
                          reservedMap'[c] = [reservedMap[c] EXCEPT !.left = rows[c].left]
                   PROVE  /\ reservedMap'[c] \in Entry
                          /\ reservedMap'[c].key = reservedMap[c].key
                          /\ reservedMap'[c].left = rows[c].left
        BY <1>1, <2>3, MapFields
      <3>1. PICK e \in Entry : e = reservedMap[c]
        BY <1>1, MapFields
      <3>2. PICK n \in -1 .. Term : n = rows[c].left
        BY MapFields
      <3>3. /\ [e EXCEPT !.left = n] \in Entry /\ [e EXCEPT !.left = n].key = e.key
            /\ [e EXCEPT !.left = n].left = n
        BY DEF Entry
      <3> QED  BY <3>1, <3>2, <3>3
    <2>5. reservedMap' \in LocalMap
      BY <2>2, <2>4 DEF LocalMap
    <2>6. Below(reservedMap', table)
      BY <1>1, <1>4, <2>4 DEF Safe, Below
    <2>7. Sound(reservedMap', table, forfeit)
      <3> SUFFICES ASSUME NEW c \in Component, reservedMap'[c] # NoRes, reservedMap'[c].left > 0,
                          reservedMap'[c].key \notin forfeit
                   PROVE  Gives(table, c, reservedMap'[c].key)
        BY DEF Sound
      <3>1. CASE reservedMap'[c] = reservedMap[c]
        BY <1>1, <3>1 DEF Safe, Sound
      <3>2. CASE /\ reservedMap[c] # NoRes /\ rows[c] # NoRes
                 /\ reservedMap'[c].key = reservedMap[c].key
                 /\ reservedMap'[c].left = rows[c].left
        BY <2>1, <3>2 DEF Reported
      <3> QED  BY <2>4, <3>1, <3>2
    <2> QED  BY <1>5, <1>9, <2>5, <2>6, <2>7, ReturnStep DEF Safe
  <1> QED  BY <1>6, <1>7, <1>8, <1>9 DEF Apply, ReleaseDone, RenewDone

LEMMA StatusStep ==
  ASSUME IInv, Status
  PROVE  IInv'
  <1>1. TypeOK'
    BY DEF IInv, TypeOK, Status, callVars
  <1>2. Maps'
    BY DEF IInv, Maps, Status, callVars
  <1>3. ASSUME NEW p \in Process PROVE Granted(p)'
    BY DEF IInv, Granted, Status, callVars
  <1>4. Checked'
    BY DEF IInv, Checked, Calling, Status, callVars
  <1> QED  BY <1>1, <1>2, <1>3, <1>4 DEF IInv

LEMMA RestartStep ==
  ASSUME IInv, Restart
  PROVE  IInv'
  <1>1. NoCall \in Call /\ NoCall.held = EmptyTable /\ NoCall.op = "none"
    BY EmptyMap, Constants DEF NoCall, Call, Op
  <1>2. Refused \in Answer /\ Refused.rows = EmptyTable
    BY EmptyMap DEF Refused, Answer
  <1>3. /\ \A p \in Process : pc'[p] = "idle" /\ call'[p] = NoCall /\ answer'[p] = Refused
        /\ reservedMap' = EmptyTable /\ UNCHANGED <<table, saved, forfeit>>
    BY DEF Restart
  <1>4. TypeOK'
    BY <1>1, <1>2, EmptyMap DEF IInv, TypeOK, Restart
  <1>5. Maps'
    BY <1>1, <1>2, <1>3, EmptyMap DEF IInv, Maps
  <1>6. ASSUME NEW p \in Process PROVE Granted(p)'
    BY <1>3 DEF Granted
  <1>7. Checked'
    BY <1>1, <1>3, Constants DEF Checked
  <1> QED  BY <1>4, <1>5, <1>6, <1>7 DEF IInv

(* Time passes for the map as it does for the table. *)
LEMMA AgedMap ==
  ASSUME NEW m \in LocalMap
  PROVE  /\ Aged(m, -1) \in LocalMap
         /\ \A c \in Component :
              /\ Aged(m, -1)[c] # NoRes <=> m[c] # NoRes
              /\ m[c] # NoRes =>
                   /\ Aged(m, -1)[c].key = m[c].key
                   /\ Aged(m, -1)[c].left = IF m[c].left > -1 THEN m[c].left - 1 ELSE m[c].left
  <1>1. \A c \in Component : m[c] # NoRes =>
          /\ Aged(m, -1)[c] \in Entry /\ Aged(m, -1)[c].key = m[c].key
          /\ Aged(m, -1)[c].left = IF m[c].left > -1 THEN m[c].left - 1 ELSE m[c].left
    <2> SUFFICES ASSUME NEW c \in Component, m[c] # NoRes
                 PROVE  /\ Aged(m, -1)[c] \in Entry /\ Aged(m, -1)[c].key = m[c].key
                        /\ Aged(m, -1)[c].left = IF m[c].left > -1 THEN m[c].left - 1 ELSE m[c].left
      OBVIOUS
    <2>1. PICK e \in Entry : e = m[c]
      BY MapFields
    <2>2. e.left > -1 => e.left - 1 \in -1 .. Term
      BY Constants DEF Entry
    <2>3. e.left > -1 =>
            /\ [e EXCEPT !.left = @ - 1] \in Entry /\ [e EXCEPT !.left = @ - 1].key = e.key
            /\ [e EXCEPT !.left = @ - 1].left = e.left - 1
      BY <2>2 DEF Entry
    <2>4. Aged(m, -1)[c] = IF e.left > -1 THEN [e EXCEPT !.left = @ - 1] ELSE e
      BY <2>1 DEF Aged
    <2> QED  BY <2>1, <2>3, <2>4
  <1>2. \A c \in Component : m[c] = NoRes => Aged(m, -1)[c] = NoRes
    BY DEF Aged
  <1>3. Aged(m, -1) = [c \in Component |-> Aged(m, -1)[c]]
    BY DEF Aged
  <1>4. Aged(m, -1) \in LocalMap
    BY <1>1, <1>2, <1>3 DEF LocalMap
  <1> QED  BY <1>1, <1>2, <1>4, Constants

LEMMA AgedTable ==
  ASSUME TypeOK, table' = Aged(table, 0)
  PROVE  /\ table' \in [Component -> Row \cup {NoRes}]
         /\ \A c \in Component :
              /\ table'[c] # NoRes <=> table[c] # NoRes
              /\ table[c] # NoRes =>
                   /\ table'[c].key = table[c].key
                   /\ table'[c].left = IF table[c].left > 0 THEN table[c].left - 1 ELSE 0
  <1>1. \A c \in Component : table[c] # NoRes =>
          /\ table'[c] \in Row /\ table'[c].key = table[c].key
          /\ table'[c].left = IF table[c].left > 0 THEN table[c].left - 1 ELSE 0
    <2> SUFFICES ASSUME NEW c \in Component, table[c] # NoRes
                 PROVE  /\ table'[c] \in Row /\ table'[c].key = table[c].key
                        /\ table'[c].left = IF table[c].left > 0 THEN table[c].left - 1 ELSE 0
      OBVIOUS
    <2>1. PICK r \in Row : r = table[c]
      BY RowFields
    <2>2. r.left \in 0 .. Term
      BY DEF Row
    <2>3. r.left > 0 => r.left - 1 \in 0 .. Term
      BY <2>2, Constants
    <2>4. r.left > 0 =>
            /\ [r EXCEPT !.left = @ - 1] \in Row /\ [r EXCEPT !.left = @ - 1].key = r.key
            /\ [r EXCEPT !.left = @ - 1].left = r.left - 1
      BY <2>3 DEF Row
    <2>5. table'[c] = IF r.left > 0 THEN [r EXCEPT !.left = @ - 1] ELSE r
      BY <2>1 DEF Aged
    <2>6. ~ (r.left > 0) => r.left = 0
      BY <2>2, Constants
    <2> QED  BY <2>1, <2>4, <2>5, <2>6
  <1>2. \A c \in Component : table[c] = NoRes => table'[c] = NoRes
    BY DEF Aged
  <1>3. table' = [c \in Component |-> table'[c]]
    BY DEF Aged
  <1>4. table' \in [Component -> Row \cup {NoRes}]
    BY <1>1, <1>2, <1>3
  <1> QED  BY <1>1, <1>2, <1>4, Constants

LEMMA SafeAges ==
  ASSUME TypeOK, table' = Aged(table, 0), NEW m \in LocalMap,
         \A c \in Component : m[c] # NoRes => m[c].key \in KeysInUse,
         forfeit' = forfeit \cap KeysInUse
  PROVE  /\ Safe(m, table, forfeit) => Safe(Aged(m, -1), table', forfeit')
         /\ \A n \in Nat : n > 0 /\ Live(m, table, forfeit, n)
              => Live(Aged(m, -1), table', forfeit', n - 1)
  <1> SUFFICES ASSUME NEW c \in Component, m[c] # NoRes
               PROVE  /\ Below(m, table) /\ table'[c] # NoRes
                           => Aged(m, -1)[c].left <= table'[c].left
                      /\ Sound(m, table, forfeit) /\ Aged(m, -1)[c].left > 0
                           /\ m[c].key \notin forfeit' => Gives(table', c, m[c].key)
                      /\ \A n \in Nat : n > 0 /\ Live(m, table, forfeit, n)
                           /\ m[c].key \notin forfeit'
                           => Gives(table', c, m[c].key) /\ table'[c].left > n - 1
    <2>1. PICK a \in LocalMap : a = Aged(m, -1)
      BY AgedMap
    <2>2. \A c \in Component : (a[c] # NoRes <=> m[c] # NoRes)
            /\ (m[c] # NoRes => a[c].key = m[c].key)
      BY <2>1, AgedMap
    <2> QED  BY <2>1, <2>2 DEF Safe, Below, Sound, Live
  <1>1. m[c].left \in -1 .. Term
        /\ Aged(m, -1)[c].left = IF m[c].left > -1 THEN m[c].left - 1 ELSE m[c].left
    BY MapFields, AgedMap
  <1>2. table[c] # NoRes => table[c].left \in 0 .. Term /\ table'[c] # NoRes
          /\ table'[c].left = (IF table[c].left > 0 THEN table[c].left - 1 ELSE 0)
          /\ table'[c].key = table[c].key
    BY RowFields, AgedTable
  <1>3. table'[c] # NoRes => table[c] # NoRes
    BY AgedTable
  <1>4. m[c].key \notin forfeit' => m[c].key \notin forfeit
    OBVIOUS
  <1>5. \A k : Gives(table, c, k) => Gives(table', c, k)
    BY <1>2 DEF Gives
  <1>6. Below(m, table) /\ table'[c] # NoRes => Aged(m, -1)[c].left <= table'[c].left
    BY <1>1, <1>2, <1>3, Constants DEF Below
  <1>7. Sound(m, table, forfeit) /\ Aged(m, -1)[c].left > 0 /\ m[c].key \notin forfeit'
          => Gives(table', c, m[c].key)
    <2>1. Aged(m, -1)[c].left > 0 => m[c].left > 0
      BY <1>1, Constants
    <2> QED  BY <1>4, <1>5, <2>1 DEF Sound
  <1>8. ASSUME NEW n \in Nat, n > 0, Live(m, table, forfeit, n), m[c].key \notin forfeit'
        PROVE  Gives(table', c, m[c].key) /\ table'[c].left > n - 1
    <2>1. Gives(table, c, m[c].key) /\ table[c].left > n
      BY <1>4, <1>8 DEF Live
    <2>2. table'[c].left = table[c].left - 1 /\ table[c].left \in Nat
      BY <1>2, <1>8, <2>1, Constants DEF Gives
    <2> QED  BY <1>5, <1>8, <2>1, <2>2
  <1> QED  BY <1>6, <1>7, <1>8

LEMMA TickStep ==
  ASSUME IInv, Tick
  PROVE  IInv'
  <1>1. TypeOK /\ table' = Aged(table, 0) /\ forfeit' = forfeit \cap KeysInUse /\ pc' = pc
    BY DEF IInv, Tick
  <1>2. reservedMap \in LocalMap /\ saved \in LocalMap
        /\ reservedMap' = Aged(reservedMap, -1) /\ saved' = Aged(saved, -1)
    BY <1>1 DEF TypeOK, Tick
  <1>3. ASSUME NEW p \in Process
        PROVE  /\ call'[p] \in Call /\ call'[p].op = call[p].op
               /\ call'[p].held = Aged(call[p].held, -1)
               /\ Calling(p) => call[p].left > 0 /\ call'[p].left = call[p].left - 1
    <2>1. PICK r \in Call : r = call[p]
      BY <1>1, LocalMaps
    <2>2. PICK h \in LocalMap : h = Aged(r.held, -1)
      BY AgedMap DEF Call
    <2>3. Calling(p) => r.left > 0
      BY <2>1 DEF Tick
    <2>4. PICK n \in 0 .. Timeout : n = IF Calling(p) THEN r.left - 1 ELSE r.left
      BY <2>3, Constants DEF Call
    <2>5. call'[p] = [r EXCEPT !.held = h, !.left = n]
      BY <2>1, <2>2, <2>4 DEF Tick
    <2>6. /\ [r EXCEPT !.held = h, !.left = n] \in Call
          /\ [r EXCEPT !.held = h, !.left = n].op = r.op
          /\ [r EXCEPT !.held = h, !.left = n].held = h
          /\ [r EXCEPT !.held = h, !.left = n].left = n
      BY DEF Call
    <2> QED  BY <2>1, <2>2, <2>3, <2>4, <2>5, <2>6
  <1>4. ASSUME NEW p \in Process
        PROVE  answer'[p] \in Answer /\ answer'[p].rows = Aged(answer[p].rows, -1)
    <2>1. PICK a \in Answer : a = answer[p]
      BY <1>1, LocalMaps
    <2>2. PICK h \in LocalMap : h = Aged(a.rows, -1)
      BY AgedMap DEF Answer
    <2>3. answer'[p] = [a EXCEPT !.rows = h]
      BY <2>1, <2>2 DEF Tick
    <2>4. [a EXCEPT !.rows = h] \in Answer /\ [a EXCEPT !.rows = h].rows = h
      BY DEF Answer
    <2> QED  BY <2>1, <2>2, <2>3, <2>4
  <1>5. TypeOK'
    <2>1. call' = [p \in Process |-> call'[p]] /\ answer' = [p \in Process |-> answer'[p]]
      BY DEF Tick
    <2>2. call' \in [Process -> Call] /\ answer' \in [Process -> Answer]
      BY <1>3, <1>4, <2>1
    <2>3. reservedMap' \in LocalMap /\ saved' \in LocalMap
          /\ table' \in [Component -> Row \cup {NoRes}]
      BY <1>1, <1>2, AgedMap, AgedTable
    <2> QED  BY <1>1, <2>2, <2>3 DEF TypeOK
  <1>6. Maps'
    <2>1. Safe(reservedMap', table', forfeit') /\ Safe(saved', table', forfeit')
      <3>1. \A c \in Component : /\ reservedMap[c] # NoRes => reservedMap[c].key \in KeysInUse
                                 /\ saved[c] # NoRes => saved[c].key \in KeysInUse
        BY InUse, Constants
      <3> QED  BY <1>1, <1>2, <3>1, SafeAges DEF IInv, Maps
    <2>2. ASSUME NEW p \in Process
          PROVE  Safe(call'[p].held, table', forfeit') /\ Safe(answer'[p].rows, table', forfeit')
      <3>1. \A c \in Component :
              /\ call[p].held[c] # NoRes => call[p].held[c].key \in KeysInUse
              /\ answer[p].rows[c] # NoRes => answer[p].rows[c].key \in KeysInUse
        BY InUse
      <3>2. call[p].held \in LocalMap /\ answer[p].rows \in LocalMap
        BY <1>1, LocalMaps
      <3>3. Safe(call[p].held, table, forfeit) /\ Safe(answer[p].rows, table, forfeit)
        BY DEF IInv, Maps
      <3> QED  BY <1>1, <1>3, <1>4, <3>1, <3>2, <3>3, SafeAges
    <2> QED  BY <2>1, <2>2 DEF Maps
  <1>7. ASSUME NEW p \in Process PROVE Granted(p)'
    <2>1. PICK rows \in LocalMap : rows = answer[p].rows
      BY <1>1, LocalMaps
    <2>2. PICK held \in LocalMap : held = call[p].held
      BY <1>1, LocalMaps
    <2>3. \A c \in Component : rows[c] # NoRes => rows[c].key \in KeysInUse
      BY <2>1, InUse
    <2>4. ASSUME pc[p] = "served", call[p].op \in {"create", "reacquire"}
          PROVE  Live(answer'[p].rows, table', forfeit', call'[p].left)
      <3>1. Live(rows, table, forfeit, call[p].left)
        BY <2>1, <2>4 DEF IInv, Granted
      <3>2. call[p].left \in Nat /\ call[p].left > 0 /\ call'[p].left = call[p].left - 1
        BY <1>1, <1>3, <2>4, LocalMaps, Constants DEF Calling
      <3> QED  BY <1>1, <1>4, <2>1, <2>3, <3>1, <3>2, SafeAges
    <2>5. ASSUME pc[p] = "served", call[p].op = "reacquire"
          PROVE  OfThese(answer'[p].rows, call'[p].held)
      <3>1. OfThese(rows, held)
        BY <2>1, <2>2, <2>5 DEF IInv, Granted
      <3>2. OfThese(Aged(rows, -1), Aged(held, -1))
        BY <3>1, AgedMap DEF OfThese, Gives
      <3> QED  BY <1>3, <1>4, <2>1, <2>2, <3>2
    <2> QED  BY <1>1, <1>3, <2>4, <2>5 DEF Granted
  <1>8. Checked'
    <2> SUFFICES ASSUME call[Renewer].op = "check"
                 PROVE  /\ Calling(Renewer) =>
                             Displaced(reservedMap', call'[Renewer].held, table', forfeit')
                        /\ pc[Renewer] = "served" =>
                             Reported(reservedMap', answer'[Renewer].rows, table', forfeit')
      BY <1>1, <1>3, Constants DEF Checked, Calling
    <2>1. PICK r \in LocalMap : r = reservedMap
      BY <1>2
    <2>2. PICK rows \in LocalMap : rows = answer[Renewer].rows
      BY <1>1, LocalMaps, Constants
    <2>3. PICK held \in LocalMap : held = call[Renewer].held
      BY <1>1, LocalMaps, Constants
    <2>4. \A c \in Component : r[c] # NoRes => r[c].key \in KeysInUse
      BY <2>1, InUse, Constants
    <2>5. \A c \in Component : r[c] # NoRes /\ r[c].key \notin forfeit' => r[c].key \notin forfeit
      BY <1>1, <2>4
    <2>6. \A c \in Component : \A k : Gives(table', c, k) <=> Gives(table, c, k)
      BY <1>1, AgedTable DEF Gives
    <2>7. \A c \in Component : rows[c] # NoRes =>
            (Aged(rows, -1)[c].left > 0 => rows[c].left > 0)
      BY AgedMap, MapFields, Constants
    <2>8. Displaced(r, held, table, forfeit)
            => Displaced(Aged(r, -1), Aged(held, -1), table', forfeit')
      BY <2>5, <2>6, AgedMap DEF Displaced
    <2>9. Reported(r, rows, table, forfeit)
            => Reported(Aged(r, -1), Aged(rows, -1), table', forfeit')
      BY <2>5, <2>6, <2>7, AgedMap DEF Reported
    <2>10. Checked
      BY DEF IInv
    <2> QED  BY <1>2, <1>3, <1>4, <2>1, <2>2, <2>3, <2>8, <2>9, <2>10, Constants DEF Checked
  <1> QED  BY <1>5, <1>6, <1>7, <1>8 DEF IInv

-------------------------------------------------------------------------------
LEMMA InvInit == Init => IInv
  <1> SUFFICES ASSUME Init PROVE IInv
    OBVIOUS
  <1>1. NoCall \in Call /\ NoCall.held = EmptyTable /\ NoCall.op = "none"
    BY EmptyMap, Constants DEF NoCall, Call, Op
  <1>2. Refused \in Answer /\ Refused.rows = EmptyTable
    BY EmptyMap DEF Refused, Answer
  <1>3. EmptyTable \in [Component -> Row \cup {NoRes}]
    BY DEF EmptyTable
  <1>4. TypeOK
    BY <1>1, <1>2, <1>3, EmptyMap DEF Init, TypeOK
  <1>5. Maps
    BY <1>1, <1>2, EmptyMap DEF Init, Maps
  <1>6. (\A p \in Process : Granted(p)) /\ Checked
    BY <1>1, Constants DEF Init, Granted, Checked
  <1> QED  BY <1>4, <1>5, <1>6 DEF IInv

LEMMA InvStep == IInv /\ [Next]_vars => IInv'
  <1> SUFFICES ASSUME IInv, [Next]_vars PROVE IInv'
    OBVIOUS
  <1>1. ASSUME NEW p \in Caller, Application(p) PROVE IInv'
    <2>1. p \in Process
      BY DEF Process
    <2> QED  BY <1>1, <2>1, AquireStep, ReleaseStep, ReacquireStep DEF Application
  <1>2. ASSUME NEW p \in Process, Network(p) PROVE IInv'
    BY <1>2, ServeStep, RetryStep, GiveUpStep, ApplyStep DEF Network
  <1>3. ASSUME NEW c \in Component \ Missing, OtherClient(c) \/ ForceRemove(c) PROVE IInv'
    BY <1>3, OtherClientStep, ForceRemoveStep
  <1>4. CASE UNCHANGED vars
    <2>1. UNCHANGED <<table, reservedMap, saved, pc, call, answer, forfeit>>
      BY <1>4 DEF vars, callVars
    <2>2. TypeOK' /\ Maps'
      BY <2>1 DEF IInv, TypeOK, Maps
    <2>3. (\A p \in Process : Granted(p))' /\ Checked'
      BY <2>1 DEF IInv, Granted, Checked, Calling
    <2> QED  BY <2>2, <2>3 DEF IInv
  <1> QED
    BY <1>1, <1>2, <1>3, <1>4, StatusStep, RestartStep, UpdateStartStep, ScanStep, TickStep,
       ReapStep DEF Next

(* What the map, the copies of it, the requests and the answers say of the *)
(* table holds in every state.                                             *)
THEOREM InvCorrect == Spec => []IInv
  BY InvInit, InvStep, PTL DEF Spec

(* Every variable keeps its type: no expiration, in the table, the map or  *)
(* an answer, is out of the range of a term.                               *)
THEOREM TypeCorrect == Spec => []TypeOK
  <1>1. IInv => TypeOK
    BY DEF IInv
  <1> QED  BY <1>1, InvCorrect, PTL

(* For any number of goroutines, the expiration the map has for a          *)
(* reservation it holds is not later than the server's.                    *)
THEOREM ConservativeExpiry == Spec => []LocalExpiryConservative
  <1>1. IInv => LocalExpiryConservative
    BY DEF IInv, Maps, Safe, Below, LocalExpiryConservative, Holds
  <1> QED  BY <1>1, InvCorrect, PTL

(* For any number of goroutines, an entry of the map with time left is a   *)
(* reservation the server has, unless it was released or removed by force. *)
THEOREM SoundCheck == Spec => []CheckIsSound
  <1>1. IInv => CheckIsSound
    BY DEF IInv, Maps, Safe, Sound, Gives, CheckIsSound, Holds
  <1> QED  BY <1>1, InvCorrect, PTL
===============================================================================
