--------------------------- MODULE ReservationTable ---------------------------
(***************************************************************************)
(* The SQL statements of the `reservations' table, as functions from the   *)
(* table to the table (internal/hmsds/hmsds-tx-postgres.go).  The primary  *)
(* key of the table is the component, so the table is a function on        *)
(* Component.  A row keeps the pair of keys that was made for it; deputy   *)
(* and reservation key are made together and both carry the component's    *)
(* name, so one abstract key stands for the pair.                          *)
(***************************************************************************)
EXTENDS Integers, FiniteSets

CONSTANTS
  Component,   \* xnames
  Key,         \* reservation/deputy key pairs that uuid.New() may produce
  NoRes,       \* no row for this component
  Never        \* a NULL expiration_timestamp

ASSUME NoResAssumption == NoRes \notin [key : Key, expires : Nat \cup {Never}]
ASSUME NeverAssumption == Never \notin Nat

Reservation == [key : Key, expires : Nat \cup {Never}]
Table == [Component -> Reservation \cup {NoRes}]
EmptyTable == [c \in Component |-> NoRes]

Reserved(t) == {c \in Component : t[c] # NoRes}
KeysIn(t) == {t[c].key : c \in Reserved(t)}

(* Rows that carry one of the keys: the WHERE clause of the keyed calls. *)
RowsByKey(t, keys) == {c \in Reserved(t) : t[c].key \in keys}

(* Of those, the rows that expire: only they can be renewed. *)
RenewableRows(t, keys) == {c \in RowsByKey(t, keys) : t[c].expires # Never}

(* Rows the cleanup thread deletes: NOW() >= expiration_timestamp. *)
ExpiredRows(t, now) ==
  {c \in Reserved(t) : t[c].expires # Never /\ now >= t[c].expires}

(* Fresh rows for the components of C that have none (ON CONFLICT DO NOTHING). *)
FreshRows(t, C, keyOf, expires) ==
  [c \in Component |-> IF c \in C /\ t[c] = NoRes
                       THEN [key |-> keyOf[c], expires |-> expires]
                       ELSE NoRes]

(* The table once the rows of another table are committed to it. *)
WithRows(t, rows) ==
  [c \in Component |-> IF rows[c] # NoRes THEN rows[c] ELSE t[c]]

WithoutRows(t, C) == [c \in Component |-> IF c \in C THEN NoRes ELSE t[c]]

WithExpiry(t, C, expires) ==
  [c \in Component |-> IF c \in C THEN [t[c] EXCEPT !.expires = expires]
                       ELSE t[c]]

(* Mutant of ExpiryOf: the duration is counted from the wrong side. *)
ExpiryBehindNow(d, now) == IF d > 0 THEN now - d ELSE Never

(* The expiration timestamp of a reservation of duration d minutes. *)
ExpiryOf(d, now) == IF d > 0 THEN now + d ELSE Never
===============================================================================
