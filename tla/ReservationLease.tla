--------------------------- MODULE ReservationLease ---------------------------
(***************************************************************************)
(* What the reservations promise, whatever the statements that implement   *)
(* them: a component has at most one holder, named by a key that nobody    *)
(* was given before; a key that has lost its component never gets it back. *)
(***************************************************************************)
CONSTANTS Component, Key, NoRes

VARIABLES
  holder,   \* the key that holds each component, or NoRes
  used      \* keys that have been handed out or thrown away

leaseVars == <<holder, used>>

Init ==
  /\ holder = [c \in Component |-> NoRes]
  /\ used = {}

Held(keyOf) == {keyOf[c] : c \in DOMAIN keyOf}

(* Free components are given to new holders, all at once. *)
Grant ==
  \E C \in SUBSET Component : \E keyOf \in [C -> Key \ used] :
    /\ \A c \in C : holder[c] = NoRes
    /\ \A c, d \in C : c # d => keyOf[c] # keyOf[d]
    /\ holder' = [c \in Component |-> IF c \in C THEN keyOf[c] ELSE holder[c]]
    /\ used' = used \cup Held(keyOf)

(* Holders lose their components: released, removed or expired.  Keys that *)
(* were generated for reservations that are never made are thrown away.    *)
Lose ==
  \E C \in SUBSET Component, K \in SUBSET Key :
    /\ holder' = [c \in Component |-> IF c \in C THEN NoRes ELSE holder[c]]
    /\ used' = used \cup K

Next == Grant \/ Lose

Spec == Init /\ [][Next]_leaseVars
===============================================================================
