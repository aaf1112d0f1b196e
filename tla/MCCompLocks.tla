------------------------------ MODULE MCCompLocks ------------------------------
EXTENDS CompLocks, TLC

(* Components and keys are interchangeable; transactions too, unless a     *)
(* liveness property is checked.                                           *)
Interchangeable ==
  Permutations(Component) \cup Permutations(Key) \cup Permutations(Handler)
===============================================================================
