------------------------------ MODULE MCGroups ------------------------------
EXTENDS Groups

LOCAL New(ns, name, excl) ==
  [ns |-> ns, name |-> name, excl |-> excl, desc |-> "a", tags |-> "a"]

(* Two groups of one exclusive group, with members in opposite orders; one *)
(* group of the first's label that is not exclusive; two partitions that   *)
(* overlap with each other, one of which names a member twice.             *)
SomePosts ==
  {[group |-> New("group", "n1", "n1"), ids |-> <<"x1", "x2">>],
   [group |-> New("group", "n2", "n1"), ids |-> <<"x2", "x1">>],
   [group |-> New("group", "n1", ""), ids |-> <<"x1">>],
   [group |-> New("partition", "n1", ""), ids |-> <<"x1">>],
   [group |-> New("partition", "n2", ""), ids |-> <<"x1", "x1">>],
   [group |-> New("partition", "%", ""), ids |-> <<"x2">>]}

SomePatches == {[desc |-> "b", tags |-> "nil"]}
=============================================================================
