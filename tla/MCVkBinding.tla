---------------------------- MODULE MCVkBinding ----------------------------
(* VkBinding on small sets. *)
EXTENDS VkBinding, TLC

\* Users, accounts, ids, codes and workers are interchangeable: no definition
\* of VkBinding names or orders one.
Symmetry ==
  Permutations(User) \cup Permutations(Peer) \cup Permutations(Record)
    \cup Permutations(Code) \cup Permutations(Worker)
=============================================================================
