---------------------------- MODULE MCVkDelivery ----------------------------
(* VkDelivery on small sets: two commands of one event that name the same   *)
(* users in opposite order, and one that cannot be parsed.                  *)
EXTENDS VkDelivery, TLC

CONSTANTS m1, m2, m3, u1, u2, e1

MCEventOf == [m \in Message |-> e1]
MCUsersOf == [m \in Message |-> IF m = m1 THEN <<u1, u2>> ELSE <<u2, u1>>]

Symmetry == Permutations(Consumer)
=============================================================================
