--------------------------- MODULE MCSmokeHarness ---------------------------
(* SmokeHarness with one or two targets, and a payload that cannot be parsed. *)
EXTENDS SmokeHarness

CONSTANTS one, two, broken, u1, u2, e1

MCEventOf == [m \in Message |-> e1]
MCUsersOf == [m \in Message |-> IF m = two THEN <<u1, u2>> ELSE <<u1>>]
=============================================================================
