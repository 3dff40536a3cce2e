-------------------------- MODULE BindingLifecycle --------------------------
(***************************************************************************)
(* What a reader of user_vks may rely on, one binding change at a time:    *)
(* a binding is created PENDING for a user who has none, is linked to a    *)
(* free VK account, is blocked and unblocked, and is deleted for good.     *)
(* Requests, transactions and codes do not exist at this level; VkBinding  *)
(* implements it through its committed rows.                               *)
(***************************************************************************)
CONSTANTS User, Peer, Record, None

VARIABLE bindings

NoBinding == [user |-> None, peer |-> None, state |-> "PENDING", deleted |-> FALSE]

Present(r) == bindings[r].user # None /\ ~bindings[r].deleted

Init == bindings = [r \in Record |-> NoBinding]

Create(r, u) ==
  /\ bindings[r] = NoBinding
  /\ \A other \in Record : Present(other) => bindings[other].user # u
  /\ bindings' = [bindings EXCEPT ![r].user = u]

Link(r, p) ==
  /\ Present(r)
  /\ \A other \in Record \ {r} : Present(other) => bindings[other].peer # p
  /\ bindings' = [bindings EXCEPT ![r].peer = p, ![r].state = "ACTIVE"]

SetState(r, state) ==
  /\ Present(r)
  /\ bindings[r].peer # None
  /\ bindings' = [bindings EXCEPT ![r].state = state]

Delete(r) ==
  /\ Present(r)
  /\ bindings' = [bindings EXCEPT ![r].deleted = TRUE]

Next ==
  \E r \in Record :
    \/ \E u \in User : Create(r, u)
    \/ \E p \in Peer : Link(r, p)
    \/ \E state \in {"ACTIVE", "BLOCKED"} : SetState(r, state)
    \/ Delete(r)

Spec == Init /\ [][Next]_bindings
=============================================================================
