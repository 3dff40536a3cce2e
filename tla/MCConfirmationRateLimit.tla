----------------------- MODULE MCConfirmationRateLimit -----------------------
(* ConfirmationRateLimit on small sets. *)
EXTENDS ConfirmationRateLimit, TLC

\* No definition names or orders an account or a worker.
Symmetry == Permutations(Peer) \cup Permutations(Worker)
=============================================================================
