------------------------ MODULE ConfirmationRateLimit ------------------------
(***************************************************************************)
(* The limit on failed confirmations of VkConfirmationService.  The bot    *)
(* starts one task per message, so several attempts of one VK account are  *)
(* served at once.  Each counts the failed attempts that the journal       *)
(* vk_logs holds for the account in the last Window time units, and a      *)
(* failed attempt adds its own row when its transaction commits.  What     *)
(* the attempt does in between is the subject of VkBinding.                *)
(***************************************************************************)
EXTENDS Integers, FiniteSets

CONSTANTS
  Peer,         \* VK accounts
  Worker,       \* attempts that can be served at the same time
  None,
  MaxAttempts,  \* vk_confirmation_max_attempts
  Window,       \* vk_confirmation_attempt_window_minutes
  MaxTime,      \* bound: the clock
  MaxReceived   \* bound: attempts received

ASSUME RateLimitAssumption ==
  /\ IsFiniteSet(Worker)
  /\ None \notin Peer
  /\ MaxAttempts \in Nat \ {0}
  /\ Window \in Nat \ {0}
  /\ MaxTime \in Nat
  /\ MaxReceived \in Nat

VARIABLES
  now,       \* the clock of the service and of the database
  journal,   \* committed vk_logs rows with a status of FAILED_STATUSES
  received,  \* attempts so far, also the id of the next row
  pc,        \* each worker: the next step of its attempt
  peer,      \* ... the account that sent it
  since,     \* ... the start of the window it counts in
  begun,     \* ... when its transaction began: created_at is now() of that moment
  id         \* ... the id its row will have

locals == <<pc, peer, since, begun, id>>
vars == <<now, journal, received, locals>>

Entry == [id : Nat, peer : Peer, at : Int]

Failures(p, t) == {e \in journal : e.peer = p /\ e.at >= t}

Init ==
  /\ now = 0
  /\ journal = {}
  /\ received = 0
  /\ pc = [w \in Worker |-> "idle"]
  /\ peer = [w \in Worker |-> None]
  /\ since = [w \in Worker |-> 0]
  /\ begun = [w \in Worker |-> 0]
  /\ id = [w \in Worker |-> 0]

Finish(w) ==
  /\ pc' = [pc EXCEPT ![w] = "idle"]
  /\ peer' = [peer EXCEPT ![w] = None]
  /\ since' = [since EXCEPT ![w] = 0]
  /\ begun' = [begun EXCEPT ![w] = 0]
  /\ id' = [id EXCEPT ![w] = 0]

\* A link command arrives; `since' is computed before the first statement.
Receive(w, p) ==
  /\ pc[w] = "idle"
  /\ received < MaxReceived
  /\ received' = received + 1
  /\ pc' = [pc EXCEPT ![w] = "count"]
  /\ peer' = [peer EXCEPT ![w] = p]
  /\ since' = [since EXCEPT ![w] = now - Window]
  /\ id' = [id EXCEPT ![w] = received]
  /\ UNCHANGED <<now, journal, begun>>

\* Faulty variant: > instead of >=.
LimitExceeded(w) == Cardinality(Failures(peer[w], since[w])) > MaxAttempts

\* count_failed_since is the first statement of the transaction.  A refused
\* attempt journals rate_limited, which is not one of FAILED_STATUSES.
LimitReached(w) == Cardinality(Failures(peer[w], since[w])) >= MaxAttempts

Admit(w) ==
  /\ pc[w] = "count"
  /\ ~LimitReached(w)
  /\ pc' = [pc EXCEPT ![w] = "admitted"]
  /\ begun' = [begun EXCEPT ![w] = now]
  /\ UNCHANGED <<now, journal, received, peer, since, id>>

Refuse(w) ==
  /\ pc[w] = "count"
  /\ LimitReached(w)
  /\ Finish(w)
  /\ UNCHANGED <<now, journal, received>>

\* confirm goes on to success, already_confirmed or error, none of which counts.
Pass(w) ==
  /\ pc[w] = "admitted"
  /\ Finish(w)
  /\ UNCHANGED <<now, journal, received>>

\* not_found, used, expired or peer_conflict.  After the unique violation of
\* activate the row belongs to a second transaction, begun later.
Fail(w) ==
  /\ pc[w] = "admitted"
  /\ pc' = [pc EXCEPT ![w] = "commit"]
  /\ \/ UNCHANGED begun
     \/ begun' = [begun EXCEPT ![w] = now]
  /\ UNCHANGED <<now, journal, received, peer, since, id>>

\* Faulty variant: log_action is not told the account.
CommitUnattributed(w) ==
  /\ pc[w] = "commit"
  /\ journal' = journal \cup {[id |-> id[w], peer |-> None, at |-> begun[w]]}
  /\ Finish(w)
  /\ UNCHANGED <<now, received>>

Commit(w) ==
  /\ pc[w] = "commit"
  /\ journal' = journal \cup {[id |-> id[w], peer |-> peer[w], at |-> begun[w]]}
  /\ Finish(w)
  /\ UNCHANGED <<now, received>>

\* The process stops, or the transaction is aborted.
Abandon(w) ==
  /\ pc[w] # "idle"
  /\ Finish(w)
  /\ UNCHANGED <<now, journal, received>>

Tick ==
  /\ now < MaxTime
  /\ now' = now + 1
  /\ UNCHANGED <<journal, received, locals>>

Next ==
  \/ \E w \in Worker :
       \/ \E p \in Peer : Receive(w, p)
       \/ Admit(w) \/ Refuse(w) \/ Pass(w) \/ Fail(w) \/ Commit(w) \/ Abandon(w)
  \/ Tick

Spec == Init /\ [][Next]_vars

-----------------------------------------------------------------------------

\* Every variable keeps its type.
TypeOK ==
  /\ now \in Nat
  /\ journal \in SUBSET Entry
  /\ IsFiniteSet(journal)
  /\ received \in Nat
  /\ pc \in [Worker -> {"idle", "count", "admitted", "commit"}]
  /\ peer \in [Worker -> Peer \cup {None}]
  /\ since \in [Worker -> Int]
  /\ begun \in [Worker -> Int]
  /\ id \in [Worker -> Nat]

\* Attempts of p that were let through and may still fail.
InFlight(p) == {w \in Worker : peer[w] = p /\ pc[w] \in {"admitted", "commit"}}

\* In no window of the configured length does an account get away with more
\* failed attempts than the limit and one for each other attempt being served:
\* those are the attempts that counted before a failure was committed.  The
\* limit alone holds for one attempt at a time.
FailuresBounded ==
  \A p \in Peer :
    Cardinality(Failures(p, now - Window)) <= MaxAttempts + Cardinality(Worker) - 1

(* What the documentation says and the code does not keep.                 *)

\* README: no more than MaxAttempts failed attempts of an account in a window.
\* Attempts that overlap all count before any of them commits its failure.
LimitIsExact ==
  \A p \in Peer : Cardinality(Failures(p, now - Window)) <= MaxAttempts
=============================================================================
