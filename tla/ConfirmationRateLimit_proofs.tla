-------------------- MODULE ConfirmationRateLimit_proofs --------------------
(* Proof that FailuresBounded holds for every number of workers, accounts  *)
(* and attempts.                                                           *)
EXTENDS ConfirmationRateLimit, FiniteSetTheorems, TLAPS

\* An attempt being served has an account, and the window it counts in began
\* no later than the current one.
Attempts ==
  \A w \in Worker :
    /\ pc[w] # "idle" => peer[w] \in Peer
    /\ pc[w] = "count" => since[w] <= now - Window

TypeInv == TypeOK /\ Attempts

\* FailuresBounded is not inductive: what counts is the failures of the window
\* together with the attempts that were let through and may still fail.  A
\* count that lets one more through saw fewer than MaxAttempts failures.
BudgetOf(p) ==
  Cardinality(Failures(p, now - Window)) + Cardinality(InFlight(p))
    <= MaxAttempts + Cardinality(Worker) - 1

Budget == \A p \in Peer : BudgetOf(p)

\* The steps that let nobody through and commit no failure.
Quiet == 
  \/ \E w \in Worker :
       \/ \E p \in Peer : Receive(w, p)
       \/ Refuse(w) \/ Pass(w) \/ Abandon(w) \/ Fail(w)
  \/ Tick
  \/ UNCHANGED vars

\* The initial state is typed: no attempt has arrived.
LEMMA InitTyped == Init => TypeInv
  BY FS_EmptySet DEF Init, TypeInv, TypeOK, Attempts

\* The types and what is known of an attempt are inductive: `since' is set to
\* the window's start and the clock only moves it further into the past.
LEMMA NextTyped == TypeInv /\ [Next]_vars => TypeInv'
<1> SUFFICES ASSUME TypeInv, [Next]_vars PROVE TypeInv'
  OBVIOUS
<1> USE RateLimitAssumption DEF TypeInv, TypeOK, Attempts, Entry
<1>1. ASSUME NEW w \in Worker, NEW p \in Peer, Receive(w, p) PROVE TypeInv'
  BY <1>1 DEF Receive
<1>2. ASSUME NEW w \in Worker, Admit(w) PROVE TypeInv'
  BY <1>2 DEF Admit
<1>3. ASSUME NEW w \in Worker, Refuse(w) \/ Pass(w) \/ Abandon(w) PROVE TypeInv'
  BY <1>3 DEF Refuse, Pass, Abandon, Finish
<1>4. ASSUME NEW w \in Worker, Fail(w) PROVE TypeInv'
  BY <1>4 DEF Fail
<1>5. ASSUME NEW w \in Worker, Commit(w) PROVE TypeInv'
  <2>1. IsFiniteSet(journal')
    BY <1>5, FS_AddElement DEF Commit
  <2> QED
    BY <1>5, <2>1 DEF Commit, Finish
<1>6. CASE Tick
  BY <1>6 DEF Tick, locals
<1>7. CASE UNCHANGED vars
  BY <1>7 DEF vars, locals
<1> QED
  BY <1>1, <1>2, <1>3, <1>4, <1>5, <1>6, <1>7 DEF Next

\* Failures of a window and attempts in flight are finite sets with sizes in
\* Nat, so they can be added and compared.
LEMMA Sizes ==
  ASSUME TypeInv, NEW p \in Peer, NEW t \in Int
  PROVE  /\ IsFiniteSet(Failures(p, t)) /\ Cardinality(Failures(p, t)) \in Nat
         /\ IsFiniteSet(InFlight(p)) /\ Cardinality(InFlight(p)) \in Nat
         /\ Cardinality(InFlight(p)) <= Cardinality(Worker)
         /\ Cardinality(Worker) \in Nat
<1>1. Failures(p, t) \in SUBSET journal /\ InFlight(p) \in SUBSET Worker
  BY DEF Failures, InFlight
<1> QED
  BY <1>1, RateLimitAssumption, FS_Subset, FS_CardinalityType DEF TypeInv, TypeOK

\* Nothing has failed and nobody is in flight at the start.
LEMMA InitBudget == Init => Budget
<1> SUFFICES ASSUME Init, NEW p \in Peer PROVE BudgetOf(p)
  BY DEF Budget
<1>1. Failures(p, now - Window) = {} /\ InFlight(p) = {}
  BY DEF Init, Failures, InFlight
<1>2. Cardinality(Worker) \in Nat
  BY RateLimitAssumption, FS_CardinalityType
<1> QED
  BY <1>1, <1>2, FS_EmptySet, RateLimitAssumption DEF BudgetOf

\* Letting an attempt through: it saw a window at least as long as the current
\* one with fewer than MaxAttempts failures, and no more than all workers fly.
LEMMA AdmitBudget ==
  ASSUME TypeInv, TypeInv', Budget, NEW w \in Worker, Admit(w)
  PROVE  Budget'
<1> SUFFICES ASSUME NEW p \in Peer PROVE BudgetOf(p)'
  BY DEF Budget
<1> USE DEF TypeInv, TypeOK, Attempts
<1>1. CASE p = peer[w]
  <2>1. since[w] \in Int /\ now - Window \in Int /\ now' = now /\ journal' = journal
    BY RateLimitAssumption DEF Admit
  <2>2. Failures(p, now - Window)' = Failures(p, now - Window)
    BY <2>1 DEF Failures
  <2>3. Failures(p, now - Window) \in SUBSET Failures(p, since[w])
    BY <2>1, RateLimitAssumption DEF Failures, Admit, Entry
  <2>4. Cardinality(Failures(p, now - Window)) <= Cardinality(Failures(p, since[w]))
    BY <2>1, <2>3, Sizes, FS_Subset
  <2>5. Cardinality(Failures(p, since[w])) < MaxAttempts
    BY <1>1, <2>1, Sizes, RateLimitAssumption DEF Admit, LimitReached
  <2>6. Cardinality(InFlight(p))' <= Cardinality(Worker) /\ Cardinality(InFlight(p))' \in Nat
    <3>1. InFlight(p)' \in SUBSET Worker
      BY DEF InFlight
    <3> QED
      BY <3>1, FS_Subset, FS_CardinalityType, RateLimitAssumption
  <2> QED
    BY <2>1, <2>2, <2>4, <2>5, <2>6, Sizes, RateLimitAssumption DEF BudgetOf
<1>2. CASE p # peer[w]
  <2>1. InFlight(p)' = InFlight(p) /\ Failures(p, now - Window)' = Failures(p, now - Window)
    BY <1>2 DEF Admit, InFlight, Failures
  <2> QED
    BY <2>1 DEF Budget, BudgetOf
<1> QED
  BY <1>1, <1>2

\* Committing a failure moves one attempt from the flight to the journal.
LEMMA CommitBudget ==
  ASSUME TypeInv, TypeInv', Budget, NEW w \in Worker, Commit(w)
  PROVE  Budget'
<1> SUFFICES ASSUME NEW p \in Peer PROVE BudgetOf(p)'
  BY DEF Budget
<1> DEFINE row == [id |-> id[w], peer |-> peer[w], at |-> begun[w]]
<1> USE DEF TypeInv, TypeOK, Attempts
<1>0. now - Window \in Int /\ now' = now
  BY RateLimitAssumption DEF Commit
<1>1. CASE p = peer[w]
  <2>1. InFlight(p)' = InFlight(p) \ {w} /\ w \in InFlight(p)
    BY <1>1 DEF Commit, Finish, InFlight
  <2>2. Cardinality(InFlight(p)') = Cardinality(InFlight(p)) - 1
    <3>1. IsFiniteSet(InFlight(p))
      BY <1>0, Sizes
    <3> QED
      BY <2>1, <3>1, FS_RemoveElement
  <2>3. Failures(p, now - Window)' \in SUBSET (Failures(p, now - Window) \cup {row})
    BY <1>0 DEF Commit, Failures
  <2>4. /\ IsFiniteSet(Failures(p, now - Window) \cup {row})
        /\ Cardinality(Failures(p, now - Window) \cup {row})
             <= Cardinality(Failures(p, now - Window)) + 1
    <3>1. /\ IsFiniteSet(Failures(p, now - Window))
          /\ Cardinality(Failures(p, now - Window)) \in Nat
      BY <1>0, Sizes
    <3>2. /\ IsFiniteSet(Failures(p, now - Window) \cup {row})
          /\ \/ Cardinality(Failures(p, now - Window) \cup {row})
                  = Cardinality(Failures(p, now - Window))
             \/ Cardinality(Failures(p, now - Window) \cup {row})
                  = Cardinality(Failures(p, now - Window)) + 1
      BY <3>1, FS_AddElement, Zenon
    <3> QED
      BY <3>1, <3>2
  <2>5. Cardinality(Failures(p, now - Window)') <= Cardinality(Failures(p, now - Window)) + 1
    <3>1. /\ IsFiniteSet(Failures(p, now - Window)')
          /\ Cardinality(Failures(p, now - Window)')
               <= Cardinality(Failures(p, now - Window) \cup {row})
      BY <2>3, <2>4, FS_Subset
    <3>2. /\ Cardinality(Failures(p, now - Window)') \in Nat
          /\ Cardinality(Failures(p, now - Window) \cup {row}) \in Nat
          /\ Cardinality(Failures(p, now - Window)) \in Nat
      BY <1>0, <3>1, <2>4, Sizes, FS_CardinalityType
    <3> QED
      BY <3>1, <3>2, <2>4
  <2>6. Cardinality(Failures(p, now - Window)') \in Nat
    BY <2>3, <2>4, FS_Subset, FS_CardinalityType
  <2> QED
    BY <1>0, <2>2, <2>5, <2>6, Sizes, RateLimitAssumption DEF Budget, BudgetOf
<1>2. CASE p # peer[w]
  <2>1. InFlight(p)' = InFlight(p) /\ Failures(p, now - Window)' = Failures(p, now - Window)
    BY <1>2, <1>0 DEF Commit, Finish, InFlight, Failures
  <2> QED
    BY <2>1 DEF Budget, BudgetOf
<1> QED
  BY <1>1, <1>2

\* Every other step lets nobody through, and time only shortens the window.
LEMMA QuietBudget == TypeInv /\ TypeInv' /\ Budget /\ Quiet => Budget'
<1> SUFFICES ASSUME TypeInv, TypeInv', Budget, Quiet, NEW p \in Peer PROVE BudgetOf(p)'
  BY DEF Budget
<1> USE DEF TypeInv, TypeOK, Attempts
<1>1. now \in Int /\ now' \in Int /\ now - Window \in Int /\ now <= now' /\ journal' = journal
  BY RateLimitAssumption DEF Quiet, Receive, Refuse, Pass, Abandon, Fail, Tick, vars
<1>2. Failures(p, now - Window)' \in SUBSET Failures(p, now - Window)
  BY <1>1, RateLimitAssumption DEF Failures, Entry
<1>3. InFlight(p)' \in SUBSET InFlight(p)
  BY DEF Quiet, InFlight, Receive, Refuse, Pass, Abandon, Fail, Tick, Finish, vars, locals
<1>4. /\ Cardinality(Failures(p, now - Window)') \in Nat
      /\ Cardinality(Failures(p, now - Window)') <= Cardinality(Failures(p, now - Window))
  BY <1>1, <1>2, Sizes, FS_Subset, FS_CardinalityType
<1>5. /\ Cardinality(InFlight(p)') \in Nat
      /\ Cardinality(InFlight(p)') <= Cardinality(InFlight(p))
  BY <1>1, <1>3, Sizes, FS_Subset, FS_CardinalityType
<1> QED
  BY <1>1, <1>4, <1>5, Sizes, RateLimitAssumption DEF Budget, BudgetOf

\* The budget of failures and attempts in flight is inductive.
LEMMA NextBudget == TypeInv /\ TypeInv' /\ Budget /\ [Next]_vars => Budget'
<1> SUFFICES ASSUME TypeInv, TypeInv', Budget, [Next]_vars PROVE Budget'
  OBVIOUS
<1>1. ASSUME NEW w \in Worker, Admit(w) PROVE Budget'
  BY <1>1, AdmitBudget
<1>2. ASSUME NEW w \in Worker, Commit(w) PROVE Budget'
  BY <1>2, CommitBudget
<1>3. CASE Quiet
  BY <1>3, QuietBudget
<1> QED
  BY <1>1, <1>2, <1>3 DEF Next, Quiet

\* Every step of the attempts and of the clock keeps the types.
THEOREM TypeCorrect == Spec => []TypeOK
<1>1. TypeInv => TypeOK
  BY DEF TypeInv
<1> QED
  BY <1>1, InitTyped, NextTyped, PTL DEF Spec

\* An account never has more failed attempts in a window than the limit and
\* one for each other attempt that can be served at the same time.
THEOREM FailuresAreBounded == Spec => []FailuresBounded
<1>1. TypeInv /\ Budget => FailuresBounded
  <2> SUFFICES ASSUME TypeInv, Budget, NEW p \in Peer
               PROVE  Cardinality(Failures(p, now - Window))
                        <= MaxAttempts + Cardinality(Worker) - 1
    BY DEF FailuresBounded
  <2>1. now - Window \in Int
    BY RateLimitAssumption DEF TypeInv, TypeOK
  <2> QED
    BY <2>1, Sizes, RateLimitAssumption DEF Budget, BudgetOf
<1> QED
  BY <1>1, InitTyped, NextTyped, InitBudget, NextBudget, PTL DEF Spec
=============================================================================
