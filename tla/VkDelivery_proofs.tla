-------------------------- MODULE VkDelivery_proofs --------------------------
(* Delivery for any number of consumers, commands, events and recipients:   *)
(* what a row of the ledger says is true, and SENT is said for good.        *)
EXTENDS VkDelivery, TLAPS, WellFoundedInduction

-----------------------------------------------------------------------------
(* Types.                                                                  *)

\* Statements of the loop of deliver, which has a row in hand.
InLoop == {"claim", "send", "marksent", "markfailed"}

\* A consumer in the loop has a message and a recipient left; at the end of
\* deliver and afterwards it has the message.
HasMessage ==
  \A c \in Consumer :
    /\ pc[c] \in InLoop \cup {"commit", "ack", "nak"} => current[c] \in Message
    /\ pc[c] \in InLoop =>
         todo[c] # {} /\ todo[c] \subseteq DOMAIN UsersOf[current[c]]

\* A message that is offered has a delivery left.
OfferedIsLeft == \A m \in Message : queue[m] = "ready" => delivered[m] < MaxDeliver

TypeInv == TypeOK /\ HasMessage /\ OfferedIsLeft

ServerTyped ==
  /\ queue \in [Message -> QueueState]
  /\ delivered \in [Message -> 0..MaxDeliver]
  /\ OfferedIsLeft

DatabaseTyped ==
  /\ ledger \in [Key -> RowStatus \cup {None}]
  /\ lock \in [Key -> Consumer \cup {None}]
  /\ draft \in [Consumer -> [Key -> RowStatus \cup {None}]]

TasksTyped ==
  /\ pc \in [Consumer -> Label]
  /\ inbox \in [Consumer -> SUBSET Message]
  /\ current \in [Consumer -> Message \cup {None}]
  /\ active \in [Consumer -> SUBSET User]
  /\ todo \in [Consumer -> SUBSET Nat]
  /\ failed \in [Consumer -> BOOLEAN]
  /\ HasMessage

RestTyped ==
  /\ linked \in SUBSET User
  /\ accepted \in [Key -> Nat]
  /\ faults \in 0..MaxFaults

LEMMA TypeParts == TypeInv <=> ServerTyped /\ DatabaseTyped /\ TasksTyped /\ RestTyped
  BY DEF TypeInv, TypeOK, ServerTyped, DatabaseTyped, TasksTyped, RestTyped

LEMMA TypePartsNext ==
  ServerTyped' /\ DatabaseTyped' /\ TasksTyped' /\ RestTyped' => TypeInv'
  BY DEF TypeInv, TypeOK, ServerTyped, DatabaseTyped, TasksTyped, RestTyped

\* There is a first position among those that are left.
LEMMA FirstPosition ==
  ASSUME NEW S \in SUBSET Nat, S # {}
  PROVE  \E i \in S : \A j \in S : i <= j
<1>1. PICK i \in S : \A j \in S : ~(<<j, i>> \in OpToRel(<, Nat))
  BY NatLessThanWellFounded, WFMin, Zenon
<1>2. \A j \in S : ~(j < i)
  BY <1>1, Zenon DEF OpToRel
<1> QED
  BY <1>2

\* The recipients of a command are users.
LEMMA UsersTyped ==
  ASSUME NEW m \in Message
  PROVE  /\ DOMAIN UsersOf[m] \subseteq Nat
         /\ \A i \in DOMAIN UsersOf[m] : UsersOf[m][i] \in User
<1>1. UsersOf[m] \in Seq(User)
  BY DeliveryAssumption
<1> QED
  BY <1>1

\* The row in hand is a row of the ledger, and its position is one that is left.
LEMMA CurrentTyped ==
  ASSUME TypeInv, NEW c \in Consumer, pc[c] \in InLoop
  PROVE  /\ current[c] \in Message
         /\ Position(c) \in todo[c]
         /\ CurrentKey(c) \in Key
<1>1. current[c] \in Message /\ todo[c] # {} /\ todo[c] \subseteq DOMAIN UsersOf[current[c]]
  BY DEF TypeInv, HasMessage
<1>2. todo[c] \in SUBSET Nat
  BY <1>1, UsersTyped
<1>3. Position(c) \in todo[c]
  BY <1>1, <1>2, FirstPosition DEF Position
<1>4. UsersOf[current[c]][Position(c)] \in User /\ EventOf[current[c]] \in Event
  BY <1>1, <1>3, UsersTyped, DeliveryAssumption
<1> QED
  BY <1>1, <1>3, <1>4 DEF CurrentKey, Key

\* A message that comes back keeps the queue typed.
LEMMA ReturnTyped ==
  ASSUME ServerTyped, NEW m \in Message, UNCHANGED delivered,
         queue' = [queue EXCEPT ![m] = Returned(m)]
  PROVE  ServerTyped'
<1>1. Returned(m) \in QueueState /\ (Returned(m) = "ready" => delivered[m] < MaxDeliver)
  BY DEF Returned, QueueState
<1>2. queue' \in [Message -> QueueState]
  BY <1>1 DEF ServerTyped
<1>3. OfferedIsLeft'
  BY <1>1 DEF ServerTyped, OfferedIsLeft
<1> QED
  BY <1>2, <1>3 DEF ServerTyped

LEMMA FetchServerTyped ==
  ASSUME ServerTyped, NEW batch \in SUBSET {m \in Message : queue[m] = "ready"},
         queue' = [m \in Message |-> IF m \in batch THEN "outstanding" ELSE queue[m]],
         delivered' = [m \in Message |-> delivered[m] + (IF m \in batch THEN 1 ELSE 0)]
  PROVE  ServerTyped'
<1>1. queue' \in [Message -> QueueState]
  BY DEF ServerTyped, QueueState
<1>2. ASSUME NEW m \in Message PROVE delivered'[m] \in 0..MaxDeliver
  <2>1. delivered[m] \in 0..MaxDeliver /\ MaxDeliver \in Nat
    BY DeliveryAssumption DEF ServerTyped
  <2>2. m \in batch => delivered[m] < MaxDeliver
    BY DEF ServerTyped, OfferedIsLeft
  <2> QED
    BY <2>1, <2>2
<1>3. OfferedIsLeft'
  <2> SUFFICES ASSUME NEW m \in Message, queue'[m] = "ready" PROVE delivered'[m] < MaxDeliver
    BY DEF OfferedIsLeft
  <2>1. m \notin batch /\ queue[m] = "ready" /\ delivered[m] \in 0..MaxDeliver
    BY DEF ServerTyped
  <2> QED
    BY <2>1 DEF ServerTyped, OfferedIsLeft
<1> QED
  BY <1>1, <1>2, <1>3 DEF ServerTyped

\* Every step keeps the queue typed.
LEMMA StepServerTyped == TypeInv /\ [Next]_vars => ServerTyped'
<1> SUFFICES ASSUME TypeInv, [Next]_vars PROVE ServerTyped'
  OBVIOUS
<1>0. ServerTyped
  BY TypeParts
<1>1. CASE UNCHANGED server
  BY <1>0, <1>1 DEF server, ServerTyped, OfferedIsLeft
<1>2. ASSUME NEW c \in Consumer, Fetch(c) PROVE ServerTyped'
  BY <1>0, <1>2, FetchServerTyped DEF Fetch
<1>3. ASSUME NEW m \in Message, AckWaitExpires(m) PROVE ServerTyped'
  BY <1>0, <1>3, ReturnTyped DEF AckWaitExpires
<1>4. ASSUME NEW c \in Consumer, Ack(c) PROVE ServerTyped'
  <2>1. current[c] \in Message
    BY <1>4 DEF Ack, TypeInv, HasMessage
  <2>2. queue'[current[c]] \in {"exhausted", "acked"} /\ UNCHANGED delivered
        /\ queue' = [queue EXCEPT ![current[c]] = queue'[current[c]]]
    BY <1>0, <1>4, <2>1 DEF Ack, ServerTyped
  <2> QED
    BY <1>0, <2>1, <2>2 DEF ServerTyped, OfferedIsLeft, QueueState
<1>5. ASSUME NEW c \in Consumer, Nak(c) PROVE ServerTyped'
  <2>1. current[c] \in Message
    BY <1>5 DEF Nak, TypeInv, HasMessage
  <2>2. CASE queue[current[c]] = "outstanding"
    BY <1>0, <1>5, <2>1, <2>2, ReturnTyped DEF Nak
  <2>3. CASE queue[current[c]] # "outstanding"
    BY <1>0, <1>1, <1>5, <2>1, <2>3 DEF Nak, server, ServerTyped
  <2> QED
    BY <2>2, <2>3
<1>6. ASSUME NEW c \in Consumer,
             \/ Begin(c) \/ Claim(c) \/ Send(c) \/ MarkSent(c) \/ MarkFailed(c) \/ Commit(c)
             \/ DeadlockVictim(c) \/ StatementFails(c) \/ TaskDies(c) \/ Restart(c)
      PROVE  UNCHANGED server
  BY <1>6 DEF Begin, Claim, Send, MarkSent, MarkFailed, Commit, DeadlockVictim, StatementFails,
              TaskDies, Restart
<1>7. ASSUME NEW u \in User, BindingChanges(u) PROVE UNCHANGED server
  BY <1>7 DEF BindingChanges
<1> QED
  BY <1>1, <1>2, <1>3, <1>4, <1>5, <1>6, <1>7 DEF Next, Step, vars

\* Writing a row keeps the database typed, and so does the end of a transaction.
LEMMA WriteTyped ==
  ASSUME DatabaseTyped, NEW c \in Consumer, NEW k \in Key, NEW status \in RowStatus,
         Write(c, k, status), UNCHANGED <<ledger, lock>>
  PROVE  DatabaseTyped'
  BY DEF Write, DatabaseTyped

LEMMA LockTyped ==
  ASSUME DatabaseTyped, NEW c \in Consumer, NEW k \in Key, lock' = [lock EXCEPT ![k] = c],
         UNCHANGED <<ledger>>,
         UNCHANGED draft \/ Write(c, k, "PENDING")
  PROVE  DatabaseTyped'
<1>1. lock' \in [Key -> Consumer \cup {None}]
  BY DEF DatabaseTyped
<1>2. draft' \in [Consumer -> [Key -> RowStatus \cup {None}]]
  BY DEF DatabaseTyped, Write, RowStatus
<1> QED
  BY <1>1, <1>2 DEF DatabaseTyped

LEMMA ReleaseTyped ==
  ASSUME DatabaseTyped, NEW c \in Consumer, Release(c),
         ledger' = ledger \/ ledger' = [k \in Key |-> RowFor(c, k)]
  PROVE  DatabaseTyped'
<1>1. NoDraft \in [Key -> RowStatus \cup {None}]
  BY DEF NoDraft
<1>2. draft' \in [Consumer -> [Key -> RowStatus \cup {None}]]
  BY <1>1 DEF DatabaseTyped, Release
<1>3. lock' \in [Key -> Consumer \cup {None}]
  BY DEF DatabaseTyped, Release
<1>4. \A k \in Key : RowFor(c, k) \in RowStatus \cup {None}
  BY DEF DatabaseTyped, RowFor
<1>5. ledger' \in [Key -> RowStatus \cup {None}]
  BY <1>4 DEF DatabaseTyped
<1> QED
  BY <1>2, <1>3, <1>5 DEF DatabaseTyped

\* Every step keeps the database typed.
LEMMA StepDatabaseTyped == TypeInv /\ [Next]_vars => DatabaseTyped'
<1> SUFFICES ASSUME TypeInv, [Next]_vars PROVE DatabaseTyped'
  OBVIOUS
<1>0. DatabaseTyped
  BY TypeParts
<1>1. CASE UNCHANGED database
  BY <1>0, <1>1 DEF database, DatabaseTyped
<1>2. ASSUME NEW c \in Consumer, Claim(c) PROVE DatabaseTyped'
  BY <1>0, <1>2, CurrentTyped, LockTyped DEF Claim, InLoop
<1>3. ASSUME NEW c \in Consumer, MarkSent(c) \/ MarkFailed(c) PROVE DatabaseTyped'
  BY <1>0, <1>3, CurrentTyped, WriteTyped DEF MarkSent, MarkFailed, InLoop, RowStatus
<1>4. ASSUME NEW c \in Consumer,
             Commit(c) \/ DeadlockVictim(c) \/ StatementFails(c) \/ Restart(c)
      PROVE  DatabaseTyped'
  BY <1>0, <1>4, ReleaseTyped DEF Commit, DeadlockVictim, StatementFails, Restart, Undo
<1>5. ASSUME NEW c \in Consumer,
             Fetch(c) \/ Begin(c) \/ Send(c) \/ Ack(c) \/ Nak(c) \/ TaskDies(c)
      PROVE  UNCHANGED database
  BY <1>5 DEF Fetch, Begin, Send, Ack, Nak, TaskDies
<1>6. ASSUME NEW m \in Message, AckWaitExpires(m) PROVE UNCHANGED database
  BY <1>6 DEF AckWaitExpires
<1>7. ASSUME NEW u \in User, BindingChanges(u) PROVE UNCHANGED database
  BY <1>7 DEF BindingChanges
<1> QED
  BY <1>1, <1>2, <1>3, <1>4, <1>5, <1>6, <1>7 DEF Next, Step, vars

-----------------------------------------------------------------------------

\* A consumer that only moves to another statement keeps the tasks typed, when
\* it has come to a message before a statement that needs one.
LEMMA GotoTyped ==
  ASSUME TasksTyped, NEW c \in Consumer, NEW label \in Label, Goto(c, label),
         UNCHANGED <<inbox, current, locals>>,
         label \in InLoop => pc[c] \in InLoop,
         label \in {"commit", "ack", "nak"} => pc[c] \in InLoop \cup {"commit", "ack", "nak"}
  PROVE  TasksTyped'
<1>1. pc' \in [Consumer -> Label] /\ pc'[c] = label /\ \A d \in Consumer \ {c} : pc'[d] = pc[d]
  BY DEF Goto, TasksTyped
<1>2. HasMessage'
  BY <1>1 DEF TasksTyped, HasMessage, locals
<1> QED
  BY <1>1, <1>2 DEF TasksTyped, locals

\* The loop goes on with a recipient that is left, or ends with none.
LEMMA ContinueTyped ==
  ASSUME TypeInv, NEW c \in Consumer, pc[c] \in InLoop, Continue(c),
         UNCHANGED <<inbox, current, active>>,
         UNCHANGED failed \/ failed' = [failed EXCEPT ![c] = TRUE]
  PROVE  TasksTyped'
<1> DEFINE rest == todo[c] \ {Position(c)}
<1>0. TasksTyped
  BY TypeParts
<1>1. pc' = [pc EXCEPT ![c] = IF rest = {} THEN "commit" ELSE "claim"]
      /\ todo' = [todo EXCEPT ![c] = rest]
  BY DEF Continue, Goto
<1>2. pc' \in [Consumer -> Label] /\ todo' \in [Consumer -> SUBSET Nat]
  <2>1. rest \in SUBSET Nat
    BY <1>0 DEF TasksTyped
  <2>2. (IF rest = {} THEN "commit" ELSE "claim") \in Label
    BY DEF Label
  <2> HIDE DEF rest
  <2> QED
    BY <1>0, <1>1, <2>1, <2>2 DEF TasksTyped
<1>3. failed' \in [Consumer -> BOOLEAN]
  BY <1>0 DEF TasksTyped
<1>4. rest \subseteq DOMAIN UsersOf[current[c]] /\ current[c] \in Message
  BY <1>0 DEF TasksTyped, HasMessage
<1>5. HasMessage'
  <2> SUFFICES ASSUME NEW d \in Consumer
               PROVE  /\ pc'[d] \in InLoop \cup {"commit", "ack", "nak"} => current[d] \in Message
                      /\ pc'[d] \in InLoop =>
                           todo'[d] # {} /\ todo'[d] \subseteq DOMAIN UsersOf[current[d]]
    BY DEF HasMessage
  <2>1. CASE d = c
    <3>1. todo'[c] = rest /\ pc'[c] = IF rest = {} THEN "commit" ELSE "claim"
      BY <1>0, <1>1 DEF TasksTyped
    <3> QED
      BY <1>4, <2>1, <3>1 DEF InLoop
  <2>2. CASE d # c
    <3>1. todo'[d] = todo[d] /\ pc'[d] = pc[d]
      BY <1>0, <1>1, <2>2 DEF TasksTyped
    <3> QED
      BY <1>0, <3>1 DEF TasksTyped, HasMessage
  <2> QED
    BY <2>1, <2>2
<1> QED
  BY <1>0, <1>2, <1>3, <1>5 DEF TasksTyped

\* The consumer is done with its message.
LEMMA SettledTyped ==
  ASSUME TasksTyped, NEW c \in Consumer, NEW label \in {"fetch", "begin", "dead"},
         Goto(c, label), Settled(c),
         UNCHANGED inbox \/ inbox' = [inbox EXCEPT ![c] = {}]
  PROVE  TasksTyped'
<1>1. pc' \in [Consumer -> Label] /\ pc'[c] = label /\ \A d \in Consumer \ {c} : pc'[d] = pc[d]
  BY DEF Goto, TasksTyped, Label
<1>2. /\ current' \in [Consumer -> Message \cup {None}]
      /\ \A d \in Consumer \ {c} : current'[d] = current[d] /\ todo'[d] = todo[d]
  BY DEF Settled, TasksTyped
<1>3. todo' \in [Consumer -> SUBSET Nat] /\ active' \in [Consumer -> SUBSET User]
  BY DEF Settled, TasksTyped
<1>4. failed' \in [Consumer -> BOOLEAN]
  BY DEF Settled, TasksTyped
<1>5. inbox' \in [Consumer -> SUBSET Message]
  BY DEF TasksTyped
<1>6. HasMessage'
  BY <1>1, <1>2 DEF TasksTyped, HasMessage, InLoop
<1> QED
  BY <1>1, <1>2, <1>3, <1>4, <1>5, <1>6 DEF TasksTyped

\* The handler takes a message.
LEMMA BeginTyped ==
  ASSUME TasksTyped, NEW c \in Consumer, Begin(c)
  PROVE  TasksTyped'
<1>1. PICK m \in inbox[c] :
        /\ inbox' = [inbox EXCEPT ![c] = @ \ {m}]
        /\ current' = [current EXCEPT ![c] = m]
        /\ \/ Goto(c, "nak") /\ UNCHANGED locals
           \/ /\ LET eligible == {i \in DOMAIN UsersOf[m] : UsersOf[m][i] \in linked}
                 IN /\ todo' = [todo EXCEPT ![c] = eligible]
                    /\ Goto(c, IF eligible = {} THEN "commit" ELSE "claim")
              /\ active' = [active EXCEPT ![c] = Users(m) \cap linked]
              /\ UNCHANGED failed
  BY DEF Begin
<1>2. m \in Message
  BY DEF TasksTyped
<1>3. inbox' \in [Consumer -> SUBSET Message] /\ current' \in [Consumer -> Message \cup {None}]
  BY <1>1, <1>2 DEF TasksTyped
<1>4. current'[c] = m /\ \A d \in Consumer \ {c} : current'[d] = current[d]
  BY <1>1 DEF TasksTyped
<1>5. CASE Goto(c, "nak") /\ UNCHANGED locals
  <2>1. pc' \in [Consumer -> Label] /\ pc'[c] = "nak" /\ \A d \in Consumer \ {c} : pc'[d] = pc[d]
    BY <1>5 DEF Goto, TasksTyped, Label
  <2>2. HasMessage'
    BY <1>2, <1>4, <1>5, <2>1 DEF TasksTyped, HasMessage, InLoop, locals
  <2> QED
    BY <1>3, <1>5, <2>1, <2>2 DEF TasksTyped, locals
<1>6. ASSUME NEW eligible \in SUBSET DOMAIN UsersOf[m], todo' = [todo EXCEPT ![c] = eligible],
             Goto(c, IF eligible = {} THEN "commit" ELSE "claim"),
             active' = [active EXCEPT ![c] = Users(m) \cap linked], UNCHANGED failed
      PROVE  TasksTyped'
  <2>1. (IF eligible = {} THEN "commit" ELSE "claim") \in Label
    BY DEF Label
  <2>2. /\ pc' \in [Consumer -> Label]
        /\ pc'[c] = IF eligible = {} THEN "commit" ELSE "claim"
        /\ \A d \in Consumer \ {c} : pc'[d] = pc[d]
    BY <1>6, <2>1 DEF Goto, TasksTyped
  <2>3. /\ todo' \in [Consumer -> SUBSET Nat]
        /\ todo'[c] = eligible
        /\ \A d \in Consumer \ {c} : todo'[d] = todo[d]
    BY <1>2, <1>6, UsersTyped DEF TasksTyped
  <2>4. active' \in [Consumer -> SUBSET User]
    <3>1. Users(m) \subseteq User
      BY <1>2, UsersTyped DEF Users
    <3> QED
      BY <1>6, <3>1 DEF TasksTyped
  <2>5. HasMessage'
    BY <1>2, <1>4, <2>2, <2>3 DEF TasksTyped, HasMessage, InLoop
  <2> QED
    BY <1>3, <1>6, <2>2, <2>3, <2>4, <2>5 DEF TasksTyped
<1> QED
  <2> DEFINE eligible == {i \in DOMAIN UsersOf[m] : UsersOf[m][i] \in linked}
  <2>1. eligible \in SUBSET DOMAIN UsersOf[m]
    OBVIOUS
  <2>2. \/ Goto(c, "nak") /\ UNCHANGED locals
        \/ /\ todo' = [todo EXCEPT ![c] = eligible]
           /\ Goto(c, IF eligible = {} THEN "commit" ELSE "claim")
           /\ active' = [active EXCEPT ![c] = Users(m) \cap linked]
           /\ UNCHANGED failed
    BY <1>1
  <2> HIDE DEF eligible
  <2> QED
    BY <1>5, <1>6, <2>1, <2>2

\* Every step keeps the tasks typed.
LEMMA StepTasksTyped == TypeInv /\ [Next]_vars => TasksTyped'
<1> SUFFICES ASSUME TypeInv, [Next]_vars PROVE TasksTyped'
  OBVIOUS
<1>0. TasksTyped
  BY TypeParts
<1>1. CASE UNCHANGED <<pc, inbox, current, locals>>
  BY <1>0, <1>1 DEF TasksTyped, HasMessage, locals
<1>2. ASSUME NEW c \in Consumer, Fetch(c) PROVE TasksTyped'
  <2>1. inbox' \in [Consumer -> SUBSET Message]
    BY <1>0, <1>2 DEF Fetch, TasksTyped
  <2>2. pc' \in [Consumer -> Label] /\ pc'[c] = "begin"
        /\ \A d \in Consumer \ {c} : pc'[d] = pc[d]
    BY <1>0, <1>2 DEF Fetch, Goto, TasksTyped, Label
  <2>3. UNCHANGED <<current, locals>>
    BY <1>2 DEF Fetch
  <2>4. HasMessage'
    BY <1>0, <2>2, <2>3 DEF TasksTyped, HasMessage, InLoop, locals
  <2> QED
    BY <1>0, <2>1, <2>2, <2>3, <2>4 DEF TasksTyped, locals
<1>3. ASSUME NEW c \in Consumer, Begin(c) PROVE TasksTyped'
  BY <1>0, <1>3, BeginTyped
<1>4. ASSUME NEW c \in Consumer, Claim(c) PROVE TasksTyped'
  <2>1. CASE Continue(c)
    BY <1>4, <2>1, ContinueTyped DEF Claim, InLoop
  <2>2. CASE Goto(c, "send") /\ UNCHANGED todo
    BY <1>0, <1>4, <2>2, GotoTyped DEF Claim, InLoop, Label, locals
  <2> QED
    BY <1>4, <2>1, <2>2 DEF Claim
<1>5. ASSUME NEW c \in Consumer, Send(c) PROVE TasksTyped'
  BY <1>0, <1>5, GotoTyped DEF Send, InLoop, Label
<1>6. ASSUME NEW c \in Consumer, MarkSent(c) \/ MarkFailed(c) PROVE TasksTyped'
  BY <1>6, ContinueTyped DEF MarkSent, MarkFailed, InLoop
<1>7. ASSUME NEW c \in Consumer, Commit(c) PROVE TasksTyped'
  <2>1. PICK label \in {"ack", "nak"} : Goto(c, label)
    BY <1>7 DEF Commit
  <2> QED
    BY <1>0, <1>7, <2>1, GotoTyped DEF Commit, InLoop, Label
<1>8. ASSUME NEW c \in Consumer, DeadlockVictim(c) \/ StatementFails(c) PROVE TasksTyped'
  <2>1. pc[c] \in InLoop \cup {"commit"}
    BY <1>8 DEF DeadlockVictim, InWaitCycle, WaitsFor, StatementFails, InLoop
  <2> QED
    BY <1>0, <1>8, <2>1, GotoTyped DEF DeadlockVictim, StatementFails, InLoop, Label
<1>9. ASSUME NEW c \in Consumer, Ack(c) \/ Nak(c) PROVE TasksTyped'
  <2>1. PICK label \in {"fetch", "begin"} : Goto(c, label)
    BY <1>9 DEF Ack, Nak, NextMessage
  <2> QED
    BY <1>0, <1>9, <2>1, SettledTyped DEF Ack, Nak
<1>10. ASSUME NEW c \in Consumer, TaskDies(c) \/ Restart(c) PROVE TasksTyped'
  BY <1>0, <1>10, SettledTyped DEF TaskDies, Restart
<1>11. ASSUME NEW m \in Message, AckWaitExpires(m) PROVE UNCHANGED <<pc, inbox, current, locals>>
  BY <1>11 DEF AckWaitExpires
<1>12. ASSUME NEW u \in User, BindingChanges(u) PROVE UNCHANGED <<pc, inbox, current, locals>>
  BY <1>12 DEF BindingChanges
<1> QED
  BY <1>1, <1>2, <1>3, <1>4, <1>5, <1>6, <1>7, <1>8, <1>9, <1>10, <1>11, <1>12
     DEF Next, Step, vars

\* Every step keeps the bindings, the history and the bound typed.
LEMMA StepRestTyped == TypeInv /\ [Next]_vars => RestTyped'
<1> SUFFICES ASSUME TypeInv, [Next]_vars PROVE RestTyped'
  OBVIOUS
<1>0. RestTyped /\ MaxFaults \in Nat
  BY TypeParts, DeliveryAssumption
<1>1. ASSUME NoFault \/ Fault PROVE faults' \in 0..MaxFaults
  BY <1>0, <1>1 DEF NoFault, Fault, RestTyped
<1>2. CASE UNCHANGED <<linked, accepted>> /\ (NoFault \/ Fault)
  BY <1>0, <1>1, <1>2 DEF RestTyped
<1>3. ASSUME NEW c \in Consumer, Send(c) PROVE RestTyped'
  <2>1. CurrentKey(c) \in Key
    BY <1>3, CurrentTyped DEF Send, InLoop
  <2>2. accepted' \in [Key -> Nat]
    BY <1>0, <1>3, <2>1 DEF Send, RestTyped
  <2> QED
    BY <1>0, <1>1, <1>3, <2>2 DEF Send, RestTyped
<1>4. ASSUME NEW u \in User, BindingChanges(u) PROVE RestTyped'
  BY <1>0, <1>4 DEF BindingChanges, RestTyped
<1>5. ASSUME NEW c \in Consumer,
             \/ Fetch(c) \/ Begin(c) \/ Claim(c) \/ MarkSent(c) \/ MarkFailed(c) \/ Commit(c)
             \/ DeadlockVictim(c) \/ Ack(c) \/ Nak(c)
             \/ StatementFails(c) \/ TaskDies(c) \/ Restart(c)
      PROVE  UNCHANGED <<linked, accepted>> /\ (NoFault \/ Fault)
  BY <1>5 DEF Fetch, Begin, Claim, MarkSent, MarkFailed, Commit, DeadlockVictim, Ack, Nak,
              StatementFails, TaskDies, Restart, NoFault
<1>6. ASSUME NEW m \in Message, AckWaitExpires(m)
      PROVE  UNCHANGED <<linked, accepted>> /\ (NoFault \/ Fault)
  BY <1>6 DEF AckWaitExpires, NoFault
<1>7. CASE UNCHANGED vars
  BY <1>2, <1>7 DEF vars, NoFault
<1> QED
  BY <1>2, <1>3, <1>4, <1>5, <1>6, <1>7 DEF Next, Step

\* The types hold at the start.
LEMMA InitTyped == Init => TypeInv
<1> SUFFICES ASSUME Init PROVE TypeInv
  OBVIOUS
<1>1. ServerTyped
  BY DeliveryAssumption DEF Init, ServerTyped, OfferedIsLeft, QueueState
<1>2. DatabaseTyped
  BY DEF Init, DatabaseTyped, NoDraft
<1>3. TasksTyped
  BY DEF Init, TasksTyped, HasMessage, InLoop, Label
<1>4. RestTyped
  BY DeliveryAssumption DEF Init, RestTyped
<1> QED
  BY <1>1, <1>2, <1>3, <1>4, TypeParts

LEMMA NextTyped == TypeInv /\ [Next]_vars => TypeInv'
  BY StepServerTyped, StepDatabaseTyped, StepTasksTyped, StepRestTyped, TypePartsNext

\* Every statement of the handler, fault and message of JetStream keeps the
\* types: no message is delivered more than max_deliver times.
THEOREM TypeCorrect == Spec => []TypeOK
<1>1. TypeInv => TypeOK
  BY DEF TypeInv
<1> QED
  BY <1>1, InitTyped, NextTyped, PTL DEF Spec

-----------------------------------------------------------------------------
(* The ledger.                                                             *)

\* Steps of the loop after the row was claimed and before it is marked.
Claimed == {"send", "marksent", "markfailed"}

\* A row that a transaction has written is locked by it.
Held(c) == \A k \in Key : draft[c][k] # None => lock[k] = c

\* A row that it has not marked SENT does not say SENT: it looked, and the lock
\* keeps the others away.
Fresh(c) == \A k \in Key : draft[c][k] \in {"PENDING", "FAILED"} => ledger[k] # "SENT"

\* PENDING is written in the row in hand and nowhere else.
InHand(c) == \A k \in Key : draft[c][k] = "PENDING" <=> pc[c] \in Claimed /\ k = CurrentKey(c)

\* SENT is written, and going to be written, of what VK has taken.
Taken(c) ==
  /\ \A k \in Key : draft[c][k] = "SENT" => accepted[k] > 0
  /\ pc[c] = "marksent" => accepted[CurrentKey(c)] > 0

\* Every recipient that was eligible is left, or has failed, or says SENT.
Covered(c) ==
  /\ pc[c] = "commit" => todo[c] = {}
  /\ pc[c] \in InLoop \cup {"commit"} =>
       \A u \in active[c] :
         \/ failed[c]
         \/ \E i \in todo[c] : UsersOf[current[c]][i] = u
         \/ RowFor(c, <<EventOf[current[c]], u>>) = "SENT"

\* A command that is about to be acknowledged has its rows.
Acked(c) ==
  pc[c] = "ack" => \A u \in active[c] : ledger[<<EventOf[current[c]], u>>] = "SENT"

Written(c) == Held(c) /\ Fresh(c) /\ InHand(c) /\ Taken(c)
Own(c) == Written(c) /\ Covered(c) /\ Acked(c)

LedgerInv == TypeInv /\ NeverPending /\ SentIsTrue /\ \A c \in Consumer : Own(c)

\* What a step of a consumer does to the others: SENT stays, the rows they have
\* locked are as they were, and so is everything that is theirs.
Respects(c) ==
  /\ \A k \in Key : ledger[k] = "SENT" => ledger'[k] = "SENT"
  /\ \A k \in Key : accepted[k] > 0 => accepted'[k] > 0
  /\ \A k \in Key, d \in Consumer \ {c} :
       lock[k] = d => lock'[k] = d /\ ledger'[k] = ledger[k]
  /\ \A d \in Consumer \ {c} :
       /\ pc'[d] = pc[d] /\ draft'[d] = draft[d]
       /\ current'[d] = current[d] /\ active'[d] = active[d]
       /\ todo'[d] = todo[d] /\ failed'[d] = failed[d]

\* The row in hand depends on the locals of its consumer only.
LEMMA SameKey ==
  ASSUME NEW c, todo'[c] = todo[c], current'[c] = current[c]
  PROVE  CurrentKey(c)' = CurrentKey(c)
  BY DEF CurrentKey, Position

\* An invariant of one consumer survives the steps of another.
LEMMA OthersOwn ==
  ASSUME LedgerInv, NEW c \in Consumer, Respects(c), NEW d \in Consumer \ {c}
  PROVE  Own(d)'
<1>0. Own(d)
  BY DEF LedgerInv
<1>1. /\ pc'[d] = pc[d] /\ draft'[d] = draft[d]
      /\ current'[d] = current[d] /\ active'[d] = active[d]
      /\ todo'[d] = todo[d] /\ failed'[d] = failed[d]
  BY DEF Respects
<1>2. CurrentKey(d)' = CurrentKey(d)
  BY <1>1, SameKey
<1>3. Held(d)'
  BY <1>0, <1>1 DEF Own, Written, Held, Respects
<1>4. Fresh(d)'
  <2>1. None \notin {"PENDING", "FAILED"}
    BY DeliveryAssumption
  <2>2. \A k \in Key : draft[d][k] \in {"PENDING", "FAILED"} =>
          lock[k] = d /\ ledger[k] # "SENT"
    BY <1>0, <2>1 DEF Own, Written, Held, Fresh
  <2>3. \A k \in Key : lock[k] = d => ledger'[k] = ledger[k]
    BY DEF Respects
  <2> QED
    BY <1>1, <2>2, <2>3 DEF Fresh
<1>5. InHand(d)'
  BY <1>0, <1>1, <1>2 DEF Own, Written, InHand
<1>6. Taken(d)'
  <2>1. ASSUME NEW k \in Key, accepted[k] > 0 PROVE accepted'[k] > 0
    BY <2>1 DEF Respects
  <2>2. pc[d] = "marksent" => CurrentKey(d) \in Key
    BY CurrentTyped DEF LedgerInv, InLoop
  <2> QED
    BY <1>0, <1>1, <1>2, <2>1, <2>2 DEF Own, Written, Taken
<1>7. Covered(d)'
  <2>1. ASSUME NEW u \in active[d], pc[d] \in InLoop \cup {"commit"},
               RowFor(d, <<EventOf[current[d]], u>>) = "SENT"
        PROVE  RowFor(d, <<EventOf[current[d]], u>>)' = "SENT"
    <3>1. <<EventOf[current[d]], u>> \in Key
      BY <2>1, DeliveryAssumption DEF LedgerInv, TypeInv, TypeOK, HasMessage, Key
    <3> QED
      BY <1>1, <2>1, <3>1 DEF RowFor, Respects
  <2> QED
    BY <1>0, <1>1, <2>1 DEF Own, Covered
<1>8. Acked(d)'
  <2>1. ASSUME NEW u \in active[d], pc[d] = "ack" PROVE <<EventOf[current[d]], u>> \in Key
    BY <2>1, DeliveryAssumption DEF LedgerInv, TypeInv, TypeOK, HasMessage, Key
  <2> QED
    BY <1>0, <1>1, <2>1 DEF Own, Acked, Respects
<1> QED
  BY <1>3, <1>4, <1>5, <1>6, <1>7, <1>8 DEF Own, Written

-----------------------------------------------------------------------------

\* A step that writes no row: what is written stays as it is.
LEMMA NothingWritten ==
  ASSUME LedgerInv, NEW c \in Consumer, draft' = draft, ledger' = ledger, accepted' = accepted,
         \A k \in Key : lock[k] = c => lock'[k] = c,
         pc[c] \notin Claimed, pc'[c] \notin Claimed
  PROVE  Written(c)'
<1>0. Written(c)
  BY DEF LedgerInv, Own
<1>1. Held(c)'
  BY <1>0 DEF Written, Held
<1>2. Fresh(c)'
  BY <1>0 DEF Written, Fresh
<1>3. InHand(c)'
  BY <1>0 DEF Written, InHand
<1>4. Taken(c)'
  BY <1>0 DEF Written, Taken, Claimed
<1> QED
  BY <1>1, <1>2, <1>3, <1>4 DEF Written

\* The end of a transaction leaves nothing written.
LEMMA NothingLeft ==
  ASSUME LedgerInv, NEW c \in Consumer, Release(c), pc'[c] \notin Claimed
  PROVE  Written(c)'
<1>1. \A k \in Key : draft'[c][k] = None
  BY DEF Release, NoDraft, LedgerInv, TypeInv, TypeOK
<1>2. None \notin {"PENDING", "SENT", "FAILED"}
  BY DeliveryAssumption
<1> QED
  BY <1>1, <1>2 DEF Written, Held, Fresh, InHand, Taken, Claimed

\* claim_attempt takes the row in hand.
LEMMA ClaimWrites ==
  ASSUME LedgerInv, NEW c \in Consumer, Claim(c), ~Continue(c)
  PROVE  Written(c)'
<1> DEFINE key == CurrentKey(c)
<1>0. Written(c) /\ key \in Key
  BY CurrentTyped DEF LedgerInv, Own, Claim, InLoop
<1>1. /\ RowFor(c, key) # "SENT"
      /\ lock' = [lock EXCEPT ![key] = c]
      /\ draft' = [draft EXCEPT ![c][key] = "PENDING"]
      /\ pc' = [pc EXCEPT ![c] = "send"]
      /\ UNCHANGED <<ledger, accepted, current, todo>>
  BY DEF Claim, Goto, Write
<1>2. CurrentKey(c)' = key
  BY <1>1, SameKey
<1> HIDE DEF key
<1>3. /\ pc'[c] = "send" /\ pc[c] = "claim"
      /\ draft'[c][key] = "PENDING" /\ \A k \in Key \ {key} : draft'[c][k] = draft[c][k]
      /\ lock'[key] = c /\ \A k \in Key \ {key} : lock'[k] = lock[k]
  BY <1>0, <1>1 DEF LedgerInv, TypeInv, TypeOK, Claim
<1>4. Held(c)'
  BY <1>0, <1>3 DEF Written, Held
<1>5. ledger[key] # "SENT"
  <2>1. CASE draft[c][key] = None
    BY <1>1, <2>1 DEF RowFor
  <2>2. CASE draft[c][key] # None
    <3>1. draft[c][key] \in {"PENDING", "FAILED"}
      BY <1>0, <1>1, <2>2 DEF RowFor, LedgerInv, TypeInv, TypeOK, RowStatus
    <3> QED
      BY <1>0, <3>1 DEF Written, Fresh
  <2> QED
    BY <2>1, <2>2
<1>6. Fresh(c)'
  BY <1>0, <1>1, <1>3, <1>5 DEF Written, Fresh
<1>7. InHand(c)'
  BY <1>0, <1>2, <1>3 DEF Written, InHand, Claimed
<1>8. Taken(c)'
  BY <1>0, <1>1, <1>3 DEF Written, Taken
<1> QED
  BY <1>4, <1>6, <1>7, <1>8 DEF Written

\* send_message writes nothing, and a success is something that VK has taken.
LEMMA SendWrites ==
  ASSUME LedgerInv, NEW c \in Consumer, Send(c)
  PROVE  Written(c)' /\ \A k \in Key : accepted[k] > 0 => accepted'[k] > 0
<1> DEFINE key == CurrentKey(c)
<1>0. Written(c) /\ key \in Key /\ key = CurrentKey(c)
  BY CurrentTyped DEF LedgerInv, Own, Send, InLoop
<1>1. UNCHANGED <<ledger, lock, draft, current, todo>> /\ pc[c] = "send"
  BY DEF Send, database, locals
<1>2. CurrentKey(c)' = key
  BY <1>1, SameKey
<1>3. PICK label \in {"marksent", "markfailed"} :
        /\ pc' = [pc EXCEPT ![c] = label]
        /\ \/ label = "markfailed" /\ accepted' = accepted
           \/ accepted' = [accepted EXCEPT ![key] = @ + 1]
  <2>1. PICK label \in {"marksent", "markfailed"} : pc' = [pc EXCEPT ![c] = label]
    BY DEF Send, Goto
  <2>2. pc'[c] = label
    BY <2>1 DEF LedgerInv, TypeInv, TypeOK
  <2>3. \/ label = "markfailed" /\ accepted' = accepted
        \/ accepted' = [accepted EXCEPT ![key] = @ + 1]
    BY <2>2 DEF Send
  <2> QED
    BY <2>1, <2>3
<1> HIDE DEF key
<1>4. pc'[c] = label
  BY <1>3 DEF LedgerInv, TypeInv, TypeOK
<1>5. \A k \in Key : accepted[k] \in Nat
  BY DEF LedgerInv, TypeInv, TypeOK
<1>6. \A k \in Key : accepted[k] > 0 => accepted'[k] > 0
  BY <1>0, <1>3, <1>5 DEF LedgerInv, TypeInv, TypeOK
<1>7. label = "marksent" => accepted'[key] > 0
  BY <1>0, <1>3, <1>5 DEF LedgerInv, TypeInv, TypeOK
<1>8. Held(c)' /\ Fresh(c)'
  BY <1>0, <1>1 DEF Written, Held, Fresh
<1>9. InHand(c)'
  BY <1>0, <1>1, <1>2, <1>3, <1>4 DEF Written, InHand, Claimed
<1>10. Taken(c)'
  BY <1>0, <1>1, <1>2, <1>4, <1>6, <1>7 DEF Written, Taken
<1> QED
  BY <1>6, <1>8, <1>9, <1>10 DEF Written

\* mark_sent and mark_failed replace the PENDING of the row in hand.
LEMMA MarkWrites ==
  ASSUME LedgerInv, NEW c \in Consumer, MarkSent(c) \/ MarkFailed(c)
  PROVE  Written(c)'
<1> DEFINE key == CurrentKey(c)
<1>0. Written(c) /\ key \in Key
  BY CurrentTyped DEF LedgerInv, Own, MarkSent, MarkFailed, InLoop
<1>1. PICK status \in {"SENT", "FAILED"} :
        /\ draft' = [draft EXCEPT ![c][key] = status]
        /\ status = "SENT" => pc[c] = "marksent"
  BY DEF MarkSent, MarkFailed, Write
<1>2. UNCHANGED <<ledger, lock, accepted>> /\ pc[c] \in Claimed
  BY DEF MarkSent, MarkFailed, Claimed
<1>3. PICK label \in {"claim", "commit"} : pc' = [pc EXCEPT ![c] = label]
  BY DEF MarkSent, MarkFailed, Continue, Goto
<1>4. status = "SENT" => accepted[key] > 0
  BY <1>0, <1>1 DEF Written, Taken
<1>5. draft[c][key] = "PENDING" /\ \A k \in Key \ {key} : draft[c][k] # "PENDING"
  BY <1>0, <1>2 DEF Written, InHand
<1> HIDE DEF key
<1>6. /\ pc'[c] \notin Claimed
      /\ draft'[c][key] = status /\ \A k \in Key \ {key} : draft'[c][k] = draft[c][k]
  BY <1>0, <1>1, <1>3 DEF LedgerInv, TypeInv, TypeOK, Claimed
<1>7. "PENDING" # None
  BY DeliveryAssumption
<1>8. Held(c)'
  BY <1>0, <1>2, <1>5, <1>6, <1>7 DEF Written, Held
<1>9. Fresh(c)'
  BY <1>0, <1>2, <1>5, <1>6 DEF Written, Fresh
<1>10. InHand(c)'
  BY <1>5, <1>6 DEF InHand
<1>11. Taken(c)'
  BY <1>0, <1>2, <1>4, <1>6 DEF Written, Taken, Claimed
<1> QED
  BY <1>8, <1>9, <1>10, <1>11 DEF Written

-----------------------------------------------------------------------------

ConsumerStep(c) == Step(c) \/ StatementFails(c) \/ TaskDies(c) \/ Restart(c)

\* Where a step can lead: to the loop from the loop or from a new message, to
\* the acknowledgement from the commit only.
LEMMA StepsLead ==
  ASSUME LedgerInv, NEW c \in Consumer, ConsumerStep(c)
  PROVE  /\ pc'[c] \in InLoop \cup {"commit"} =>
              Begin(c) \/ Claim(c) \/ Send(c) \/ MarkSent(c) \/ MarkFailed(c)
         /\ pc'[c] = "ack" => Commit(c)
<1>1. pc \in [Consumer -> Label]
  BY DEF LedgerInv, TypeInv, TypeOK
<1>2. CASE Fetch(c) \/ Ack(c) \/ Nak(c) \/ TaskDies(c) \/ Restart(c)
  <2>1. \E label \in {"fetch", "begin", "dead"} : pc' = [pc EXCEPT ![c] = label]
    BY <1>2 DEF Fetch, Ack, Nak, NextMessage, TaskDies, Restart, Goto
  <2> QED
    BY <1>1, <2>1 DEF InLoop
<1>3. CASE DeadlockVictim(c) \/ StatementFails(c)
  <2>1. pc' = [pc EXCEPT ![c] = "nak"]
    BY <1>3 DEF DeadlockVictim, StatementFails, Goto
  <2> QED
    BY <1>1, <2>1 DEF InLoop
<1>4. CASE Commit(c)
  <2>1. \E label \in {"ack", "nak"} : pc' = [pc EXCEPT ![c] = label]
    BY <1>4 DEF Commit, Goto
  <2> QED
    BY <1>1, <1>4, <2>1 DEF InLoop
<1>5. CASE Begin(c) \/ Claim(c) \/ Send(c) \/ MarkSent(c) \/ MarkFailed(c)
  <2>1. \E label \in {"nak", "commit", "claim", "send", "marksent", "markfailed"} :
          pc' = [pc EXCEPT ![c] = label]
    <3>1. CASE Begin(c)
      BY <3>1, Zenon DEF Begin, Goto
    <3>2. CASE Claim(c)
      BY <3>2 DEF Claim, Continue, Goto
    <3>3. CASE Send(c)
      BY <3>3 DEF Send, Goto
    <3>4. CASE MarkSent(c) \/ MarkFailed(c)
      BY <3>4 DEF MarkSent, MarkFailed, Continue, Goto
    <3> QED
      BY <1>5, <3>1, <3>2, <3>3, <3>4
  <2> QED
    BY <1>1, <1>5, <2>1
<1> QED
  BY <1>2, <1>3, <1>4, <1>5 DEF ConsumerStep, Step

\* What is written by one step of a consumer.
LEMMA StepWritten ==
  ASSUME LedgerInv, NEW c \in Consumer, ConsumerStep(c)
  PROVE  Written(c)'
<1>0. pc \in [Consumer -> Label] /\ lock \in [Key -> Consumer \cup {None}]
  BY DEF LedgerInv, TypeInv, TypeOK
<1>1. CASE Fetch(c) \/ Begin(c) \/ Ack(c) \/ Nak(c) \/ TaskDies(c)
  <2>1. pc[c] \notin Claimed /\ UNCHANGED <<database, accepted>>
    BY <1>1 DEF Fetch, Begin, Ack, Nak, TaskDies, Claimed
  <2>2. pc'[c] \notin Claimed
    <3>1. CASE Begin(c)
      <4>1. \E label \in {"nak", "commit", "claim"} : pc' = [pc EXCEPT ![c] = label]
        BY <3>1, Zenon DEF Begin, Goto
      <4> QED
        BY <1>0, <4>1 DEF Claimed
    <3>2. CASE Fetch(c) \/ Ack(c) \/ Nak(c) \/ TaskDies(c)
      <4>1. \E label \in {"fetch", "begin", "dead"} : pc' = [pc EXCEPT ![c] = label]
        BY <3>2 DEF Fetch, Ack, Nak, NextMessage, TaskDies, Goto
      <4> QED
        BY <1>0, <4>1 DEF Claimed
    <3> QED
      BY <1>1, <3>1, <3>2
  <2> QED
    BY <2>1, <2>2, NothingWritten DEF database
<1>2. CASE Commit(c) \/ DeadlockVictim(c) \/ StatementFails(c) \/ Restart(c)
  <2>1. Release(c)
    BY <1>2 DEF Commit, DeadlockVictim, StatementFails, Restart, Undo
  <2>2. \E label \in {"ack", "nak", "fetch"} : pc' = [pc EXCEPT ![c] = label]
    BY <1>2 DEF Commit, DeadlockVictim, StatementFails, Restart, Goto
  <2> QED
    BY <1>0, <2>1, <2>2, NothingLeft DEF Claimed
<1>3. CASE Claim(c) /\ Continue(c)
  <2>1. \E label \in {"claim", "commit"} : pc' = [pc EXCEPT ![c] = label]
    BY <1>3 DEF Continue, Goto
  <2>2. pc[c] = "claim" /\ pc'[c] \notin Claimed /\ ledger' = ledger /\ accepted' = accepted
        /\ lock' = [lock EXCEPT ![CurrentKey(c)] = c]
    BY <1>0, <1>3, <2>1 DEF Claim, Claimed
  <2>3. draft' = draft
    <3>1. ~Goto(c, "send")
      BY <1>0, <2>1 DEF Goto
    <3> QED
      BY <1>3, <3>1 DEF Claim
  <2> QED
    BY <1>0, <2>2, <2>3, NothingWritten DEF Claimed
<1>4. CASE Claim(c) /\ ~Continue(c)
  BY <1>4, ClaimWrites
<1>5. CASE Send(c)
  BY <1>5, SendWrites
<1>6. CASE MarkSent(c) \/ MarkFailed(c)
  BY <1>6, MarkWrites
<1> QED
  BY <1>1, <1>2, <1>3, <1>4, <1>5, <1>6 DEF ConsumerStep, Step

-----------------------------------------------------------------------------

\* The row of a recipient that is dropped from the loop says SENT, or the
\* command has failed; the others are still left.
LEMMA ContinueCovers ==
  ASSUME LedgerInv, NEW c \in Consumer, pc[c] \in InLoop, Continue(c),
         NEW CONSTANT key, key = CurrentKey(c),
         UNCHANGED <<current, active>>,
         failed[c] => failed'[c],
         failed'[c] \/ RowFor(c, key)' = "SENT",
         \A k \in Key \ {key} : RowFor(c, k) = "SENT" => RowFor(c, k)' = "SENT"
  PROVE  Covered(c)'
<1>0. Covered(c) /\ pc \in [Consumer -> Label] /\ todo \in [Consumer -> SUBSET Nat]
  BY DEF LedgerInv, Own, TypeInv, TypeOK
<1>1. current[c] \in Message /\ Position(c) \in todo[c]
  BY CurrentTyped DEF LedgerInv
<1>2. todo'[c] = todo[c] \ {Position(c)} /\ (pc'[c] = "commit" => todo'[c] = {})
  BY <1>0 DEF Continue, Goto
<1>3. ASSUME NEW u \in active[c]
      PROVE  \/ failed'[c]
             \/ \E i \in todo'[c] : UsersOf[current[c]][i] = u
             \/ RowFor(c, <<EventOf[current[c]], u>>)' = "SENT"
  <2>1. <<EventOf[current[c]], u>> \in Key
    BY <1>1, DeliveryAssumption DEF LedgerInv, TypeInv, TypeOK, Key
  <2>2. CASE u = UsersOf[current[c]][Position(c)]
    <3>1. <<EventOf[current'[c]], u>> = key
      BY <2>2 DEF CurrentKey
    <3>2. RowFor(c, <<EventOf[current[c]], u>>)' = RowFor(c, key)'
      BY <3>1 DEF RowFor
    <3> QED
      BY <3>2
  <2>3. CASE u # UsersOf[current[c]][Position(c)]
    <3>1. <<EventOf[current[c]], u>> # key /\ EventOf[current'[c]] = EventOf[current[c]]
      BY <2>3 DEF CurrentKey
    <3>2. CASE failed[c]
      BY <3>2
    <3>3. CASE \E i \in todo[c] : UsersOf[current[c]][i] = u
      BY <1>2, <2>3, <3>3
    <3>4. CASE RowFor(c, <<EventOf[current[c]], u>>) = "SENT"
      BY <2>1, <3>1, <3>4 DEF RowFor
    <3> QED
      BY <1>0, <3>2, <3>3, <3>4 DEF Covered
  <2> QED
    BY <2>2, <2>3
<1> QED
  BY <1>2, <1>3 DEF Covered

\* A message that is taken: every recipient with an ACTIVE binding is left.
LEMMA BeginCovers ==
  ASSUME LedgerInv, NEW c \in Consumer, Begin(c)
  PROVE  Covered(c)'
<1>0. /\ pc \in [Consumer -> Label] /\ todo \in [Consumer -> SUBSET Nat]
      /\ current \in [Consumer -> Message \cup {None}] /\ active \in [Consumer -> SUBSET User]
  BY DEF LedgerInv, TypeInv, TypeOK
<1>1. PICK m \in inbox[c] :
        /\ current' = [current EXCEPT ![c] = m]
        /\ \/ Goto(c, "nak")
           \/ /\ LET eligible == {i \in DOMAIN UsersOf[m] : UsersOf[m][i] \in linked}
                 IN /\ todo' = [todo EXCEPT ![c] = eligible]
                    /\ Goto(c, IF eligible = {} THEN "commit" ELSE "claim")
              /\ active' = [active EXCEPT ![c] = Users(m) \cap linked]
  BY DEF Begin
<1>2. current'[c] = m
  BY <1>0, <1>1
<1>3. CASE Goto(c, "nak")
  BY <1>0, <1>3 DEF Goto, Covered, InLoop
<1>4. ASSUME NEW eligible,
             eligible = {i \in DOMAIN UsersOf[m] : UsersOf[m][i] \in linked},
             todo' = [todo EXCEPT ![c] = eligible],
             Goto(c, IF eligible = {} THEN "commit" ELSE "claim"),
             active' = [active EXCEPT ![c] = Users(m) \cap linked]
      PROVE  Covered(c)'
  <2>1. todo'[c] = eligible /\ active'[c] = Users(m) \cap linked
    BY <1>0, <1>4
  <2>2. pc'[c] = "commit" => eligible = {}
    BY <1>0, <1>4 DEF Goto
  <2>3. \A u \in Users(m) \cap linked : \E i \in eligible : UsersOf[m][i] = u
    BY <1>4 DEF Users
  <2> QED
    BY <1>2, <2>1, <2>2, <2>3 DEF Covered
<1> QED
  <2> DEFINE eligible == {i \in DOMAIN UsersOf[m] : UsersOf[m][i] \in linked}
  <2>1. \/ Goto(c, "nak")
        \/ /\ todo' = [todo EXCEPT ![c] = eligible]
           /\ Goto(c, IF eligible = {} THEN "commit" ELSE "claim")
           /\ active' = [active EXCEPT ![c] = Users(m) \cap linked]
    BY <1>1
  <2>2. eligible = {i \in DOMAIN UsersOf[m] : UsersOf[m][i] \in linked}
    OBVIOUS
  <2> HIDE DEF eligible
  <2> QED
    BY <1>3, <1>4, <2>1, <2>2

\* A row that is written, read back by the same transaction.
LEMMA ReadBack ==
  ASSUME LedgerInv, NEW c \in Consumer, NEW CONSTANT key \in Key, NEW CONSTANT status \in RowStatus,
         draft' = [draft EXCEPT ![c][key] = status], ledger' = ledger
  PROVE  /\ RowFor(c, key)' = status
         /\ \A k \in Key \ {key} : RowFor(c, k)' = RowFor(c, k)
<1>1. status # None
  BY DeliveryAssumption DEF RowStatus
<1>2. draft'[c][key] = status /\ \A k \in Key \ {key} : draft'[c][k] = draft[c][k]
  BY DEF LedgerInv, TypeInv, TypeOK
<1> QED
  BY <1>1, <1>2 DEF RowFor

\* What a step of a consumer leaves of its recipients.
LEMMA StepCovers ==
  ASSUME LedgerInv, NEW c \in Consumer, ConsumerStep(c)
  PROVE  Covered(c)'
<1>0. /\ pc \in [Consumer -> Label] /\ failed \in [Consumer -> BOOLEAN]
      /\ Covered(c)
  BY DEF LedgerInv, TypeInv, TypeOK, Own
<1>1. CASE pc'[c] \notin InLoop \cup {"commit"}
  BY <1>1 DEF Covered
<1>2. CASE Begin(c)
  BY <1>2, BeginCovers
<1>3. CASE Claim(c)
  <2>0. PICK key \in Key : key = CurrentKey(c)
    BY <1>3, CurrentTyped DEF LedgerInv, Claim, InLoop
  <2>1. CASE RowFor(c, key) = "SENT"
    <3>1. Continue(c) /\ UNCHANGED draft
      BY <1>3, <2>0, <2>1 DEF Claim
    <3>2. \A k \in Key : RowFor(c, k)' = RowFor(c, k)
      BY <1>3, <3>1 DEF Claim, RowFor
    <3> QED
      BY <1>3, <2>0, <2>1, <3>1, <3>2, ContinueCovers DEF Claim, InLoop
  <2>2. CASE RowFor(c, key) # "SENT"
    <3>1. /\ draft' = [draft EXCEPT ![c][key] = "PENDING"]
          /\ pc' = [pc EXCEPT ![c] = "send"]
          /\ UNCHANGED <<ledger, current, active, todo, failed>>
      BY <1>3, <2>0, <2>2 DEF Claim, Write, Goto
    <3>2. \A k \in Key \ {key} : RowFor(c, k)' = RowFor(c, k)
      BY <3>1, ReadBack DEF RowStatus
    <3>3. ASSUME NEW u \in active[c], RowFor(c, <<EventOf[current[c]], u>>) = "SENT"
          PROVE  RowFor(c, <<EventOf[current[c]], u>>)' = "SENT"
      <4>1. <<EventOf[current[c]], u>> \in Key \ {key}
        BY <1>3, <2>2, <3>3, DeliveryAssumption
           DEF LedgerInv, TypeInv, TypeOK, HasMessage, Claim, InLoop, Key
      <4>2. EventOf[current'[c]] = EventOf[current[c]]
        BY <3>1
      <4> QED
        BY <3>2, <3>3, <4>1, <4>2 DEF RowFor
    <3>4. pc[c] = "claim" /\ pc'[c] = "send"
      BY <1>0, <1>3, <3>1 DEF Claim
    <3> QED
      BY <1>0, <3>1, <3>3, <3>4 DEF Covered, InLoop
  <2> QED
    BY <2>1, <2>2
<1>4. CASE Send(c)
  <2>1. UNCHANGED <<ledger, draft, current, active, todo, failed>> /\ pc[c] = "send"
    BY <1>4 DEF Send, database, locals
  <2>2. pc'[c] # "commit"
    <3>1. \E label \in {"marksent", "markfailed"} : pc' = [pc EXCEPT ![c] = label]
      BY <1>4 DEF Send, Goto
    <3> QED
      BY <1>0, <3>1
  <2> QED
    BY <1>0, <2>1, <2>2 DEF Covered, InLoop, RowFor
<1>5. CASE MarkSent(c) \/ MarkFailed(c)
  <2>0. PICK key \in Key : key = CurrentKey(c)
    BY <1>5, CurrentTyped DEF LedgerInv, MarkSent, MarkFailed, InLoop
  <2>1. PICK status \in {"SENT", "FAILED"} :
          /\ draft' = [draft EXCEPT ![c][key] = status]
          /\ status = "FAILED" => failed' = [failed EXCEPT ![c] = TRUE]
    BY <1>5, <2>0 DEF MarkSent, MarkFailed, Write
  <2>2. failed' = failed \/ failed' = [failed EXCEPT ![c] = TRUE]
    BY <1>5 DEF MarkSent, MarkFailed
  <2>3. failed[c] => failed'[c]
    BY <1>0, <2>2
  <2>4. status = "FAILED" => failed'[c]
    BY <1>0, <2>1
  <2>5. pc[c] \in InLoop /\ Continue(c) /\ UNCHANGED <<ledger, current, active>>
    BY <1>5 DEF MarkSent, MarkFailed, InLoop
  <2>6. RowFor(c, key)' = status /\ \A k \in Key \ {key} : RowFor(c, k)' = RowFor(c, k)
    BY <2>1, <2>5, ReadBack DEF RowStatus
  <2> QED
    BY <2>0, <2>3, <2>4, <2>5, <2>6, ContinueCovers
<1> QED
  BY <1>1, <1>2, <1>3, <1>4, <1>5, StepsLead

\* A command that is going to be acknowledged has been committed as SENT.
LEMMA StepAcked ==
  ASSUME LedgerInv, NEW c \in Consumer, ConsumerStep(c)
  PROVE  Acked(c)'
<1>1. SUFFICES ASSUME pc'[c] = "ack" PROVE Acked(c)'
  BY DEF Acked
<1>2. Commit(c)
  BY <1>1, StepsLead
<1>3. ~failed[c]
  BY <1>1, <1>2 DEF Commit, Goto, LedgerInv, TypeInv, TypeOK
<1>4. pc[c] = "commit" /\ UNCHANGED <<current, active>> /\ current[c] \in Message
  BY <1>2 DEF Commit, locals, LedgerInv, TypeInv, HasMessage
<1>5. ASSUME NEW u \in active[c] PROVE ledger'[<<EventOf[current[c]], u>>] = "SENT"
  <2>1. <<EventOf[current[c]], u>> \in Key
    BY <1>4, DeliveryAssumption DEF LedgerInv, TypeInv, TypeOK, Key
  <2>2. RowFor(c, <<EventOf[current[c]], u>>) = "SENT"
    BY <1>3, <1>4 DEF LedgerInv, Own, Covered
  <2> QED
    BY <1>2, <2>1, <2>2 DEF Commit
<1> QED
  BY <1>4, <1>5 DEF Acked

-----------------------------------------------------------------------------

\* A commit installs what the transaction has written: a SENT is never undone,
\* and PENDING is never seen.
LEMMA CommitInstalls ==
  ASSUME LedgerInv, NEW c \in Consumer, pc[c] = "commit", ledger' = [k \in Key |-> RowFor(c, k)]
  PROVE  \A k \in Key : /\ ledger[k] = "SENT" => ledger'[k] = "SENT"
                        /\ lock[k] # c => ledger'[k] = ledger[k]
                        /\ ledger'[k] # "PENDING"
                        /\ ledger'[k] = "SENT" => accepted[k] > 0
<1> SUFFICES ASSUME NEW k \in Key
             PROVE  /\ ledger[k] = "SENT" => ledger'[k] = "SENT"
                    /\ lock[k] # c => ledger'[k] = ledger[k]
                    /\ ledger'[k] # "PENDING"
                    /\ ledger'[k] = "SENT" => accepted[k] > 0
  OBVIOUS
<1>1. Written(c) /\ ledger[k] # "PENDING" /\ (ledger[k] = "SENT" => accepted[k] > 0)
  BY DEF LedgerInv, Own, NeverPending, SentIsTrue
<1>2. CASE draft[c][k] = None
  BY <1>1, <1>2 DEF RowFor
<1>3. CASE draft[c][k] # None
  <2>1. ledger'[k] = draft[c][k] /\ lock[k] = c
    BY <1>1, <1>3 DEF RowFor, Written, Held
  <2>2. draft[c][k] # "PENDING"
    BY <1>1 DEF Written, InHand, Claimed
  <2>3. draft[c][k] \in {"SENT", "FAILED"}
    BY <1>3, <2>2 DEF LedgerInv, TypeInv, TypeOK, RowStatus
  <2>4. draft[c][k] = "SENT" => accepted[k] > 0
    BY <1>1 DEF Written, Taken
  <2>5. draft[c][k] = "FAILED" => ledger[k] # "SENT"
    BY <1>1 DEF Written, Fresh
  <2> QED
    BY <2>1, <2>3, <2>4, <2>5
<1> QED
  BY <1>2, <1>3

\* What is another consumer's stays as it is.
LEMMA StepLeavesOthers ==
  ASSUME LedgerInv, NEW c \in Consumer, ConsumerStep(c), NEW d \in Consumer \ {c}
  PROVE  /\ pc'[d] = pc[d] /\ draft'[d] = draft[d]
         /\ current'[d] = current[d] /\ active'[d] = active[d]
         /\ todo'[d] = todo[d] /\ failed'[d] = failed[d]
<1>0. /\ pc \in [Consumer -> Label]
      /\ draft \in [Consumer -> [Key -> RowStatus \cup {None}]]
      /\ current \in [Consumer -> Message \cup {None}] /\ active \in [Consumer -> SUBSET User]
      /\ todo \in [Consumer -> SUBSET Nat] /\ failed \in [Consumer -> BOOLEAN]
  BY DEF LedgerInv, TypeInv, TypeOK
<1>1. CASE Fetch(c) \/ Begin(c)
  <2>1. /\ UNCHANGED <<draft, failed>>
        /\ \E label : pc' = [pc EXCEPT ![c] = label]
        /\ current' = current \/ \E m : current' = [current EXCEPT ![c] = m]
        /\ active' = active \/ \E a : active' = [active EXCEPT ![c] = a]
        /\ todo' = todo \/ \E t : todo' = [todo EXCEPT ![c] = t]
    BY <1>1 DEF Fetch, Begin, Goto, database, locals
  <2> QED
    BY <1>0, <2>1
<1>2. CASE Claim(c) \/ MarkSent(c) \/ MarkFailed(c)
  <2>1. /\ UNCHANGED <<current, active>>
        /\ \E label : pc' = [pc EXCEPT ![c] = label]
        /\ todo' = todo \/ \E t : todo' = [todo EXCEPT ![c] = t]
        /\ failed' = failed \/ failed' = [failed EXCEPT ![c] = TRUE]
    BY <1>2 DEF Claim, MarkSent, MarkFailed, Continue, Goto
  <2>2. draft' = draft \/ \E k, s : draft' = [draft EXCEPT ![c][k] = s]
    BY <1>2 DEF Claim, MarkSent, MarkFailed, Write
  <2> QED
    BY <1>0, <2>1, <2>2
<1>3. CASE Send(c)
  <2>1. UNCHANGED <<draft, current, active, todo, failed>> /\ \E label : pc' = [pc EXCEPT ![c] = label]
    BY <1>3 DEF Send, Goto, database, locals
  <2> QED
    BY <1>0, <2>1
<1>4. CASE Commit(c) \/ DeadlockVictim(c) \/ StatementFails(c)
  <2>1. /\ UNCHANGED <<current, active, todo, failed>>
        /\ \E label : pc' = [pc EXCEPT ![c] = label]
        /\ draft' = [draft EXCEPT ![c] = NoDraft]
    BY <1>4 DEF Commit, DeadlockVictim, StatementFails, Undo, Release, Goto, locals
  <2> QED
    BY <1>0, <2>1
<1>5. CASE Ack(c) \/ Nak(c) \/ TaskDies(c) \/ Restart(c)
  <2>1. Settled(c) /\ \E label : pc' = [pc EXCEPT ![c] = label]
    BY <1>5 DEF Ack, Nak, NextMessage, TaskDies, Restart, Goto
  <2>2. draft' = draft \/ draft' = [draft EXCEPT ![c] = NoDraft]
    BY <1>5 DEF Ack, Nak, TaskDies, Restart, Undo, Release, database
  <2> QED
    BY <1>0, <2>1, <2>2 DEF Settled
<1> QED
  BY <1>1, <1>2, <1>3, <1>4, <1>5 DEF ConsumerStep, Step

\* What a step of a consumer does to the ledger, the locks and the history.
LEMMA StepLedger ==
  ASSUME LedgerInv, NEW c \in Consumer, ConsumerStep(c)
  PROVE  /\ \A k \in Key : ledger[k] = "SENT" => ledger'[k] = "SENT"
         /\ \A k \in Key : lock[k] # c => ledger'[k] = ledger[k]
         /\ \A k \in Key : accepted[k] > 0 => accepted'[k] > 0
         /\ NeverPending' /\ SentIsTrue'
<1>0. NeverPending /\ SentIsTrue
  BY DEF LedgerInv
<1>1. CASE Commit(c)
  BY <1>1, CommitInstalls DEF Commit, NeverPending, SentIsTrue
<1>2. CASE Send(c)
  BY <1>0, <1>2, SendWrites DEF Send, database, NeverPending, SentIsTrue
<1>3. CASE ~Commit(c) /\ ~Send(c)
  <2>1. UNCHANGED <<ledger, accepted>>
    BY <1>3 DEF ConsumerStep, Step, Fetch, Begin, Claim, MarkSent, MarkFailed, DeadlockVictim,
                Ack, Nak, StatementFails, TaskDies, Restart, Undo, database
  <2> QED
    BY <1>0, <2>1 DEF NeverPending, SentIsTrue
<1> QED
  BY <1>1, <1>2, <1>3

LEMMA StepLocks ==
  ASSUME LedgerInv, NEW c \in Consumer, ConsumerStep(c), NEW k \in Key,
         NEW d \in Consumer \ {c}, lock[k] = d
  PROVE  lock'[k] = d
<1>0. lock \in [Key -> Consumer \cup {None}] /\ None \notin Consumer
  BY DeliveryAssumption DEF LedgerInv, TypeInv, TypeOK
<1>1. CASE Claim(c)
  <2>1. lock' = [lock EXCEPT ![CurrentKey(c)] = c] /\ lock[CurrentKey(c)] \in {None, c}
    BY <1>1 DEF Claim, LockFree
  <2> QED
    BY <1>0, <2>1
<1>2. CASE Commit(c) \/ DeadlockVictim(c) \/ StatementFails(c) \/ Restart(c)
  <2>1. lock' = [q \in Key |-> IF lock[q] = c THEN None ELSE lock[q]]
    BY <1>2 DEF Commit, DeadlockVictim, StatementFails, Restart, Undo, Release
  <2> QED
    BY <2>1
<1>3. CASE Fetch(c) \/ Begin(c) \/ Send(c) \/ MarkSent(c) \/ MarkFailed(c) \/ Ack(c) \/ Nak(c)
             \/ TaskDies(c)
  BY <1>3 DEF Fetch, Begin, Send, MarkSent, MarkFailed, Ack, Nak, TaskDies, database
<1> QED
  BY <1>1, <1>2, <1>3 DEF ConsumerStep, Step

LEMMA StepRespects ==
  ASSUME LedgerInv, NEW c \in Consumer, ConsumerStep(c)
  PROVE  Respects(c)
<1>1. ASSUME NEW k \in Key, NEW d \in Consumer \ {c}, lock[k] = d
      PROVE  lock'[k] = d /\ ledger'[k] = ledger[k]
  BY <1>1, StepLocks, StepLedger
<1> QED
  BY <1>1, StepLedger, StepLeavesOthers DEF Respects

-----------------------------------------------------------------------------

LEMMA InitLedger == Init => LedgerInv
<1> SUFFICES ASSUME Init PROVE LedgerInv
  OBVIOUS
<1>1. None \notin {"PENDING", "SENT", "FAILED"}
  BY DeliveryAssumption
<1>2. NeverPending /\ SentIsTrue
  BY <1>1 DEF Init, NoDraft, NeverPending, SentIsTrue
<1>3. ASSUME NEW c \in Consumer PROVE Own(c)
  <2>1. pc[c] = "fetch" /\ \A k \in Key : draft[c][k] = None
    BY DEF Init, NoDraft
  <2>2. Written(c)
    BY <1>1, <2>1 DEF Written, Held, Fresh, InHand, Taken, Claimed
  <2> QED
    BY <2>1, <2>2 DEF Own, Covered, Acked, InLoop
<1> QED
  BY <1>2, <1>3, InitTyped DEF LedgerInv

\* Nothing of the ledger, and nothing of a handler, is in an other step.
LEMMA OtherLedger ==
  ASSUME LedgerInv, UNCHANGED <<database, pc, current, locals, accepted>>
  PROVE  NeverPending' /\ SentIsTrue' /\ \A c \in Consumer : Own(c)'
<1>1. NeverPending' /\ SentIsTrue'
  BY DEF LedgerInv, NeverPending, SentIsTrue, database
<1>2. ASSUME NEW c \in Consumer PROVE Own(c)'
  <2>1. UNCHANGED <<ledger, lock, draft, pc, current, active, todo, failed, accepted>>
    BY DEF database, locals
  <2>2. CurrentKey(c)' = CurrentKey(c)
    BY <2>1, SameKey
  <2>3. Written(c)'
    BY <2>1, <2>2 DEF LedgerInv, Own, Written, Held, Fresh, InHand, Taken
  <2>4. Covered(c)' /\ Acked(c)'
    BY <2>1 DEF LedgerInv, Own, Covered, Acked, RowFor
  <2> QED
    BY <2>3, <2>4 DEF Own
<1> QED
  BY <1>1, <1>2

LEMMA NextLedger == LedgerInv /\ [Next]_vars => LedgerInv'
<1> SUFFICES ASSUME LedgerInv, [Next]_vars
             PROVE  NeverPending' /\ SentIsTrue' /\ \A c \in Consumer : Own(c)'
  BY NextTyped DEF LedgerInv
<1>1. ASSUME NEW c \in Consumer, ConsumerStep(c)
      PROVE  NeverPending' /\ SentIsTrue' /\ \A d \in Consumer : Own(d)'
  <2>1. Own(c)'
    BY <1>1, StepWritten, StepCovers, StepAcked DEF Own
  <2>2. ASSUME NEW d \in Consumer \ {c} PROVE Own(d)'
    BY <1>1, StepRespects, OthersOwn
  <2> QED
    BY <1>1, <2>1, <2>2, StepLedger
<1>2. ASSUME NEW m \in Message, AckWaitExpires(m)
      PROVE  NeverPending' /\ SentIsTrue' /\ \A d \in Consumer : Own(d)'
  BY <1>2, OtherLedger DEF AckWaitExpires
<1>3. ASSUME NEW u \in User, BindingChanges(u)
      PROVE  NeverPending' /\ SentIsTrue' /\ \A d \in Consumer : Own(d)'
  BY <1>3, OtherLedger DEF BindingChanges
<1>4. CASE UNCHANGED vars
  BY <1>4, OtherLedger DEF vars
<1> QED
  BY <1>1, <1>2, <1>3, <1>4 DEF Next, ConsumerStep

LEMMA AlwaysLedger == Spec => []LedgerInv
  BY InitLedger, NextLedger, PTL DEF Spec

\* A row of the ledger says how the last attempt ended: whatever interrupts
\* deliver between claim and mark, PENDING is not committed.
THEOREM PendingIsNeverSeen == Spec => []NeverPending
<1>1. LedgerInv => NeverPending
  BY DEF LedgerInv
<1> QED
  BY <1>1, AlwaysLedger, PTL

\* A row that says SENT is about a message that VK has taken.
THEOREM SentRowsAreTrue == Spec => []SentIsTrue
<1>1. LedgerInv => SentIsTrue
  BY DEF LedgerInv
<1> QED
  BY <1>1, AlwaysLedger, PTL

\* SENT is for good, for any number of consumers that redeliver a command or
\* deliver two commands of one event at the same time.
THEOREM SentRowsAreFinal == Spec => SentIsFinal
<1>1. LedgerInv /\ [Next]_vars => [\A k \in Key : ledger[k] = "SENT" => ledger'[k] = "SENT"]_ledger
  <2> SUFFICES ASSUME LedgerInv, [Next]_vars
               PROVE  \/ \A k \in Key : ledger[k] = "SENT" => ledger'[k] = "SENT"
                      \/ ledger' = ledger
    OBVIOUS
  <2>1. ASSUME NEW c \in Consumer, ConsumerStep(c)
        PROVE  \A k \in Key : ledger[k] = "SENT" => ledger'[k] = "SENT"
    BY <2>1, StepLedger
  <2>2. ASSUME NEW m \in Message, AckWaitExpires(m) PROVE ledger' = ledger
    BY <2>2 DEF AckWaitExpires, database
  <2>3. ASSUME NEW u \in User, BindingChanges(u) PROVE ledger' = ledger
    BY <2>3 DEF BindingChanges, database
  <2>4. UNCHANGED vars => ledger' = ledger
    BY DEF vars, database
  <2> QED
    BY <2>1, <2>2, <2>3, <2>4 DEF Next, ConsumerStep
<1> QED
  BY <1>1, AlwaysLedger, PTL DEF Spec, SentIsFinal

\* What claim_attempt has seen still holds when the message is sent.
THEOREM SentRowsAreSkipped == Spec => NoSendAfterSent
<1>1. LedgerInv => (\A c \in Consumer : Send(c) => ledger[CurrentKey(c)] # "SENT")
  <2> SUFFICES ASSUME LedgerInv, NEW c \in Consumer, Send(c)
               PROVE  ledger[CurrentKey(c)] # "SENT"
    OBVIOUS
  <2>1. pc[c] = "send" /\ CurrentKey(c) \in Key /\ Written(c)
    BY CurrentTyped DEF Send, InLoop, LedgerInv, Own
  <2>2. draft[c][CurrentKey(c)] = "PENDING"
    BY <2>1 DEF Written, InHand, Claimed
  <2> QED
    BY <2>1, <2>2 DEF Written, Fresh
<1> QED
  BY <1>1, AlwaysLedger, PTL DEF Spec, NoSendAfterSent

\* An acknowledged command has a committed SENT row for every recipient that
\* was eligible when its bindings were read, other consumers notwithstanding.
THEOREM AcknowledgedIsDelivered == Spec => AckedIsDelivered
<1>1. LedgerInv => (\A c \in Consumer : Ack(c) =>
                      \A u \in active[c] : ledger[<<EventOf[current[c]], u>>] = "SENT")
  BY DEF LedgerInv, Own, Acked, Ack
<1> QED
  BY <1>1, AlwaysLedger, PTL DEF Spec, AckedIsDelivered
=============================================================================
