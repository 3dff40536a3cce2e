----------------------------- MODULE VkDelivery -----------------------------
(***************************************************************************)
(* Delivering callback notifications: the consumer of the API process      *)
(* (clients/nats/consumers) fetches commands from the JetStream durable,   *)
(* its handler runs VkNotificationDeliveryService.deliver in one database  *)
(* transaction per command, and the message is acknowledged or refused     *)
(* afterwards.                                                             *)
(*                                                                         *)
(* A consumer is one API process; there are two while a replica, or the    *)
(* process being replaced, is still running.  JetStream and PostgreSQL are *)
(* what the code relies on: a message that is refused, or not acknowledged *)
(* in time, comes back until max_deliver; an advisory lock is held to the  *)
(* end of its transaction; a wait cycle loses one member.  The ledger      *)
(* vk_notification_deliveries has one row per <<event, user>>.             *)
(***************************************************************************)
EXTENDS Naturals, Sequences, FiniteSets

CONSTANTS
  Consumer,    \* processes that run the consumer task
  Message,     \* commands in the stream
  Event,       \* values of event_uuid
  User,        \* possible recipients
  None,        \* no message, no owner, no row
  EventOf,     \* the event_uuid of a command
  UsersOf,     \* its user_ids, without duplicates
  Malformed,   \* messages the handler refuses unread
  BatchSize,   \* nats_consumer_fetch_batch_size
  MaxDeliver,  \* nats_consumer_max_deliver
  MaxFaults    \* bound: crashes, lost answers, database and broker errors

ASSUME DeliveryAssumption ==
  /\ None \notin Consumer \cup Message \cup {"PENDING", "SENT", "FAILED"}
  /\ EventOf \in [Message -> Event]
  /\ UsersOf \in [Message -> Seq(User)]
  /\ Malformed \subseteq Message
  /\ BatchSize \in Nat \ {0}
  /\ MaxDeliver \in Nat \ {0}
  /\ MaxFaults \in Nat

VARIABLES
  queue, delivered,     \* JetStream: state and delivery count of each message
  ledger,               \* committed rows
  lock,                 \* owner of each advisory lock
  draft,                \* rows written by the open transaction of a consumer
  linked,               \* users whose binding is ACTIVE
  pc, inbox, current,   \* a consumer: next step, rest of the batch, message in hand
  active, todo, failed, \* locals of deliver; todo holds positions of user_ids
  accepted,             \* history: messages VK has taken, per row
  faults                \* counter of the bound

server == <<queue, delivered>>
database == <<ledger, lock, draft>>
locals == <<active, todo, failed>>
vars == <<server, database, linked, pc, inbox, current, locals, accepted, faults>>

Key == Event \X User
RowStatus == {"PENDING", "SENT", "FAILED"}
\* "absent": not in the stream yet, or not any more.
QueueState == {"absent", "ready", "outstanding", "acked", "exhausted"}
Label == {"fetch", "begin", "claim", "send", "marksent", "markfailed",
          "commit", "ack", "nak", "dead"}

NoDraft == [k \in Key |-> None]

Init ==
  /\ queue = [m \in Message |-> "ready"]
  /\ delivered = [m \in Message |-> 0]
  /\ ledger = NoDraft
  /\ lock = [k \in Key |-> None]
  /\ draft = [c \in Consumer |-> NoDraft]
  /\ linked \in SUBSET User
  /\ pc = [c \in Consumer |-> "fetch"]
  /\ inbox = [c \in Consumer |-> {}]
  /\ current = [c \in Consumer |-> None]
  /\ active = [c \in Consumer |-> {}]
  /\ todo = [c \in Consumer |-> {}]
  /\ failed = [c \in Consumer |-> FALSE]
  /\ accepted = [k \in Key |-> 0]
  /\ faults = 0

Goto(c, label) == pc' = [pc EXCEPT ![c] = label]

NoFault == UNCHANGED faults
Fault == faults < MaxFaults /\ faults' = faults + 1

-----------------------------------------------------------------------------
(* JetStream.                                                              *)

\* Faulty variant: deliveries are not counted.
ReturnedAlways(m) == "ready"

\* A message that comes back is delivered again while deliveries are left.
Returned(m) == IF delivered[m] < MaxDeliver THEN "ready" ELSE "exhausted"

\* ack_wait has passed; a consumer that still has the message is not told.
AckWaitExpires(m) ==
  /\ queue[m] = "outstanding"
  /\ queue' = [queue EXCEPT ![m] = Returned(m)]
  /\ UNCHANGED <<delivered, database, linked, pc, inbox, current, locals, accepted, faults>>

Fetch(c) ==
  /\ pc[c] = "fetch"
  /\ \E batch \in SUBSET {m \in Message : queue[m] = "ready"} :
       /\ Cardinality(batch) \in 1..BatchSize
       /\ inbox' = [inbox EXCEPT ![c] = batch]
       /\ queue' = [m \in Message |-> IF m \in batch THEN "outstanding" ELSE queue[m]]
       /\ delivered' = [m \in Message |-> delivered[m] + (IF m \in batch THEN 1 ELSE 0)]
  /\ Goto(c, "begin")
  /\ UNCHANGED <<database, linked, current, locals, accepted, faults>>

-----------------------------------------------------------------------------
(* The ledger.                                                             *)

RowFor(c, k) == IF draft[c][k] # None THEN draft[c][k] ELSE ledger[k]
Write(c, k, status) == draft' = [draft EXCEPT ![c][k] = status]

\* Faulty variant: claim_attempt takes no lock.
LockIgnored(c, k) == TRUE

LockFree(c, k) == lock[k] \in {None, c}

\* The end of a transaction releases its locks.
Release(c) ==
  /\ lock' = [k \in Key |-> IF lock[k] = c THEN None ELSE lock[k]]
  /\ draft' = [draft EXCEPT ![c] = NoDraft]

\* Faulty variant: an exception leaves the transaction open.
UndoForgotten(c) == UNCHANGED database

\* Faulty variant: every exception commits.
UndoCommits(c) ==
  /\ ledger' = [k \in Key |-> RowFor(c, k)]
  /\ Release(c)

Undo(c) == Release(c) /\ UNCHANGED ledger

-----------------------------------------------------------------------------
(* The handler.                                                            *)

Users(m) == {UsersOf[m][i] : i \in DOMAIN UsersOf[m]}

\* The row of the recipient that the loop of deliver has reached.
Position(c) == CHOOSE i \in todo[c] : \A j \in todo[c] : i <= j
CurrentKey(c) == <<EventOf[current[c]], UsersOf[current[c]][Position(c)]>>

\* The loop goes on with the next eligible recipient, or ends.
Continue(c) ==
  LET rest == todo[c] \ {Position(c)}
  IN /\ todo' = [todo EXCEPT ![c] = rest]
     /\ Goto(c, IF rest = {} THEN "commit" ELSE "claim")

\* The handler takes a message of the batch: it refuses it, or reads the
\* bindings of its users, once, or fails to read them.
Begin(c) ==
  /\ pc[c] = "begin"
  /\ \E m \in inbox[c] :
       /\ inbox' = [inbox EXCEPT ![c] = @ \ {m}]
       /\ current' = [current EXCEPT ![c] = m]
       /\ \/ m \in Malformed /\ Goto(c, "nak") /\ UNCHANGED locals /\ NoFault
          \/ m \notin Malformed /\ Goto(c, "nak") /\ UNCHANGED locals /\ Fault
          \/ /\ m \notin Malformed
             /\ LET eligible == {i \in DOMAIN UsersOf[m] : UsersOf[m][i] \in linked}
                IN /\ todo' = [todo EXCEPT ![c] = eligible]
                   /\ Goto(c, IF eligible = {} THEN "commit" ELSE "claim")
             /\ active' = [active EXCEPT ![c] = Users(m) \cap linked]
             /\ NoFault
             /\ UNCHANGED failed
  /\ UNCHANGED <<server, database, linked, accepted>>

\* Faulty variant: the status of the row is not looked at.
ClaimUnseen(c) ==
  /\ pc[c] = "claim"
  /\ LockFree(c, CurrentKey(c))
  /\ lock' = [lock EXCEPT ![CurrentKey(c)] = c]
  /\ Write(c, CurrentKey(c), "PENDING")
  /\ Goto(c, "send")
  /\ UNCHANGED <<server, ledger, linked, inbox, current, locals, accepted, faults>>

\* claim_attempt: lock, look, and take the row unless it is SENT.
Claim(c) ==
  /\ pc[c] = "claim"
  /\ LockFree(c, CurrentKey(c))
  /\ lock' = [lock EXCEPT ![CurrentKey(c)] = c]
  /\ \/ /\ RowFor(c, CurrentKey(c)) = "SENT"
        /\ Continue(c)
        /\ UNCHANGED draft
     \/ /\ RowFor(c, CurrentKey(c)) # "SENT"
        /\ Write(c, CurrentKey(c), "PENDING")
        /\ Goto(c, "send")
        /\ UNCHANGED todo
  /\ UNCHANGED <<server, ledger, linked, inbox, current, active, failed, accepted, faults>>

\* Faulty variant: an exception of the VK API is reported as a delivery.
SendAlwaysTrue(c) ==
  /\ pc[c] = "send"
  /\ Goto(c, "marksent")
  /\ \E taken \in {0, 1} : accepted' = [accepted EXCEPT ![CurrentKey(c)] = @ + taken]
  /\ UNCHANGED <<server, database, linked, inbox, current, locals, faults>>

\* send_message: VK takes the message, or refuses it; or it takes the message
\* and the answer is lost, which the client reports as a refusal.
Send(c) ==
  /\ pc[c] = "send"
  /\ \/ Goto(c, "marksent") /\ NoFault
     \/ Goto(c, "markfailed") /\ NoFault
     \/ Goto(c, "markfailed") /\ Fault
  /\ accepted' = IF pc'[c] = "marksent" \/ faults' # faults
                 THEN [accepted EXCEPT ![CurrentKey(c)] = @ + 1] ELSE accepted
  /\ UNCHANGED <<server, database, linked, inbox, current, locals>>

MarkSent(c) ==
  /\ pc[c] = "marksent"
  /\ Write(c, CurrentKey(c), "SENT")
  /\ Continue(c)
  /\ UNCHANGED <<server, ledger, lock, linked, inbox, current, active, failed, accepted, faults>>

MarkFailed(c) ==
  /\ pc[c] = "markfailed"
  /\ Write(c, CurrentKey(c), "FAILED")
  /\ failed' = [failed EXCEPT ![c] = TRUE]
  /\ Continue(c)
  /\ UNCHANGED <<server, ledger, lock, linked, inbox, current, active, accepted, faults>>

\* Faulty variant: VkDeliveryRetryableError is swallowed.
CommitThenAck(c) ==
  /\ pc[c] = "commit"
  /\ ledger' = [k \in Key |-> RowFor(c, k)]
  /\ Release(c)
  /\ Goto(c, "ack")
  /\ UNCHANGED <<server, linked, inbox, current, locals, accepted, faults>>

\* The transaction commits in both cases; VkDeliveryRetryableError, or an
\* answer of the database that is lost, then ends in a nak.
Commit(c) ==
  /\ pc[c] = "commit"
  /\ ledger' = [k \in Key |-> RowFor(c, k)]
  /\ Release(c)
  /\ \/ Goto(c, IF failed[c] THEN "nak" ELSE "ack") /\ NoFault
     \/ Goto(c, "nak") /\ Fault
  /\ UNCHANGED <<server, linked, inbox, current, locals, accepted>>

\* Any other exception of a statement: rollback, then nak.
StatementFails(c) ==
  /\ pc[c] \in {"claim", "marksent", "markfailed", "commit"}
  /\ Fault
  /\ Undo(c)
  /\ Goto(c, "nak")
  /\ UNCHANGED <<server, linked, inbox, current, locals, accepted>>

WaitsFor(c) ==
  IF pc[c] = "claim" THEN {lock[CurrentKey(c)]} \ {None, c} ELSE {}

InWaitCycle(c) ==
  /\ WaitsFor(c) # {}
  /\ \A S \in SUBSET Consumer :
       (WaitsFor(c) \subseteq S /\ \A d \in S : WaitsFor(d) \subseteq S) => c \in S

\* The server's deadlock detector fails one claim of a cycle.
DeadlockVictim(c) ==
  /\ InWaitCycle(c)
  /\ Undo(c)
  /\ Goto(c, "nak")
  /\ UNCHANGED <<server, linked, inbox, current, locals, accepted, faults>>

-----------------------------------------------------------------------------
(* The consumer task.                                                      *)

\* The message is done with and the locals of the handler are gone.
Settled(c) ==
  /\ current' = [current EXCEPT ![c] = None]
  /\ active' = [active EXCEPT ![c] = {}]
  /\ todo' = [todo EXCEPT ![c] = {}]
  /\ failed' = [failed EXCEPT ![c] = FALSE]

NextMessage(c) == Goto(c, IF inbox[c] = {} THEN "fetch" ELSE "begin")

Ack(c) ==
  /\ pc[c] = "ack"
  /\ queue' = [queue EXCEPT ![current[c]] = IF @ = "exhausted" THEN @ ELSE "acked"]
  /\ Settled(c)
  /\ NextMessage(c)
  /\ UNCHANGED <<delivered, database, linked, inbox, accepted, faults>>

\* nak asks for an immediate redelivery of a message that is still pending.
Nak(c) ==
  /\ pc[c] = "nak"
  /\ queue' = [queue EXCEPT ![current[c]] = IF @ = "outstanding" THEN Returned(current[c]) ELSE @]
  /\ Settled(c)
  /\ NextMessage(c)
  /\ UNCHANGED <<delivered, database, linked, inbox, accepted, faults>>

\* ack and nak are outside every try: the exception ends the task for good.
TaskDies(c) ==
  /\ pc[c] \in {"ack", "nak"}
  /\ Fault
  /\ Settled(c)
  /\ inbox' = [inbox EXCEPT ![c] = {}]
  /\ Goto(c, "dead")
  /\ UNCHANGED <<server, database, linked, accepted>>

\* The process stops or is killed, and the next one starts its consumer.
Restart(c) ==
  /\ pc[c] # "fetch"
  /\ Fault
  /\ Undo(c)
  /\ Settled(c)
  /\ inbox' = [inbox EXCEPT ![c] = {}]
  /\ Goto(c, "fetch")
  /\ UNCHANGED <<server, linked, accepted>>

\* A binding is confirmed, blocked, unblocked or deleted meanwhile.
BindingChanges(u) ==
  /\ linked' = IF u \in linked THEN linked \ {u} ELSE linked \cup {u}
  /\ UNCHANGED <<server, database, pc, inbox, current, locals, accepted, faults>>

-----------------------------------------------------------------------------

Step(c) ==
  \/ Fetch(c) \/ Begin(c) \/ Claim(c) \/ Send(c) \/ MarkSent(c) \/ MarkFailed(c)
  \/ Commit(c) \/ DeadlockVictim(c) \/ Ack(c) \/ Nak(c)

Next ==
  \/ \E c \in Consumer : Step(c) \/ StatementFails(c) \/ TaskDies(c) \/ Restart(c)
  \/ \E m \in Message : AckWaitExpires(m)
  \/ \E u \in User : BindingChanges(u)

Spec == Init /\ [][Next]_vars

\* The event loop runs the task, VK and the database answer, PostgreSQL serves
\* waiting locks and breaks cycles, JetStream's ack_wait timer fires.
Fairness ==
  /\ \A c \in Consumer : SF_vars(Step(c))
  /\ WF_vars(\E m \in Message : AckWaitExpires(m))
FairSpec == Spec /\ Fairness

-----------------------------------------------------------------------------
(* Properties.                                                             *)

\* Every variable keeps its type.
TypeOK ==
  /\ queue \in [Message -> QueueState]
  /\ delivered \in [Message -> 0..MaxDeliver]
  /\ ledger \in [Key -> RowStatus \cup {None}]
  /\ lock \in [Key -> Consumer \cup {None}]
  /\ draft \in [Consumer -> [Key -> RowStatus \cup {None}]]
  /\ linked \in SUBSET User
  /\ pc \in [Consumer -> Label]
  /\ inbox \in [Consumer -> SUBSET Message]
  /\ current \in [Consumer -> Message \cup {None}]
  /\ active \in [Consumer -> SUBSET User]
  /\ todo \in [Consumer -> SUBSET Nat]
  /\ failed \in [Consumer -> BOOLEAN]
  /\ accepted \in [Key -> Nat]
  /\ faults \in 0..MaxFaults

\* A committed row says how the last attempt ended and never PENDING, whatever
\* interrupts deliver: claim and mark belong to one transaction.
NeverPending == \A k \in Key : ledger[k] # "PENDING"

\* A row says SENT only of a message that VK has taken.
SentIsTrue == \A k \in Key : ledger[k] = "SENT" => accepted[k] > 0

\* A row that says SENT says so for good: no late or concurrent redelivery
\* turns it back.
SentIsFinal == [][\A k \in Key : ledger[k] = "SENT" => ledger'[k] = "SENT"]_ledger

\* No message is sent to a recipient whose row says SENT, although claim has
\* looked at the row some steps before.  A SENT that was not committed is
\* forgotten, and its message sent again.
NoSendAfterSent == [][\A c \in Consumer : Send(c) => ledger[CurrentKey(c)] # "SENT"]_vars

\* A command is acknowledged only when every recipient that was eligible when
\* its bindings were read has a committed SENT row.
AckedIsDelivered ==
  [][\A c \in Consumer : Ack(c) =>
       \A u \in active[c] : ledger[<<EventOf[current[c]], u>>] = "SENT"]_vars

\* Every command is acknowledged or used up in the end, unless every consumer
\* task has died.
CommandsSettle ==
  <>(\/ \A m \in Message : queue[m] \in {"acked", "exhausted"}
     \/ \A c \in Consumer : pc[c] = "dead")
============================================================================
