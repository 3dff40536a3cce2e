------------------------ MODULE SmokeHarness_proofs ------------------------
(* A run of the smoke harness for any commands, plans, fixtures and bounds:  *)
(* what it reports of itself is what happened.  The consumer beside it keeps *)
(* the invariant of VkDelivery_proofs, which is cited here by INSTANCE, and  *)
(* the harness does not disturb it.                                          *)
EXTENDS SmokeHarness, TLAPS

Ledger == INSTANCE VkDelivery_proofs
  WITH Consumer <- {Task}, linked <- {u \in User : fixture[u] = "ACTIVE"}

-----------------------------------------------------------------------------
(* The invariant.                                                          *)

Hand == Ledger!CurrentKey(Task)
InLoop == Ledger!InLoop

\* Places of the run before the stream, in the body and after it.
Opening == {"guard", "fixtures", "stream", "subscribe"}
Closing == Stage \cup {"ended"}

\* The configuration keeps its types, and the guard has been passed.
RunTyped ==
  /\ scenario \in Scenario /\ command \in Message /\ plan \in [User -> Plan]
  /\ allowed \in BOOLEAN
  /\ fixture \in [User -> Binding]
  /\ tries \in [User -> Nat] /\ attempts \in [User -> Nat]
  /\ stream \in BOOLEAN /\ streamCreated \in BOOLEAN /\ running \in BOOLEAN
  /\ step \in {"guard", "ended"} \cup BodyStep \cup Stage
  /\ polls \in 0..MaxPolls
  /\ (step \in Opening \cup {"publish", "wait"} => polls < MaxPolls)
  /\ error \in BOOLEAN /\ cleanupErrors \in SUBSET Stage
  /\ evidence \in [User -> [status : {"none", "SKIPPED", "PENDING", "SENT", "FAILED"},
                            attempts : Nat]]
  /\ exit \in {"none", "rejected", "failed", "ok"}

Configured ==
  /\ command \in Malformed <=> scenario = "malformed"
  /\ step \in BodyStep \cup Stage => exit = "none"
  /\ step = "guard" => exit = "none"
  /\ step # "guard" /\ exit # "rejected" => PlanFits

\* The task has no message but the run's, one at a time, and no transaction
\* open outside deliver.
OneMessage ==
  /\ \A m \in Message : m # command => queue[m] = "absent"
  /\ inbox[Task] \subseteq {command}
  /\ current[Task] \in {command, None}
  /\ inbox[Task] # {} => pc[Task] = "begin"
  /\ pc[Task] \notin InLoop \cup {"commit"} => draft[Task] = Ledger!NoDraft
  /\ step \notin Closing /\ queue[command] = "absent" => delivered[command] = 0

\* The task is there from its start to its stop, and otherwise holds nothing.
Stopped ==
  /\ step \in Opening \cup {"delete", "clean", "close", "ended"} => ~running
  /\ ~running => pc[Task] = "fetch"

\* The delivery in hand may still come to send to this user.
Ahead(u) ==
  \/ command \in inbox[Task]
  \/ /\ pc[Task] \in {"claim", "send"}
     /\ \E i \in todo[Task] : UsersOf[command][i] = u
  \/ /\ pc[Task] \in {"marksent", "markfailed"}
     /\ \E i \in todo[Task] \ {Ledger!Position(Task)} : UsersOf[command][i] = u

\* One delivery sends to a user once and commits one claim at most.
Counted ==
  \A u \in User :
    /\ attempts[u] <= delivered[command]
    /\ Ahead(u) => attempts[u] < delivered[command]

Claimed ==
  \A u \in User :
    /\ tries[u] <= delivered[command]
    /\ Ahead(u) \/ draft[Task][Row(u)] # None => tries[u] < delivered[command]

\* The script has let a message to this user through.
Enough(u) == plan[u] # "fail-always" /\ Scripted(u) <= attempts[u]

\* SENT is said of those only.
RowsScripted ==
  \A u \in User :
    \/ draft[Task][Row(u)] = "SENT"
    \/ ledger[Row(u)] = "SENT"
    \/ pc[Task] = "marksent" /\ Hand = Row(u)
    => Enough(u)

\* Without a fault it is said of all of them, and they are not sent to again.
OnceSent ==
  faults = 0 /\ step \notin Closing =>
    \A u \in User : Enough(u) =>
      /\ attempts[u] = Scripted(u)
      /\ \/ Ledger!RowFor(Task, Row(u)) = "SENT"
         \/ pc[Task] = "marksent" /\ Hand = Row(u)

Refusing == Scenario \ (Awaited \cup {"delivery-failure"})

\* The consumer meets the fixtures that were checked.
FixturesFit ==
  running \/ step \in {"stream", "subscribe"} =>
    scenario = "malformed" \/ \A u \in Targets : fixture[u] = Expected

\* Where nobody may be sent to, nobody is.
Untouched ==
  scenario \in Refusing =>
    /\ pc[Task] \notin InLoop
    /\ draft[Task] = Ledger!NoDraft
    /\ \A u \in User : attempts[u] = 0 /\ ledger[Row(u)] = None

\* What the loop of the scenario has seen is still so.
Waited ==
  step \in {"settle", "republish", "collect"} =>
    /\ scenario \in Awaited => AllSent
    /\ scenario = "delivery-failure" =>
         \A u \in Targets : ledger[Row(u)] = "FAILED" /\ attempts[u] = MaxDeliver

\* Evidence of one target.
Shows(u) ==
  CASE scenario \in Awaited ->
         /\ evidence[u].status = "SENT"
         /\ evidence[u].attempts \in Scripted(u)..MaxDeliver
         /\ faults = 0 => evidence[u].attempts = Scripted(u)
    [] scenario = "delivery-failure" ->
         evidence[u] = [status |-> "FAILED", attempts |-> MaxDeliver]
    [] OTHER -> evidence[u] = [status |-> "SKIPPED", attempts |-> 0]

\* A body that has not raised has collected it.
Shown ==
  /\ step \notin Closing => ~error
  /\ exit = "ok" => step = "ended" /\ ~error
  /\ step \in Closing /\ exit # "rejected" /\ ~error => \A u \in Targets : Shows(u)

\* What the cleanup leaves it has reported.
StreamReported ==
  /\ stream /\ ~streamCreated => error
  /\ step \in {"clean", "close", "ended"} /\ exit # "rejected" /\ stream =>
       "delete" \in cleanupErrors \/ ~streamCreated

RowsGone == \A u \in Targets : ledger[Row(u)] = None /\ fixture[u] = "none"

RowsReported ==
  step \in {"close", "ended"} /\ exit # "rejected" => RowsGone \/ "clean" \in cleanupErrors

TaskInv == Ledger!LedgerInv /\ OneMessage
RunInv == RunTyped /\ Configured /\ Stopped /\ FixturesFit
CountInv == Counted /\ Claimed
ScriptInv == RowsScripted /\ OnceSent /\ Untouched
ReportInv == Waited /\ Shown /\ StreamReported /\ RowsReported
HarnessInv == TaskInv /\ RunInv /\ CountInv /\ ScriptInv /\ ReportInv

-----------------------------------------------------------------------------
(* The actions of the consumer are those of VkDelivery_proofs.             *)

LEMMA LedgerAssumption == Ledger!DeliveryAssumption
  BY HarnessAssumption DEF Ledger!DeliveryAssumption

LEMMA SameTypes == Delivery!TypeOK <=> Ledger!TypeOK
  BY DEF Delivery!TypeOK, Ledger!TypeOK, Delivery!QueueState, Ledger!QueueState, Delivery!Key,
     Ledger!Key, Delivery!RowStatus, Ledger!RowStatus, Delivery!Label, Ledger!Label

LEMMA SameHand == Delivery!CurrentKey(Task) = Hand
  BY DEF Hand, Delivery!CurrentKey, Ledger!CurrentKey, Delivery!Position, Ledger!Position

LEMMA SameQueueSteps ==
  /\ Delivery!Fetch(Task) => Ledger!Fetch(Task)
  /\ \A m : Delivery!AckWaitExpires(m) => Ledger!AckWaitExpires(m)
<1>1. Delivery!Fetch(Task) => Ledger!Fetch(Task)
  BY DEF Delivery!Fetch, Ledger!Fetch, Delivery!Goto, Ledger!Goto, Delivery!Cardinality,
     Ledger!Cardinality, Delivery!database, Ledger!database, Delivery!locals, Ledger!locals
<1>2. \A m : Delivery!AckWaitExpires(m) => Ledger!AckWaitExpires(m)
  BY DEF Delivery!AckWaitExpires, Ledger!AckWaitExpires, Delivery!Returned, Ledger!Returned,
     Delivery!database, Ledger!database, Delivery!locals, Ledger!locals
<1> QED
  BY <1>1, <1>2

LEMMA SameBegin == Delivery!Begin(Task) => Ledger!Begin(Task)
  BY DEF Delivery!Begin, Ledger!Begin, Delivery!Goto, Ledger!Goto, Delivery!Users,
     Ledger!Users, Delivery!Fault, Ledger!Fault, Delivery!NoFault, Ledger!NoFault,
     Delivery!server, Ledger!server, Delivery!database, Ledger!database, Delivery!locals,
     Ledger!locals

LEMMA SameContinue == Delivery!Continue(Task) => Ledger!Continue(Task)
  BY DEF Delivery!Continue, Ledger!Continue, Delivery!Goto, Ledger!Goto, Delivery!Position,
     Ledger!Position

LEMMA SameClaim == Delivery!Claim(Task) => Ledger!Claim(Task)
  BY SameContinue, SameHand
  DEF Hand, Delivery!Claim, Ledger!Claim, Delivery!LockFree, Ledger!LockFree, Delivery!RowFor,
     Ledger!RowFor, Delivery!Write, Ledger!Write, Delivery!Goto, Ledger!Goto,
     Delivery!server, Ledger!server

LEMMA SameMarks ==
  /\ Delivery!MarkSent(Task) => Ledger!MarkSent(Task)
  /\ Delivery!MarkFailed(Task) => Ledger!MarkFailed(Task)
  BY SameContinue, SameHand
  DEF Hand, Delivery!MarkSent, Ledger!MarkSent, Delivery!MarkFailed, Ledger!MarkFailed,
     Delivery!Write, Ledger!Write, Delivery!server, Ledger!server

LEMMA SameSend == Delivery!Send(Task) => Ledger!Send(Task)
  BY SameHand
  DEF Hand, Delivery!Send, Ledger!Send, Delivery!Goto, Ledger!Goto, Delivery!Fault,
     Ledger!Fault, Delivery!NoFault, Ledger!NoFault, Delivery!server, Ledger!server,
     Delivery!database, Ledger!database, Delivery!locals, Ledger!locals

LEMMA SameEnds ==
  /\ Delivery!Undo(Task) => Ledger!Undo(Task)
  /\ Delivery!Settled(Task) => Ledger!Settled(Task)
  /\ Delivery!Release(Task) => Ledger!Release(Task)
  BY DEF Delivery!Undo, Ledger!Undo, Delivery!Settled, Ledger!Settled, Delivery!Release,
     Ledger!Release, Delivery!NoDraft, Ledger!NoDraft, Delivery!Key, Ledger!Key

LEMMA SameCommit ==
  /\ Delivery!Commit(Task) => Ledger!Commit(Task)
  /\ Delivery!StatementFails(Task) => Ledger!StatementFails(Task)
<1>1. Delivery!Commit(Task) => Ledger!Commit(Task)
  BY SameEnds
  DEF Delivery!Commit, Ledger!Commit, Delivery!RowFor, Ledger!RowFor, Delivery!Goto,
     Ledger!Goto, Delivery!Fault, Ledger!Fault, Delivery!NoFault, Ledger!NoFault, Delivery!Key,
     Ledger!Key, Delivery!server, Ledger!server, Delivery!locals, Ledger!locals
<1>2. Delivery!StatementFails(Task) => Ledger!StatementFails(Task)
  BY SameEnds
  DEF Delivery!StatementFails, Ledger!StatementFails, Delivery!Goto, Ledger!Goto,
     Delivery!Fault, Ledger!Fault, Delivery!server, Ledger!server, Delivery!locals,
     Ledger!locals
<1> QED
  BY <1>1, <1>2

LEMMA SameAnswers ==
  /\ Delivery!Ack(Task) => Ledger!Ack(Task)
  /\ Delivery!Nak(Task) => Ledger!Nak(Task)
  /\ Delivery!TaskDies(Task) => Ledger!TaskDies(Task)
  BY SameEnds
  DEF Delivery!Ack, Ledger!Ack, Delivery!Nak, Ledger!Nak, Delivery!TaskDies, Ledger!TaskDies,
     Delivery!NextMessage, Ledger!NextMessage, Delivery!Returned, Ledger!Returned,
     Delivery!Goto, Ledger!Goto, Delivery!Fault, Ledger!Fault, Delivery!server, Ledger!server,
     Delivery!database, Ledger!database

\* A step of the consumer other than the two the harness watches.
PlainStep ==
  \/ Ledger!Fetch(Task) \/ Ledger!Begin(Task) \/ Ledger!Claim(Task)
  \/ Ledger!MarkSent(Task) \/ Ledger!MarkFailed(Task)
  \/ Ledger!Ack(Task) \/ Ledger!Nak(Task)
  \/ Ledger!StatementFails(Task) \/ Ledger!TaskDies(Task)

\* send_message as the script answers it.
LetThrough(u) ==
  \/ plan[u] = "success"
  \/ plan[u] = "fail-first-then-success" /\ attempts[u] > 0

WatchedSend ==
  /\ Ledger!Send(Task)
  /\ attempts' = [attempts EXCEPT ![Hand[2]] = @ + 1]
  /\ pc' = TaskHas(IF LetThrough(Hand[2]) THEN "marksent" ELSE "markfailed")
  /\ UNCHANGED <<tries, faults>>

WatchedCommit ==
  /\ Ledger!Commit(Task)
  /\ tries' = [u \in User |-> IF draft[Task][Row(u)] = None THEN tries[u] ELSE tries[u] + 1]
  /\ UNCHANGED attempts

LEMMA ConsumerSteps ==
  ASSUME ConsumerStep
  PROVE  /\ TaskFrame
         /\ WatchedSend \/ WatchedCommit \/ (PlainStep /\ UNCHANGED <<tries, attempts>>)
<1>1. CASE ScriptedSend
  BY <1>1, SameSend, SameHand DEF ScriptedSend, WatchedSend, LetThrough
<1>2. CASE CommitAttempts
  BY <1>2, SameCommit DEF CommitAttempts, WatchedCommit
<1>3. CASE ~ScriptedSend /\ ~CommitAttempts
  BY <1>3, SameQueueSteps, SameBegin, SameClaim, SameMarks, SameCommit, SameAnswers
  DEF ConsumerStep, PlainStep
<1> QED
  BY <1>1, <1>2, <1>3

LEMMA LedgerSteps ==
  /\ ConsumerStep => Ledger!Next
  /\ AckWaitPasses /\ command \in Message => Ledger!Next
<1>1. PlainStep \/ Ledger!Send(Task) \/ Ledger!Commit(Task) => Ledger!Next
  BY DEF PlainStep, Ledger!Next, Ledger!Step
<1>2. ConsumerStep => Ledger!Next
  BY <1>1, ConsumerSteps DEF WatchedSend, WatchedCommit
<1>3. AckWaitPasses /\ command \in Message => Ledger!Next
  BY SameQueueSteps DEF AckWaitPasses, Ledger!Next
<1> QED
  BY <1>2, <1>3

-----------------------------------------------------------------------------
(* The ledger's invariant in the composition.                              *)

\* Nothing that VkDelivery has is touched, except that messages come or go.
LEMMA LedgerFrame ==
  ASSUME Ledger!LedgerInv, UNCHANGED <<consuming, ledger, fixture>>,
         \/ UNCHANGED queue
         \/ /\ queue' \in [Message -> Ledger!QueueState]
            /\ \A m \in Message : queue'[m] = "ready" => delivered[m] < MaxDeliver
  PROVE  Ledger!LedgerInv'
<1>1. /\ UNCHANGED <<delivered, lock, draft, pc, inbox, current, active, todo, failed,
                     accepted, faults>>
      /\ UNCHANGED {u \in User : fixture[u] = "ACTIVE"}
  BY DEF consuming
<1>2. UNCHANGED <<Ledger!database, pc, current, Ledger!locals, accepted>>
  BY <1>1 DEF Ledger!database, Ledger!locals
<1>3. Ledger!NeverPending' /\ Ledger!SentIsTrue' /\ \A c \in {Task} : Ledger!Own(c)'
  BY <1>2, Ledger!OtherLedger, LedgerAssumption
<1>4. Ledger!TypeInv
  BY DEF Ledger!LedgerInv
<1>5. Ledger!ServerTyped'
  BY <1>1, <1>4, Ledger!TypeParts, LedgerAssumption DEF Ledger!ServerTyped, Ledger!OfferedIsLeft
<1>6. Ledger!DatabaseTyped'
  BY <1>1, <1>4, Ledger!TypeParts, LedgerAssumption DEF Ledger!DatabaseTyped
<1>7. Ledger!TasksTyped'
  BY <1>1, <1>4, Ledger!TypeParts, LedgerAssumption DEF Ledger!TasksTyped, Ledger!HasMessage
<1>8. Ledger!RestTyped'
  BY <1>1, <1>4, Ledger!TypeParts, LedgerAssumption DEF Ledger!RestTyped
<1>9. Ledger!TypeInv'
  BY <1>5, <1>6, <1>7, <1>8, Ledger!TypePartsNext, LedgerAssumption
<1> QED
  BY <1>3, <1>9 DEF Ledger!LedgerInv

\* A consumer that holds nothing has nothing to answer for.
LEMMA LedgerAtRest ==
  ASSUME Ledger!TypeInv', pc'[Task] = "fetch", draft'[Task] = Ledger!NoDraft,
         Ledger!NeverPending', Ledger!SentIsTrue'
  PROVE  Ledger!LedgerInv'
<1>1. \A k \in Ledger!Key : draft'[Task][k] = None
  BY DEF Ledger!NoDraft
<1>2. None \notin {"PENDING", "SENT", "FAILED"}
  BY HarnessAssumption
<1>3. Ledger!Written(Task)'
  BY <1>1, <1>2 DEF Ledger!Written, Ledger!Held, Ledger!Fresh, Ledger!InHand, Ledger!Taken,
     Ledger!Claimed
<1>4. Ledger!Own(Task)'
  BY <1>3 DEF Ledger!Own, Ledger!Covered, Ledger!Acked, Ledger!InLoop
<1> QED
  BY <1>4 DEF Ledger!LedgerInv

\* A row of the run's recipients is a row of the ledger.
LEMMA RowTyped ==
  ASSUME RunTyped, NEW u \in User
  PROVE  Row(u) \in Ledger!Key
  BY HarnessAssumption DEF Row, RunTyped, Ledger!Key

LEMMA LedgerStops ==
  ASSUME Ledger!LedgerInv, StopConsumer
  PROVE  Ledger!LedgerInv'
<1>1. /\ Ledger!Undo(Task) /\ Ledger!Settled(Task) /\ Ledger!Goto(Task, "fetch")
      /\ inbox' = [inbox EXCEPT ![Task] = {}]
      /\ UNCHANGED <<queue, delivered, fixture, accepted, faults>>
  <2>1. Ledger!Undo(Task) /\ Ledger!Settled(Task)
    BY SameEnds DEF StopConsumer
  <2>2. Ledger!Goto(Task, "fetch")
    BY DEF StopConsumer, Delivery!Goto, Ledger!Goto
  <2>3. inbox \in [{Task} -> SUBSET Message]
    BY DEF Ledger!LedgerInv, Ledger!TypeInv, Ledger!TypeOK
  <2>4. inbox' = [inbox EXCEPT ![Task] = {}]
    BY <2>3 DEF StopConsumer, TaskHas
  <2> QED
    BY <2>1, <2>2, <2>4 DEF StopConsumer, messages
<1>2. Ledger!TypeInv /\ Ledger!NeverPending /\ Ledger!SentIsTrue
  BY DEF Ledger!LedgerInv
<1>3. /\ Ledger!ServerTyped /\ Ledger!DatabaseTyped /\ Ledger!TasksTyped /\ Ledger!RestTyped
  BY <1>2, Ledger!TypeParts, LedgerAssumption
<1>4. Ledger!DatabaseTyped'
  BY <1>1, <1>3, Ledger!ReleaseTyped, LedgerAssumption DEF Ledger!Undo
<1>5. Ledger!TasksTyped'
  BY <1>1, <1>3, Ledger!SettledTyped, LedgerAssumption
<1>6. Ledger!ServerTyped' /\ Ledger!RestTyped'
  BY <1>1, <1>3 DEF Ledger!ServerTyped, Ledger!OfferedIsLeft, Ledger!RestTyped
<1>7. Ledger!TypeInv'
  BY <1>4, <1>5, <1>6, Ledger!TypePartsNext, LedgerAssumption
<1>8. pc'[Task] = "fetch" /\ draft'[Task] = Ledger!NoDraft
  BY <1>1, <1>3 DEF Ledger!Undo, Ledger!Release, Ledger!Goto, Ledger!DatabaseTyped,
     Ledger!TasksTyped
<1>9. Ledger!NeverPending' /\ Ledger!SentIsTrue'
  BY <1>1, <1>2 DEF Ledger!Undo, Ledger!NeverPending, Ledger!SentIsTrue
<1> QED
  BY <1>7, <1>8, <1>9, LedgerAtRest

LEMMA LedgerCleaned ==
  ASSUME Ledger!LedgerInv, pc[Task] = "fetch", draft[Task] = Ledger!NoDraft, CleanDatabase
  PROVE  Ledger!LedgerInv'
<1>1. /\ UNCHANGED <<queue, delivered, lock, draft, pc, inbox, current, active, todo, failed,
                     accepted, faults>>
      /\ \/ UNCHANGED ledger
         \/ ledger' = [k \in Ledger!Key |-> IF k[1] = EventOf[command] THEN None ELSE ledger[k]]
  BY DEF CleanDatabase, consuming, messages, database, Delivery!Key, Ledger!Key
<1>2. Ledger!TypeInv /\ Ledger!NeverPending /\ Ledger!SentIsTrue
  BY DEF Ledger!LedgerInv
<1>3. /\ Ledger!ServerTyped /\ Ledger!DatabaseTyped /\ Ledger!TasksTyped /\ Ledger!RestTyped
  BY <1>2, Ledger!TypeParts, LedgerAssumption
<1>4. Ledger!ServerTyped' /\ Ledger!RestTyped'
  BY <1>1, <1>3 DEF Ledger!ServerTyped, Ledger!OfferedIsLeft, Ledger!RestTyped
<1>5. Ledger!TasksTyped'
  BY <1>1, <1>3 DEF Ledger!TasksTyped, Ledger!HasMessage
<1>6. Ledger!DatabaseTyped'
  BY <1>1, <1>3 DEF Ledger!DatabaseTyped
<1>7. Ledger!TypeInv'
  BY <1>4, <1>5, <1>6, Ledger!TypePartsNext, LedgerAssumption
<1>8. None \notin {"PENDING", "SENT", "FAILED"}
  BY HarnessAssumption
<1>9. Ledger!NeverPending' /\ Ledger!SentIsTrue'
  BY <1>1, <1>2, <1>8 DEF Ledger!NeverPending, Ledger!SentIsTrue
<1> QED
  BY <1>1, <1>7, <1>9, LedgerAtRest

-----------------------------------------------------------------------------
(* One message.                                                            *)

\* What is typed of the task, in the form the steps below need.
LEMMA TaskTyped ==
  ASSUME Ledger!LedgerInv
  PROVE  /\ queue \in [Message -> Ledger!QueueState]
         /\ delivered \in [Message -> 0..MaxDeliver]
         /\ ledger \in [Ledger!Key -> Ledger!RowStatus \cup {None}]
         /\ draft \in [{Task} -> [Ledger!Key -> Ledger!RowStatus \cup {None}]]
         /\ pc \in [{Task} -> Ledger!Label]
         /\ inbox \in [{Task} -> SUBSET Message]
         /\ current \in [{Task} -> Message \cup {None}]
         /\ todo \in [{Task} -> SUBSET Nat]
         /\ faults \in 0..MaxFaults
  BY DEF Ledger!LedgerInv, Ledger!TypeInv, Ledger!TypeOK

\* The row in hand, of a recipient of the command of the run.
LEMMA HandTyped ==
  ASSUME TaskInv, RunTyped, pc[Task] \in InLoop
  PROVE  /\ current[Task] = command
         /\ Ledger!Position(Task) \in todo[Task]
         /\ todo[Task] \subseteq DOMAIN UsersOf[command]
         /\ Hand \in Ledger!Key
         /\ Hand = Row(Hand[2])
         /\ Hand[2] = UsersOf[command][Ledger!Position(Task)]
         /\ Hand[2] \in User
<1>1. Ledger!TypeInv /\ pc[Task] \in Ledger!InLoop
  BY DEF TaskInv, Ledger!LedgerInv, InLoop
<1>2. /\ current[Task] \in Message
      /\ Ledger!Position(Task) \in todo[Task]
      /\ Ledger!CurrentKey(Task) \in Ledger!Key
  BY <1>1, Ledger!CurrentTyped, LedgerAssumption
<1>3. current[Task] = command
  BY <1>2, HarnessAssumption DEF TaskInv, OneMessage
<1>4. todo[Task] \subseteq DOMAIN UsersOf[command]
  BY <1>1, <1>3 DEF Ledger!TypeInv, Ledger!HasMessage
<1>5. Hand = <<EventOf[command], UsersOf[command][Ledger!Position(Task)]>>
  BY <1>3 DEF Hand, Ledger!CurrentKey
<1>6. Hand[2] \in User
  BY <1>2 DEF Hand, Ledger!Key
<1> QED
  BY <1>2, <1>3, <1>4, <1>5, <1>6 DEF Hand, Row

\* What each step leaves of the queue, of the batch and of the transaction.
Handover ==
  /\ \A m \in Message : m # command => queue'[m] = "absent"
  /\ inbox'[Task] \subseteq {command}
  /\ current'[Task] \in {command, None}
  /\ inbox'[Task] # {} => pc'[Task] = "begin"
  /\ pc'[Task] \notin InLoop \cup {"commit"} => draft'[Task] = Ledger!NoDraft
  /\ step \notin Closing /\ queue'[command] = "absent" => delivered'[command] = 0

LEMMA HandoverIsOneMessage ==
  ASSUME Handover, command' = command, step' \notin Closing => step \notin Closing
  PROVE  OneMessage'
  BY DEF Handover, OneMessage, InLoop, Ledger!InLoop, Ledger!NoDraft, Ledger!Key

LEMMA HandoverOfFetch ==
  ASSUME TaskInv, RunTyped, Ledger!Fetch(Task)
  PROVE  Handover
<1>1. PICK batch \in SUBSET {m \in Message : queue[m] = "ready"} :
        /\ inbox' = [inbox EXCEPT ![Task] = batch]
        /\ queue' = [m \in Message |-> IF m \in batch THEN "outstanding" ELSE queue[m]]
        /\ delivered' = [m \in Message |-> delivered[m] + (IF m \in batch THEN 1 ELSE 0)]
  BY DEF Ledger!Fetch
<1>2. batch \subseteq {command}
  BY <1>1 DEF TaskInv, OneMessage
<1>3. /\ pc[Task] = "fetch" /\ pc'[Task] = "begin" /\ inbox'[Task] = batch
      /\ UNCHANGED <<draft, current>>
  BY <1>1, TaskTyped DEF TaskInv, Ledger!Fetch, Ledger!Goto, Ledger!database
<1>4. command \in Message /\ delivered \in [Message -> 0..MaxDeliver]
  BY TaskTyped DEF TaskInv, RunTyped
<1>5. step \notin Closing /\ queue'[command] = "absent" => delivered'[command] = 0
  BY <1>1, <1>4 DEF TaskInv, OneMessage
<1>6. \A m \in Message : m # command => queue'[m] = "absent"
  BY <1>1, <1>2 DEF TaskInv, OneMessage
<1>7. draft'[Task] = Ledger!NoDraft
  BY <1>3 DEF TaskInv, OneMessage, InLoop, Ledger!InLoop
<1> QED
  BY <1>2, <1>3, <1>5, <1>6, <1>7 DEF Handover, TaskInv, OneMessage

LEMMA HandoverOfBegin ==
  ASSUME TaskInv, RunTyped, Ledger!Begin(Task)
  PROVE  Handover
<1>1. PICK m \in inbox[Task] :
        /\ inbox' = [inbox EXCEPT ![Task] = @ \ {m}]
        /\ current' = [current EXCEPT ![Task] = m]
  BY DEF Ledger!Begin
<1>2. m = command /\ inbox[Task] = {command}
  BY <1>1 DEF TaskInv, OneMessage
<1>3. inbox'[Task] = {} /\ current'[Task] = command
  BY <1>1, <1>2, TaskTyped DEF TaskInv
<1>4. UNCHANGED <<queue, delivered, draft>> /\ pc[Task] = "begin"
  BY DEF Ledger!Begin, Ledger!server, Ledger!database
<1>5. draft[Task] = Ledger!NoDraft
  BY <1>4 DEF TaskInv, OneMessage, InLoop, Ledger!InLoop
<1> QED
  BY <1>3, <1>4, <1>5 DEF Handover, TaskInv, OneMessage

LEMMA HandoverOfLoop ==
  ASSUME TaskInv, RunTyped,
         Ledger!Claim(Task) \/ Ledger!Send(Task) \/ Ledger!MarkSent(Task)
           \/ Ledger!MarkFailed(Task)
  PROVE  Handover
<1>1. /\ pc[Task] \in InLoop
      /\ pc'[Task] \in InLoop \cup {"commit"}
      /\ UNCHANGED <<queue, delivered, inbox, current>>
  BY TaskTyped DEF TaskInv, InLoop, Ledger!InLoop, Ledger!Claim, Ledger!Send, Ledger!MarkSent,
     Ledger!MarkFailed, Ledger!Continue, Ledger!Goto, Ledger!server
<1>2. inbox[Task] = {}
  BY <1>1 DEF TaskInv, OneMessage, InLoop, Ledger!InLoop
<1> QED
  BY <1>1, <1>2 DEF Handover, TaskInv, OneMessage

LEMMA HandoverOfEnd ==
  ASSUME TaskInv, RunTyped, Ledger!Commit(Task) \/ Ledger!StatementFails(Task)
  PROVE  Handover
<1>1. pc[Task] # "begin" /\ Ledger!Release(Task) /\ UNCHANGED <<queue, delivered, inbox, current>>
  BY DEF Ledger!Commit, Ledger!StatementFails, Ledger!Undo, Ledger!server
<1>2. draft'[Task] = Ledger!NoDraft
  BY <1>1, TaskTyped DEF TaskInv, Ledger!Release
<1>3. inbox[Task] = {}
  BY <1>1 DEF TaskInv, OneMessage
<1> QED
  BY <1>1, <1>2, <1>3 DEF Handover, TaskInv, OneMessage

LEMMA HandoverOfAnswer ==
  ASSUME TaskInv, RunTyped, Ledger!Ack(Task) \/ Ledger!Nak(Task) \/ Ledger!TaskDies(Task)
  PROVE  Handover
<1>1. /\ pc[Task] \in {"ack", "nak"} /\ UNCHANGED <<delivered, draft>>
      /\ pc'[Task] \in {"fetch", "begin", "dead"}
      /\ current'[Task] = None
  BY TaskTyped DEF TaskInv, Ledger!Ack, Ledger!Nak, Ledger!TaskDies, Ledger!Settled,
     Ledger!NextMessage, Ledger!Goto, Ledger!server, Ledger!database
<1>2. draft[Task] = Ledger!NoDraft /\ inbox[Task] = {}
  BY <1>1 DEF TaskInv, OneMessage, InLoop, Ledger!InLoop
<1>3. inbox'[Task] = {}
  BY <1>2, TaskTyped DEF TaskInv, Ledger!Ack, Ledger!Nak, Ledger!TaskDies
<1>4. current[Task] = command
  <2>1. current[Task] \in Message
    BY <1>1 DEF TaskInv, Ledger!LedgerInv, Ledger!TypeInv, Ledger!HasMessage
  <2> QED
    BY <2>1, HarnessAssumption DEF TaskInv, OneMessage
<1>5. \/ UNCHANGED queue
      \/ /\ queue' = [queue EXCEPT ![command] = queue'[command]]
         /\ queue'[command] = "absent" => queue[command] = "absent"
  BY <1>4, TaskTyped DEF TaskInv, RunTyped, Ledger!Ack, Ledger!Nak, Ledger!TaskDies,
     Ledger!Returned, Ledger!server
<1>6. /\ \A m \in Message : m # command => queue'[m] = "absent"
      /\ step \notin Closing /\ queue'[command] = "absent" => delivered'[command] = 0
  BY <1>1, <1>5, TaskTyped DEF TaskInv, OneMessage
<1> QED
  BY <1>1, <1>2, <1>3, <1>6 DEF Handover

-----------------------------------------------------------------------------
(* The order of the cleanup.                                               *)

LEMMA StageOrder ==
  /\ CleanupStages[1] = "stop"
  /\ CleanupStages[Position("stop") + 1] = "delete"
  /\ CleanupStages[Position("delete") + 1] = "clean"
  /\ CleanupStages[Position("clean") + 1] = "close"
<1>1. /\ DOMAIN CleanupStages = 1..4
      /\ CleanupStages[1] = "stop" /\ CleanupStages[2] = "delete"
      /\ CleanupStages[3] = "clean" /\ CleanupStages[4] = "close"
  BY DEF CleanupStages
<1>2. Position("stop") \in DOMAIN CleanupStages /\ CleanupStages[Position("stop")] = "stop"
  BY <1>1 DEF Position
<1>3. Position("delete") \in DOMAIN CleanupStages /\ CleanupStages[Position("delete")] = "delete"
  BY <1>1 DEF Position
<1>4. Position("clean") \in DOMAIN CleanupStages /\ CleanupStages[Position("clean")] = "clean"
  BY <1>1 DEF Position
<1>5. Position("stop") = 1 /\ Position("delete") = 2 /\ Position("clean") = 3
  BY <1>1, <1>2, <1>3, <1>4
<1> QED
  BY <1>1, <1>5

LEMMA DoneLeads ==
  ASSUME NEW raised
  PROVE  /\ Done("stop", raised) => step = "stop" /\ step' = "delete"
         /\ Done("delete", raised) => step = "delete" /\ step' = "clean"
         /\ Done("clean", raised) => step = "clean" /\ step' = "close"
  BY StageOrder DEF Done

\* The steps of the body, which leave the task and the database alone.
BodyAction ==
  \/ CheckFixtures \/ MakeStream \/ StartConsumer \/ Publish \/ Poll \/ Settle \/ Collect
  \/ BodyRaises

\* Where each step of the harness begins, and where it leads.
LEMMA Places ==
  /\ Guard => step = "guard" /\ step' \in {"fixtures", "ended"}
  /\ CheckFixtures => step = "fixtures" /\ step' \in {"stream", "stop"}
  /\ MakeStream => step = "stream" /\ step' = "subscribe"
  /\ StartConsumer => step = "subscribe" /\ step' = "publish"
  /\ Publish => \/ step = "publish" /\ step' = "wait"
                \/ step = "republish" /\ step' = "collect"
  /\ Poll => step = "wait" /\ step' \in {"wait", "settle", "republish", "collect", "stop"}
  /\ Settle => step = "settle" /\ step' \in {"collect", "stop"}
  /\ Collect => step = "collect" /\ step' = "stop"
  /\ BodyRaises => step \in BodyStep /\ step' = "stop"
  /\ StopConsumer => step = "stop" /\ step' = "delete"
  /\ DeleteStream => step = "delete" /\ step' = "clean"
  /\ CleanDatabase => step = "clean" /\ step' = "close"
  /\ Finish => step = "close" /\ step' = "ended"
<1>1. Poll => step = "wait" /\ step' \in {"wait", "settle", "republish", "collect", "stop"}
  BY StageOrder DEF Poll, CheckAgain, Raise
<1>2. /\ CheckFixtures => step = "fixtures" /\ step' \in {"stream", "stop"}
      /\ Settle => step = "settle" /\ step' \in {"collect", "stop"}
      /\ Collect => step = "collect" /\ step' = "stop"
      /\ BodyRaises => step \in BodyStep /\ step' = "stop"
  BY StageOrder DEF CheckFixtures, Settle, Collect, BodyRaises, Raise
<1>3. StopConsumer => step = "stop" /\ step' = "delete"
  BY DoneLeads DEF StopConsumer
<1>4. DeleteStream => step = "delete" /\ step' = "clean"
  BY DoneLeads DEF DeleteStream
<1>5. CleanDatabase => step = "clean" /\ step' = "close"
  BY DoneLeads DEF CleanDatabase
<1>6. Publish => \/ step = "publish" /\ step' = "wait"
                 \/ step = "republish" /\ step' = "collect"
  BY DEF Publish
<1>7. /\ Guard => step = "guard" /\ step' \in {"fixtures", "ended"}
      /\ MakeStream => step = "stream" /\ step' = "subscribe"
      /\ StartConsumer => step = "subscribe" /\ step' = "publish"
      /\ Finish => step = "close" /\ step' = "ended"
  BY DEF Guard, MakeStream, StartConsumer, Finish
<1> QED
  BY <1>1, <1>2, <1>3, <1>4, <1>5, <1>6, <1>7

\* The consumer and JetStream do not move the run.
LEMMA Aside ==
  ConsumerStep \/ AckWaitPasses =>
    UNCHANGED <<config, outcome, fixture, stream, streamCreated, running, step, polls>>
<1>1. ConsumerStep => TaskFrame
  BY ConsumerSteps
<1> QED
  BY <1>1 DEF TaskFrame, AckWaitPasses

\* Every step is one of these.
LEMMA StepKinds ==
  ASSUME [Next]_vars
  PROVE  \/ Guard \/ BodyAction \/ StopConsumer \/ DeleteStream \/ CleanDatabase \/ Finish
         \/ ConsumerStep \/ AckWaitPasses \/ UNCHANGED vars
  BY DEF Next, HarnessStep, BodyAction, Ended

\* A place of the cleanup is never left for the body.
LEMMA ClosingStays ==
  ASSUME [Next]_vars
  PROVE  /\ command' = command
         /\ step' \notin Closing => step \notin Closing
<1>1. command' = command
  BY StepKinds, Aside DEF Guard, BodyAction, CheckFixtures, MakeStream, StartConsumer, Publish,
     Poll, Settle, Collect, BodyRaises, BodyFrame, StopConsumer, DeleteStream, CleanDatabase,
     Done, Finish, vars, config
<1>2. step' \notin Closing => step \notin Closing
  <2>1. CASE ConsumerStep \/ AckWaitPasses \/ UNCHANGED vars
    BY <2>1, Aside DEF vars
  <2>2. CASE ~(ConsumerStep \/ AckWaitPasses \/ UNCHANGED vars)
    BY <2>2, StepKinds, Places DEF BodyAction, Closing, Stage, BodyStep
  <2> QED
    BY <2>1, <2>2
<1> QED
  BY <1>1, <1>2

-----------------------------------------------------------------------------
(* The consumer keeps its invariant beside the harness.                    *)

\* What a step of the body leaves alone.
LEMMA BodyLeaves ==
  ASSUME BodyAction
  PROVE  /\ UNCHANGED <<consuming, ledger, fixture, tries, config, attempts, cleanupErrors, exit>>
         /\ UNCHANGED queue \/ (step \in {"publish", "republish"} /\ Published)
  BY DEF BodyAction, CheckFixtures, MakeStream, StartConsumer, Publish, Poll, Settle, Collect,
     BodyRaises, BodyFrame, messages, database, config

LEMMA PublishedTyped ==
  ASSUME TaskInv, RunTyped, step \notin Closing, Published
  PROVE  /\ queue' \in [Message -> Ledger!QueueState]
         /\ \A m \in Message : queue'[m] = "ready" => delivered[m] < MaxDeliver
         /\ queue'[command] # "absent"
         /\ \A m \in Message : m # command => queue'[m] = queue[m]
<1>1. queue \in [Message -> Ledger!QueueState] /\ command \in Message
  BY TaskTyped DEF TaskInv, RunTyped
<1>2. queue'[command] = IF queue[command] = "absent" THEN "ready" ELSE queue[command]
  BY <1>1 DEF Published
<1>3. \A m \in Message : m # command => queue'[m] = queue[m]
  BY <1>1 DEF Published
<1>4. queue' \in [Message -> Ledger!QueueState]
  BY <1>1 DEF Published, Ledger!QueueState
<1>5. \A m \in Message : queue[m] = "ready" => delivered[m] < MaxDeliver
  BY DEF TaskInv, Ledger!LedgerInv, Ledger!TypeInv, Ledger!OfferedIsLeft
<1>6. queue[command] = "absent" => delivered[command] < MaxDeliver
  BY HarnessAssumption DEF TaskInv, OneMessage
<1>7. ASSUME NEW m \in Message, queue'[m] = "ready" PROVE delivered[m] < MaxDeliver
  <2>1. CASE m = command
    BY <1>1, <1>2, <1>5, <1>6, <1>7, <2>1
  <2>2. CASE m # command
    BY <1>3, <1>5, <1>7, <2>2
  <2> QED
    BY <2>1, <2>2
<1> QED
  BY <1>2, <1>3, <1>4, <1>7

LEMMA NextLedgerInv ==
  ASSUME TaskInv, RunTyped, Stopped, [Next]_vars
  PROVE  Ledger!LedgerInv'
<1>0. Ledger!LedgerInv /\ command \in Message
  BY DEF TaskInv, RunTyped
<1>1. CASE ConsumerStep \/ AckWaitPasses
  <2>1. Ledger!Next
    BY <1>0, <1>1, LedgerSteps
  <2> QED
    BY <1>0, <2>1, Ledger!NextLedger, LedgerAssumption
<1>2. CASE BodyAction
  <2>1. CASE UNCHANGED queue
    BY <1>0, <1>2, <2>1, BodyLeaves, LedgerFrame
  <2>2. CASE step \in {"publish", "republish"} /\ Published
    <3>1. step \notin Closing
      BY <2>2 DEF Closing, Stage
    <3> QED
      BY <1>0, <1>2, <2>2, <3>1, BodyLeaves, PublishedTyped, LedgerFrame
  <2> QED
    BY <1>2, <2>1, <2>2, BodyLeaves
<1>3. CASE StopConsumer
  BY <1>0, <1>3, LedgerStops
<1>4. CASE DeleteStream
  <2>1. /\ UNCHANGED <<consuming, ledger, fixture>>
        /\ UNCHANGED queue \/ queue' = [m \in Message |-> "absent"]
    BY <1>4 DEF DeleteStream, database
  <2>2. [m \in Message |-> "absent"] \in [Message -> Ledger!QueueState]
    BY DEF Ledger!QueueState
  <2> QED
    BY <1>0, <2>1, <2>2, LedgerFrame
<1>5. CASE CleanDatabase
  <2>1. pc[Task] = "fetch"
    BY <1>5, Places DEF Stopped
  <2>2. draft[Task] = Ledger!NoDraft
    BY <2>1 DEF TaskInv, OneMessage, InLoop, Ledger!InLoop
  <2> QED
    BY <1>0, <1>5, <2>1, <2>2, LedgerCleaned
<1>6. CASE Guard \/ Finish \/ UNCHANGED vars
  <2>1. UNCHANGED <<consuming, ledger, fixture, queue>>
    BY <1>6 DEF Guard, Finish, vars, consuming, messages, database
  <2> QED
    BY <1>0, <2>1, LedgerFrame
<1> QED
  BY <1>1, <1>2, <1>3, <1>4, <1>5, <1>6, StepKinds

\* Nothing of the task moves.
LEMMA HandoverOfFrame ==
  ASSUME TaskInv, RunTyped, UNCHANGED consuming,
         \/ UNCHANGED queue
         \/ step \notin Closing /\ Published
         \/ step \in Closing /\ queue' = [m \in Message |-> "absent"]
  PROVE  Handover
<1>1. UNCHANGED <<delivered, draft, pc, inbox, current>>
  BY DEF consuming
<1>2. CASE UNCHANGED queue
  BY <1>1, <1>2 DEF Handover, TaskInv, OneMessage
<1>3. CASE step \notin Closing /\ Published
  BY <1>1, <1>3, PublishedTyped DEF Handover, TaskInv, OneMessage
<1>4. CASE step \in Closing /\ queue' = [m \in Message |-> "absent"]
  BY <1>1, <1>4 DEF Handover, TaskInv, OneMessage
<1> QED
  BY <1>2, <1>3, <1>4

LEMMA HandoverOfStop ==
  ASSUME TaskInv, RunTyped, StopConsumer
  PROVE  Handover
<1>1. Ledger!Release(Task) /\ Ledger!Settled(Task) /\ Ledger!Goto(Task, "fetch")
  BY SameEnds DEF StopConsumer, Delivery!Undo, Delivery!Goto, Ledger!Goto
<1>2. draft'[Task] = Ledger!NoDraft /\ current'[Task] = None /\ pc'[Task] = "fetch"
  BY <1>1, TaskTyped DEF TaskInv, Ledger!Release, Ledger!Settled, Ledger!Goto
<1>3. inbox'[Task] = {} /\ UNCHANGED <<queue, delivered>>
  BY DEF StopConsumer, TaskHas, messages
<1> QED
  BY <1>2, <1>3 DEF Handover, TaskInv, OneMessage

LEMMA HandoverOfAckWait ==
  ASSUME TaskInv, RunTyped, AckWaitPasses
  PROVE  Handover
<1>1. Ledger!AckWaitExpires(command)
  BY SameQueueSteps DEF AckWaitPasses
<1>2. /\ UNCHANGED <<delivered, draft, pc, inbox, current>>
      /\ queue' = [queue EXCEPT ![command] = Ledger!Returned(command)]
  BY <1>1 DEF Ledger!AckWaitExpires, Ledger!database
<1>3. Ledger!Returned(command) # "absent"
  BY DEF Ledger!Returned
<1> QED
  BY <1>2, <1>3, TaskTyped DEF Handover, TaskInv, OneMessage, RunTyped

LEMMA NextTask ==
  ASSUME TaskInv, RunTyped, Stopped, [Next]_vars
  PROVE  TaskInv'
<1>1. Handover
  <2>1. CASE ConsumerStep
    BY <2>1, ConsumerSteps, HandoverOfFetch, HandoverOfBegin, HandoverOfLoop, HandoverOfEnd,
       HandoverOfAnswer DEF WatchedSend, WatchedCommit, PlainStep
  <2>2. CASE AckWaitPasses
    BY <2>2, HandoverOfAckWait
  <2>3. CASE BodyAction
    <3>1. step \in {"publish", "republish"} => step \notin Closing
      BY DEF Closing, Stage
    <3> QED
      BY <2>3, <3>1, BodyLeaves, HandoverOfFrame
  <2>4. CASE StopConsumer
    BY <2>4, HandoverOfStop
  <2>5. CASE DeleteStream
    <3>1. UNCHANGED consuming /\ (UNCHANGED queue \/ queue' = [m \in Message |-> "absent"])
      BY <2>5 DEF DeleteStream
    <3>2. step \in Closing
      BY <2>5, Places DEF Closing, Stage
    <3> QED
      BY <3>1, <3>2, HandoverOfFrame
  <2>6. CASE Guard \/ CleanDatabase \/ Finish \/ UNCHANGED vars
    <3>1. UNCHANGED consuming /\ UNCHANGED queue
      BY <2>6 DEF Guard, CleanDatabase, Finish, vars, messages
    <3> QED
      BY <3>1, HandoverOfFrame
  <2> QED
    BY <2>1, <2>2, <2>3, <2>4, <2>5, <2>6, StepKinds
<1> QED
  BY <1>1, HandoverIsOneMessage, ClosingStays, NextLedgerInv DEF TaskInv

-----------------------------------------------------------------------------
(* The run itself.                                                         *)

\* What depends on the configuration alone.
LEMMA ConfigKept ==
  ASSUME [Next]_vars
  PROVE  /\ UNCHANGED <<scenario, command, plan, allowed>>
         /\ PlanFits' = PlanFits /\ Targets' = Targets /\ Expected' = Expected
         /\ \A u : Row(u)' = Row(u) /\ Scripted(u)' = Scripted(u)
<1>1. UNCHANGED config
  BY StepKinds, BodyLeaves, Aside DEF Guard, StopConsumer, DeleteStream, CleanDatabase, Done,
     Finish, vars
<1>2. UNCHANGED <<scenario, command, plan, allowed>>
  BY <1>1 DEF config
<1>3. Targets' = Targets /\ Expected' = Expected /\ (\A u : Row(u)' = Row(u))
  BY <1>2 DEF Targets, Delivery!Users, Expected, Row
<1>4. \A u : Scripted(u)' = Scripted(u)
  BY <1>2 DEF Scripted
<1>5. PlanFits' = PlanFits
  BY <1>2, <1>3 DEF PlanFits
<1> QED
  BY <1>2, <1>3, <1>4, <1>5

\* The targets are users.
LEMMA TargetsTyped ==
  ASSUME RunTyped
  PROVE  Targets \subseteq User
<1>1. UsersOf[command] \in Seq(User)
  BY HarnessAssumption DEF RunTyped
<1> QED
  BY <1>1 DEF Targets, Delivery!Users

LEMMA StepTyped ==
  ASSUME RunTyped, [Next]_vars
  PROVE  step' \in {"guard", "ended"} \cup BodyStep \cup Stage
<1>1. CASE Guard \/ BodyAction \/ StopConsumer \/ DeleteStream \/ CleanDatabase \/ Finish
  BY <1>1, Places DEF BodyAction, BodyStep, Stage
<1>2. CASE ConsumerStep \/ AckWaitPasses \/ UNCHANGED vars
  BY <1>2, Aside DEF RunTyped, vars
<1> QED
  BY <1>1, <1>2, StepKinds

LEMMA PollsTyped ==
  ASSUME RunTyped, [Next]_vars
  PROVE  /\ polls' \in 0..MaxPolls
         /\ step' \in Opening \cup {"publish", "wait"} => polls' < MaxPolls
<1>1. CASE Poll
  <2>1. polls < MaxPolls /\ polls \in Nat /\ MaxPolls \in Nat
    BY <1>1, Places, HarnessAssumption DEF RunTyped
  <2>2. UNCHANGED polls \/ (polls' = polls + 1 /\ (polls' < MaxPolls \/ step' = "stop"))
    BY <1>1, StageOrder DEF Poll, CheckAgain, Raise
  <2> QED
    BY <1>1, <2>1, <2>2, Places DEF Opening
<1>2. CASE ~Poll
  <2>1. UNCHANGED polls
    BY <1>2, StepKinds, Aside DEF Guard, BodyAction, CheckFixtures, MakeStream, StartConsumer,
       Publish, Settle, Collect, BodyRaises, StopConsumer, DeleteStream, CleanDatabase, Done,
       Finish, vars
  <2>2. step' \in Opening \cup {"publish", "wait"} => step \in Opening \cup {"publish", "wait"}
    <3>1. CASE Guard \/ BodyAction \/ StopConsumer \/ DeleteStream \/ CleanDatabase \/ Finish
      BY <1>2, <3>1, Places DEF BodyAction, Opening
    <3>2. CASE ConsumerStep \/ AckWaitPasses \/ UNCHANGED vars
      BY <3>2, Aside DEF vars
    <3> QED
      BY <3>1, <3>2, StepKinds
  <2> QED
    BY <2>1, <2>2 DEF RunTyped
<1> QED
  BY <1>1, <1>2

LEMMA EvidenceTyped ==
  ASSUME TaskInv, RunTyped, Collect
  PROVE  evidence' \in [User -> [status : {"none", "SKIPPED", "PENDING", "SENT", "FAILED"},
                                 attempts : Nat]]
<1>1. ASSUME NEW u \in Targets
      PROVE  /\ StatusOf(u) \in {"none", "SKIPPED", "PENDING", "SENT", "FAILED"}
             /\ attempts[u] \in Nat
  <2>1. u \in User
    BY TargetsTyped
  <2>2. ledger[Row(u)] \in {"PENDING", "SENT", "FAILED", None}
    BY <2>1, RowTyped, TaskTyped DEF TaskInv, Ledger!RowStatus
  <2> QED
    BY <2>1, <2>2 DEF StatusOf, RunTyped
<1> QED
  BY <1>1 DEF Collect, RunTyped

LEMMA CountersTyped ==
  ASSUME TaskInv, RunTyped, [Next]_vars
  PROVE  tries' \in [User -> Nat] /\ attempts' \in [User -> Nat]
<1>1. CASE ConsumerStep
  <2>1. CASE WatchedSend
    <3>1. pc[Task] \in InLoop
      BY <2>1 DEF WatchedSend, Ledger!Send, InLoop, Ledger!InLoop
    <3>2. Hand[2] \in User
      BY <3>1, HandTyped
    <3> QED
      BY <2>1, <3>2 DEF WatchedSend, RunTyped
  <2>2. CASE WatchedCommit
    BY <2>2 DEF WatchedCommit, RunTyped
  <2> QED
    BY <1>1, <2>1, <2>2, ConsumerSteps DEF RunTyped
<1>2. CASE CleanDatabase
  BY <1>2 DEF CleanDatabase, Done, database, RunTyped
<1>3. CASE ~ConsumerStep /\ ~CleanDatabase
  <2>1. UNCHANGED <<tries, attempts>>
    BY <1>3, StepKinds, BodyLeaves DEF Guard, StopConsumer, DeleteStream, Done, Finish,
       AckWaitPasses, vars, database
  <2> QED
    BY <2>1 DEF RunTyped
<1> QED
  BY <1>1, <1>2, <1>3

LEMMA NextRunTyped ==
  ASSUME TaskInv, RunTyped, [Next]_vars
  PROVE  RunTyped'
<1>1. scenario' \in Scenario /\ command' \in Message /\ plan' \in [User -> Plan]
      /\ allowed' \in BOOLEAN
  BY ConfigKept DEF RunTyped
<1>2. fixture' \in [User -> Binding]
  <2>1. CASE CleanDatabase
    BY <2>1 DEF CleanDatabase, database, RunTyped, Binding
  <2>2. CASE ~CleanDatabase
    <3>1. UNCHANGED fixture
      BY <2>2, StepKinds, BodyLeaves, Aside DEF Guard, StopConsumer, DeleteStream, Finish, vars,
         database
    <3> QED
      BY <3>1 DEF RunTyped
  <2> QED
    BY <2>1, <2>2
<1>3. stream' \in BOOLEAN /\ streamCreated' \in BOOLEAN /\ running' \in BOOLEAN
  BY StepKinds, Aside, Zenon DEF RunTyped, Guard, BodyAction, CheckFixtures, MakeStream, StartConsumer,
     Publish, Poll, Settle, Collect, BodyRaises, StopConsumer, DeleteStream, CleanDatabase, Done,
     Finish, vars, messages
<1>4. error' \in BOOLEAN
  BY StepKinds, Aside DEF RunTyped, Guard, BodyAction, CheckFixtures, MakeStream, StartConsumer,
     Publish, Poll, CheckAgain, Settle, Collect, BodyRaises, Raise, StopConsumer, DeleteStream,
     CleanDatabase, Done, Finish, vars, outcome
<1>5. cleanupErrors' \in SUBSET Stage
  <2>1. CASE StopConsumer \/ DeleteStream \/ CleanDatabase \/ Finish
    BY <2>1 DEF StopConsumer, DeleteStream, CleanDatabase, Done, Finish, RunTyped, Stage
  <2>2. CASE ~(StopConsumer \/ DeleteStream \/ CleanDatabase \/ Finish)
    <3>1. UNCHANGED cleanupErrors
      BY <2>2, StepKinds, BodyLeaves, Aside DEF Guard, vars, outcome
    <3> QED
      BY <3>1 DEF RunTyped
  <2> QED
    BY <2>1, <2>2
<1>6. exit' \in {"none", "rejected", "failed", "ok"}
  BY StepKinds, BodyLeaves, Aside DEF RunTyped, Guard, StopConsumer, DeleteStream,
     CleanDatabase, Done, Finish, vars, outcome
<1>7. evidence' \in [User -> [status : {"none", "SKIPPED", "PENDING", "SENT", "FAILED"},
                              attempts : Nat]]
  <2>1. CASE ~Collect
    <3>1. UNCHANGED evidence
      BY <2>1, StepKinds, Aside DEF Guard, BodyAction, CheckFixtures, MakeStream, StartConsumer,
         Publish, Poll, Settle, BodyRaises, StopConsumer, DeleteStream, CleanDatabase, Done,
         Finish, vars, outcome
    <3> QED
      BY <3>1 DEF RunTyped
  <2> QED
    BY <2>1, EvidenceTyped
<1> QED
  BY <1>1, <1>2, <1>3, <1>4, <1>5, <1>6, <1>7, StepTyped, PollsTyped, CountersTyped DEF RunTyped

LEMMA NextConfigured ==
  ASSUME RunTyped, Configured, [Next]_vars
  PROVE  Configured'
<1>1. (command \in Malformed <=> scenario = "malformed")'
  BY ConfigKept DEF Configured
<1>2. CASE Guard
  <2>1. /\ step = "guard"
        /\ \/ PlanFits /\ step' = "fixtures" /\ UNCHANGED exit
           \/ step' = "ended" /\ exit' = "rejected"
    BY <1>2 DEF Guard
  <2> QED
    BY <1>1, <2>1, ConfigKept DEF Configured, BodyStep, Stage
<1>3. CASE BodyAction \/ StopConsumer \/ DeleteStream \/ CleanDatabase
  <2>1. UNCHANGED exit
    BY <1>3, BodyLeaves DEF StopConsumer, DeleteStream, CleanDatabase, Done
  <2>2. step \in BodyStep \cup Stage
    BY <1>3, Places DEF BodyAction, BodyStep, Stage
  <2>3. exit' = "none" /\ PlanFits
    BY <2>1, <2>2 DEF Configured, BodyStep, Stage
  <2> QED
    BY <1>1, <2>3, ConfigKept DEF Configured
<1>4. CASE Finish
  <2>1. step = "close" /\ step' = "ended"
    BY <1>4, Places
  <2> QED
    BY <1>1, <2>1, ConfigKept DEF Configured, BodyStep, Stage
<1>5. CASE ConsumerStep \/ AckWaitPasses \/ UNCHANGED vars
  <2>1. UNCHANGED <<exit, step>>
    BY <1>5, Aside DEF vars, outcome
  <2> QED
    BY <1>1, <2>1, ConfigKept DEF Configured
<1> QED
  BY <1>2, <1>3, <1>4, <1>5, StepKinds

LEMMA NextStopped ==
  ASSUME TaskInv, Stopped, [Next]_vars
  PROVE  Stopped'
<1>1. CASE BodyAction
  <2>1. UNCHANGED pc
    BY <1>1, BodyLeaves DEF consuming
  <2>2. UNCHANGED running \/ (StartConsumer /\ running' = TRUE /\ step' = "publish")
    BY <1>1, Places DEF BodyAction, CheckFixtures, MakeStream, StartConsumer, Publish, Poll,
       Settle, Collect, BodyRaises
  <2>3. step' \in Opening \cup {"delete", "clean", "close", "ended"} => step \in Opening
    BY <1>1, Places DEF BodyAction, Opening, BodyStep
  <2> QED
    BY <2>1, <2>2, <2>3 DEF Stopped, Opening
<1>2. CASE StopConsumer
  <2>1. pc' = [pc EXCEPT ![Task] = "fetch"] /\ running' = FALSE
    BY <1>2 DEF StopConsumer, Delivery!Goto
  <2> QED
    BY <2>1, TaskTyped DEF TaskInv, Stopped
<1>3. CASE Guard \/ DeleteStream \/ CleanDatabase \/ Finish
  <2>1. UNCHANGED <<pc, running>>
    BY <1>3 DEF Guard, DeleteStream, CleanDatabase, Finish, consuming
  <2>2. step \in Opening \cup {"delete", "clean", "close"}
    BY <1>3, Places DEF Opening
  <2> QED
    BY <2>1, <2>2 DEF Stopped
<1>4. CASE ConsumerStep
  <2>1. running /\ UNCHANGED <<running, step>>
    BY <1>4, ConsumerSteps DEF TaskFrame
  <2> QED
    BY <2>1 DEF Stopped
<1>5. CASE AckWaitPasses
  <2>1. UNCHANGED <<running, step>>
    BY <1>5, Aside
  <2>2. UNCHANGED pc
    BY <1>5 DEF AckWaitPasses, Delivery!AckWaitExpires
  <2> QED
    BY <2>1, <2>2 DEF Stopped
<1>6. CASE UNCHANGED vars
  BY <1>6 DEF vars, consuming, Stopped
<1> QED
  BY <1>1, <1>2, <1>3, <1>4, <1>5, <1>6, StepKinds

LEMMA NextFixturesFit ==
  ASSUME TaskInv, RunTyped, Stopped, FixturesFit, [Next]_vars
  PROVE  FixturesFit'
<1> DEFINE Fit == scenario = "malformed" \/ \A u \in Targets : fixture[u] = Expected
<1>1. ASSUME UNCHANGED fixture, Fit PROVE FixturesFit'
  BY <1>1, ConfigKept DEF FixturesFit
<1>2. CASE BodyAction
  <2>1. UNCHANGED fixture
    BY <1>2, BodyLeaves
  <2>2. CASE CheckFixtures
    <3>1. (step' = "stream" /\ Fit) \/ (step' = "stop" /\ ~running)
      BY <2>2, Places, StageOrder DEF CheckFixtures, Raise, Stopped, Opening
    <3>2. UNCHANGED running
      BY <2>2 DEF CheckFixtures
    <3> QED
      BY <1>1, <2>1, <3>1, <3>2 DEF FixturesFit
  <2>3. CASE ~CheckFixtures
    <3>1. running' \/ step' \in {"stream", "subscribe"} => running \/ step \in {"stream", "subscribe"}
      BY <1>2, <2>3, Places DEF BodyAction, MakeStream, StartConsumer, Publish, Poll,
         Settle, Collect, BodyRaises
    <3> QED
      BY <1>1, <2>1, <3>1 DEF FixturesFit
  <2> QED
    BY <2>2, <2>3
<1>3. CASE StopConsumer \/ DeleteStream \/ CleanDatabase \/ Finish
  <2>1. step' \in {"delete", "clean", "close", "ended"}
    BY <1>3, Places
  <2>2. ~running'
    BY <2>1, NextStopped DEF Stopped
  <2> QED
    BY <2>1, <2>2 DEF FixturesFit
<1>4. CASE Guard
  <2>1. ~running' /\ step' \notin {"stream", "subscribe"}
    BY <1>4, Places DEF Guard, Stopped, Opening
  <2> QED
    BY <2>1 DEF FixturesFit
<1>5. CASE ConsumerStep \/ AckWaitPasses \/ UNCHANGED vars
  <2>1. UNCHANGED <<fixture, running, step>>
    BY <1>5, Aside DEF vars, database
  <2> QED
    BY <1>1, <2>1 DEF FixturesFit
<1> QED
  BY <1>2, <1>3, <1>4, <1>5, StepKinds

LEMMA NextRun ==
  ASSUME TaskInv, RunInv, [Next]_vars
  PROVE  RunInv'
  BY NextRunTyped, NextConfigured, NextStopped, NextFixturesFit DEF RunInv

-----------------------------------------------------------------------------
(* Counting.                                                               *)

\* A step that sends nothing, commits nothing and brings nothing closer keeps
\* the counts.
LEMMA CountsKept ==
  ASSUME CountInv, command' = command, UNCHANGED <<delivered, attempts, tries>>,
         \A u \in User : Ahead(u)' => Ahead(u),
         \A u \in User : draft'[Task][Row(u)] # None => Ahead(u) \/ draft[Task][Row(u)] # None
  PROVE  CountInv'
<1>1. \A u : Row(u)' = Row(u)
  BY DEF Row
<1>2. Counted'
  BY DEF CountInv, Counted
<1>3. Claimed'
  BY <1>1 DEF CountInv, Claimed
<1> QED
  BY <1>2, <1>3 DEF CountInv

\* The task that is outside of a delivery has nothing ahead.
LEMMA NothingAhead ==
  ASSUME inbox'[Task] = {}, pc'[Task] \notin InLoop
  PROVE  \A u : ~Ahead(u)'
  BY DEF Ahead, InLoop, Ledger!InLoop

LEMMA NoRowWritten ==
  ASSUME RunTyped, draft'[Task] = Ledger!NoDraft
  PROVE  \A u \in User : draft'[Task][Row(u)] = None
  BY RowTyped DEF Ledger!NoDraft

LEMMA CountFetch ==
  ASSUME TaskInv, RunTyped, CountInv, command' = command, UNCHANGED <<tries, attempts>>,
         Ledger!Fetch(Task)
  PROVE  CountInv'
<1>1. PICK batch \in SUBSET {m \in Message : queue[m] = "ready"} :
        /\ inbox' = [inbox EXCEPT ![Task] = batch]
        /\ delivered' = [m \in Message |-> delivered[m] + (IF m \in batch THEN 1 ELSE 0)]
  BY DEF Ledger!Fetch
<1>2. command \in Message /\ delivered[command] \in Nat
  BY TaskTyped DEF TaskInv, RunTyped
<1>3. delivered'[command] = delivered[command] + (IF command \in batch THEN 1 ELSE 0)
  BY <1>1, <1>2
<1>4. inbox'[Task] = batch /\ pc'[Task] = "begin" /\ draft' = draft /\ pc[Task] = "fetch"
  BY <1>1, TaskTyped DEF TaskInv, Ledger!Fetch, Ledger!Goto, Ledger!database
<1>5. \A u : Ahead(u)' => command \in batch
  BY <1>4 DEF Ahead
<1>6. \A u \in User : draft'[Task][Row(u)] = None
  BY <1>4, NoRowWritten DEF TaskInv, OneMessage, InLoop, Ledger!InLoop
<1>7. \A u \in User : attempts[u] \in Nat /\ tries[u] \in Nat
  BY DEF RunTyped
<1>8. Counted'
  BY <1>2, <1>3, <1>5, <1>7 DEF CountInv, Counted
<1>9. Claimed'
  BY <1>2, <1>3, <1>5, <1>6, <1>7 DEF CountInv, Claimed, Row
<1> QED
  BY <1>8, <1>9 DEF CountInv

LEMMA CountBegin ==
  ASSUME TaskInv, RunTyped, CountInv, command' = command, UNCHANGED <<tries, attempts>>,
         Ledger!Begin(Task)
  PROVE  CountInv'
<1>1. inbox[Task] # {} /\ UNCHANGED <<delivered, draft>>
  BY DEF Ledger!Begin, Ledger!server, Ledger!database
<1>2. \A u : Ahead(u)
  BY <1>1 DEF TaskInv, OneMessage, Ahead
<1> QED
  BY <1>1, <1>2, CountsKept

\* The user of the row in hand is ahead until the message is sent.
LEMMA HandIsAhead ==
  ASSUME TaskInv, RunTyped, pc[Task] \in {"claim", "send"}
  PROVE  Ahead(Hand[2])
<1>1. pc[Task] \in InLoop
  BY DEF InLoop, Ledger!InLoop
<1>2. Ledger!Position(Task) \in todo[Task] /\ UsersOf[command][Ledger!Position(Task)] = Hand[2]
  BY <1>1, HandTyped
<1> QED
  BY <1>2 DEF Ahead

\* Of two rows of the run, that of the user in hand is the row in hand.
LEMMA HandRow ==
  ASSUME TaskInv, RunTyped, pc[Task] \in InLoop, NEW u \in User
  PROVE  Row(u) = Hand <=> u = Hand[2]
  BY HandTyped DEF Row

LEMMA ContinueNotAhead ==
  ASSUME TaskInv, RunTyped, pc[Task] \in InLoop, Ledger!Continue(Task), UNCHANGED inbox,
         command' = command
  PROVE  \A u : Ahead(u)' => Ahead(u)
<1>1. /\ todo'[Task] = todo[Task] \ {Ledger!Position(Task)}
      /\ pc'[Task] \in {"commit", "claim"}
  BY TaskTyped DEF TaskInv, Ledger!Continue, Ledger!Goto
<1>2. inbox[Task] = {}
  BY DEF TaskInv, OneMessage, InLoop, Ledger!InLoop
<1> QED
  BY <1>1, <1>2 DEF Ahead, InLoop, Ledger!InLoop

LEMMA CountClaim ==
  ASSUME TaskInv, RunTyped, CountInv, command' = command, UNCHANGED <<tries, attempts>>,
         Ledger!Claim(Task)
  PROVE  CountInv'
<1>1. pc[Task] = "claim" /\ pc[Task] \in InLoop /\ UNCHANGED <<delivered, inbox>>
  BY DEF Ledger!Claim, InLoop, Ledger!InLoop, Ledger!server
<1>2. CASE Ledger!Continue(Task) /\ UNCHANGED draft
  BY <1>1, <1>2, ContinueNotAhead, CountsKept
<1>3. CASE Ledger!Write(Task, Hand, "PENDING") /\ Ledger!Goto(Task, "send") /\ UNCHANGED todo
  <2>1. \A u : Ahead(u)' => Ahead(u)
    <3>1. pc'[Task] = "send"
      BY <1>3, TaskTyped DEF TaskInv, Ledger!Goto
    <3> QED
      BY <1>1, <1>3, <3>1 DEF Ahead
  <2>2. ASSUME NEW u \in User
        PROVE  draft'[Task][Row(u)] # None => Ahead(u) \/ draft[Task][Row(u)] # None
    <3>1. CASE u = Hand[2]
      BY <1>1, <3>1, HandIsAhead
    <3>2. CASE u # Hand[2]
      <4>1. Row(u) # Hand /\ Row(u) \in Ledger!Key
        BY <1>1, <3>2, HandRow, RowTyped
      <4>2. draft'[Task][Row(u)] = draft[Task][Row(u)]
        BY <1>3, <4>1, TaskTyped DEF TaskInv, Ledger!Write
      <4> QED
        BY <4>2
    <3> QED
      BY <3>1, <3>2
  <2> QED
    BY <1>1, <2>1, <2>2, CountsKept
<1> QED
  BY <1>2, <1>3 DEF Ledger!Claim, Hand

LEMMA CountMarks ==
  ASSUME TaskInv, RunTyped, CountInv, command' = command, UNCHANGED <<tries, attempts>>,
         Ledger!MarkSent(Task) \/ Ledger!MarkFailed(Task)
  PROVE  CountInv'
<1>1. /\ pc[Task] \in {"marksent", "markfailed"} /\ pc[Task] \in InLoop
      /\ Ledger!Continue(Task) /\ UNCHANGED <<delivered, inbox>>
  BY DEF Ledger!MarkSent, Ledger!MarkFailed, InLoop, Ledger!InLoop, Ledger!server
<1>2. PICK status : Ledger!Write(Task, Hand, status)
  BY DEF Ledger!MarkSent, Ledger!MarkFailed, Hand
<1>3. draft[Task][Hand] = "PENDING"
  <2>1. Ledger!InHand(Task)
    BY DEF TaskInv, Ledger!LedgerInv, Ledger!Own, Ledger!Written
  <2> QED
    BY <1>1, <2>1, HandTyped DEF Ledger!InHand, Ledger!Claimed, Hand
<1>4. ASSUME NEW u \in User
      PROVE  draft'[Task][Row(u)] # None => draft[Task][Row(u)] # None
  <2>1. CASE Row(u) = Hand
    BY <1>3, <2>1, HarnessAssumption
  <2>2. CASE Row(u) # Hand
    BY <1>2, <2>2, RowTyped, TaskTyped DEF TaskInv, Ledger!Write
  <2> QED
    BY <2>1, <2>2
<1> QED
  BY <1>1, <1>4, ContinueNotAhead, CountsKept

LEMMA CountSend ==
  ASSUME TaskInv, RunTyped, CountInv, command' = command, WatchedSend
  PROVE  CountInv'
<1>1. /\ pc[Task] = "send" /\ pc[Task] \in InLoop
      /\ UNCHANGED <<delivered, inbox, draft, tries, todo, current>>
  BY DEF WatchedSend, Ledger!Send, InLoop, Ledger!InLoop, Ledger!server, Ledger!database,
     Ledger!locals
<1>2. pc'[Task] \in {"marksent", "markfailed"}
  BY DEF WatchedSend, TaskHas
<1>3. Ledger!Position(Task)' = Ledger!Position(Task)
  BY <1>1 DEF Ledger!Position
<1>4. inbox[Task] = {}
  BY <1>1 DEF TaskInv, OneMessage
<1>5. Hand[2] \in User /\ Hand[2] = UsersOf[command][Ledger!Position(Task)]
      /\ todo[Task] \subseteq DOMAIN UsersOf[command] /\ Ledger!Position(Task) \in todo[Task]
  BY <1>1, HandTyped
<1>6. ASSUME NEW u, Ahead(u)' PROVE Ahead(u) /\ u # Hand[2]
  <2>1. PICK i \in todo[Task] \ {Ledger!Position(Task)} : UsersOf[command][i] = u
    BY <1>1, <1>2, <1>3, <1>4, <1>6 DEF Ahead
  <2>2. u # Hand[2]
    BY <1>5, <2>1, UsersAreDistinct DEF RunTyped
  <2> QED
    BY <1>1, <2>1, <2>2 DEF Ahead
<1>7. Ahead(Hand[2])
  BY <1>1, HandIsAhead
<1>8. command \in Message /\ delivered[command] \in Nat /\ attempts \in [User -> Nat]
  BY TaskTyped DEF TaskInv, RunTyped
<1>9. Counted'
  <2> SUFFICES ASSUME NEW u \in User
               PROVE  /\ attempts'[u] <= delivered[command]
                      /\ Ahead(u)' => attempts'[u] < delivered[command]
    BY <1>1 DEF Counted
  <2>1. CASE u = Hand[2]
    <3>1. attempts'[u] = attempts[u] + 1
      BY <1>5, <1>8, <2>1 DEF WatchedSend
    <3>2. attempts[u] < delivered[command] /\ attempts[u] \in Nat
      BY <1>7, <1>8, <2>1 DEF CountInv, Counted
    <3> QED
      BY <1>6, <1>8, <2>1, <3>1, <3>2
  <2>2. CASE u # Hand[2]
    <3>1. attempts'[u] = attempts[u]
      BY <1>8, <2>2 DEF WatchedSend
    <3> QED
      BY <1>6, <3>1 DEF CountInv, Counted
  <2> QED
    BY <2>1, <2>2
<1>10. Claimed'
  BY <1>1, <1>6 DEF CountInv, Claimed, Row
<1> QED
  BY <1>9, <1>10 DEF CountInv

LEMMA CountCommit ==
  ASSUME TaskInv, RunTyped, CountInv, command' = command, WatchedCommit
  PROVE  CountInv'
<1>1. /\ pc[Task] = "commit" /\ Ledger!Release(Task)
      /\ UNCHANGED <<delivered, inbox, attempts>>
  BY DEF WatchedCommit, Ledger!Commit, Ledger!server
<1>2. pc'[Task] \in {"ack", "nak"}
  BY TaskTyped DEF WatchedCommit, TaskInv, Ledger!Commit, Ledger!Goto
<1>3. \A u : ~Ahead(u)'
  <2>1. inbox'[Task] = {}
    BY <1>1 DEF TaskInv, OneMessage
  <2> QED
    BY <1>2, <2>1, NothingAhead DEF InLoop, Ledger!InLoop
<1>4. \A u \in User : draft'[Task][Row(u)] = None
  <2>1. draft'[Task] = Ledger!NoDraft
    BY <1>1, TaskTyped DEF TaskInv, Ledger!Release
  <2> QED
    BY <2>1, NoRowWritten
<1>5. command \in Message /\ delivered[command] \in Nat /\ tries \in [User -> Nat]
  BY TaskTyped DEF TaskInv, RunTyped
<1>6. ASSUME NEW u \in User PROVE tries'[u] <= delivered[command]
  <2>1. tries'[u] = IF draft[Task][Row(u)] = None THEN tries[u] ELSE tries[u] + 1
    BY DEF WatchedCommit
  <2>2. /\ tries[u] <= delivered[command] /\ tries[u] \in Nat
        /\ draft[Task][Row(u)] # None => tries[u] < delivered[command]
    BY <1>5 DEF CountInv, Claimed
  <2> QED
    BY <1>5, <2>1, <2>2
<1>7. Counted'
  BY <1>1, <1>3 DEF CountInv, Counted
<1>8. Claimed'
  BY <1>1, <1>3, <1>4, <1>6 DEF Claimed, Row
<1> QED
  BY <1>7, <1>8 DEF CountInv

\* A step after which the task holds nothing.
LEMMA CountIdle ==
  ASSUME RunTyped, CountInv, command' = command, UNCHANGED <<delivered, attempts, tries>>,
         inbox'[Task] = {}, pc'[Task] \notin InLoop, draft'[Task] = Ledger!NoDraft
  PROVE  CountInv'
  BY NothingAhead, NoRowWritten, CountsKept

LEMMA CountPlain ==
  ASSUME TaskInv, RunTyped, CountInv, command' = command, PlainStep,
         UNCHANGED <<tries, attempts>>
  PROVE  CountInv'
<1>1. CASE Ledger!StatementFails(Task)
  <2>1. /\ pc[Task] # "begin" /\ pc'[Task] = "nak" /\ UNCHANGED <<delivered, inbox>>
        /\ draft'[Task] = Ledger!NoDraft
    BY <1>1, TaskTyped DEF TaskInv, Ledger!StatementFails, Ledger!Undo, Ledger!Release,
       Ledger!Goto, Ledger!server
  <2>2. inbox'[Task] = {}
    BY <2>1 DEF TaskInv, OneMessage
  <2> QED
    BY <2>1, <2>2, CountIdle DEF InLoop, Ledger!InLoop
<1>2. CASE Ledger!Ack(Task) \/ Ledger!Nak(Task) \/ Ledger!TaskDies(Task)
  <2>1. /\ pc[Task] \in {"ack", "nak"} /\ UNCHANGED <<delivered, draft>>
        /\ pc'[Task] \in {"fetch", "begin", "dead"}
        /\ inbox[Task] = {} => inbox'[Task] = {}
    BY <1>2, TaskTyped DEF TaskInv, Ledger!Ack, Ledger!Nak, Ledger!TaskDies,
       Ledger!NextMessage, Ledger!Goto, Ledger!server, Ledger!database
  <2>2. inbox[Task] = {} /\ draft[Task] = Ledger!NoDraft
    BY <2>1 DEF TaskInv, OneMessage, InLoop, Ledger!InLoop
  <2> QED
    BY <2>1, <2>2, CountIdle DEF InLoop, Ledger!InLoop
<1> QED
  BY <1>1, <1>2, CountFetch, CountBegin, CountClaim, CountMarks DEF PlainStep

LEMMA NextCount ==
  ASSUME TaskInv, RunTyped, Stopped, CountInv, [Next]_vars
  PROVE  CountInv'
<1>0. command' = command
  BY ConfigKept
<1>1. CASE ConsumerStep
  BY <1>0, <1>1, ConsumerSteps, CountSend, CountCommit, CountPlain
<1>2. CASE StopConsumer
  <2>1. Ledger!Release(Task) /\ pc' = [pc EXCEPT ![Task] = "fetch"]
    BY <1>2, SameEnds DEF StopConsumer, Delivery!Undo, Delivery!Goto
  <2>2. pc'[Task] = "fetch" /\ draft'[Task] = Ledger!NoDraft
    BY <2>1, TaskTyped DEF TaskInv, Ledger!Release
  <2>3. inbox'[Task] = {} /\ UNCHANGED <<delivered, attempts, tries>>
    BY <1>2 DEF StopConsumer, Done, TaskHas
  <2> QED
    BY <1>0, <2>2, <2>3, CountIdle DEF InLoop, Ledger!InLoop
<1>3. CASE CleanDatabase
  <2>1. pc[Task] = "fetch" /\ UNCHANGED consuming /\ UNCHANGED attempts
    BY <1>3, Places DEF Stopped, CleanDatabase, Done
  <2>2. UNCHANGED <<delivered, pc, inbox, draft>>
    BY <2>1 DEF consuming
  <2>3. inbox[Task] = {} /\ draft[Task] = Ledger!NoDraft
    BY <2>1 DEF TaskInv, OneMessage, InLoop, Ledger!InLoop
  <2>4. CASE UNCHANGED tries
    BY <1>0, <2>1, <2>2, <2>3, <2>4, CountIdle DEF InLoop, Ledger!InLoop
  <2>5. CASE tries' = [u \in User |-> 0]
    <3>1. \A u : ~Ahead(u)'
      BY <2>1, <2>2, <2>3, NothingAhead DEF InLoop, Ledger!InLoop
    <3>2. \A u \in User : draft'[Task][Row(u)] = None
      BY <2>2, <2>3, NoRowWritten
    <3>3. delivered[command] \in Nat
      BY TaskTyped DEF TaskInv, RunTyped
    <3>4. Claimed'
      BY <1>0, <2>2, <2>5, <3>1, <3>2, <3>3 DEF Claimed, Row
    <3>5. Counted'
      BY <1>0, <2>1, <2>2, <3>1 DEF CountInv, Counted
    <3> QED
      BY <3>4, <3>5 DEF CountInv
  <2> QED
    BY <1>3, <2>4, <2>5 DEF CleanDatabase, database
<1>4. CASE AckWaitPasses \/ Guard \/ BodyAction \/ DeleteStream \/ Finish \/ UNCHANGED vars
  <2>1. UNCHANGED <<delivered, attempts, tries, inbox, pc, todo, draft>>
    <3>1. CASE AckWaitPasses
      BY <3>1 DEF AckWaitPasses, Delivery!AckWaitExpires, Delivery!database, Delivery!locals
    <3>2. CASE Guard \/ BodyAction \/ DeleteStream \/ Finish \/ UNCHANGED vars
      BY <3>2, BodyLeaves DEF Guard, DeleteStream, Done, Finish, vars, consuming, database
    <3> QED
      BY <1>4, <3>1, <3>2
  <2>2. \A u : Ahead(u)' <=> Ahead(u)
    BY <1>0, <2>1 DEF Ahead, Ledger!Position
  <2> QED
    BY <1>0, <2>1, <2>2, CountsKept
<1> QED
  BY <1>1, <1>2, <1>3, <1>4, StepKinds

-----------------------------------------------------------------------------
(* The script.                                                             *)

\* Nothing is sent or written, and the hand is not at a mark.
LEMMA ScriptKept ==
  ASSUME RowsScripted, OnceSent, UNCHANGED <<command, plan, attempts, draft, ledger>>,
         \A u : Row(u)' = Row(u),
         pc'[Task] = "marksent" <=> pc[Task] = "marksent",
         pc[Task] = "marksent" => Hand' = Hand,
         faults' = 0 => faults = 0,
         step' \notin Closing => step \notin Closing
  PROVE  RowsScripted' /\ OnceSent'
<1>1. \A u : Scripted(u)' = Scripted(u) /\ Enough(u)' = Enough(u)
  BY DEF Scripted, Enough
<1>2. \A u : Ledger!RowFor(Task, Row(u))' = Ledger!RowFor(Task, Row(u))
  BY DEF Ledger!RowFor
<1>3. RowsScripted'
  BY <1>1 DEF RowsScripted
<1>4. OnceSent'
  BY <1>1, <1>2 DEF OnceSent
<1> QED
  BY <1>3, <1>4

LEMMA HandKept == UNCHANGED <<todo, current>> => Hand' = Hand
  BY DEF Hand, Ledger!CurrentKey, Ledger!Position

LEMMA FaultsGrow ==
  ASSUME TaskInv, Ledger!NoFault \/ Ledger!Fault
  PROVE  faults' = 0 => faults = 0
  BY TaskTyped DEF TaskInv, Ledger!NoFault, Ledger!Fault

\* The row in hand is marked PENDING and nothing else until it is marked.
LEMMA HandIsPending ==
  ASSUME TaskInv, RunTyped, pc[Task] \in {"send", "marksent", "markfailed"}
  PROVE  draft[Task][Hand] = "PENDING" /\ Ledger!RowFor(Task, Hand) = "PENDING"
<1>1. Ledger!InHand(Task)
  BY DEF TaskInv, Ledger!LedgerInv, Ledger!Own, Ledger!Written
<1>2. Hand \in Ledger!Key
  BY HandTyped DEF InLoop, Ledger!InLoop
<1>3. draft[Task][Hand] = "PENDING"
  BY <1>1, <1>2 DEF Ledger!InHand, Ledger!Claimed, Hand
<1> QED
  BY <1>3, HarnessAssumption DEF Ledger!RowFor

LEMMA ScriptClaim ==
  ASSUME TaskInv, RunTyped, RowsScripted, OnceSent, UNCHANGED <<command, plan, attempts, step>>,
         \A u : Row(u)' = Row(u),
         Ledger!Claim(Task)
  PROVE  RowsScripted' /\ OnceSent'
<1>1. /\ pc[Task] = "claim" /\ pc[Task] \in InLoop /\ pc'[Task] \in {"claim", "commit", "send"}
      /\ UNCHANGED <<ledger, faults>>
  BY TaskTyped DEF TaskInv, Ledger!Claim, Ledger!Continue, Ledger!Goto, InLoop, Ledger!InLoop
<1>2. CASE UNCHANGED draft
  BY <1>1, <1>2, ScriptKept
<1>3. CASE Ledger!RowFor(Task, Hand) # "SENT" /\ Ledger!Write(Task, Hand, "PENDING")
  <2>1. ASSUME NEW u \in User
        PROVE  draft'[Task][Row(u)] = IF Row(u) = Hand THEN "PENDING" ELSE draft[Task][Row(u)]
    BY <1>3, RowTyped, TaskTyped DEF TaskInv, Ledger!Write
  <2>2. \A u : Scripted(u)' = Scripted(u) /\ Enough(u)' = Enough(u)
    BY DEF Scripted, Enough
  <2>3. RowsScripted'
    BY <1>1, <2>1, <2>2 DEF RowsScripted
  <2>4. ASSUME faults = 0, step \notin Closing, NEW u \in User, Enough(u)
        PROVE  attempts[u] = Scripted(u) /\ Ledger!RowFor(Task, Row(u))' = "SENT"
    <3>1. attempts[u] = Scripted(u) /\ Ledger!RowFor(Task, Row(u)) = "SENT"
      BY <1>1, <2>4 DEF OnceSent
    <3>2. draft'[Task][Row(u)] = draft[Task][Row(u)]
      BY <1>3, <2>1, <3>1
    <3> QED
      BY <1>1, <3>1, <3>2 DEF Ledger!RowFor
  <2>5. OnceSent'
    BY <1>1, <2>2, <2>4 DEF OnceSent
  <2> QED
    BY <2>3, <2>5
<1> QED
  BY <1>2, <1>3 DEF Ledger!Claim, Hand

LEMMA ScriptSend ==
  ASSUME TaskInv, RunTyped, RowsScripted, OnceSent, UNCHANGED <<command, plan, step>>,
         \A u : Row(u)' = Row(u),
         WatchedSend
  PROVE  RowsScripted' /\ OnceSent'
<1>1. /\ pc[Task] = "send" /\ pc[Task] \in InLoop
      /\ UNCHANGED <<ledger, draft, todo, current, faults>>
  BY DEF WatchedSend, Ledger!Send, Ledger!database, Ledger!locals, InLoop, Ledger!InLoop
<1>2. Hand' = Hand /\ Hand = Row(Hand[2]) /\ Hand[2] \in User
  BY <1>1, HandKept, HandTyped
<1>3. pc'[Task] = IF LetThrough(Hand[2]) THEN "marksent" ELSE "markfailed"
  BY DEF WatchedSend, TaskHas
<1>4. \A u \in User : /\ attempts[u] \in Nat
                      /\ attempts'[u] = IF u = Hand[2] THEN attempts[u] + 1 ELSE attempts[u]
  BY <1>2 DEF WatchedSend, RunTyped
<1>5. \A u : Scripted(u)' = Scripted(u) /\ Scripted(u) \in {1, 2}
  BY DEF Scripted
<1>6. \A u \in User : Enough(u) => Enough(u)'
  BY <1>4, <1>5 DEF Enough
<1>7. \A u \in User : u = Hand[2] /\ LetThrough(u) => Enough(u)'
  BY <1>2, <1>4, <1>5 DEF LetThrough, Enough, Scripted
<1>8. RowsScripted'
  <2> SUFFICES ASSUME NEW u \in User,
                      \/ draft[Task][Row(u)] = "SENT"
                      \/ ledger[Row(u)] = "SENT"
                      \/ pc'[Task] = "marksent" /\ Hand = Row(u)
               PROVE  Enough(u)'
    BY <1>1, <1>2 DEF RowsScripted
  <2>1. CASE draft[Task][Row(u)] = "SENT" \/ ledger[Row(u)] = "SENT"
    BY <1>6, <2>1 DEF RowsScripted
  <2>2. CASE pc'[Task] = "marksent" /\ Hand = Row(u)
    <3>1. u = Hand[2]
      BY <1>1, <2>2, HandRow
    <3> QED
      BY <1>3, <1>7, <2>2, <3>1
  <2> QED
    BY <2>1, <2>2
<1>9. ASSUME faults = 0, step \notin Closing, NEW u \in User, Enough(u)'
      PROVE  /\ attempts'[u] = Scripted(u)
             /\ \/ Ledger!RowFor(Task, Row(u)) = "SENT"
                \/ pc'[Task] = "marksent" /\ Hand = Row(u)
  <2>1. CASE u = Hand[2]
    <3>1. Ledger!RowFor(Task, Row(u)) # "SENT"
      BY <1>1, <1>2, <2>1, HandIsPending
    <3>2. ~Enough(u)
      BY <1>1, <1>9, <3>1 DEF OnceSent
    <3>3. plan[u] # "fail-always" /\ attempts'[u] = Scripted(u) /\ attempts[u] = Scripted(u) - 1
      BY <1>4, <1>5, <1>9, <2>1, <3>2 DEF Enough
    <3>4. plan[u] \in {"success", "fail-first-then-success"}
      BY <3>3 DEF RunTyped, Plan
    <3>5. LetThrough(u)
      BY <3>3, <3>4 DEF LetThrough, Scripted
    <3> QED
      BY <1>2, <1>3, <2>1, <3>3, <3>5
  <2>2. CASE u # Hand[2]
    <3>1. attempts'[u] = attempts[u] /\ Enough(u)
      BY <1>4, <1>5, <1>9, <2>2 DEF Enough
    <3> QED
      BY <1>1, <1>9, <3>1 DEF OnceSent
  <2> QED
    BY <2>1, <2>2
<1>10. \A u : Ledger!RowFor(Task, Row(u))' = Ledger!RowFor(Task, Row(u))
  BY <1>1 DEF Ledger!RowFor
<1>11. OnceSent'
  BY <1>1, <1>2, <1>5, <1>9, <1>10 DEF OnceSent
<1> QED
  BY <1>8, <1>11

LEMMA ScriptMarks ==
  ASSUME TaskInv, RunTyped, RowsScripted, OnceSent, UNCHANGED <<command, plan, attempts, step>>,
         \A u : Row(u)' = Row(u),
         Ledger!MarkSent(Task) \/ Ledger!MarkFailed(Task)
  PROVE  RowsScripted' /\ OnceSent'
<1>1. /\ pc[Task] \in {"marksent", "markfailed"} /\ pc[Task] \in InLoop
      /\ pc'[Task] \in {"claim", "commit"}
      /\ UNCHANGED <<ledger, faults>>
  BY TaskTyped DEF TaskInv, Ledger!MarkSent, Ledger!MarkFailed, Ledger!Continue, Ledger!Goto,
     InLoop, Ledger!InLoop
<1>2. PICK status \in {"SENT", "FAILED"} :
        /\ Ledger!Write(Task, Hand, status)
        /\ status = "SENT" <=> pc[Task] = "marksent"
  BY DEF Ledger!MarkSent, Ledger!MarkFailed, Hand
<1>3. ASSUME NEW u \in User
      PROVE  draft'[Task][Row(u)] = IF Row(u) = Hand THEN status ELSE draft[Task][Row(u)]
  BY <1>2, RowTyped, TaskTyped DEF TaskInv, Ledger!Write
<1>4. \A u : Scripted(u)' = Scripted(u) /\ Enough(u)' = Enough(u)
  BY DEF Scripted, Enough
<1>5. RowsScripted'
  BY <1>1, <1>2, <1>3, <1>4 DEF RowsScripted
<1>6. ASSUME faults = 0, step \notin Closing, NEW u \in User, Enough(u)
      PROVE  attempts[u] = Scripted(u) /\ Ledger!RowFor(Task, Row(u))' = "SENT"
  <2>1. attempts[u] = Scripted(u)
    BY <1>6 DEF OnceSent
  <2>2. CASE Row(u) = Hand
    <3>1. pc[Task] = "marksent"
      BY <1>1, <1>6, <2>2, HandIsPending DEF OnceSent
    <3>2. draft'[Task][Row(u)] = "SENT"
      BY <1>2, <1>3, <2>2, <3>1
    <3> QED
      BY <2>1, <3>2, HarnessAssumption DEF Ledger!RowFor
  <2>3. CASE Row(u) # Hand
    <3>1. Ledger!RowFor(Task, Row(u)) = "SENT"
      BY <1>6, <2>3 DEF OnceSent
    <3>2. draft'[Task][Row(u)] = draft[Task][Row(u)]
      BY <1>3, <2>3
    <3> QED
      BY <1>1, <2>1, <3>1, <3>2 DEF Ledger!RowFor
  <2> QED
    BY <2>2, <2>3
<1>7. OnceSent'
  BY <1>1, <1>4, <1>6 DEF OnceSent
<1> QED
  BY <1>5, <1>7

LEMMA ScriptCommit ==
  ASSUME TaskInv, RunTyped, RowsScripted, OnceSent, UNCHANGED <<command, plan, step>>,
         \A u : Row(u)' = Row(u),
         WatchedCommit
  PROVE  RowsScripted' /\ OnceSent'
<1>1. /\ pc[Task] = "commit" /\ Ledger!Release(Task) /\ UNCHANGED attempts
      /\ Ledger!NoFault \/ Ledger!Fault
      /\ ledger' = [k \in Ledger!Key |-> Ledger!RowFor(Task, k)]
  BY DEF WatchedCommit, Ledger!Commit
<1>2. pc'[Task] \in {"ack", "nak"}
  BY TaskTyped DEF WatchedCommit, TaskInv, Ledger!Commit, Ledger!Goto
<1>3. draft'[Task] = Ledger!NoDraft
  BY <1>1, TaskTyped DEF TaskInv, Ledger!Release
<1>4. \A u \in User : /\ draft'[Task][Row(u)] = None
                      /\ ledger'[Row(u)] = Ledger!RowFor(Task, Row(u))
  BY <1>1, <1>3, RowTyped DEF Ledger!NoDraft
<1>5. \A u \in User : Ledger!RowFor(Task, Row(u))' = Ledger!RowFor(Task, Row(u))
  BY <1>4 DEF Ledger!RowFor
<1>6. \A u : Scripted(u)' = Scripted(u) /\ Enough(u)' = Enough(u)
  BY <1>1 DEF Scripted, Enough
<1>7. RowsScripted'
  BY <1>2, <1>4, <1>6, HarnessAssumption DEF RowsScripted, Ledger!RowFor
<1>8. faults' = 0 => faults = 0
  BY <1>1, FaultsGrow
<1>9. OnceSent'
  BY <1>1, <1>5, <1>6, <1>8 DEF OnceSent
<1> QED
  BY <1>7, <1>9

LEMMA ScriptPlain ==
  ASSUME TaskInv, RunTyped, RowsScripted, OnceSent, UNCHANGED <<command, plan, attempts, step>>,
         \A u : Row(u)' = Row(u),
         PlainStep
  PROVE  RowsScripted' /\ OnceSent'
<1>1. CASE Ledger!Fetch(Task) \/ Ledger!Begin(Task)
           \/ Ledger!Ack(Task) \/ Ledger!Nak(Task) \/ Ledger!TaskDies(Task)
  <2>1. UNCHANGED <<draft, ledger>>
    BY <1>1 DEF Ledger!Fetch, Ledger!Begin, Ledger!Ack, Ledger!Nak, Ledger!TaskDies,
       Ledger!database
  <2>2. pc[Task] # "marksent" /\ pc'[Task] # "marksent"
    BY <1>1, TaskTyped DEF TaskInv, Ledger!Fetch, Ledger!Begin, Ledger!Ack, Ledger!Nak,
       Ledger!TaskDies, Ledger!NextMessage, Ledger!Goto
  <2>3. faults' = 0 => faults = 0
    <3>1. UNCHANGED faults \/ Ledger!NoFault \/ Ledger!Fault
      BY <1>1 DEF Ledger!Fetch, Ledger!Begin, Ledger!Ack, Ledger!Nak, Ledger!TaskDies
    <3> QED
      BY <3>1, FaultsGrow
  <2> QED
    BY <2>1, <2>2, <2>3, ScriptKept
<1>2. CASE Ledger!StatementFails(Task)
  <2>1. /\ Ledger!Release(Task) /\ UNCHANGED ledger /\ pc'[Task] = "nak"
        /\ faults \in 0..MaxFaults /\ faults' = faults + 1
    BY <1>2, TaskTyped DEF TaskInv, Ledger!StatementFails, Ledger!Undo, Ledger!Goto,
       Ledger!Fault
  <2>2. draft'[Task] = Ledger!NoDraft
    BY <2>1, TaskTyped DEF TaskInv, Ledger!Release
  <2>3. \A u \in User : draft'[Task][Row(u)] = None
    BY <2>2, NoRowWritten
  <2>4. \A u : Enough(u)' = Enough(u)
    BY DEF Scripted, Enough
  <2>5. RowsScripted'
    BY <2>1, <2>3, <2>4, HarnessAssumption DEF RowsScripted
  <2>6. OnceSent'
    BY <2>1 DEF OnceSent
  <2> QED
    BY <2>5, <2>6
<1> QED
  BY <1>1, <1>2, ScriptClaim, ScriptMarks DEF PlainStep

\* Of the steps of the cleanup, those that end a transaction or a row.
LEMMA ScriptCleanup ==
  ASSUME TaskInv, RunTyped, Stopped, RowsScripted, StopConsumer \/ CleanDatabase,
         UNCHANGED <<command, plan>>, \A u : Row(u)' = Row(u)
  PROVE  RowsScripted' /\ OnceSent'
<1>1. step' \in Closing /\ UNCHANGED attempts
  BY Places DEF Closing, Stage, StopConsumer, CleanDatabase, Done
<1>2. \A u \in User : draft'[Task][Row(u)] = None
  <2>1. CASE StopConsumer
    <3>1. Ledger!Release(Task)
      BY <2>1, SameEnds DEF StopConsumer, Delivery!Undo
    <3>2. draft'[Task] = Ledger!NoDraft
      BY <3>1, TaskTyped DEF TaskInv, Ledger!Release
    <3> QED
      BY <3>2, NoRowWritten
  <2>2. CASE CleanDatabase
    <3>1. pc[Task] = "fetch" /\ UNCHANGED draft
      BY <2>2, Places DEF Stopped, CleanDatabase, consuming
    <3>2. draft'[Task] = Ledger!NoDraft
      BY <3>1 DEF TaskInv, OneMessage, InLoop, Ledger!InLoop
    <3> QED
      BY <3>2, NoRowWritten
  <2> QED
    BY <2>1, <2>2
<1>3. pc'[Task] = "fetch"
  <2>1. CASE StopConsumer
    BY <2>1, TaskTyped DEF TaskInv, StopConsumer, Delivery!Goto
  <2>2. CASE CleanDatabase
    BY <2>2, Places DEF Stopped, CleanDatabase, consuming
  <2> QED
    BY <2>1, <2>2
<1>4. \A u \in User : ledger'[Row(u)] = "SENT" => ledger[Row(u)] = "SENT"
  <2>1. CASE StopConsumer
    BY <2>1 DEF StopConsumer, Delivery!Undo
  <2>2. CASE CleanDatabase
    <3>1. \A u \in User : Row(u) \in Delivery!Key
      BY RowTyped DEF Delivery!Key, Ledger!Key
    <3> QED
      BY <2>2, <3>1, HarnessAssumption DEF CleanDatabase, database
  <2> QED
    BY <2>1, <2>2
<1>5. \A u : Enough(u)' = Enough(u)
  BY <1>1 DEF Scripted, Enough
<1>6. RowsScripted'
  BY <1>2, <1>3, <1>4, <1>5, HarnessAssumption DEF RowsScripted
<1>7. OnceSent'
  BY <1>1 DEF OnceSent
<1> QED
  BY <1>6, <1>7

LEMMA NextScript ==
  ASSUME TaskInv, RunTyped, Stopped, RowsScripted, OnceSent, [Next]_vars
  PROVE  RowsScripted' /\ OnceSent'
<1>0. UNCHANGED <<command, plan>> /\ \A u : Row(u)' = Row(u)
  BY ConfigKept
<1>1. CASE ConsumerStep
  <2>1. UNCHANGED step
    BY <1>1, Aside
  <2> QED
    BY <1>0, <1>1, <2>1, ConsumerSteps, ScriptSend, ScriptCommit, ScriptPlain
    DEF WatchedCommit
<1>2. CASE StopConsumer \/ CleanDatabase
  BY <1>0, <1>2, ScriptCleanup
<1>3. CASE AckWaitPasses \/ Guard \/ BodyAction \/ DeleteStream \/ Finish \/ UNCHANGED vars
  <2>1. UNCHANGED <<attempts, faults, ledger, pc, todo, current, draft>>
    <3>1. CASE AckWaitPasses
      BY <3>1 DEF AckWaitPasses, Delivery!AckWaitExpires, Delivery!database, Delivery!locals
    <3>2. CASE Guard \/ BodyAction \/ DeleteStream \/ Finish \/ UNCHANGED vars
      BY <3>2, BodyLeaves DEF Guard, DeleteStream, Done, Finish, vars, consuming, database
    <3> QED
      BY <1>3, <3>1, <3>2
  <2>2. step' \notin Closing => step \notin Closing
    BY ClosingStays
  <2> QED
    BY <1>0, <2>1, <2>2, HandKept, ScriptKept
<1> QED
  BY <1>1, <1>2, <1>3, StepKinds

-----------------------------------------------------------------------------
(* Nobody.                                                                 *)

\* Nothing is eligible in the fixtures of a refusing scenario.
LEMMA NobodyEligible ==
  ASSUME TaskInv, RunTyped, Configured, FixturesFit, scenario \in Refusing, running,
         Ledger!Begin(Task)
  PROVE  pc'[Task] \in {"nak", "commit"}
<1>1. PICK m \in inbox[Task] :
        \/ Ledger!Goto(Task, "nak")
        \/ /\ m \notin Malformed
           /\ LET eligible == {i \in DOMAIN UsersOf[m] :
                                 UsersOf[m][i] \in {u \in User : fixture[u] = "ACTIVE"}}
              IN Ledger!Goto(Task, IF eligible = {} THEN "commit" ELSE "claim")
  BY DEF Ledger!Begin
<1>2. m = command
  BY <1>1 DEF TaskInv, OneMessage
<1>3. m \notin Malformed => \A i \in DOMAIN UsersOf[m] : fixture[UsersOf[m][i]] # "ACTIVE"
  <2> SUFFICES ASSUME m \notin Malformed, NEW i \in DOMAIN UsersOf[m]
               PROVE  fixture[UsersOf[m][i]] # "ACTIVE"
    OBVIOUS
  <2>1. scenario # "malformed"
    BY <1>2 DEF Configured
  <2>2. UsersOf[m][i] \in Targets
    BY <1>2 DEF Targets, Delivery!Users
  <2>3. fixture[UsersOf[m][i]] = Expected
    BY <2>1, <2>2 DEF FixturesFit
  <2>4. scenario \in {"unknown-user", "pending-binding", "blocked-binding",
                      "soft-deleted-binding"}
    BY <2>1 DEF Refusing, Scenario, Awaited
  <2>5. Expected # "ACTIVE"
    BY <2>4 DEF Expected
  <2> QED
    BY <2>3, <2>5
<1>4. m \notin Malformed =>
        {i \in DOMAIN UsersOf[m] :
           UsersOf[m][i] \in {u \in User : fixture[u] = "ACTIVE"}} = {}
  BY <1>3
<1>5. Ledger!Goto(Task, "nak") \/ Ledger!Goto(Task, "commit")
  BY <1>1, <1>4
<1> QED
  BY <1>5, TaskTyped DEF TaskInv, Ledger!Goto

LEMMA NextUntouched ==
  ASSUME TaskInv, RunInv, Untouched, [Next]_vars
  PROVE  Untouched'
<1> SUFFICES ASSUME scenario \in Refusing
             PROVE  /\ pc'[Task] \notin InLoop
                    /\ draft'[Task] = Ledger!NoDraft
                    /\ \A u \in User : attempts'[u] = 0 /\ ledger'[Row(u)] = None
  BY ConfigKept DEF Untouched, Refusing, Scenario, Awaited, InLoop, Ledger!InLoop,
     Ledger!NoDraft, Ledger!Key
<1>0. /\ pc[Task] \notin InLoop /\ draft[Task] = Ledger!NoDraft
      /\ \A u \in User : attempts[u] = 0 /\ ledger[Row(u)] = None
  BY DEF Untouched
<1>1. CASE ConsumerStep
  <2>0. running
    BY <1>1, ConsumerSteps DEF TaskFrame
  <2>1. ~WatchedSend /\ ~Ledger!Claim(Task) /\ ~Ledger!MarkSent(Task) /\ ~Ledger!MarkFailed(Task)
    BY <1>0 DEF WatchedSend, Ledger!Send, Ledger!Claim, Ledger!MarkSent, Ledger!MarkFailed,
       InLoop, Ledger!InLoop
  <2>2. CASE WatchedCommit
    <3>1. /\ Ledger!Release(Task) /\ UNCHANGED attempts
          /\ ledger' = [k \in Ledger!Key |-> Ledger!RowFor(Task, k)]
      BY <2>2 DEF WatchedCommit, Ledger!Commit
    <3>2. pc'[Task] \in {"ack", "nak"}
      BY <2>2, TaskTyped DEF WatchedCommit, TaskInv, Ledger!Commit, Ledger!Goto
    <3>3. draft'[Task] = Ledger!NoDraft
      BY <3>1, TaskTyped DEF TaskInv, Ledger!Release
    <3>4. \A u \in User : ledger'[Row(u)] = None
      BY <1>0, <3>1, RowTyped DEF RunInv, Ledger!RowFor, Ledger!NoDraft
    <3> QED
      BY <1>0, <3>1, <3>2, <3>3, <3>4 DEF InLoop, Ledger!InLoop
  <2>3. CASE Ledger!Begin(Task) /\ UNCHANGED attempts
    <3>1. pc'[Task] \in {"nak", "commit"}
      BY <2>0, <2>3, NobodyEligible DEF RunInv
    <3>2. UNCHANGED <<draft, ledger>>
      BY <2>3 DEF Ledger!Begin, Ledger!database
    <3> QED
      BY <1>0, <2>3, <3>1, <3>2 DEF InLoop, Ledger!InLoop
  <2>4. CASE /\ UNCHANGED attempts
             /\ \/ Ledger!Fetch(Task) \/ Ledger!Ack(Task) \/ Ledger!Nak(Task)
                \/ Ledger!TaskDies(Task)
    <3>1. pc'[Task] \in {"begin", "fetch", "dead"}
      BY <2>4, TaskTyped DEF TaskInv, Ledger!Fetch, Ledger!Ack, Ledger!Nak, Ledger!TaskDies,
         Ledger!NextMessage, Ledger!Goto
    <3>2. UNCHANGED <<draft, ledger>>
      BY <2>4 DEF Ledger!Fetch, Ledger!Ack, Ledger!Nak, Ledger!TaskDies, Ledger!database
    <3> QED
      BY <1>0, <2>4, <3>1, <3>2 DEF InLoop, Ledger!InLoop
  <2>5. CASE UNCHANGED attempts /\ Ledger!StatementFails(Task)
    <3>1. Ledger!Release(Task) /\ UNCHANGED ledger /\ pc'[Task] = "nak"
      BY <2>5, TaskTyped DEF TaskInv, Ledger!StatementFails, Ledger!Undo, Ledger!Goto
    <3>2. draft'[Task] = Ledger!NoDraft
      BY <3>1, TaskTyped DEF TaskInv, Ledger!Release
    <3> QED
      BY <1>0, <2>5, <3>1, <3>2 DEF InLoop, Ledger!InLoop
  <2> QED
    BY <1>1, <2>1, <2>2, <2>3, <2>4, <2>5, ConsumerSteps DEF PlainStep
<1>2. CASE StopConsumer
  <2>1. Ledger!Release(Task) /\ pc' = [pc EXCEPT ![Task] = "fetch"] /\ UNCHANGED <<ledger, attempts>>
    BY <1>2, SameEnds DEF StopConsumer, Done, Delivery!Undo, Delivery!Goto
  <2>2. pc'[Task] = "fetch" /\ draft'[Task] = Ledger!NoDraft
    BY <2>1, TaskTyped DEF TaskInv, Ledger!Release
  <2> QED
    BY <1>0, <2>1, <2>2 DEF InLoop, Ledger!InLoop
<1>3. CASE CleanDatabase
  <2>1. UNCHANGED <<pc, draft, attempts>>
    BY <1>3 DEF CleanDatabase, Done, consuming
  <2>2. \A u \in User : Row(u) \in Delivery!Key
    BY RowTyped DEF RunInv, Delivery!Key, Ledger!Key
  <2>3. \A u \in User : ledger'[Row(u)] = None
    BY <1>0, <1>3, <2>2 DEF CleanDatabase, database
  <2> QED
    BY <1>0, <2>1, <2>3
<1>4. CASE AckWaitPasses \/ Guard \/ BodyAction \/ DeleteStream \/ Finish \/ UNCHANGED vars
  <2>1. UNCHANGED <<attempts, ledger, pc, draft>>
    <3>1. CASE AckWaitPasses
      BY <3>1 DEF AckWaitPasses, Delivery!AckWaitExpires, Delivery!database
    <3>2. CASE Guard \/ BodyAction \/ DeleteStream \/ Finish \/ UNCHANGED vars
      BY <3>2, BodyLeaves DEF Guard, DeleteStream, Done, Finish, vars, consuming, database
    <3> QED
      BY <1>4, <3>1, <3>2
  <2> QED
    BY <1>0, <2>1
<1> QED
  BY <1>1, <1>2, <1>3, <1>4, StepKinds

-----------------------------------------------------------------------------
(* The report.                                                             *)

\* The consumer writes to the ledger when it commits, and only then.
LEMMA LedgerMoves ==
  ASSUME ConsumerStep
  PROVE  \/ UNCHANGED ledger
         \/ pc[Task] = "commit" /\ ledger' = [k \in Ledger!Key |-> Ledger!RowFor(Task, k)]
<1>1. CASE WatchedSend
  BY <1>1 DEF WatchedSend, Ledger!Send, Ledger!database
<1>2. CASE WatchedCommit
  BY <1>2 DEF WatchedCommit, Ledger!Commit
<1>3. CASE PlainStep
  BY <1>3 DEF PlainStep, Ledger!Fetch, Ledger!Begin, Ledger!Claim, Ledger!MarkSent,
     Ledger!MarkFailed, Ledger!Ack, Ledger!Nak, Ledger!StatementFails, Ledger!TaskDies,
     Ledger!Undo, Ledger!database
<1> QED
  BY <1>1, <1>2, <1>3, ConsumerSteps

\* A row that says SENT keeps saying so, and one that says FAILED of a user
\* whom the script refuses always.
LEMMA RowsStay ==
  ASSUME TaskInv, RunTyped, RowsScripted, ConsumerStep, NEW u \in User
  PROVE  /\ ledger[Row(u)] = "SENT" => ledger'[Row(u)] = "SENT"
         /\ ledger[Row(u)] = "FAILED" /\ plan[u] = "fail-always" => ledger'[Row(u)] = "FAILED"
<1>1. CASE UNCHANGED ledger
  BY <1>1
<1>2. CASE pc[Task] = "commit" /\ ledger' = [k \in Ledger!Key |-> Ledger!RowFor(Task, k)]
  <2>1. /\ ledger[Row(u)] = "SENT" => ledger'[Row(u)] = "SENT"
        /\ ledger'[Row(u)] # "PENDING"
    BY <1>2, Ledger!CommitInstalls, LedgerAssumption, RowTyped DEF TaskInv
  <2>2. ledger'[Row(u)] = Ledger!RowFor(Task, Row(u))
    BY <1>2, RowTyped
  <2>3. draft[Task][Row(u)] \in {"PENDING", "SENT", "FAILED", None}
    BY RowTyped, TaskTyped DEF TaskInv, Ledger!RowStatus
  <2>4. plan[u] = "fail-always" => draft[Task][Row(u)] # "SENT"
    BY DEF RowsScripted, Enough
  <2> QED
    BY <2>1, <2>2, <2>3, <2>4 DEF Ledger!RowFor
<1> QED
  BY <1>1, <1>2, LedgerMoves

\* Attempts are counted upwards, and not beyond the deliveries.
LEMMA AttemptsStay ==
  ASSUME TaskInv, RunTyped, ConsumerStep, TaskInv', RunTyped', CountInv', NEW u \in User
  PROVE  attempts[u] = MaxDeliver => attempts'[u] = MaxDeliver
<1>1. attempts'[u] >= attempts[u] /\ attempts[u] \in Nat /\ attempts'[u] \in Nat
  <2>1. CASE WatchedSend
    <3>1. pc[Task] \in InLoop
      BY <2>1 DEF WatchedSend, Ledger!Send, InLoop, Ledger!InLoop
    <3> QED
      BY <2>1, <3>1, HandTyped DEF WatchedSend, RunTyped
  <2>2. CASE UNCHANGED attempts
    BY <2>2 DEF RunTyped
  <2> QED
    BY <2>1, <2>2, ConsumerSteps DEF WatchedCommit
<1>2. attempts'[u] <= delivered'[command']
  BY DEF CountInv, Counted
<1>3. delivered'[command'] \in 0..MaxDeliver
  BY DEF TaskInv, Ledger!LedgerInv, Ledger!TypeInv, Ledger!TypeOK, RunTyped
<1>4. MaxDeliver \in Nat
  BY HarnessAssumption
<1> QED
  BY <1>1, <1>2, <1>3, <1>4

LEMMA WaitedBeside ==
  ASSUME HarnessInv, ConsumerStep, [Next]_vars, TaskInv', RunTyped', CountInv'
  PROVE  Waited'
<1> SUFFICES ASSUME step' \in {"settle", "republish", "collect"}
             PROVE  /\ scenario' \in Awaited => AllSent'
                    /\ scenario' = "delivery-failure" =>
                         \A u \in Targets' : /\ ledger'[Row(u)'] = "FAILED"
                                             /\ attempts'[u] = MaxDeliver
  BY DEF Waited
<1>1. /\ scenario' = scenario /\ Targets' = Targets /\ \A u : Row(u)' = Row(u)
      /\ Targets \subseteq User
  BY ConfigKept, TargetsTyped DEF HarnessInv, RunInv
<1>2. step' = step
  BY Aside
<1>3. /\ scenario \in Awaited => AllSent
      /\ scenario = "delivery-failure" =>
           \A u \in Targets : ledger[Row(u)] = "FAILED" /\ attempts[u] = MaxDeliver
  BY <1>2 DEF HarnessInv, ReportInv, Waited
<1>4. scenario \in Awaited => AllSent'
  BY <1>1, <1>3, RowsStay DEF AllSent, HarnessInv, RunInv, ScriptInv
<1>5. scenario = "delivery-failure" => \A u \in Targets : plan[u] = "fail-always"
  <2>1. PlanFits
    BY <1>2 DEF HarnessInv, RunInv, Configured, BodyStep
  <2> QED
    BY <2>1 DEF PlanFits
<1>6. ASSUME scenario = "delivery-failure", NEW u \in Targets
      PROVE  ledger'[Row(u)] = "FAILED" /\ attempts'[u] = MaxDeliver
  BY <1>1, <1>3, <1>5, <1>6, RowsStay, AttemptsStay DEF HarnessInv, RunInv, ScriptInv
<1> QED
  BY <1>1, <1>4, <1>6

LEMMA NextWaited ==
  ASSUME HarnessInv, [Next]_vars, TaskInv', RunTyped', CountInv'
  PROVE  Waited'
<1>1. /\ scenario' = scenario /\ Targets' = Targets /\ \A u : Row(u)' = Row(u)
  BY ConfigKept
<1>2. ASSUME UNCHANGED <<ledger, attempts>>,
             step' \in {"settle", "republish", "collect"} =>
               /\ scenario \in Awaited => AllSent
               /\ scenario = "delivery-failure" =>
                    \A u \in Targets : ledger[Row(u)] = "FAILED" /\ attempts[u] = MaxDeliver
      PROVE  Waited'
  BY <1>1, <1>2 DEF Waited, AllSent
<1>3. Waited
  BY DEF HarnessInv, ReportInv
<1>4. CASE BodyAction
  <2>1. UNCHANGED <<ledger, attempts>>
    BY <1>4, BodyLeaves
  <2>2. CASE Poll
    <3>1. step' \in {"settle", "republish", "collect"} => Reached
      BY <2>2, StageOrder DEF Poll, CheckAgain, Raise
    <3>2. Reached => /\ scenario \in Awaited => AllSent
                     /\ scenario = "delivery-failure" => Exhausted
      BY DEF Reached, Awaited
    <3> QED
      BY <1>2, <2>1, <3>1, <3>2 DEF Exhausted
  <2>3. CASE ~Poll
    <3>1. step' \in {"settle", "republish", "collect"} => step \in {"settle", "republish"}
      BY <1>4, <2>3, Places DEF BodyAction
    <3> QED
      BY <1>2, <1>3, <2>1, <3>1 DEF Waited
  <2> QED
    BY <2>2, <2>3
<1>5. CASE Guard \/ StopConsumer \/ DeleteStream \/ CleanDatabase \/ Finish
  <2>1. step' \notin {"settle", "republish", "collect"}
    BY <1>5, Places
  <2> QED
    BY <2>1 DEF Waited
<1>6. CASE AckWaitPasses \/ UNCHANGED vars
  <2>1. UNCHANGED <<ledger, attempts, step>>
    BY <1>6, Aside DEF AckWaitPasses, Delivery!AckWaitExpires, Delivery!database, vars, database
  <2> QED
    BY <1>2, <1>3, <2>1 DEF Waited
<1> QED
  BY <1>4, <1>5, <1>6, StepKinds, WaitedBeside

LEMMA FaultsStay ==
  ASSUME TaskInv, ConsumerStep \/ AckWaitPasses
  PROVE  faults' = 0 => faults = 0
<1>1. CASE AckWaitPasses
  BY <1>1 DEF AckWaitPasses, Delivery!AckWaitExpires
<1>2. CASE ConsumerStep
  <2>1. UNCHANGED faults \/ Ledger!NoFault \/ Ledger!Fault
    BY <1>2, ConsumerSteps DEF WatchedSend, WatchedCommit, PlainStep, Ledger!Commit,
       Ledger!Fetch, Ledger!Begin, Ledger!Claim, Ledger!MarkSent, Ledger!MarkFailed,
       Ledger!Ack, Ledger!Nak, Ledger!StatementFails, Ledger!TaskDies
  <2> QED
    BY <2>1, FaultsGrow
<1> QED
  BY <1>1, <1>2

LEMMA ShowsStay ==
  ASSUME UNCHANGED <<scenario, plan, evidence>>, faults' = 0 => faults = 0, NEW u, Shows(u)
  PROVE  Shows(u)'
<1>1. CASE scenario \in Awaited
  BY <1>1 DEF Shows, Scripted
<1>2. CASE scenario \notin Awaited
  BY <1>2 DEF Shows
<1> QED
  BY <1>1, <1>2

\* What is collected is what the scenario is there to show.
LEMMA CollectShows ==
  ASSUME HarnessInv, Collect, [Next]_vars, NEW u \in Targets
  PROVE  Shows(u)'
<1>1. /\ step = "collect" /\ step \notin Closing
      /\ UNCHANGED <<scenario, plan, faults>>
  BY Places, ConfigKept, BodyLeaves DEF Closing, Stage, BodyAction, consuming
<1>2. u \in User
  BY TargetsTyped DEF HarnessInv, RunInv
<1>3. evidence'[u] = [status |-> StatusOf(u), attempts |-> attempts[u]]
  BY <1>2 DEF Collect
<1>4. attempts[u] \in Nat /\ attempts[u] <= MaxDeliver /\ MaxDeliver \in Nat
  <2>1. command \in Message /\ delivered[command] \in 0..MaxDeliver
    BY TaskTyped DEF HarnessInv, TaskInv, RunInv, RunTyped
  <2>2. attempts[u] <= delivered[command] /\ attempts[u] \in Nat
    BY <1>2 DEF HarnessInv, CountInv, Counted, RunInv, RunTyped
  <2> QED
    BY <2>1, <2>2, HarnessAssumption
<1>5. CASE scenario \in Awaited
  <2>1. ledger[Row(u)] = "SENT"
    BY <1>1, <1>5 DEF HarnessInv, ReportInv, Waited, AllSent
  <2>2. StatusOf(u) = "SENT"
    BY <2>1, HarnessAssumption DEF StatusOf
  <2>3. Enough(u)
    BY <1>2, <2>1 DEF HarnessInv, ScriptInv, RowsScripted
  <2>4. Scripted(u) \in {1, 2} /\ Scripted(u) <= attempts[u]
    BY <2>3 DEF Enough, Scripted
  <2>5. faults = 0 => attempts[u] = Scripted(u)
    BY <1>1, <1>2, <2>3 DEF HarnessInv, ScriptInv, OnceSent
  <2>6. Scripted(u)' = Scripted(u)
    BY <1>1 DEF Scripted
  <2>7. /\ evidence'[u].status = "SENT" /\ evidence'[u].attempts = attempts[u]
    BY <1>3, <2>2
  <2>8. attempts[u] \in Scripted(u)..MaxDeliver
    BY <1>4, <2>4
  <2> QED
    BY <1>1, <1>5, <2>5, <2>6, <2>7, <2>8 DEF Shows, Awaited
<1>6. CASE scenario = "delivery-failure"
  <2>1. ledger[Row(u)] = "FAILED" /\ attempts[u] = MaxDeliver
    BY <1>1, <1>6 DEF HarnessInv, ReportInv, Waited
  <2>2. StatusOf(u) = "FAILED"
    BY <2>1, HarnessAssumption DEF StatusOf
  <2> QED
    BY <1>1, <1>3, <1>6, <2>1, <2>2 DEF Shows, Awaited
<1>7. CASE scenario \in Refusing
  <2>1. ledger[Row(u)] = None /\ attempts[u] = 0
    BY <1>2, <1>7 DEF HarnessInv, ScriptInv, Untouched
  <2> QED
    BY <1>1, <1>3, <1>7, <2>1 DEF Shows, StatusOf, Refusing
<1> QED
  BY <1>5, <1>6, <1>7 DEF Refusing, HarnessInv, RunInv, RunTyped

\* An error is not forgotten.
LEMMA ErrorStays ==
  ASSUME [Next]_vars
  PROVE  error => error'
  BY StepKinds, Aside DEF Guard, BodyAction, CheckFixtures, MakeStream, StartConsumer,
     Publish, Poll, CheckAgain, Settle, Collect, BodyRaises, Raise, StopConsumer, DeleteStream,
     CleanDatabase, Done, Finish, vars, outcome

\* Evidence is collected by Collect, and a body that ends otherwise has raised.
LEMMA BodyEnds ==
  ASSUME BodyAction
  PROVE  /\ step' \notin Closing => UNCHANGED error
         /\ step' \in Closing => Collect \/ error'
<1>1. step' \in Closing => step' = "stop"
  BY Places DEF BodyAction, Closing, Stage
<1>2. CleanupStages[1] = "stop" /\ "stop" \in Closing
  BY StageOrder DEF Closing, Stage
<1>3. CASE CheckFixtures
  BY <1>2, <1>3 DEF CheckFixtures, Raise, Closing, Stage
<1>4. CASE MakeStream \/ StartConsumer \/ Publish
  <2>1. step' \in {"subscribe", "publish", "wait", "collect"} /\ UNCHANGED error
    BY <1>4, Places DEF MakeStream, StartConsumer, Publish
  <2> QED
    BY <1>4, <2>1, Places DEF Closing, Stage
<1>5. CASE Poll
  <2>1. UNCHANGED error \/ (error' /\ step' = "stop")
    BY <1>5, <1>2 DEF Poll, CheckAgain, Raise
  <2>2. step' = "stop" => error'
    BY <1>5, <1>2 DEF Poll, CheckAgain, Raise
  <2> QED
    BY <1>1, <1>2, <1>5, <2>1, <2>2, Places
<1>6. CASE Settle
  BY <1>2, <1>6, Places DEF Settle, Raise, Closing, Stage
<1>7. CASE Collect
  BY <1>2, <1>7 DEF Collect
<1>8. CASE BodyRaises
  BY <1>2, <1>8, Places DEF BodyRaises, Raise
<1> QED
  BY <1>3, <1>4, <1>5, <1>6, <1>7, <1>8 DEF BodyAction

LEMMA NextShown ==
  ASSUME HarnessInv, [Next]_vars, RunInv'
  PROVE  Shown'
<1>0. /\ step \notin Closing => ~error
      /\ exit = "ok" => step = "ended" /\ ~error
      /\ step \in Closing /\ exit # "rejected" /\ ~error => \A u \in Targets : Shows(u)
      /\ step \in BodyStep \cup Stage \cup {"guard"} => exit = "none"
  BY DEF HarnessInv, ReportInv, Shown, RunInv, Configured
<1>1. Targets' = Targets /\ UNCHANGED <<scenario, plan>>
  BY ConfigKept
<1>2. CASE BodyAction
  <2>1. step \in BodyStep /\ step \notin Closing
    BY <1>2, Places DEF BodyAction, BodyStep, Closing, Stage
  <2>2. exit' = "none" /\ ~error
    BY <1>0, <1>2, <2>1, BodyLeaves
  <2>3. Collect => \A u \in Targets : Shows(u)'
    BY CollectShows
  <2>4. step' \in Closing /\ ~error' => \A u \in Targets' : Shows(u)'
    BY <1>1, <1>2, <2>3, BodyEnds
  <2> QED
    BY <1>2, <2>2, <2>4, BodyEnds DEF Shown, Closing, Stage
<1>3. CASE StopConsumer \/ DeleteStream \/ CleanDatabase \/ Finish
  <2>1. /\ step \in Stage /\ step' \in Closing
        /\ UNCHANGED <<error, evidence, faults>>
        /\ exit' = "ok" => step' = "ended" /\ ~error'
    <3>1. step \in Stage /\ step' \in Closing
      BY <1>3, Places DEF Closing, Stage
    <3>2. UNCHANGED <<error, evidence, faults>>
      BY <1>3 DEF StopConsumer, DeleteStream, CleanDatabase, Done, Finish, consuming
    <3>3. CASE Finish
      BY <3>1, <3>2, <3>3 DEF Finish
    <3>4. CASE ~Finish
      BY <1>0, <1>3, <3>1, <3>2, <3>4 DEF StopConsumer, DeleteStream, CleanDatabase, Done
    <3> QED
      BY <3>1, <3>2, <3>3, <3>4
  <2>2. exit = "none"
    BY <1>0, <2>1
  <2>3. ~error' => \A u \in Targets : Shows(u)'
    BY <1>0, <1>1, <2>1, <2>2, ShowsStay DEF Closing
  <2> QED
    BY <1>1, <2>1, <2>3 DEF Shown
<1>4. CASE Guard
  <2>1. UNCHANGED error /\ step = "guard" /\ exit = "none"
    BY <1>0, <1>4 DEF Guard
  <2>2. (step' = "fixtures" /\ exit' = "none") \/ (step' = "ended" /\ exit' = "rejected")
    BY <1>4, <2>1 DEF Guard
  <2> QED
    BY <1>0, <2>1, <2>2 DEF Shown, Closing, Stage
<1>5. CASE ConsumerStep \/ AckWaitPasses \/ UNCHANGED vars
  <2>1. UNCHANGED <<error, exit, evidence, step>>
    BY <1>5, Aside DEF outcome, vars
  <2>2. faults' = 0 => faults = 0
    BY <1>5, FaultsStay DEF HarnessInv, vars, consuming
  <2>3. step' \in Closing /\ exit' # "rejected" /\ ~error' => \A u \in Targets' : Shows(u)'
    BY <1>0, <1>1, <2>1, <2>2, ShowsStay
  <2> QED
    BY <1>0, <2>1, <2>3 DEF Shown
<1> QED
  BY <1>2, <1>3, <1>4, <1>5, StepKinds

\* The cleanup does not forget what it has noted.
LEMMA NotesStay ==
  ASSUME [Next]_vars
  PROVE  cleanupErrors \subseteq cleanupErrors'
  BY StepKinds, BodyLeaves, Aside DEF Guard, StopConsumer, DeleteStream, CleanDatabase, Done,
     Finish, vars, outcome

LEMMA NextStreamReported ==
  ASSUME RunInv, StreamReported, [Next]_vars
  PROVE  StreamReported'
<1>0. cleanupErrors \subseteq cleanupErrors' /\ (error => error')
  BY NotesStay, ErrorStays
<1>1. CASE MakeStream \/ BodyRaises
  <2>1. stream' /\ ~streamCreated' => error'
    BY <1>0, <1>1 DEF MakeStream, BodyRaises, Raise
  <2>2. step' \in {"subscribe", "stop"}
    BY <1>1, Places
  <2> QED
    BY <2>1, <2>2 DEF StreamReported
<1>2. CASE BodyAction /\ ~MakeStream /\ ~BodyRaises
  <2>1. UNCHANGED <<stream, streamCreated>>
    BY <1>2 DEF BodyAction, CheckFixtures, StartConsumer, Publish, Poll, Settle, Collect, messages
  <2>2. step' \notin {"clean", "close", "ended"}
    BY <1>2, Places DEF BodyAction
  <2> QED
    BY <1>0, <2>1, <2>2 DEF StreamReported
<1>3. CASE Guard
  <2>1. UNCHANGED <<stream, streamCreated>> /\ (step' = "fixtures" \/ exit' = "rejected")
    BY <1>3 DEF Guard, messages
  <2> QED
    BY <1>0, <2>1 DEF StreamReported
<1>4. CASE StopConsumer
  <2>1. UNCHANGED <<stream, streamCreated>> /\ step' = "delete"
    BY <1>4, Places DEF StopConsumer, Done, messages
  <2> QED
    BY <1>0, <2>1 DEF StreamReported
<1>5. CASE DeleteStream
  <2>1. PICK raised \in BOOLEAN, deleted \in BOOLEAN :
          /\ Done("delete", raised)
          /\ streamCreated /\ ~deleted => raised
          /\ stream' = (stream /\ ~deleted)
    BY <1>5 DEF DeleteStream
  <2>2. UNCHANGED streamCreated /\ (raised => "delete" \in cleanupErrors')
    BY <2>1 DEF Done
  <2> QED
    BY <1>0, <2>1, <2>2 DEF StreamReported
<1>6. CASE CleanDatabase \/ Finish
  <2>1. UNCHANGED <<stream, streamCreated>>
    BY <1>6 DEF CleanDatabase, Finish, Done, messages
  <2>2. step \in {"clean", "close"} /\ exit = "none"
    BY <1>6, Places DEF RunInv, Configured, Stage
  <2> QED
    BY <1>0, <2>1, <2>2 DEF StreamReported
<1>7. CASE ConsumerStep \/ AckWaitPasses \/ UNCHANGED vars
  <2>1. UNCHANGED <<stream, streamCreated, step, exit, error, cleanupErrors>>
    BY <1>7, Aside DEF outcome, vars, messages
  <2> QED
    BY <2>1 DEF StreamReported
<1> QED
  BY <1>1, <1>2, <1>3, <1>4, <1>5, <1>6, <1>7, StepKinds

\* A cleanup that does not note itself has cleaned.
LEMMA RowsCleaned ==
  ASSUME RunTyped, CleanDatabase
  PROVE  RowsGone' \/ "clean" \in cleanupErrors'
<1>1. CASE Done("clean", TRUE)
  BY <1>1 DEF Done
<1>2. CASE ~Done("clean", TRUE)
  <2>1. /\ ledger' = [k \in Delivery!Key |-> IF k[1] = EventOf[command] THEN None ELSE ledger[k]]
        /\ fixture' = [u \in User |-> IF u \in Targets THEN "none" ELSE fixture[u]]
    BY <1>2 DEF CleanDatabase
  <2>2. UNCHANGED command
    BY DEF CleanDatabase, Done, config
  <2>3. Targets' = Targets /\ \A u : Row(u)' = Row(u)
    BY <2>2 DEF Targets, Delivery!Users, Row
  <2>4. ASSUME NEW u \in Targets PROVE ledger'[Row(u)] = None /\ fixture'[u] = "none"
    <3>1. u \in User
      BY TargetsTyped
    <3>2. Row(u) \in Delivery!Key /\ Row(u)[1] = EventOf[command]
      BY <3>1, RowTyped DEF Row, Delivery!Key, Ledger!Key
    <3> QED
      BY <2>1, <3>1, <3>2
  <2> QED
    BY <2>3, <2>4 DEF RowsGone
<1> QED
  BY <1>1, <1>2

LEMMA NextRowsReported ==
  ASSUME RunInv, RowsReported, [Next]_vars
  PROVE  RowsReported'
<1>0. /\ cleanupErrors \subseteq cleanupErrors'
      /\ Targets' = Targets /\ \A u : Row(u)' = Row(u)
  BY NotesStay, ConfigKept
<1>1. ASSUME UNCHANGED <<ledger, fixture>>, RowsGone PROVE RowsGone'
  BY <1>0, <1>1 DEF RowsGone
<1>2. CASE CleanDatabase
  BY <1>2, RowsCleaned DEF RowsReported, RunInv
<1>3. CASE Guard \/ BodyAction \/ StopConsumer \/ DeleteStream
  <2>1. step' \notin {"close", "ended"} \/ exit' = "rejected"
    BY <1>3, Places DEF BodyAction, Guard
  <2> QED
    BY <2>1 DEF RowsReported
<1>4. CASE Finish
  <2>1. UNCHANGED <<ledger, fixture>> /\ step = "close" /\ exit = "none"
    BY <1>4, Places DEF Finish, database, RunInv, Configured, Stage
  <2> QED
    BY <1>0, <1>1, <2>1 DEF RowsReported
<1>5. CASE ConsumerStep
  <2>1. running /\ UNCHANGED step
    BY <1>5, ConsumerSteps, Aside DEF TaskFrame
  <2>2. step \notin {"close", "ended"}
    BY <2>1 DEF RunInv, Stopped
  <2> QED
    BY <2>1, <2>2 DEF RowsReported
<1>6. CASE AckWaitPasses \/ UNCHANGED vars
  <2>1. UNCHANGED <<ledger, fixture, step, exit>>
    BY <1>6, Aside DEF AckWaitPasses, Delivery!AckWaitExpires, Delivery!database, vars,
       database, outcome
  <2> QED
    BY <1>0, <1>1, <2>1 DEF RowsReported
<1> QED
  BY <1>2, <1>3, <1>4, <1>5, <1>6, StepKinds

-----------------------------------------------------------------------------
(* The whole.                                                              *)

LEMMA InitLedger == Init => Ledger!LedgerInv
<1> SUFFICES ASSUME Init PROVE Ledger!LedgerInv
  OBVIOUS
<1>1. Delivery!NoDraft = Ledger!NoDraft /\ Delivery!Key = Ledger!Key
  BY DEF Delivery!NoDraft, Ledger!NoDraft, Delivery!Key, Ledger!Key
<1>2. Ledger!ServerTyped
  BY HarnessAssumption DEF Init, Ledger!ServerTyped, Ledger!OfferedIsLeft, Ledger!QueueState
<1>3. Ledger!DatabaseTyped
  BY <1>1 DEF Init, Ledger!DatabaseTyped, Ledger!NoDraft, TaskHas
<1>4. Ledger!TasksTyped
  BY DEF Init, Ledger!TasksTyped, Ledger!HasMessage, Ledger!InLoop, Ledger!Label, TaskHas
<1>5. Ledger!RestTyped
  BY <1>1, HarnessAssumption DEF Init, Ledger!RestTyped
<1>6. Ledger!TypeInv
  BY <1>2, <1>3, <1>4, <1>5, Ledger!TypeParts, LedgerAssumption
<1>7. None \notin {"PENDING", "SENT", "FAILED"}
  BY HarnessAssumption
<1>8. Ledger!NeverPending /\ Ledger!SentIsTrue
  BY <1>1, <1>7 DEF Init, Ledger!NoDraft, Ledger!NeverPending, Ledger!SentIsTrue
<1>9. pc[Task] = "fetch" /\ \A k \in Ledger!Key : draft[Task][k] = None
  BY <1>1 DEF Init, Ledger!NoDraft, TaskHas
<1>10. Ledger!Written(Task)
  BY <1>7, <1>9 DEF Ledger!Written, Ledger!Held, Ledger!Fresh, Ledger!InHand, Ledger!Taken,
     Ledger!Claimed
<1>11. Ledger!Own(Task)
  BY <1>9, <1>10 DEF Ledger!Own, Ledger!Covered, Ledger!Acked, Ledger!InLoop
<1> QED
  BY <1>6, <1>8, <1>11 DEF Ledger!LedgerInv

LEMMA InitHarness == Init => HarnessInv
<1> SUFFICES ASSUME Init PROVE HarnessInv
  OBVIOUS
<1>1. Delivery!NoDraft = Ledger!NoDraft /\ Delivery!Key = Ledger!Key
  BY DEF Delivery!NoDraft, Ledger!NoDraft, Delivery!Key, Ledger!Key
<1>2. /\ pc[Task] = "fetch" /\ inbox[Task] = {} /\ current[Task] = None
      /\ draft[Task] = Ledger!NoDraft /\ ledger = Ledger!NoDraft
      /\ step = "guard" /\ exit = "none" /\ ~error /\ ~running /\ ~stream
  BY <1>1 DEF Init, TaskHas
<1>3. RunTyped
  <2>1. tries \in [User -> Nat] /\ attempts \in [User -> Nat]
    BY DEF Init
  <2>2. evidence \in [User -> [status : {"none", "SKIPPED", "PENDING", "SENT", "FAILED"},
                              attempts : Nat]]
    BY DEF Init, NoEvidence
  <2>3. polls = 0 /\ polls \in 0..MaxPolls /\ polls < MaxPolls
    BY HarnessAssumption DEF Init
  <2>4. /\ scenario \in Scenario /\ command \in Message /\ plan \in [User -> Plan]
        /\ allowed \in BOOLEAN /\ fixture \in [User -> Binding]
        /\ stream \in BOOLEAN /\ streamCreated \in BOOLEAN /\ running \in BOOLEAN
        /\ error \in BOOLEAN
    BY DEF Init
  <2>5. cleanupErrors \in SUBSET Stage
    BY DEF Init
  <2> QED
    BY <1>2, <2>1, <2>2, <2>3, <2>4, <2>5 DEF RunTyped
<1>4. \A u \in User : draft[Task][Row(u)] = None /\ ledger[Row(u)] = None
  BY <1>2, <1>3, RowTyped DEF Ledger!NoDraft
<1>5. TaskInv
  BY <1>2, InitLedger, <1>3 DEF TaskInv, OneMessage, Init, RunTyped
<1>6. RunInv
  BY <1>2, <1>3 DEF RunInv, Configured, Stopped, FixturesFit, Init, BodyStep, Stage
<1>7. CountInv
  <2>1. \A u : ~Ahead(u)
    BY <1>2 DEF Ahead
  <2>2. delivered[command] = 0 /\ \A u \in User : attempts[u] = 0 /\ tries[u] = 0
    BY <1>3 DEF Init, RunTyped
  <2> QED
    BY <1>4, <2>1, <2>2 DEF CountInv, Counted, Claimed
<1>8. ScriptInv
  <2>1. \A u \in User : attempts[u] = 0 /\ ~Enough(u)
    BY DEF Init, Enough, Scripted
  <2> QED
    BY <1>2, <1>4, <2>1, HarnessAssumption DEF ScriptInv, RowsScripted, OnceSent, Untouched,
       InLoop, Ledger!InLoop
<1>9. ReportInv
  BY <1>2 DEF ReportInv, Waited, Shown, StreamReported, RowsReported, Closing, Stage
<1> QED
  BY <1>5, <1>6, <1>7, <1>8, <1>9 DEF HarnessInv

LEMMA NextHarness == HarnessInv /\ [Next]_vars => HarnessInv'
<1> SUFFICES ASSUME HarnessInv, [Next]_vars PROVE HarnessInv'
  OBVIOUS
<1>0. TaskInv /\ RunInv /\ CountInv /\ ScriptInv /\ RunTyped /\ Stopped
      /\ RowsScripted /\ OnceSent /\ Untouched /\ StreamReported /\ RowsReported
  BY DEF HarnessInv, RunInv, ScriptInv, ReportInv
<1>1. TaskInv' /\ RunInv'
  BY <1>0, NextTask, NextRun
<1>2. CountInv'
  BY <1>0, NextCount
<1>3. ScriptInv'
  BY <1>0, NextScript, NextUntouched DEF ScriptInv
<1>4. RunTyped'
  BY <1>1 DEF RunInv
<1>5. ReportInv'
  BY <1>0, <1>1, <1>2, <1>4, NextWaited, NextShown, NextStreamReported, NextRowsReported
  DEF ReportInv
<1> QED
  BY <1>1, <1>2, <1>3, <1>5 DEF HarnessInv

LEMMA AlwaysHarness == Spec => []HarnessInv
  BY InitHarness, NextHarness, PTL DEF Spec

\* The types hold at every step of the run, of the consumer and of JetStream;
\* no user is sent to and no row claimed more often than max_deliver.
THEOREM TypeCorrect == Spec => []TypeOK
<1>1. HarnessInv => TypeOK
  <2> SUFFICES ASSUME HarnessInv PROVE TypeOK
    OBVIOUS
  <2>1. Delivery!TypeOK
    BY SameTypes DEF HarnessInv, TaskInv, Ledger!LedgerInv, Ledger!TypeInv
  <2>2. RunTyped
    BY DEF HarnessInv, RunInv
  <2>3. delivered[command] \in 0..MaxDeliver /\ MaxDeliver \in Nat
    BY <2>2, TaskTyped, HarnessAssumption DEF HarnessInv, TaskInv, RunTyped
  <2>4. \A u \in User : tries[u] <= delivered[command] /\ attempts[u] <= delivered[command]
    BY DEF HarnessInv, CountInv, Counted, Claimed
  <2>5. \A u \in User : tries[u] \in 0..MaxDeliver /\ attempts[u] \in 0..MaxDeliver
    BY <2>2, <2>3, <2>4 DEF RunTyped
  <2>6. tries \in [User -> 0..MaxDeliver] /\ attempts \in [User -> 0..MaxDeliver]
    BY <2>2, <2>5 DEF RunTyped
  <2> QED
    BY <2>1, <2>2, <2>6 DEF TypeOK, RunTyped
<1> QED
  BY <1>1, AlwaysHarness, PTL

\* What _collect has put into the report of a run that exits with 0 is what
\* the script asks for, whatever the consumer, JetStream and faults did.
THEOREM EvidenceIsTrue == Spec => []EvidenceIsScripted
<1>1. HarnessInv => EvidenceIsScripted
  BY DEF HarnessInv, ReportInv, Shown, Shows, EvidenceIsScripted, Closing
<1> QED
  BY <1>1, AlwaysHarness, PTL

\* What _finish_with_cleanup leaves behind it has noted by its stage on the
\* exception that run raises, for any stage that fails and any commit of the
\* consumer on the way to its stop.
THEOREM LeftoversAreNamed == Spec => []LeftoversAreReported
<1>1. HarnessInv => LeftoversAreReported
  <2> SUFFICES ASSUME HarnessInv, step = "ended", exit # "rejected"
               PROVE  /\ ~running
                      /\ stream => "delete" \in cleanupErrors \/ (~streamCreated /\ error)
                      /\ (\E u \in Targets : ledger[Row(u)] # None \/ fixture[u] # "none")
                           => "clean" \in cleanupErrors
    BY DEF LeftoversAreReported
  <2>1. ~running
    BY DEF HarnessInv, RunInv, Stopped
  <2>2. stream => "delete" \in cleanupErrors \/ (~streamCreated /\ error)
    BY DEF HarnessInv, ReportInv, StreamReported
  <2>3. RowsGone \/ "clean" \in cleanupErrors
    BY DEF HarnessInv, ReportInv, RowsReported
  <2> QED
    BY <2>1, <2>2, <2>3 DEF RowsGone
<1> QED
  BY <1>1, AlwaysHarness, PTL
=============================================================================
