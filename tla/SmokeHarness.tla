---------------------------- MODULE SmokeHarness ----------------------------
(***************************************************************************)
(* The local smoke harness (smoke_harness): one run of one scenario.  It    *)
(* makes a stream of its own, runs the real consumer, handler, delivery     *)
(* service and ledger on it with a scripted messenger, waits for what the   *)
(* scenario must show, collects evidence and cleans up stage by stage.      *)
(*                                                                          *)
(* The consumer task is the one of VkDelivery, composed by INSTANCE; the    *)
(* harness starts it, drops messages into its stream and cancels it.  Any   *)
(* call of the harness may raise, a Ctrl-C included, also after the server  *)
(* has done what it was asked.  The targets are the user_ids of the command *)
(* the run publishes; topology and text are left out.                       *)
(***************************************************************************)
EXTENDS Naturals, Sequences, FiniteSets

CONSTANTS
  Task,      \* the consumer task
  MaxPolls,  \* checks of a waiting loop (range(80))
  Message, Event, User, None, EventOf, UsersOf, Malformed,
  BatchSize, MaxDeliver, MaxFaults  \* of VkDelivery

ASSUME HarnessAssumption ==
  /\ MaxPolls \in Nat \ {0}
  /\ None \notin {Task} \cup Message \cup {"PENDING", "SENT", "FAILED"}
  /\ EventOf \in [Message -> Event]
  /\ UsersOf \in [Message -> Seq(User)]
  /\ Malformed \subseteq Message
  /\ BatchSize \in Nat \ {0} /\ MaxDeliver \in Nat \ {0} /\ MaxFaults \in Nat
  /\ \A m \in Message : UsersOf[m] # <<>>

\* deduplicate_user_ids, on which the number of attempts depends.
ASSUME UsersAreDistinct ==
  \A m \in Message : \A i, j \in DOMAIN UsersOf[m] : UsersOf[m][i] = UsersOf[m][j] => i = j

VARIABLES
  queue, delivered, ledger, lock, draft, pc, inbox, current,
  active, todo, failed, accepted, faults,  \* of VkDelivery
  scenario, command, plan, allowed,        \* configuration; allowed: what its text must be
  fixture, tries,            \* user_vks row of a user; column attempts of the ledger
  stream, streamCreated,     \* whether the run's stream exists; stream_created
  running,                   \* the consumer task has been created
  attempts,                  \* ScriptedVkMessenger._attempts
  step, polls, error, cleanupErrors, evidence, exit  \* the run

consuming == <<delivered, lock, draft, pc, inbox, current, active, todo, failed, accepted, faults>>
messages == <<queue, stream>>
database == <<ledger, fixture, tries>>
config == <<scenario, command, plan, allowed>>
outcome == <<error, cleanupErrors, evidence, exit>>
vars == <<consuming, messages, database, config, outcome, streamCreated, running, attempts,
          step, polls>>

Delivery == INSTANCE VkDelivery
  WITH Consumer <- {Task}, linked <- {u \in User : fixture[u] = "ACTIVE"}

Awaited == {"partial-retry", "repeated-event", "concurrent-duplicate"}
Scenario == Awaited \cup
  {"malformed", "unknown-user", "pending-binding", "blocked-binding",
   "soft-deleted-binding", "delivery-failure"}
Plan == {"success", "fail-always", "fail-first-then-success"}
Binding == {"none", "PENDING", "ACTIVE", "BLOCKED", "DELETED"}

Stage == {"stop", "delete", "clean", "close"}
BodyStep == {"fixtures", "stream", "subscribe", "publish", "wait", "settle", "republish", "collect"}

\* A variable of VkDelivery with a value for each consumer: there is one.
TaskHas(value) == [c \in {Task} |-> value]

Targets == Delivery!Users(command)
Row(u) == <<EventOf[command], u>>
NoEvidence == [u \in User |-> [status |-> "none", attempts |-> 0]]

Init ==
  /\ queue = [m \in Message |-> "absent"]
  /\ delivered = [m \in Message |-> 0]
  /\ ledger = Delivery!NoDraft
  /\ lock = [k \in Delivery!Key |-> None]
  /\ draft = TaskHas(Delivery!NoDraft)
  /\ pc = TaskHas("fetch")
  /\ inbox = TaskHas({})
  /\ current = TaskHas(None)
  /\ active = TaskHas({})
  /\ todo = TaskHas({})
  /\ failed = TaskHas(FALSE)
  /\ accepted = [k \in Delivery!Key |-> 0]
  /\ faults = 0
  /\ scenario \in Scenario
  /\ command \in {m \in Message : m \in Malformed <=> scenario = "malformed"}
  /\ plan \in [User -> Plan]
  /\ allowed \in BOOLEAN
  /\ fixture \in [User -> Binding]
  /\ tries = [u \in User |-> 0]
  /\ stream = FALSE /\ streamCreated = FALSE
  /\ running = FALSE
  /\ attempts = [u \in User |-> 0]
  /\ step = "guard" /\ polls = 0
  /\ error = FALSE /\ cleanupErrors = {}
  /\ evidence = NoEvidence
  /\ exit = "none"

-----------------------------------------------------------------------------
(* The guard: config.py.                                                   *)

\* _validate_scenario_plan.
PlanFits ==
  CASE scenario = "partial-retry" ->
         /\ Cardinality(Targets) = 2
         /\ {plan[u] : u \in Targets} = {"success", "fail-first-then-success"}
    [] scenario = "delivery-failure" ->
         /\ Cardinality(Targets) = 1
         /\ \A u \in Targets : plan[u] = "fail-always"
    [] OTHER -> \A u \in Targets : plan[u] = "success"

\* from_environment; a refused configuration leaves main with exit code 2.
Guard ==
  /\ step = "guard"
  /\ \/ allowed /\ PlanFits /\ step' = "fixtures" /\ UNCHANGED exit
     \/ ~(allowed /\ PlanFits) /\ step' = "ended" /\ exit' = "rejected"
  /\ UNCHANGED <<consuming, messages, database, config, streamCreated, running, attempts,
                 polls, error, cleanupErrors, evidence>>

-----------------------------------------------------------------------------
(* The body of run.                                                        *)

\* Faulty variant: the tables are cleaned while the consumer is at work.
ConsumerStopsLast == <<"delete", "clean", "stop", "close">>

\* cleanup_stages; the last one stands for nats.close and database.dispose.
CleanupStages == <<"stop", "delete", "clean", "close">>

Raise == error' = TRUE /\ step' = CleanupStages[1]

BodyFrame == UNCHANGED <<consuming, database, config, attempts, cleanupErrors, exit>>

\* _validate_fixture_state.
Expected ==
  CASE scenario = "unknown-user" -> "none"
    [] scenario = "pending-binding" -> "PENDING"
    [] scenario = "blocked-binding" -> "BLOCKED"
    [] scenario = "soft-deleted-binding" -> "DELETED"
    [] OTHER -> "ACTIVE"

CheckFixtures ==
  /\ step = "fixtures"
  /\ IF scenario = "malformed" \/ \A u \in Targets : fixture[u] = Expected
     THEN step' = "stream" /\ UNCHANGED error ELSE Raise
  /\ BodyFrame
  /\ UNCHANGED <<messages, streamCreated, running, polls, evidence>>

\* connect, add_stream.
MakeStream ==
  /\ step = "stream"
  /\ stream' = TRUE
  /\ streamCreated' = TRUE
  /\ step' = "subscribe"
  /\ BodyFrame
  /\ UNCHANGED <<queue, running, polls, error, evidence>>

\* setup_consumers, then start of the consumer.
StartConsumer ==
  /\ step = "subscribe"
  /\ running' = TRUE
  /\ step' = "publish"
  /\ BodyFrame
  /\ UNCHANGED <<messages, streamCreated, polls, error, evidence>>

\* JetStream keeps one message per Nats-Msg-Id: what is published again, at
\* the same time or later, is dropped.
Published == queue' = [queue EXCEPT ![command] = IF @ = "absent" THEN "ready" ELSE @]

Publish ==
  /\ step \in {"publish", "republish"}
  /\ Published
  /\ step' = IF step = "publish" THEN "wait" ELSE "collect"
  /\ BodyFrame
  /\ UNCHANGED <<stream, streamCreated, running, polls, error, evidence>>

\* Faulty variant: recipients without a row are not missed.
AllRowsSent == \A u \in Targets : ledger[Row(u)] \in {None, "SENT"}

AllSent == \A u \in Targets : ledger[Row(u)] = "SENT"

\* The code awaits the end of the session between the rows and the counters, here
\* and in Collect; a recipient that is SENT or used up is not sent to meanwhile.
Exhausted ==
  \A u \in Targets :
    ledger[Row(u)] = "FAILED" /\ tries[u] = MaxDeliver /\ attempts[u] = MaxDeliver

\* What the scenario waits for; the others sleep for a while.
Reached ==
  CASE scenario \in Awaited -> AllSent
    [] scenario = "delivery-failure" -> Exhausted
    [] OTHER -> TRUE

\* Faulty variant: the loop has no end.
CheckAgainForEver == UNCHANGED <<polls, step, error>>

\* The loop goes on, or TimeoutError after its last check.
CheckAgain ==
  /\ polls' = polls + 1
  /\ IF polls' < MaxPolls THEN UNCHANGED <<step, error>> ELSE Raise

\* _wait_for_sent_rows, _wait_for_failed_redelivery_exhaustion, or a sleep.
Poll ==
  /\ step = "wait"
  /\ \/ /\ Reached
        /\ step' = CASE scenario = "delivery-failure" -> "settle"
                     [] scenario = "repeated-event" -> "republish"
                     [] OTHER -> "collect"
        /\ UNCHANGED <<polls, error>>
     \/ ~Reached /\ CheckAgain
  /\ BodyFrame
  /\ UNCHANGED <<messages, streamCreated, running, evidence>>

\* ack_wait has passed once more: nothing may have been sent.
Settle ==
  /\ step = "settle"
  /\ IF \A u \in Targets : attempts[u] = MaxDeliver
     THEN step' = "collect" /\ UNCHANGED error ELSE Raise
  /\ BodyFrame
  /\ UNCHANGED <<messages, streamCreated, running, polls, evidence>>

\* Faulty variant: a recipient without a row has no status.
StatusAsStored(u) == ledger[Row(u)]

StatusOf(u) == IF ledger[Row(u)] = None THEN "SKIPPED" ELSE ledger[Row(u)]

Collect ==
  /\ step = "collect"
  /\ evidence' = [u \in User |-> IF u \in Targets
                                 THEN [status |-> StatusOf(u), attempts |-> attempts[u]]
                                 ELSE evidence[u]]
  /\ step' = CleanupStages[1]
  /\ BodyFrame
  /\ UNCHANGED <<messages, streamCreated, running, polls, error>>

\* Any await of the body raises, and the server may have done its part.
BodyRaises ==
  /\ step \in BodyStep
  /\ Raise
  /\ \/ step = "stream" /\ stream' = TRUE /\ UNCHANGED queue
     \/ step = "publish" /\ Published /\ UNCHANGED stream
     \/ UNCHANGED messages
  /\ BodyFrame
  /\ UNCHANGED <<streamCreated, running, polls, evidence>>

-----------------------------------------------------------------------------
(* _finish_with_cleanup: a stage that raises is noted, the next one runs.   *)

Position(stage) == CHOOSE i \in DOMAIN CleanupStages : CleanupStages[i] = stage

Done(stage, raised) ==
  /\ step = stage
  /\ step' = CleanupStages[Position(stage) + 1]
  /\ cleanupErrors' = IF raised THEN cleanupErrors \cup {stage} ELSE cleanupErrors
  /\ UNCHANGED <<config, error, evidence, exit, polls, attempts, streamCreated>>

\* consumer.stop: the cancelled task loses its transaction; a task that died of
\* an exception raises it here.
StopConsumer ==
  /\ Done("stop", running /\ pc[Task] = "dead")
  /\ running' = FALSE
  /\ Delivery!Undo(Task)
  /\ Delivery!Settled(Task)
  /\ Delivery!Goto(Task, "fetch")
  /\ inbox' = TaskHas({})
  /\ UNCHANGED <<messages, delivered, fixture, tries, accepted, faults>>

\* _delete_run_stream.
DeleteStream ==
  /\ \E raised \in BOOLEAN, deleted \in BOOLEAN :
       /\ Done("delete", raised)
       /\ ~streamCreated => ~raised /\ ~deleted
       /\ streamCreated /\ ~deleted => raised
       /\ stream' = (stream /\ ~deleted)
       /\ queue' = IF deleted THEN [m \in Message |-> "absent"] ELSE queue
  /\ UNCHANGED <<consuming, database, running>>

\* _cleanup_database: one transaction, which fails, or whose answer is lost.
CleanDatabase ==
  /\ \/ /\ \E raised \in BOOLEAN : Done("clean", raised)
        /\ ledger' = [k \in Delivery!Key |-> IF k[1] = EventOf[command] THEN None ELSE ledger[k]]
        /\ fixture' = [u \in User |-> IF u \in Targets THEN "none" ELSE fixture[u]]
        /\ tries' = [u \in User |-> 0]
     \/ Done("clean", TRUE) /\ UNCHANGED database
  /\ UNCHANGED <<consuming, messages, running>>

\* client.close, engine.dispose, and what main makes of it all.
Finish ==
  /\ step = "close"
  /\ step' = "ended"
  /\ cleanupErrors' \in {cleanupErrors, cleanupErrors \cup {"close"}}
  /\ exit' = IF error \/ cleanupErrors' # {} THEN "failed" ELSE "ok"
  /\ UNCHANGED <<consuming, messages, database, config, error, evidence, polls, attempts,
                 streamCreated, running>>

-----------------------------------------------------------------------------
(* The consumer task, with the scripted messenger.                         *)

\* Nothing but the consumer moves; linked is read through fixture.
TaskFrame ==
  /\ running
  /\ UNCHANGED <<config, outcome, fixture, stream, streamCreated, running, step, polls>>

\* send_message of ScriptedVkMessenger.
ScriptedSend ==
  /\ TaskFrame
  /\ pc[Task] = "send"
  /\ LET u == Delivery!CurrentKey(Task)[2]
         taken == \/ plan[u] = "success"
                  \/ plan[u] = "fail-first-then-success" /\ attempts[u] > 0
     IN /\ attempts' = [attempts EXCEPT ![u] = @ + 1]
        /\ pc' = TaskHas(IF taken THEN "marksent" ELSE "markfailed")
  /\ UNCHANGED <<tries, faults>>
  /\ Delivery!Send(Task)

\* The column attempts counts the claims that were committed.
CommitAttempts ==
  /\ TaskFrame
  /\ tries' = [u \in User |-> IF draft[Task][Row(u)] = None THEN tries[u] ELSE tries[u] + 1]
  /\ UNCHANGED attempts
  /\ Delivery!Commit(Task)

ConsumerStep ==
  \/ ScriptedSend
  \/ CommitAttempts
  \/ /\ TaskFrame
     /\ UNCHANGED <<tries, attempts>>
     /\ \/ Delivery!Fetch(Task) \/ Delivery!Begin(Task) \/ Delivery!Claim(Task)
        \/ Delivery!MarkSent(Task) \/ Delivery!MarkFailed(Task)
        \/ Delivery!Ack(Task) \/ Delivery!Nak(Task)
        \/ Delivery!StatementFails(Task) \/ Delivery!TaskDies(Task)

AckWaitPasses ==
  /\ UNCHANGED <<config, outcome, fixture, tries, stream, streamCreated, running, attempts,
                 step, polls>>
  /\ Delivery!AckWaitExpires(command)

-----------------------------------------------------------------------------

HarnessStep ==
  \/ Guard \/ CheckFixtures \/ MakeStream \/ StartConsumer \/ Publish \/ Poll \/ Settle
  \/ Collect \/ StopConsumer \/ DeleteStream \/ CleanDatabase \/ Finish

Ended == step = "ended" /\ UNCHANGED vars

Next == HarnessStep \/ BodyRaises \/ ConsumerStep \/ AckWaitPasses \/ Ended

\* Every await of the harness returns or raises: the waits are bounded and the
\* calls have timeouts.  The consumer need not move.
Spec == Init /\ [][Next]_vars /\ WF_vars(HarnessStep)

-----------------------------------------------------------------------------
(* Properties.                                                             *)

\* Every variable keeps its type.
TypeOK ==
  /\ Delivery!TypeOK
  /\ scenario \in Scenario /\ command \in Message /\ plan \in [User -> Plan]
  /\ allowed \in BOOLEAN
  /\ fixture \in [User -> Binding]
  /\ tries \in [User -> 0..MaxDeliver] /\ attempts \in [User -> 0..MaxDeliver]
  /\ stream \in BOOLEAN /\ streamCreated \in BOOLEAN /\ running \in BOOLEAN
  /\ step \in {"guard", "ended"} \cup BodyStep \cup Stage
  /\ polls \in 0..MaxPolls
  /\ error \in BOOLEAN /\ cleanupErrors \in SUBSET Stage
  /\ evidence \in [User -> [status : {"none", "SKIPPED", "PENDING", "SENT", "FAILED"},
                            attempts : Nat]]
  /\ exit \in {"none", "rejected", "failed", "ok"}

Scripted(u) == IF plan[u] = "success" THEN 1 ELSE 2

\* A run that exits with 0 shows what its scenario is there to show, although
\* the task, JetStream and faults went on beside it: recipients that have been
\* waited for are SENT in as many attempts as scripted (more only after a
\* fault, never more than max_deliver), the exhausted one is FAILED after
\* max_deliver attempts whatever failed, and nobody else was sent to.
EvidenceIsScripted ==
  exit = "ok" => \A u \in Targets :
    CASE scenario \in Awaited ->
           /\ evidence[u].status = "SENT"
           /\ evidence[u].attempts \in Scripted(u)..MaxDeliver
           /\ faults = 0 => evidence[u].attempts = Scripted(u)
      [] scenario = "delivery-failure" ->
           evidence[u] = [status |-> "FAILED", attempts |-> MaxDeliver]
      [] OTHER -> evidence[u] = [status |-> "SKIPPED", attempts |-> 0]

\* What a run has left behind at its end, the notes of the exception that run
\* raises name by the stage that failed, and no late commit of the consumer
\* brings a row back.  The one exception is a stream whose creation was never
\* answered.  main of __main__.py drops the notes and prints one line for all.
LeftoversAreReported ==
  step = "ended" /\ exit # "rejected" =>
    /\ ~running
    /\ stream => "delete" \in cleanupErrors \/ (~streamCreated /\ error)
    /\ (\E u \in Targets : ledger[Row(u)] # None \/ fixture[u] # "none")
         => "clean" \in cleanupErrors

\* A run ends, also when the consumer hangs or has died.
HarnessEnds == <>(step = "ended")
=============================================================================
