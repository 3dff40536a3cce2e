---------------------------- MODULE NatsRuntime ----------------------------
(***************************************************************************)
(* The API process and its NATS connection: the lifespan of main.py        *)
(* connects, registers the durable, starts the notification consumer,      *)
(* serves, and takes the three down again.  Meanwhile nats-py reconnects   *)
(* in a task of its own and reports to NatsConnectionErrorPolicy, the      *)
(* consumer task fetches and answers, and the stream NOTIFICATION_COMMANDS *)
(* appears when its owner creates it.                                      *)
(*                                                                         *)
(* An exception of a NATS call is a choice: the lifespan catches OSError   *)
(* (builtin TimeoutError and ConnectionRefusedError are subclasses) and    *)
(* serves without NATS, anything else ends the process.                    *)
(***************************************************************************)
EXTENDS Naturals

CONSTANTS
  MaxConnectAttempts,  \* max_reconnect_attempts
  MaxSetupAttempts,    \* nats_setup_max_attempts
  ReportAfter,         \* nats_error_report_after_attempts
  MaxOutages,          \* bound: times the connection is lost
  MaxLaunches          \* bound: times the process is started

ASSUME RuntimeAssumption ==
  /\ MaxConnectAttempts \in Nat \ {0}
  /\ MaxSetupAttempts \in Nat \ {0}
  /\ ReportAfter \in Nat \ {0}
  /\ MaxOutages \in Nat
  /\ MaxLaunches \in Nat \ {0}

VARIABLES
  phase, natsConnected, attempt,  \* lifespan: where it is, nats_connected, setup attempt
  conn, tries,                    \* nats-py: state, failed attempts since it was connected
  stream, durable,                \* JetStream: what exists
  failures, escalated,            \* NatsConnectionErrorPolicy
  consumer,                       \* the consumer task
  metrics,                        \* the metrics server listens
  reports,                        \* history: errors logged since it was connected
  slowStart,                      \* history: the connection is the first of its process
                                  \* and took more attempts than ReportAfter
  outages, launches               \* counters of the bounds

onerror == <<failures, escalated, reports>>
policy == <<onerror, slowStart>>
link == <<conn, tries>>
jetstream == <<stream, durable>>
bounds == <<outages, launches>>
vars == <<phase, natsConnected, attempt, link, jetstream, policy, consumer, metrics, bounds>>

Starting == {"starting", "connecting", "setup", "subscribing"}
Stopping == {"stopping", "closing", "disposing"}
\* stopped: the lifespan returned; crashed: it raised before the yield;
\* broken: it raised after the yield and skipped the rest.
Ended == {"stopped", "crashed", "broken"}
Phase == Starting \cup {"serving"} \cup Stopping \cup Ended

ConnState == {"none", "connecting", "connected", "reconnecting", "closed"}
TaskState == {"none", "fetching", "sleeping", "handling", "dead"}

Init ==
  /\ phase = "starting"
  /\ natsConnected = FALSE
  /\ attempt = 1
  /\ conn = "none"
  /\ tries = 0
  /\ stream \in BOOLEAN
  /\ durable = FALSE
  /\ failures = 0
  /\ escalated = FALSE
  /\ consumer = "none"
  /\ metrics = FALSE
  /\ reports = 0
  /\ slowStart = FALSE
  /\ outages = 0
  /\ launches = 1

-----------------------------------------------------------------------------
(* NatsConnectionErrorPolicy.                                              *)

Reset == failures' = 0 /\ escalated' = FALSE

\* Faulty variant: every failure after the threshold is reported.
OnErrorRepeats ==
  /\ failures' = failures + 1
  /\ escalated' = (escalated \/ failures' > ReportAfter)
  /\ reports' = IF failures' > ReportAfter THEN reports + 1 ELSE reports

OnError ==
  LET report == failures' > ReportAfter /\ ~escalated
  IN /\ failures' = failures + 1
     /\ escalated' = (escalated \/ report)
     /\ reports' = IF report THEN reports + 1 ELSE reports

-----------------------------------------------------------------------------
(* nats-py.                                                                *)

ConnectAttemptFails ==
  /\ phase = "connecting"
  /\ tries < MaxConnectAttempts
  /\ tries' = tries + 1
  /\ OnError
  /\ UNCHANGED <<phase, natsConnected, attempt, conn, jetstream, slowStart, consumer, metrics, bounds>>

ConnectionLost ==
  /\ phase \notin Ended
  /\ conn = "connected"
  /\ outages < MaxOutages
  /\ outages' = outages + 1
  /\ conn' = "reconnecting"
  /\ tries' = 0
  /\ reports' = 0
  /\ UNCHANGED <<phase, natsConnected, attempt, jetstream, failures, escalated, slowStart, consumer, metrics, launches>>

ReconnectAttemptFails ==
  /\ phase \notin Ended
  /\ conn = "reconnecting"
  /\ tries < MaxConnectAttempts
  /\ tries' = tries + 1
  /\ OnError
  /\ UNCHANGED <<phase, natsConnected, attempt, conn, jetstream, slowStart, consumer, metrics, bounds>>

\* Faulty variant: on_reconnected leaves the policy as it is.
ReconnectedCounting ==
  /\ phase \notin Ended
  /\ conn = "reconnecting"
  /\ conn' = "connected"
  /\ tries' = 0
  /\ slowStart' = FALSE
  /\ UNCHANGED <<phase, natsConnected, attempt, jetstream, onerror, consumer, metrics, bounds>>

\* on_reconnected.
Reconnected ==
  /\ phase \notin Ended
  /\ conn = "reconnecting"
  /\ conn' = "connected"
  /\ tries' = 0
  /\ Reset
  /\ slowStart' = FALSE
  /\ UNCHANGED <<phase, natsConnected, attempt, jetstream, consumer, reports, metrics, bounds>>

\* on_closed: nothing but a log line, the consumer task is not told.
ReconnectGivesUp ==
  /\ phase \notin Ended
  /\ conn = "reconnecting"
  /\ tries = MaxConnectAttempts
  /\ conn' = "closed"
  /\ UNCHANGED <<phase, natsConnected, attempt, tries, jetstream, policy, consumer, metrics, bounds>>

\* The owner of the channel creates the stream.
StreamCreated ==
  /\ ~stream
  /\ stream' = TRUE
  /\ UNCHANGED <<phase, natsConnected, attempt, link, durable, policy, consumer, metrics, bounds>>

-----------------------------------------------------------------------------
(* Startup.                                                                *)

\* The policy is reset before the first attempt, and not after a success.
Connect ==
  /\ phase = "starting"
  /\ phase' = "connecting"
  /\ conn' = "connecting"
  /\ tries' = 0
  /\ Reset
  /\ reports' = 0
  /\ slowStart' = FALSE
  /\ UNCHANGED <<natsConnected, attempt, jetstream, consumer, metrics, bounds>>

ConnectSucceeds ==
  /\ phase = "connecting"
  /\ phase' = "setup"
  /\ attempt' = 1
  /\ conn' = "connected"
  /\ tries' = 0
  /\ slowStart' = (tries > ReportAfter)
  /\ UNCHANGED <<natsConnected, jetstream, onerror, consumer, metrics, bounds>>

\* start_metrics_runtime, then the yield: in production a server is started,
\* and a port that is taken ends the process with the consumer running.
Serve ==
  \/ phase' = "serving" /\ metrics' \in BOOLEAN
  \/ phase' = "crashed" /\ UNCHANGED metrics

\* What the lifespan does with an exception of the startup.
StartupRaises(caught) ==
  \/ caught /\ Serve
  \/ ~caught /\ phase' = "crashed" /\ UNCHANGED metrics

ConnectGivesUp ==
  /\ phase = "connecting"
  /\ tries = MaxConnectAttempts
  /\ \E caught \in BOOLEAN : StartupRaises(caught)
  /\ conn' = "closed"
  /\ UNCHANGED <<natsConnected, attempt, tries, jetstream, policy, consumer, bounds>>

\* add_consumer.
DurableRegistered ==
  /\ phase = "setup"
  /\ conn = "connected"
  /\ stream
  /\ durable' = TRUE
  /\ natsConnected' = TRUE
  /\ phase' = "subscribing"
  /\ UNCHANGED <<attempt, link, stream, policy, consumer, metrics, bounds>>

\* Faulty variant: attempts are not counted.
StreamMissingUncounted ==
  /\ phase = "setup"
  /\ conn = "connected"
  /\ ~stream
  /\ attempt < MaxSetupAttempts
  /\ UNCHANGED vars

\* Faulty variant: one attempt too many.
StreamMissingOnceMore ==
  /\ phase = "setup"
  /\ conn = "connected"
  /\ ~stream
  /\ attempt =< MaxSetupAttempts
  /\ attempt' = attempt + 1
  /\ UNCHANGED <<phase, natsConnected, link, jetstream, policy, consumer, metrics, bounds>>

\* NotFoundError: back off and try again.
StreamMissing ==
  /\ phase = "setup"
  /\ conn = "connected"
  /\ ~stream
  /\ attempt < MaxSetupAttempts
  /\ attempt' = attempt + 1
  /\ UNCHANGED <<phase, natsConnected, link, jetstream, policy, consumer, metrics, bounds>>

\* Faulty variant: setup returns after the last attempt.
SetupGivesUpQuietly ==
  /\ phase = "setup"
  /\ conn = "connected"
  /\ ~stream
  /\ attempt = MaxSetupAttempts
  /\ natsConnected' = TRUE
  /\ phase' = "subscribing"
  /\ UNCHANGED <<attempt, link, jetstream, policy, consumer, metrics, bounds>>

SetupGivesUp ==
  /\ phase = "setup"
  /\ conn = "connected"
  /\ ~stream
  /\ attempt = MaxSetupAttempts
  /\ StartupRaises(FALSE)
  /\ UNCHANGED <<natsConnected, attempt, link, jetstream, policy, consumer, bounds>>

\* The request fails otherwise; a lost answer may have created the durable.
SetupFails ==
  /\ phase = "setup"
  /\ conn = "connected"
  /\ durable' \in {durable, stream}
  /\ \E caught \in BOOLEAN : StartupRaises(caught)
  /\ UNCHANGED <<natsConnected, attempt, link, stream, policy, consumer, bounds>>

\* NotificationCommandsSendVkConsumer.start.
ConsumerStarts ==
  /\ phase = "subscribing"
  /\ conn = "connected"
  /\ consumer' = "fetching"
  /\ Serve
  /\ UNCHANGED <<natsConnected, attempt, link, jetstream, policy, bounds>>

SubscribeFails ==
  /\ phase = "subscribing"
  /\ conn = "connected"
  /\ \E caught \in BOOLEAN : StartupRaises(caught)
  /\ UNCHANGED <<natsConnected, attempt, link, jetstream, policy, consumer, bounds>>

\* _get_jetstream: RuntimeError when the connection was lost during startup.
NotConnected ==
  /\ phase \in {"setup", "subscribing"}
  /\ conn # "connected"
  /\ StartupRaises(FALSE)
  /\ UNCHANGED <<natsConnected, attempt, link, jetstream, policy, consumer, bounds>>

-----------------------------------------------------------------------------
(* The consumer task.                                                      *)

Task(from, to) ==
  /\ phase \notin Ended
  /\ consumer = from
  /\ consumer' = to
  /\ UNCHANGED <<phase, natsConnected, attempt, link, jetstream, policy, metrics, bounds>>

Fetch == conn = "connected" /\ Task("fetching", "handling")
FetchFails == Task("fetching", "sleeping")
SleepEnds == Task("sleeping", "fetching")
Answered == Task("handling", "fetching")
\* ack() or nak() raises: nothing catches it.
AnswerFails == conn # "connected" /\ Task("handling", "dead")

-----------------------------------------------------------------------------
(* Shutdown.                                                               *)

\* Faulty variant: what is stopped depends on the connection, not on the flag.
ShutdownByConnection ==
  /\ phase = "serving"
  /\ phase' = IF conn = "connected" THEN "stopping" ELSE "disposing"
  /\ UNCHANGED <<natsConnected, attempt, link, jetstream, policy, consumer, metrics, bounds>>

Shutdown ==
  /\ phase = "serving"
  /\ phase' = IF natsConnected THEN "stopping" ELSE "disposing"
  /\ UNCHANGED <<natsConnected, attempt, link, jetstream, policy, consumer, metrics, bounds>>

\* Faulty variant: the task is left to itself.
StopConsumerSkipped ==
  /\ phase = "stopping"
  /\ phase' = "closing"
  /\ UNCHANGED <<natsConnected, attempt, link, jetstream, policy, consumer, metrics, bounds>>

\* stop cancels the task and awaits it; a task that died of an exception
\* raises it here, and the lifespan never reaches close and close_database.
StopConsumer ==
  /\ phase = "stopping"
  /\ phase' = IF consumer = "dead" THEN "broken" ELSE "closing"
  /\ consumer' = "none"
  /\ UNCHANGED <<natsConnected, attempt, link, jetstream, policy, metrics, bounds>>

\* drain, or close when drain fails.
Close ==
  /\ phase = "closing"
  /\ phase' = "disposing"
  /\ conn' = "none"
  /\ UNCHANGED <<natsConnected, attempt, tries, jetstream, policy, consumer, metrics, bounds>>

\* close_database and the metrics server.
Dispose ==
  /\ phase = "disposing"
  /\ phase' = "stopped"
  /\ metrics' = FALSE
  /\ UNCHANGED <<natsConnected, attempt, link, jetstream, policy, consumer, bounds>>

\* The container is started again: everything in memory is new.
Launch ==
  /\ phase \in Ended
  /\ launches < MaxLaunches
  /\ launches' = launches + 1
  /\ phase' = "starting"
  /\ natsConnected' = FALSE
  /\ attempt' = 1
  /\ conn' = "none"
  /\ tries' = 0
  /\ Reset
  /\ consumer' = "none"
  /\ metrics' = FALSE
  /\ reports' = 0
  /\ slowStart' = FALSE
  /\ UNCHANGED <<jetstream, outages>>

Quiet == phase \in Ended /\ launches = MaxLaunches /\ UNCHANGED vars

-----------------------------------------------------------------------------

StartupStep ==
  \/ Connect \/ ConnectAttemptFails \/ ConnectSucceeds \/ ConnectGivesUp
  \/ DurableRegistered \/ StreamMissing \/ SetupGivesUp
  \/ ConsumerStarts \/ NotConnected

StartupFault == SetupFails \/ SubscribeFails

ShutdownStep == StopConsumer \/ Close \/ Dispose

ConsumerStep == Fetch \/ FetchFails \/ SleepEnds \/ Answered \/ AnswerFails

LinkStep == ConnectionLost \/ ReconnectAttemptFails \/ Reconnected \/ ReconnectGivesUp

Next ==
  \/ StartupStep \/ StartupFault \/ Shutdown \/ ShutdownStep
  \/ ConsumerStep \/ LinkStep \/ StreamCreated
  \/ Launch \/ Quiet

Spec == Init /\ [][Next]_vars

\* The event loop runs the lifespan on, and a call of nats-py returns: it need
\* not fail, so StartupFault is not fair.
Fairness == WF_vars(StartupStep) /\ WF_vars(ShutdownStep)
FairSpec == Spec /\ Fairness

-----------------------------------------------------------------------------
(* Properties.                                                             *)

\* Every variable keeps its type.
TypeOK ==
  /\ phase \in Phase
  /\ natsConnected \in BOOLEAN
  /\ attempt \in 1..MaxSetupAttempts
  /\ conn \in ConnState
  /\ tries \in 0..MaxConnectAttempts
  /\ stream \in BOOLEAN /\ durable \in BOOLEAN
  /\ failures \in Nat /\ escalated \in BOOLEAN
  /\ consumer \in TaskState
  /\ metrics \in BOOLEAN
  /\ reports \in Nat
  /\ slowStart \in BOOLEAN
  /\ outages \in 0..MaxOutages
  /\ launches \in 1..MaxLaunches

\* The consumer only ever runs on the durable that setup registered (with its
\* max_deliver and ack_wait), and a shutdown will know that it has to stop it.
ConsumerHasDurable ==
  consumer # "none" => durable /\ natsConnected

\* The task is gone before the lifespan closes the connection it answers on.
\* nats-py may have given the connection up before ("closed"), which the task
\* is not told.
ConsumerStopsFirst ==
  consumer # "none" => conn # "none"

\* A shutdown that returns leaves nothing of what the startup opened, in an
\* outage too: the consumer task, the metrics server, and the connection unless
\* the startup ended in degraded mode, where nobody owns it.
NothingOutlivesShutdown ==
  phase = "stopped" =>
    /\ consumer = "none"
    /\ ~metrics
    /\ natsConnected => conn = "none"

\* More failed attempts in a row than the threshold are logged as an error, in a
\* startup and in every outage, however many have gone before: what an earlier
\* one has counted is not left over.  The one exception is the first outage
\* after a startup that was itself that slow (EachOutageIsReported).
LongOutageIsReported ==
  conn \in {"connecting", "reconnecting"} /\ tries > ReportAfter /\ ~slowStart
    => reports = 1

\* ... and one outage is reported once.
OneReportPerOutage == reports <= 1

\* Startup and shutdown end: the setup gives up on a stream that never
\* appears, and the shutdown does not wait for an outage to end.
LifespanProceeds ==
  /\ phase \in Starting ~> phase \notin Starting
  /\ phase \in Stopping ~> phase \in Ended

(* What a comment says and the code does not keep.                         *)

\* NatsConnectionErrorPolicy: a long outage is escalated exactly once per
\* incident.  connect resets the policy before its attempts and not after the
\* last one, so what a slow startup has counted is carried into the next outage.
EachOutageIsReported ==
  conn = "reconnecting" /\ tries > ReportAfter => reports = 1
============================================================================
