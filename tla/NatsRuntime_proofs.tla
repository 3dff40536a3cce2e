------------------------- MODULE NatsRuntime_proofs -------------------------
(* NatsConnectionErrorPolicy and the lifespan for any thresholds, attempts, *)
(* outages and launches: a long outage is reported unless a slow startup is *)
(* still counted, no outage is reported twice, and the consumer, the connection and the metrics server    *)
(* are started and stopped in order.                                        *)
EXTENDS NatsRuntime, TLAPS

Counters ==
  /\ failures \in Nat /\ tries \in Nat /\ reports \in Nat
  /\ escalated \in BOOLEAN /\ slowStart \in BOOLEAN

Down == {"connecting", "reconnecting"}

\* The count of the policy is never behind the attempts of the outage, and
\* escalated says that it has passed the threshold.  While the connection is
\* down a report is remembered in escalated; a reconnect may forget it.
Counted ==
  /\ phase = "connecting" => conn = "connecting"
  /\ escalated <=> failures > ReportAfter
  /\ reports <= 1
  /\ conn \in Down => tries <= failures /\ (reports = 1 => escalated)

\* Unless the startup was slow, a connection is left with a count at or below the
\* threshold, so that an outage finds nothing escalated but by itself.
Fresh ==
  /\ conn = "connecting" => tries = failures
  /\ conn = "connected" /\ ~slowStart => ~escalated
  /\ conn \in Down /\ ~slowStart /\ escalated => reports = 1

PInv == Counters /\ Counted /\ Fresh

LEMMA InitCounted == Init => PInv
<1> SUFFICES ASSUME Init PROVE PInv
  OBVIOUS
<1>1. ~escalated /\ escalated \in BOOLEAN
  BY DEF Init
<1>2. ~(failures > ReportAfter)
  BY RuntimeAssumption DEF Init
<1>3. Counters
  BY <1>1 DEF Init, Counters
<1>4. reports <= 1 /\ conn = "none" /\ phase # "connecting"
  BY DEF Init
<1> QED
  BY <1>1, <1>2, <1>3, <1>4 DEF PInv, Counted, Fresh, Down

\* The callback, while nats-py counts the same attempt.
LEMMA OnErrorCounted ==
  ASSUME PInv, OnError, tries' = tries + 1, UNCHANGED <<conn, phase, slowStart>>, conn \in Down
  PROVE  PInv'
<1>1. ReportAfter \in Nat
  BY RuntimeAssumption
<1>2. failures' = failures + 1
  BY DEF OnError
<1>3. conn' # "connected" /\ (conn' = "connecting" => tries' = failures')
  BY <1>2 DEF PInv, Fresh, Down
<1>4. CASE failures' > ReportAfter /\ ~escalated
  <2>1. escalated' = TRUE /\ reports' = reports + 1
    BY <1>4 DEF OnError
  <2>2. reports = 0
    BY <1>4 DEF PInv, Counters, Counted
  <2>3. Counters'
    BY <1>2, <2>1 DEF PInv, Counters
  <2>4. Counted'
    BY <1>1, <1>2, <1>4, <2>1, <2>2, <2>3 DEF PInv, Counters, Counted
  <2> QED
    BY <1>3, <2>1, <2>2, <2>3, <2>4 DEF PInv, Fresh
<1>5. CASE ~(failures' > ReportAfter /\ ~escalated)
  <2>1. escalated' = escalated /\ reports' = reports
    BY <1>5 DEF OnError, PInv, Counters
  <2>2. Counters'
    BY <1>2, <2>1 DEF PInv, Counters
  <2>3. Counted'
    BY <1>1, <1>2, <1>5, <2>1, <2>2 DEF PInv, Counters, Counted
  <2> QED
    BY <1>3, <2>1, <2>2, <2>3 DEF PInv, Fresh
<1> QED
  BY <1>4, <1>5

\* A count that starts again, for a new outage or on a reconnect.
LEMMA ResetCounted ==
  ASSUME PInv, Reset, tries' = 0, slowStart' = FALSE,
         phase' = "connecting" => conn' = "connecting",
         \/ reports' = 0
         \/ reports' = reports /\ conn' = "connected"
  PROVE  PInv'
<1>1. ~escalated' /\ escalated' \in BOOLEAN /\ failures' = 0
  BY DEF Reset
<1>2. ~(failures' > ReportAfter)
  BY <1>1, RuntimeAssumption
<1>3. reports' \in Nat /\ reports' <= 1
  BY DEF PInv, Counters, Counted
<1>4. conn' \in Down => reports' = 0
  BY DEF Down
<1>5. tries' <= failures' /\ (reports' = 0 => reports' # 1)
  BY <1>1
<1> QED
  BY <1>1, <1>2, <1>3, <1>4, <1>5 DEF PInv, Counters, Counted, Fresh

\* The first connection: the count of the startup stays, and slowStart tells
\* whether it is above the threshold.
LEMMA ConnectedCounted ==
  ASSUME PInv, ConnectSucceeds
  PROVE  PInv'
<1>1. UNCHANGED <<failures, escalated, reports>> /\ tries' = 0 /\ conn' = "connected"
      /\ phase' = "setup" /\ slowStart' = (tries > ReportAfter)
  BY DEF ConnectSucceeds, onerror
<1>2. tries = failures
  BY DEF ConnectSucceeds, PInv, Counted, Fresh
<1>3. escalated <=> slowStart'
  BY <1>1, <1>2 DEF PInv, Counted
<1> QED
  BY <1>1, <1>3 DEF PInv, Counters, Counted, Fresh, Down

\* An outage that begins with the count where it is.
LEMMA LostCounted ==
  ASSUME PInv, ConnectionLost
  PROVE  PInv'
<1>1. UNCHANGED <<failures, escalated, slowStart, phase>> /\ tries' = 0 /\ reports' = 0
      /\ conn = "connected" /\ conn' = "reconnecting"
  BY DEF ConnectionLost
<1> QED
  BY <1>1 DEF PInv, Counters, Counted, Fresh

\* The other steps do not touch the policy.
LEMMA OtherCounted ==
  ASSUME PInv, UNCHANGED policy, phase' = "connecting" => conn' = "connecting",
         \/ UNCHANGED link
         \/ conn' \notin Down \cup {"connected"} /\ tries' \in Nat
  PROVE  PInv'
  BY DEF PInv, Counters, Counted, Fresh, policy, onerror, link, Down

LEMMA NextCounted == PInv /\ [Next]_vars => PInv'
<1> SUFFICES ASSUME PInv, [Next]_vars PROVE PInv'
  OBVIOUS
<1>0. phase = "connecting" => conn = "connecting"
  BY DEF PInv, Counted
<1>1. CASE ConnectAttemptFails \/ ReconnectAttemptFails
  BY <1>0, <1>1, OnErrorCounted DEF ConnectAttemptFails, ReconnectAttemptFails, Down
<1>2. CASE Connect \/ Launch
  BY <1>2, ResetCounted DEF Connect, Launch
<1>3. CASE Reconnected
  BY <1>0, <1>3, ResetCounted DEF Reconnected
<1>4. CASE ConnectionLost
  BY <1>4, LostCounted
<1>5. CASE ConnectGivesUp \/ ReconnectGivesUp \/ Close
  <2>1. conn' \notin Down \cup {"connected"} /\ tries' \in Nat /\ UNCHANGED policy
        /\ phase' # "connecting"
    BY <1>0, <1>5 DEF ConnectGivesUp, ReconnectGivesUp, Close, StartupRaises, Serve, PInv,
                      Counters, Down
  <2> QED
    BY <2>1, OtherCounted
<1>6. CASE DurableRegistered \/ StreamMissing \/ SetupGivesUp \/ NotConnected \/ StartupFault
           \/ ConsumerStarts \/ Shutdown \/ StopConsumer \/ Dispose
  <2>1. UNCHANGED <<policy, link>> /\ phase' # "connecting"
    BY <1>6 DEF DurableRegistered, StreamMissing, SetupGivesUp, NotConnected, StartupFault,
                SetupFails, SubscribeFails, ConsumerStarts, Shutdown, StopConsumer, Dispose,
                StartupRaises, Serve
  <2> QED
    BY <2>1, OtherCounted
<1>7. CASE ConsumerStep \/ StreamCreated \/ Quiet \/ UNCHANGED vars
  <2>1. UNCHANGED <<policy, link, phase>>
    BY <1>7 DEF ConsumerStep, Fetch, FetchFails, SleepEnds, Answered, AnswerFails, Task,
                StreamCreated, Quiet, vars
  <2> QED
    BY <1>0, <2>1, OtherCounted DEF link
<1>8. CASE ConnectSucceeds
  BY <1>8, ConnectedCounted
<1> QED
  BY <1>1, <1>2, <1>3, <1>4, <1>5, <1>6, <1>7, <1>8
     DEF Next, StartupStep, ShutdownStep, LinkStep

\* However startups and outages follow each other, more failed attempts than the
\* threshold are logged as an error, unless the process itself started that
\* slowly and has not reconnected since.
THEOREM LongOutages == Spec => []LongOutageIsReported
<1>1. PInv => LongOutageIsReported
  BY RuntimeAssumption DEF PInv, Counters, Counted, Fresh, LongOutageIsReported, Down
<1> QED
  BY <1>1, InitCounted, NextCounted, PTL DEF Spec

\* ... and on_error does not report the same outage twice.
THEOREM SingleReports == Spec => []OneReportPerOutage
<1>1. PInv => OneReportPerOutage
  BY DEF PInv, Counted, OneReportPerOutage
<1> QED
  BY <1>1, InitCounted, NextCounted, PTL DEF Spec

-----------------------------------------------------------------------------
(* Types.                                                                  *)

\* The part of TypeOK that is about the connection and its policy.
LinkTyped ==
  /\ conn \in ConnState
  /\ tries \in 0..MaxConnectAttempts
  /\ failures \in Nat /\ escalated \in BOOLEAN
  /\ reports \in Nat
  /\ slowStart \in BOOLEAN
  /\ outages \in 0..MaxOutages

\* ... and the part that is about the lifespan and the consumer task.
LifespanTyped ==
  /\ phase \in Phase
  /\ natsConnected \in BOOLEAN
  /\ attempt \in 1..MaxSetupAttempts
  /\ stream \in BOOLEAN /\ durable \in BOOLEAN
  /\ consumer \in TaskState
  /\ metrics \in BOOLEAN
  /\ launches \in 1..MaxLaunches

LEMMA InitTyped == Init => TypeOK
<1> SUFFICES ASSUME Init PROVE LinkTyped /\ LifespanTyped
  BY DEF TypeOK, LinkTyped, LifespanTyped
<1>1. 1 \in 1..MaxSetupAttempts /\ 1 \in 1..MaxLaunches
      /\ 0 \in 0..MaxConnectAttempts /\ 0 \in 0..MaxOutages
  BY RuntimeAssumption
<1>2. "none" \in ConnState /\ "none" \in TaskState /\ "starting" \in Phase
  BY DEF ConnState, TaskState, Phase, Starting
<1>3. LinkTyped
  BY <1>1, <1>2 DEF Init, LinkTyped
<1>4. LifespanTyped
  BY <1>1, <1>2 DEF Init, LifespanTyped
<1> QED
  BY <1>3, <1>4

\* on_error keeps the policy typed.
LEMMA OnErrorTyped ==
  ASSUME LinkTyped, OnError, tries < MaxConnectAttempts, tries' = tries + 1,
         UNCHANGED <<conn, slowStart, outages>>
  PROVE  LinkTyped'
<1>1. failures' \in Nat /\ reports' \in Nat
  BY DEF OnError, LinkTyped
<1>2. escalated' \in BOOLEAN
  BY DEF OnError, LinkTyped
<1> QED
  BY <1>1, <1>2, RuntimeAssumption DEF LinkTyped

LEMMA NextTyped == TypeOK /\ [Next]_vars => TypeOK'
<1> SUFFICES ASSUME TypeOK, [Next]_vars PROVE LinkTyped' /\ LifespanTyped'
  BY DEF TypeOK, LinkTyped, LifespanTyped
<1>0. LinkTyped /\ LifespanTyped
  BY DEF TypeOK, LinkTyped, LifespanTyped
<1>1. CASE ConnectAttemptFails \/ ReconnectAttemptFails
  <2>1. UNCHANGED <<conn, slowStart, outages>>
        /\ UNCHANGED <<phase, natsConnected, attempt, jetstream, consumer, metrics, launches>>
    BY <1>1 DEF ConnectAttemptFails, ReconnectAttemptFails, bounds
  <2>2. LinkTyped'
    BY <1>0, <1>1, <2>1, OnErrorTyped DEF ConnectAttemptFails, ReconnectAttemptFails
  <2> QED
    BY <1>0, <2>1, <2>2 DEF LifespanTyped, jetstream
<1>2. CASE LinkStep /\ ~ReconnectAttemptFails
  <2>1. LinkTyped'
    <3>0. 0 \in 0..MaxConnectAttempts
          /\ {"reconnecting", "connected", "closed"} \subseteq ConnState
      BY RuntimeAssumption DEF ConnState
    <3>1. CASE ConnectionLost
      <4>1. outages' \in 0..MaxOutages
        BY <1>0, <3>1, RuntimeAssumption DEF ConnectionLost, LinkTyped
      <4> QED
        BY <1>0, <3>0, <3>1, <4>1 DEF ConnectionLost, LinkTyped
    <3>2. CASE Reconnected
      BY <1>0, <3>0, <3>2 DEF Reconnected, Reset, bounds, LinkTyped
    <3>3. CASE ReconnectGivesUp
      BY <1>0, <3>0, <3>3 DEF ReconnectGivesUp, policy, onerror, bounds, LinkTyped
    <3> QED
      BY <1>2, <3>1, <3>2, <3>3 DEF LinkStep
  <2>2. LifespanTyped'
    BY <1>0, <1>2
       DEF LifespanTyped, LinkStep, ConnectionLost, Reconnected, ReconnectGivesUp, jetstream, bounds
  <2> QED
    BY <2>1, <2>2
<1>3. CASE Connect \/ ConnectSucceeds \/ ConnectGivesUp \/ Close \/ Launch
  <2>1. LinkTyped'
    <3>0. 0 \in 0..MaxConnectAttempts
          /\ {"none", "connecting", "connected", "closed"} \subseteq ConnState
      BY RuntimeAssumption DEF ConnState
    <3>1. CASE Connect \/ Launch
      <4>1. UNCHANGED outages
        BY <3>1 DEF Connect, Launch, bounds
      <4>2. conn' \in ConnState /\ tries' = 0 /\ reports' = 0
        BY <3>0, <3>1 DEF Connect, Launch
      <4>3. failures' = 0 /\ escalated' \in BOOLEAN
        BY <3>1 DEF Connect, Launch, Reset
      <4>4. slowStart' \in BOOLEAN
        BY <3>1 DEF Connect, Launch
      <4> QED
        BY <1>0, <3>0, <4>1, <4>2, <4>3, <4>4 DEF LinkTyped
    <3>2. CASE ConnectSucceeds
      BY <1>0, <3>0, <3>2 DEF ConnectSucceeds, onerror, bounds, LinkTyped
    <3>3. CASE ConnectGivesUp \/ Close
      BY <1>0, <3>0, <3>3 DEF ConnectGivesUp, Close, policy, onerror, bounds, LinkTyped
    <3> QED
      BY <1>3, <3>1, <3>2, <3>3
  <2>2. phase' \in Phase /\ metrics' \in BOOLEAN
    BY <1>0, <1>3
       DEF LifespanTyped, Connect, ConnectSucceeds, ConnectGivesUp, Close, Launch, StartupRaises,
           Serve, Phase, Starting, Stopping, Ended
  <2>3. launches' \in 1..MaxLaunches /\ attempt' \in 1..MaxSetupAttempts
    BY <1>0, <1>3, RuntimeAssumption
       DEF LifespanTyped, Connect, ConnectSucceeds, ConnectGivesUp, Close, Launch, bounds
  <2>4. natsConnected' \in BOOLEAN /\ consumer' \in TaskState /\ UNCHANGED jetstream
    BY <1>0, <1>3
       DEF LifespanTyped, Connect, ConnectSucceeds, ConnectGivesUp, Close, Launch, TaskState
  <2> QED
    BY <1>0, <2>1, <2>2, <2>3, <2>4 DEF LifespanTyped, jetstream
<1>4. CASE \/ DurableRegistered \/ StreamMissing \/ SetupGivesUp \/ ConsumerStarts
           \/ NotConnected \/ StartupFault \/ Shutdown \/ StopConsumer \/ Dispose
           \/ ConsumerStep \/ StreamCreated \/ Quiet \/ UNCHANGED vars
  <2> USE DEF DurableRegistered, StreamMissing, SetupGivesUp, ConsumerStarts, NotConnected,
              StartupFault, SetupFails, SubscribeFails, Shutdown, StopConsumer, Dispose,
              ConsumerStep, Fetch, FetchFails, SleepEnds, Answered, AnswerFails, Task,
              StreamCreated, Quiet, vars
  <2>1. UNCHANGED <<link, policy, outages, launches>>
    BY <1>4 DEF bounds
  <2>2. phase' \in Phase
    BY <1>0, <1>4 DEF LifespanTyped, StartupRaises, Serve, Phase, Starting, Stopping, Ended
  <2>3. attempt' \in 1..MaxSetupAttempts
    <3>1. \/ attempt' = attempt
          \/ attempt < MaxSetupAttempts /\ attempt' = attempt + 1
      BY <1>4
    <3> QED
      BY <1>0, <3>1, RuntimeAssumption DEF LifespanTyped
  <2>4. metrics' \in BOOLEAN
    BY <1>0, <1>4 DEF LifespanTyped, StartupRaises, Serve
  <2>5. natsConnected' \in BOOLEAN /\ stream' \in BOOLEAN /\ durable' \in BOOLEAN
    BY <1>0, <1>4 DEF LifespanTyped, jetstream
  <2>6. consumer' \in TaskState
    BY <1>0, <1>4 DEF LifespanTyped, TaskState
  <2> QED
    BY <1>0, <2>1, <2>2, <2>3, <2>4, <2>5, <2>6 DEF LinkTyped, LifespanTyped, link, policy, onerror
<1> QED
  BY <1>1, <1>2, <1>3, <1>4 DEF Next, StartupStep, ShutdownStep, LinkStep

\* Every step of the lifespan, the connection and the consumer keeps the types:
\* attempts, tries, outages and launches stay within their limits.
THEOREM TypeCorrect == Spec => []TypeOK
  BY InitTyped, NextTyped, PTL DEF Spec

-----------------------------------------------------------------------------
(* The order of the lifespan.                                              *)

\* Where the lifespan is tells what it has started.  natsConnected is set with
\* the durable, before there is a consumer; the consumer is gone before the
\* connection is closed, and a shutdown that skips it has none to stop.
Ordered ==
  /\ consumer # "none" => durable /\ natsConnected /\ conn # "none"
  /\ phase = "subscribing" => durable /\ natsConnected
  /\ phase \in Starting \cup {"closing", "disposing", "stopped"} => consumer = "none"
  /\ phase \in {"disposing", "stopped"} /\ natsConnected => conn = "none"
  /\ phase = "stopped" => ~metrics

LEMMA NextOrdered == Ordered /\ [Next]_vars => Ordered'
<1> SUFFICES ASSUME Ordered, [Next]_vars PROVE Ordered'
  OBVIOUS
<1> USE DEF Ordered
<1>1. CASE Connect \/ ConnectAttemptFails \/ ConnectSucceeds \/ ConnectGivesUp \/ Launch
  BY <1>1 DEF Connect, ConnectAttemptFails, ConnectSucceeds, ConnectGivesUp, StartupRaises,
              Serve, Launch, Starting, jetstream
<1>2. CASE DurableRegistered \/ StreamMissing \/ SetupGivesUp \/ NotConnected \/ StartupFault
  BY <1>2 DEF DurableRegistered, StreamMissing, SetupGivesUp, NotConnected, StartupFault,
              SetupFails, SubscribeFails, StartupRaises, Serve, Starting, jetstream, link
<1>3. CASE ConsumerStarts
  BY <1>3 DEF ConsumerStarts, Serve, Starting, jetstream, link
<1>4. CASE ConsumerStep
  <2>1. consumer # "none" /\ UNCHANGED <<phase, natsConnected, link, jetstream, metrics>>
    BY <1>4 DEF ConsumerStep, Fetch, FetchFails, SleepEnds, Answered, AnswerFails, Task
  <2> QED
    BY <2>1 DEF link, jetstream
<1>5. CASE LinkStep
  BY <1>5 DEF LinkStep, ConnectionLost, ReconnectAttemptFails, Reconnected, ReconnectGivesUp,
              Ended, jetstream
<1>6. CASE Shutdown \/ StopConsumer \/ Close \/ Dispose
  BY <1>6 DEF Shutdown, StopConsumer, Close, Dispose, Starting, jetstream, link
<1>7. CASE StreamCreated \/ Quiet \/ UNCHANGED vars
  BY <1>7 DEF StreamCreated, Quiet, vars, link, jetstream
<1> QED
  BY <1>1, <1>2, <1>3, <1>4, <1>5, <1>6, <1>7 DEF Next, StartupStep, ShutdownStep

LEMMA AlwaysOrdered == Spec => []Ordered
<1>1. Init => Ordered
  BY DEF Init, Ordered, Starting
<1> QED
  BY <1>1, NextOrdered, PTL DEF Spec

\* The consumer task runs on the registered durable, and the flag that makes
\* the shutdown stop it is set.
THEOREM ConsumersHaveDurable == Spec => []ConsumerHasDurable
<1>1. Ordered => ConsumerHasDurable
  BY DEF Ordered, ConsumerHasDurable
<1> QED
  BY <1>1, AlwaysOrdered, PTL

\* The lifespan closes the connection only when the consumer task is gone; what
\* nats-py gives up by itself is not spoken of.
THEOREM ConsumersStopFirst == Spec => []ConsumerStopsFirst
<1>1. Ordered => ConsumerStopsFirst
  BY DEF Ordered, ConsumerStopsFirst
<1> QED
  BY <1>1, AlwaysOrdered, PTL

\* A lifespan that returned has stopped what it started, whenever outages and
\* failures of the startup came.
THEOREM ShutdownsAreComplete == Spec => []NothingOutlivesShutdown
<1>1. Ordered => NothingOutlivesShutdown
  BY DEF Ordered, NothingOutlivesShutdown
<1> QED
  BY <1>1, AlwaysOrdered, PTL
=============================================================================
