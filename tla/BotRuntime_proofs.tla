-------------------------- MODULE BotRuntime_proofs --------------------------
(* The bot process for any events and any number of launches: it polls only *)
(* when it is configured, and what a person is told has been committed.     *)
EXTENDS BotRuntime, TLAPS

-----------------------------------------------------------------------------
(* Types.                                                                  *)

\* The part of TypeOK that is about the process and VK.
ProcessTyped ==
  /\ phase \in Phase
  /\ code \in ExitCode
  /\ config \in Config
  /\ pending \subseteq happened
  /\ happened \subseteq Event
  /\ launches \in 1..MaxLaunches

\* ... and the part that is about the handlers.
HandlersTyped ==
  /\ task \in [Event -> Stage]
  /\ result \in [Event -> Result]
  /\ stored \in [Event -> Result]
  /\ told \in [Event -> Result]

\* What a handler decides is a result.
LEMMA ResultsTyped == \A e \in Event : ResultsOf(Kind[e]) \subseteq Result
<1>1. ASSUME NEW e \in Event PROVE Kind[e] \in {"chat", "text", "link", "permission"}
  BY BotAssumption
<1>2. ASSUME NEW kind \in {"chat", "text", "link", "permission"}
      PROVE  ResultsOf(kind) \subseteq Result
  BY DEF ResultsOf, Result
<1> QED
  BY <1>1, <1>2

LEMMA InitTyped == Init => TypeOK
<1> SUFFICES ASSUME Init PROVE TypeOK
  OBVIOUS
<1>1. "none" \in Stage /\ "none" \in Result /\ "none" \in ExitCode /\ "main" \in Phase
  BY DEF Stage, Result, ExitCode, Phase
<1>2. 1 \in 1..MaxLaunches
  BY BotAssumption
<1> QED
  BY <1>1, <1>2 DEF Init, TypeOK

LEMMA NextTyped == TypeOK /\ [Next]_vars => TypeOK'
<1> SUFFICES ASSUME TypeOK, [Next]_vars PROVE ProcessTyped' /\ HandlersTyped'
  BY DEF TypeOK, ProcessTyped, HandlersTyped
<1>0. ProcessTyped /\ HandlersTyped
  BY DEF TypeOK, ProcessTyped, HandlersTyped
<1>1. {"handling", "committing", "replying", "done", "failed"} \subseteq Stage
      /\ "none" \in Result
  BY DEF Stage, Result
<1>2. CASE CheckToken \/ Preflight \/ StartPolling \/ KeyExpires \/ Signal
  <2>1. UNCHANGED <<config, happened, handlers, launches>> /\ pending' \in {pending, {}}
    BY <1>2 DEF CheckToken, Preflight, StartPolling, KeyExpires, Signal, history
  <2>2. phase' \in Phase /\ code' \in ExitCode
    BY <1>0, <1>2 DEF CheckToken, Preflight, StartPolling, KeyExpires, Signal, Exit, process,
                      ProcessTyped, Phase, ExitCode
  <2> QED
    BY <1>0, <2>1, <2>2 DEF ProcessTyped, HandlersTyped, handlers
<1>3. CASE StopRuntime \/ Kill
  <2>1. UNCHANGED <<config, history, result, stored, told, launches>> /\ CancelTasks
    BY <1>3 DEF StopRuntime, Kill
  <2>2. phase' \in Phase /\ code' \in ExitCode
    BY <1>3 DEF StopRuntime, Kill, Exit, Phase, ExitCode
  <2>3. task' \in [Event -> Stage]
    BY <1>0, <1>1, <2>1 DEF CancelTasks, HandlersTyped
  <2> QED
    BY <1>0, <2>1, <2>2, <2>3 DEF ProcessTyped, HandlersTyped, history
<1>4. CASE Relaunch
  <2>1. launches' \in 1..MaxLaunches
    BY <1>0, <1>4, BotAssumption DEF Relaunch, ProcessTyped
  <2>2. phase' \in Phase /\ code' \in ExitCode /\ config' \in Config
    BY <1>4 DEF Relaunch, Phase, ExitCode
  <2> QED
    BY <1>0, <1>4, <2>1, <2>2 DEF Relaunch, ProcessTyped, HandlersTyped, history, handlers
<1>5. CASE Receive
  <2>1. task' \in [Event -> Stage]
    BY <1>0, <1>1, <1>5 DEF Receive, HandlersTyped
  <2> QED
    BY <1>0, <1>5, <2>1 DEF Receive, ProcessTyped, HandlersTyped, process
<1>6. ASSUME NEW e \in Event, Occurs(e) PROVE ProcessTyped' /\ HandlersTyped'
  BY <1>0, <1>6 DEF Occurs, ProcessTyped, HandlersTyped, process, handlers
<1>7. ASSUME NEW e \in Event, HandlerStep(e) PROVE ProcessTyped' /\ HandlersTyped'
  <2>1. UNCHANGED <<process, config, history, launches>>
    BY <1>7 DEF HandlerStep, Handle, CommitEvent, HandlerFails, Reply
  <2>2. ProcessTyped'
    BY <1>0, <2>1 DEF ProcessTyped, process, history
  <2>3. task' \in [Event -> Stage]
    <3>1. PICK stage \in {"committing", "replying", "done", "failed"} :
            task' = [task EXCEPT ![e] = stage]
      BY <1>7 DEF HandlerStep, Handle, CommitEvent, HandlerFails, Reply
    <3> QED
      BY <1>0, <1>1, <3>1 DEF HandlersTyped
  <2>4. result' \in [Event -> Result]
    <3>1. \/ result' = result
          \/ \E r \in ResultsOf(Kind[e]) : result' = [result EXCEPT ![e] = r]
      BY <1>7 DEF HandlerStep, Handle, CommitEvent, HandlerFails, Reply
    <3> QED
      BY <1>0, <3>1, ResultsTyped DEF HandlersTyped
  <2>5. stored' \in [Event -> Result] /\ told' \in [Event -> Result]
    <3>1. result[e] \in Result /\ "none" \in Result
      BY <1>0, <1>1 DEF HandlersTyped
    <3>2. stored' = stored \/ stored' = [stored EXCEPT ![e] = result[e]]
      BY <1>7 DEF HandlerStep, Handle, CommitEvent, HandlerFails, Reply
    <3>3. told' = told \/ \E r \in {result[e], "none"} : told' = [told EXCEPT ![e] = r]
      BY <1>7 DEF HandlerStep, Handle, CommitEvent, HandlerFails, Reply
    <3> QED
      BY <1>0, <3>1, <3>2, <3>3 DEF HandlersTyped
  <2> QED
    BY <2>2, <2>3, <2>4, <2>5 DEF HandlersTyped
<1>8. CASE Quiet \/ UNCHANGED vars
  BY <1>0, <1>8 DEF Quiet, vars, process, history, handlers, ProcessTyped, HandlersTyped
<1> QED
  BY <1>2, <1>3, <1>4, <1>5, <1>6, <1>7, <1>8 DEF Next, ProcessStep

\* Every step of the process, of VK and of a handler keeps the types.
THEOREM TypeCorrect == Spec => []TypeOK
  BY InitTyped, NextTyped, PTL DEF Spec

-----------------------------------------------------------------------------
(* The preflight.                                                          *)

\* Behind each check of the start, what it has excluded.
Checked ==
  /\ phase = "preflight" => config # "no_token"
  /\ PollsOnlyConfigured

\* The loop runs only with a token and a group, also when VK does not answer
\* the preflight and the process goes on without its verdict.
THEOREM ConfiguredPolling == Spec => []PollsOnlyConfigured
<1>1. Init => Checked
  BY DEF Init, Checked, PollsOnlyConfigured
<1>2. Checked /\ [Next]_vars => Checked'
  <2> SUFFICES ASSUME Checked, [Next]_vars PROVE Checked'
    OBVIOUS
  <2> USE DEF Checked, PollsOnlyConfigured
  <2>1. CASE CheckToken \/ Preflight \/ StartPolling
    BY <2>1 DEF CheckToken, Preflight, StartPolling, Exit
  <2>2. CASE StopRuntime \/ Kill \/ Relaunch \/ Signal
    BY <2>2 DEF StopRuntime, Kill, Relaunch, Signal, Exit
  <2>3. CASE UNCHANGED <<phase, config>>
    BY <2>3
  <2>4. Receive \/ KeyExpires \/ Quiet \/ UNCHANGED vars => UNCHANGED <<phase, config>>
    BY DEF Receive, KeyExpires, Quiet, vars, process
  <2>5. ASSUME NEW e \in Event, Occurs(e) \/ HandlerStep(e) PROVE UNCHANGED <<phase, config>>
    BY <2>5 DEF Occurs, HandlerStep, Handle, CommitEvent, HandlerFails, Reply, process
  <2> QED
    BY <2>1, <2>2, <2>3, <2>4, <2>5 DEF Next, ProcessStep
<1>3. Checked => PollsOnlyConfigured
  BY DEF Checked
<1> QED
  BY <1>1, <1>2, <1>3, PTL DEF Spec

-----------------------------------------------------------------------------
(* The answers.                                                            *)

\* An event that no process has received has no handler, so no event has two.
ReceivedOnce ==
  \A e \in Event : e \in pending \/ e \notin happened => task[e] = "none"

\* Nothing is told before the handler is at its end ...
ToldAtTheEnd ==
  \A e \in Event : task[e] \notin {"done", "failed"} => told[e] = "none"

\* ... and it answers from what it has committed.
ReplyIsStored == \A e \in Event : task[e] = "replying" => stored[e] = result[e]

AnswerInv == TypeOK /\ ReceivedOnce /\ ToldAtTheEnd /\ ReplyIsStored /\ ToldIsStored

LEMMA InitAnswers == Init => AnswerInv
<1> SUFFICES ASSUME Init PROVE AnswerInv
  OBVIOUS
<1>1. ReceivedOnce /\ ToldAtTheEnd /\ ReplyIsStored /\ ToldIsStored
  BY DEF Init, ReceivedOnce, ToldAtTheEnd, ReplyIsStored, ToldIsStored
<1> QED
  BY <1>1, InitTyped DEF AnswerInv

\* A step that leaves the handlers alone, and takes no event back.
LEMMA OtherAnswers ==
  ASSUME AnswerInv, UNCHANGED handlers, pending' \subseteq pending, happened' = happened
  PROVE  ReceivedOnce' /\ ToldAtTheEnd' /\ ReplyIsStored' /\ ToldIsStored'
  BY DEF AnswerInv, ReceivedOnce, ToldAtTheEnd, ReplyIsStored, ToldIsStored, handlers

\* Tasks that are cancelled.
LEMMA CancelAnswers ==
  ASSUME AnswerInv, CancelTasks, UNCHANGED <<history, result, stored, told>>
  PROVE  ReceivedOnce' /\ ToldAtTheEnd' /\ ReplyIsStored' /\ ToldIsStored'
<1>1. \A e \in Event : task'[e] = IF task[e] \in Running THEN "failed" ELSE task[e]
  BY DEF CancelTasks
<1> QED
  BY <1>1 DEF AnswerInv, ReceivedOnce, ToldAtTheEnd, ReplyIsStored, ToldIsStored, history, Running

\* A handler that is started, for every event that has come.
LEMMA ReceiveAnswers ==
  ASSUME AnswerInv, Receive
  PROVE  ReceivedOnce' /\ ToldAtTheEnd' /\ ReplyIsStored' /\ ToldIsStored'
<1>1. \A e \in Event : task'[e] = IF e \in pending THEN "handling" ELSE task[e]
  BY DEF Receive
<1>2. pending' = {} /\ happened' = happened /\ UNCHANGED <<result, stored, told>>
  BY DEF Receive
<1>3. \A e \in pending : e \in happened
  BY DEF AnswerInv, TypeOK
<1> QED
  BY <1>1, <1>2, <1>3 DEF AnswerInv, ReceivedOnce, ToldAtTheEnd, ReplyIsStored, ToldIsStored

\* The steps of one handler.
LEMMA HandlerAnswers ==
  ASSUME AnswerInv, NEW e \in Event, HandlerStep(e)
  PROVE  ReceivedOnce' /\ ToldAtTheEnd' /\ ReplyIsStored' /\ ToldIsStored'
<1>0. /\ task \in [Event -> Stage] /\ result \in [Event -> Result]
      /\ stored \in [Event -> Result] /\ told \in [Event -> Result]
  BY DEF AnswerInv, TypeOK
<1> USE DEF AnswerInv, ReceivedOnce, ToldAtTheEnd, ReplyIsStored, ToldIsStored, history
<1>1. CASE Handle(e)
  BY <1>0, <1>1 DEF Handle
<1>2. CASE CommitEvent(e)
  BY <1>0, <1>2 DEF CommitEvent
<1>3. CASE HandlerFails(e)
  BY <1>0, <1>3 DEF HandlerFails
<1>4. CASE Reply(e)
  BY <1>0, <1>4 DEF Reply
<1> QED
  BY <1>1, <1>2, <1>3, <1>4 DEF HandlerStep

LEMMA NextAnswers == AnswerInv /\ [Next]_vars => AnswerInv'
<1> SUFFICES ASSUME AnswerInv, [Next]_vars
             PROVE  ReceivedOnce' /\ ToldAtTheEnd' /\ ReplyIsStored' /\ ToldIsStored'
  BY NextTyped DEF AnswerInv
<1>1. CASE \/ CheckToken \/ Preflight \/ StartPolling \/ KeyExpires \/ Signal
           \/ Relaunch \/ Quiet \/ UNCHANGED vars
  <2>1. UNCHANGED <<handlers, happened>> /\ pending' \in {pending, {}}
    BY <1>1 DEF CheckToken, Preflight, StartPolling, KeyExpires, Signal, Relaunch, Quiet, vars,
                history
  <2> QED
    BY <2>1, OtherAnswers
<1>2. CASE StopRuntime \/ Kill
  BY <1>2, CancelAnswers DEF StopRuntime, Kill
<1>3. CASE Receive
  BY <1>3, ReceiveAnswers
<1>4. ASSUME NEW e \in Event, Occurs(e)
      PROVE  ReceivedOnce' /\ ToldAtTheEnd' /\ ReplyIsStored' /\ ToldIsStored'
  BY <1>4 DEF Occurs, AnswerInv, ReceivedOnce, ToldAtTheEnd, ReplyIsStored, ToldIsStored, handlers
<1>5. ASSUME NEW e \in Event, HandlerStep(e)
      PROVE  ReceivedOnce' /\ ToldAtTheEnd' /\ ReplyIsStored' /\ ToldIsStored'
  BY <1>5, HandlerAnswers
<1> QED
  BY <1>1, <1>2, <1>3, <1>4, <1>5 DEF Next, ProcessStep

\* A person is told what is in the tables, wherever commits fail, tasks are
\* cancelled and processes are killed between the steps of a handler.
THEOREM TruthfulAnswers == Spec => []ToldIsStored
<1>1. AnswerInv => ToldIsStored
  BY DEF AnswerInv
<1> QED
  BY <1>1, InitAnswers, NextAnswers, PTL DEF Spec
=============================================================================
