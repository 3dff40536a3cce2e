----------------------------- MODULE BotRuntime -----------------------------
(***************************************************************************)
(* The long-poll process of the bot (bot/main.py) and the fate of one      *)
(* group event in it (bot/handlers.py): start, preflight, polling, one     *)
(* task per event, stop.  What a confirm does to the tables is the subject *)
(* of VkBinding; here a handler has a result, a commit that may fail and,  *)
(* for a message, an answer.                                               *)
(*                                                                         *)
(* VK keeps the events since the ts the process holds.  A process that     *)
(* starts, or whose key has expired, asks for a server with a new ts: the  *)
(* events before it are gone.                                              *)
(***************************************************************************)
EXTENDS Naturals

CONSTANTS
  Event,       \* group events
  Kind,        \* kind of each event: "chat", "text", "link", "permission"
  MaxLaunches  \* bound: times the process is started

ASSUME BotAssumption ==
  /\ Kind \in [Event -> {"chat", "text", "link", "permission"}]
  /\ MaxLaunches \in Nat \ {0}

VARIABLES
  phase, code,           \* the process: where it is, exit code
  config,                \* what is wrong with VK_GROUP_TOKEN and VK_GROUP_ID
  happened, pending,     \* VK: events that occurred, those after the ts of the process
  task, result,          \* per event: the handler, and what it has decided
  stored, told,          \* per event: the decision committed, the answer sent
  launches               \* counter of the bound

process == <<phase, code>>
history == <<happened, pending>>
handlers == <<task, result, stored, told>>
vars == <<process, config, history, handlers, launches>>

Config == {"no_token", "no_group", "refused", "usable"}
Phase == {"main", "preflight", "connecting", "polling", "stopping", "exited"}
ExitCode == {"none", "zero", "one", "killed"}
Stage == {"none", "handling", "committing", "replying", "done", "failed"}
Result == {"none", "ignored", "instruction", "refused", "linked", "changed"}

Running == {"handling", "committing", "replying"}

\* Faulty variant: a result no branch answers.
ResultsOfUnknown(kind) == IF kind = "link" THEN {"refused", "linked"} ELSE {"unknown"}

\* Results of a handler.
ResultsOf(kind) ==
  CASE kind = "chat" -> {"ignored"}
    [] kind = "text" -> {"instruction"}
    [] kind = "link" -> {"refused", "linked"}
    [] kind = "permission" -> {"changed"}

\* Chat messages and message_deny or message_allow are not answered.
Answered == {"instruction", "refused", "linked"}

Init ==
  /\ phase = "main" /\ code = "none"
  /\ config \in Config
  /\ happened = {} /\ pending = {}
  /\ task = [e \in Event |-> "none"]
  /\ result = [e \in Event |-> "none"]
  /\ stored = [e \in Event |-> "none"]
  /\ told = [e \in Event |-> "none"]
  /\ launches = 1

-----------------------------------------------------------------------------
(* Start.                                                                  *)

Exit(c) == phase' = "exited" /\ code' = c

CheckToken ==
  /\ phase = "main"
  /\ \/ config = "no_token" /\ Exit("one")
     \/ config # "no_token" /\ phase' = "preflight" /\ UNCHANGED code
  /\ UNCHANGED <<config, history, handlers, launches>>

\* Faulty variant: the group id is left to VK, which may not answer.
PreflightAsksVk ==
  /\ phase = "preflight"
  /\ \/ config \in {"no_group", "refused"} /\ Exit("one")
     \/ phase' = "connecting" /\ UNCHANGED code
  /\ UNCHANGED <<config, history, handlers, launches>>

\* A VKAPIError is a problem, any other exception is not.
Preflight ==
  /\ phase = "preflight"
  /\ \/ config \in {"no_group", "refused"} /\ Exit("one")
     \/ config # "no_group" /\ phase' = "connecting" /\ UNCHANGED code
  /\ UNCHANGED <<config, history, handlers, launches>>

\* The first getLongPollServer of run_polling.  VK may refuse here what it could
\* not be asked before.
StartPolling ==
  /\ phase = "connecting"
  /\ \/ /\ config # "refused"
        /\ phase' = "polling"
        /\ pending' = {}
        /\ UNCHANGED code
     \/ config = "refused" /\ Exit("one") /\ UNCHANGED pending
  /\ UNCHANGED <<config, happened, handlers, launches>>

-----------------------------------------------------------------------------
(* Events.                                                                 *)

Occurs(e) ==
  /\ e \notin happened
  /\ happened' = happened \cup {e}
  /\ pending' = pending \cup {e}
  /\ UNCHANGED <<process, config, handlers, launches>>

\* Every update of a response becomes a task.
Receive ==
  /\ phase = "polling"
  /\ pending # {}
  /\ task' = [e \in Event |-> IF e \in pending THEN "handling" ELSE task[e]]
  /\ pending' = {}
  /\ UNCHANGED <<process, config, happened, result, stored, told, launches>>

\* failed 2 or 3: a new server with a new ts.
KeyExpires ==
  /\ phase = "polling"
  /\ pending # {}
  /\ pending' = {}
  /\ UNCHANGED <<process, config, happened, handlers, launches>>

Alive == phase \in {"polling", "stopping"}

\* Faulty variant: the answer does not wait for the commit.
HandleAndReply(e) ==
  /\ Alive
  /\ task[e] = "handling"
  /\ \E r \in ResultsOf(Kind[e]) :
       /\ result' = [result EXCEPT ![e] = r]
       /\ told' = [told EXCEPT ![e] = IF r \in Answered THEN r ELSE "none"]
  /\ task' = [task EXCEPT ![e] = "committing"]
  /\ UNCHANGED <<process, config, history, stored, launches>>

\* handle_message, handle_message_deny and handle_message_allow up to commit.
Handle(e) ==
  /\ Alive
  /\ task[e] = "handling"
  /\ \E r \in ResultsOf(Kind[e]) : result' = [result EXCEPT ![e] = r]
  /\ task' = [task EXCEPT ![e] = "committing"]
  /\ UNCHANGED <<process, config, history, stored, told, launches>>

CommitEvent(e) ==
  /\ Alive
  /\ task[e] = "committing"
  /\ stored' = [stored EXCEPT ![e] = result[e]]
  /\ task' = [task EXCEPT ![e] = IF result[e] \in Answered THEN "replying" ELSE "done"]
  /\ UNCHANGED <<process, config, history, result, told, launches>>

\* An exception none of the handlers catches, of a statement or of commit: the
\* session is closed or dropped, and nobody answers.
HandlerFails(e) ==
  /\ Alive
  /\ task[e] \in {"handling", "committing"}
  /\ task' = [task EXCEPT ![e] = "failed"]
  /\ UNCHANGED <<process, config, history, result, stored, told, launches>>

\* send_message answers False when VK refuses; that is only logged.
Reply(e) ==
  /\ Alive
  /\ task[e] = "replying"
  /\ \E sent \in BOOLEAN :
       told' = [told EXCEPT ![e] = IF sent THEN result[e] ELSE "none"]
  /\ task' = [task EXCEPT ![e] = "done"]
  /\ UNCHANGED <<process, config, history, result, stored, launches>>

-----------------------------------------------------------------------------
(* Stop.                                                                   *)

\* SIGTERM or SIGINT: polling.stop.
Signal ==
  /\ phase = "polling"
  /\ phase' = "stopping"
  /\ UNCHANGED <<code, config, history, handlers, launches>>

\* Tasks that are still running do not outlive the event loop.
CancelTasks ==
  task' = [e \in Event |-> IF task[e] \in Running THEN "failed" ELSE task[e]]

\* run_polling returned: close_database, then the end of asyncio.run.
StopRuntime ==
  /\ phase = "stopping"
  /\ Exit("zero")
  /\ CancelTasks
  /\ UNCHANGED <<config, history, result, stored, told, launches>>

Kill ==
  /\ phase # "exited"
  /\ Exit("killed")
  /\ CancelTasks
  /\ UNCHANGED <<config, history, result, stored, told, launches>>

\* The container starts again, perhaps with another .env.
Relaunch ==
  /\ phase = "exited"
  /\ launches < MaxLaunches
  /\ launches' = launches + 1
  /\ phase' = "main" /\ code' = "none"
  /\ config' \in Config
  /\ UNCHANGED <<history, handlers>>

Quiet ==
  /\ phase = "exited"
  /\ launches = MaxLaunches
  /\ UNCHANGED vars

-----------------------------------------------------------------------------

HandlerStep(e) == Handle(e) \/ CommitEvent(e) \/ HandlerFails(e) \/ Reply(e)

ProcessStep == CheckToken \/ Preflight \/ StartPolling \/ StopRuntime

Next ==
  \/ ProcessStep \/ Receive \/ KeyExpires \/ Signal \/ Kill \/ Relaunch \/ Quiet
  \/ \E e \in Event : Occurs(e) \/ HandlerStep(e)

Spec == Init /\ [][Next]_vars

-----------------------------------------------------------------------------
(* Properties.                                                             *)

\* Every variable keeps its type.
TypeOK ==
  /\ phase \in Phase
  /\ code \in ExitCode
  /\ config \in Config
  /\ pending \subseteq happened
  /\ happened \subseteq Event
  /\ task \in [Event -> Stage]
  /\ result \in [Event -> Result]
  /\ stored \in [Event -> Result]
  /\ told \in [Event -> Result]
  /\ launches \in 1..MaxLaunches

\* The loop never runs without a token and a group, whatever VK or the network
\* answered during the preflight.
PollsOnlyConfigured ==
  phase \in {"connecting", "polling", "stopping"} => config \notin {"no_token", "no_group"}

\* A person who is told that the account is linked, or why it is not, is told
\* what is in the tables, although commits fail, tasks are cancelled by a stop
\* and processes are killed between the steps of a handler.
ToldIsStored == \A e \in Event : told[e] # "none" => told[e] = stored[e]
=============================================================================
