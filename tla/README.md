# VK Service: TLA+ models and proofs

VK Service links users of an EQ site to VK accounts and delivers notifications
to the linked accounts. It is small, but almost everything in it happens
concurrently: API requests, one task per VK event, and a JetStream consumer
share PostgreSQL tables in READ COMMITTED, and two processes start, lose their
connections and stop independently of each other. The modules here model that
concurrency statement by statement; TLC checks them on small instances, and
TLAPS proves every safety property of the passing runs for every size.

Paths below are relative to the repository.

## 1. The system

### 1.1 Parts, state and operations

| Part | Code | State | Operations |
|---|---|---|---|
| Binding service | `src/core/services/vk_binding.py`, `src/api/endpoints/vks.py` | rows of `user_vks`, `vk_confirmations` | `ensure_binding`, `issue_confirmation`, `unlink` |
| Confirmation service | `src/core/services/vk_confirmation.py` | the same rows, `vk_logs` | `confirm` |
| Rate limit | `vk_confirmation.py:153`, `src/repositories/vk_log.py` | `vk_logs` | count, then insert |
| State service | `src/core/services/vk_state.py` | `user_vks.state` | `block`, `unblock` |
| Notification delivery | `src/core/services/vk_notification_delivery.py`, `src/clients/nats/handlers`, `src/clients/nats/consumers`, `src/repositories/vk_notification_delivery.py` | ledger `vk_notification_deliveries`, advisory locks, JetStream delivery counts | fetch, claim, send, mark, commit, ack/nak |
| NATS runtime | `src/clients/nats/client.py`, `src/clients/nats/lifecycle.py`, `src/main.py` | connection, durable, error counters, consumer task | connect, setup, start, stop, close, error callbacks |
| Bot runtime | `src/bot/main.py`, `src/bot/handlers.py` | process, long-poll position, one task per event | preflight, poll, handle, commit, reply, stop |
| Database sessions | `src/utils/database.py` | one transaction per request | commit, rollback |
| Reads, schemas, settings, code generation, VK client | see PROJECT.json | none of their own | |
| Celery worker and probe | `src/workers` | Redis keys of a probe | one task |
| Smoke harness | `src/smoke_harness` | a stream and a durable of its own, counters of a scripted messenger, evidence | guard, publish, wait, collect, clean up |
| Metrics | `src/utils/observability.py` | one HTTP server | start, close |
| Main backend client, Sentry | `src/clients/main_backend`, `src/utils/configure_sentry.py` | none of the service | |

### 1.2 How they interact

- The API process serves requests (binding service) and runs the consumer task.
  The bot process serves VK events (confirmation and state services). Both write
  `user_vks` and `vk_confirmations`, each request in one transaction.
- A binding goes PENDING -> ACTIVE when the bot confirms a code that the API
  issued, ACTIVE <-> BLOCKED with `message_deny` / `message_allow`, and is
  soft-deleted by `unlink`.
- The consumer reads bindings, sends through VK, and keeps the ledger. It is
  fed by a JetStream durable that the API process registers at startup on a
  stream another service owns.
- nats-py reconnects in a task of its own and calls the error policy back.
- The smoke harness is a program of its own for a local environment: it runs the
  real consumer, handler, delivery service and ledger on a stream of its own,
  with a messenger that follows a script, and removes what it used.

### 1.3 What is hard, and what makes each part correct

| Part | Hard behaviour | Correct when |
|---|---|---|
| Bindings, codes, state | check-then-act across statements, row locks taken in opposite orders, unique indexes as the last line, rollback that takes the journal with it, a crash between two statements | one live binding per user and per account; a binding has an account only through a code of its own, used from then on; no code comes back; what the journal calls a success is in the tables; every request ends |
| Rate limit | count and insert are separate; attempts overlap; the window slides | the failures of an account in a window are bounded |
| Delivery | redelivery, ack_wait that expires while a batch is processed, two consumers, locks held across a loop, an answer of VK that is lost | the ledger never lies about SENT, never keeps PENDING, SENT is final, no acknowledged command with an undelivered addressee, every command settles |
| NATS runtime | outages during each phase, error counters that outlive an outage, a consumer task that dies unnoticed | the consumer runs only on its durable and within its connection; a long outage is reported, and once; startup and shutdown end |
| Bot runtime | a stop or a kill between commit and answer, an unreachable VK during the preflight | polls only when configured; a person is told only what is stored |
| Smoke harness | samples of a ledger and of counters that a consumer, redelivery and faults go on changing; an exception at any await; cleanup stages that fail one by one beside a consumer at work | a run that exits with 0 shows what its scenario promises; what a run leaves behind is reported; every run ends |

`PROJECT.json` lists the hazards one by one, each at its line with the
properties that would catch it. A hazard without a property says in its note why
it has none, mostly because the code behaves so and no document promises
otherwise; the behaviour is then in the model all the same.

## 2. Modules

Every module carries at its head what it models and at each action the code
behaviour. `PROJECT.json` maps each definition to its lines. Operators named
"Faulty variant" are plausible bugs; each stands before the definition it
replaces and shows that some property would notice.

### VkBinding (with MCVkBinding, BindingLifecycle)

The largest module: the three writing API operations, `confirm`, `block` and
`unblock` over `user_vks` and `vk_confirmations`.

- `Worker` is a request in progress, `pc[w]` its next SQL statement, `mem[w]`
  the locals of the Python functions (the record id, `used_at` as it was read,
  the generated code, the status journalled, the binding whose account an unlink
  will write to), `req[w]` the call. One SQL
  statement is one step; Python between two statements belongs to the earlier.
- A row has a committed version (`rows`, `codes`), an owner and a draft. A
  statement reads its own drafts and otherwise committed versions; a writer
  waits for the owner and then tests its WHERE clause again (READ COMMITTED).
  `invalidate_previous` takes its rows from its snapshot and locks them one by
  one. A unique check waits for a transaction that writes the key.
- `InWaitCycle` / `DeadlockVictim`: PostgreSQL's detector aborts one
  transaction of a cycle.
- `Commit`, `Rollback`: `get_session` for the API, `services.commit()` and the
  loss of the session for the bot. `Crash`: the process is killed.
- `Activate` and `ActivateIndex` are one UPDATE: the row lock first and then
  the unique check, between which another transaction can run.
- `Notify`: `unlink` decides on the row it read first whether to write to the
  account (`Found`), and writes after its last statement and before the commit,
  while it still owns the row; what VK answers is ignored.
- The rate limit answers either way (`RateLimit`): this covers every history of
  the journal. `ConfirmationRateLimit` is about the answer itself.

`BindingLifecycle` is the abstract specification: a binding is created for a
user who has none, linked to a free account, blocked, unblocked and deleted for
good, one change per step. `VkBinding!BindingsFollowLifecycle` is the refinement
with `bindings <- rows`.

### ConfirmationRateLimit (with MCConfirmationRateLimit)

The attempts of `confirm` against the sliding window: the start of the window
is taken before the count, `created_at` is the begin of the transaction, a
failure is visible from its commit. `Pass`, `Fail`, `Abandon` are the outcomes
the rest of `confirm` can have; only `FAILED_STATUSES` count.

### VkDelivery (with MCVkDelivery)

Consumers fetch batches, and the handler delivers a command to its users in the
producer's order: advisory lock, look at the row, PENDING, send, SENT or FAILED,
commit, ack or nak. JetStream is its delivery count, redelivery after nak or
ack_wait, and max_deliver. `accepted` is history: how often VK took the message.
Faults (a lost answer of VK or of the database, a failed statement, an ack that
raises, a restart) are bounded by `MaxFaults`; everything else is unbounded.

### NatsRuntime

The lifespan of `main.py` as phases, nats-py's connection, the error policy,
the consumer task as far as startup and shutdown meet it, and restarts. The
exceptions of the library are nondeterministic where the code distinguishes
them: OSError leads to degraded mode, anything else ends the process. The
metrics server is started without an await between the consumer's start and the
yield (`Serve`), so it is part of those steps; a port that is taken ends the
process there. Two history variables tell what was logged: `reports`, the errors
of the current outage, and `slowStart`, that the connection is the first of its
process and took more attempts than the threshold. In degraded mode the connection may
stay open behind the back of the shutdown, which looks at `nats_connected` only.

### BotRuntime (with MCBotRuntime)

The long-poll process and the fate of one event: token and group checks, the
preflight, polling, a task per event (handle, commit, reply), SIGTERM, kill and
restart. What `confirm` does to the tables is left to VkBinding.

### SmokeHarness (with MCSmokeHarness)

One run of one scenario, composed with the consumer: `Delivery` is an INSTANCE of
VkDelivery with one task and with `linked` read off the fixtures. `step` is the
place in `run`, from the guard of `config.py` through the body to the cleanup
stages in the order of the tuple (`CleanupStages`); `Done` is one turn of
`_finish_with_cleanup`. `BodyRaises` is an exception at any await of the body,
Ctrl-C included, after which the server may or may not have done its part: a
stream may exist although `stream_created` is False. A cleanup call may fail, or
succeed and lose its answer. `ScriptedSend` gives VkDelivery's `Send` the outcome
the script says, `CommitAttempts` its `Commit` the column `attempts` of the
claims. The configuration is any scenario with any command, plan and fixtures;
`allowed` stands for what the guard demands of environment, UUIDs and JSON.
JetStream keeps one message per `Nats-Msg-Id`, so the second publish of
repeated-event and concurrent-duplicate never reaches the consumer: what these
scenarios show is the deduplication of the stream. That the users of a command
are distinct is the validator `deduplicate_user_ids` of its schema
(`UsersAreDistinct`); the number of attempts depends on it.

`Exhausted` and `Collect` take the rows and the counters in memory in one step,
although the code awaits the end of the session between the two. No verdict
depends on it: a run that waits has seen every row SENT or every delivery used
up, after which that recipient is not sent to, and in the other scenarios nobody
ever is.

### Proof modules

Each component has its proofs in a module of its own, VkBinding in three that
build on each other: `VkBinding_proofs` (types), `UniqueLiveBinding_proofs` (who
owns which version), `BindingCommits_proofs` (what a commit does). The others
are `ConfirmationRateLimit_proofs`, `VkDelivery_proofs`, `NatsRuntime_proofs`,
`BotRuntime_proofs`, and `SmokeHarness_proofs`, which uses `VkDelivery_proofs`
by INSTANCE. Section 5 says what they prove and how.

### How the models meet

VkBinding gives RateLimit both answers, ConfirmationRateLimit gives confirm
every outcome: each abstracts the other by a choice, so their properties hold of
the composition. VkDelivery lets a binding change at any moment
(`BindingChanges`), which covers everything VkBinding does to it. NatsRuntime
has the consumer in five states and VkDelivery restarts it at any moment
(`Restart`). SmokeHarness runs the actions of VkDelivery themselves, with the
harness in the place of `Restart` and `BindingChanges`. BotRuntime lets a handler decide, fail or commit, VkBinding says
what it decides.

## 3. Runs

| Run | Question | Bounds | Result |
|---|---|---|---|
| binding | Are bindings, codes and journal consistent however requests overlap, and do the bindings live as BindingLifecycle says? | 2 users, 2 accounts, 3 records, 3 codes, 2 workers, 5 requests, 1 crash | holds, 460 thousand states (symmetry) |
| binding_liveness | Does every request end? | 1 user, 2 accounts, 2 records, 2 codes, 2 workers, 3 requests | holds |
| rate_limit | How many failures can an account get away with? | limit 2, window 2, clock 0..4, 5 attempts, 2 accounts, 2 workers | holds: the limit and one, 2.0 million states |
| delivery | Is the ledger right under redelivery, deadlock and faults? | 2 consumers, 2 commands of one event with the same 2 users in opposite order, batch 2, max_deliver 2, 1 fault | holds, 5.4 million states (symmetry) |
| delivery_liveness | Does every command settle? | the same and a malformed command, batch 1, max_deliver 1, 1 fault | holds, 687 thousand states |
| nats_runtime | Startup, outages and shutdown in every order | 3 connection attempts, 2 setup attempts, threshold 1, 2 outages, 2 launches | holds, 8 thousand states |
| bot_runtime | Start, events, stop, restart in every order | an event of every kind, 2 launches | holds, 109 thousand states |
| smoke_harness | Does a run show what its scenario promises, report what it leaves, and end? | every scenario; a command for one target, for two, and a malformed one; max_deliver 3, 2 checks of a waiting loop, 1 fault | holds, 227 thousand states |
| binding_one_code | Has a binding one usable code at most? | 1 user, 2 records, 2 codes, 3 requests | violated |
| binding_entries | Is every journal entry committed? | same | violated |
| rate_limit_exact | Is the limit exact? | as rate_limit, 3 attempts | violated |
| nats_reports | Is every long outage reported? | as nats_runtime, 1 launch | violated |

Why the bounds suffice. Two workers are the smallest number that overlap, and
every hazard known in the code takes two; five requests in `binding` let a
binding be created, issued a code, confirmed, unlinked and made anew, or two
users compete for an account with a request left to disturb them. Three records
and codes leave room for the successor of a deleted row and a superseded code.
A single crash reaches every statement. In `rate_limit` the window is shorter
than the clock, so entries leave it. In `delivery` two users in opposite order
make the deadlock, max_deliver 2 makes the redelivery and the exhaustion, a
batch of 2 makes a message wait while its ack_wait runs. Liveness of the delivery
is checked with one delivery per message, which the ack_wait and the restart can
take away from the consumer that holds it; with two deliveries a command merely
goes round once more before the same end. In `nats_runtime` three attempts are
two more than the threshold, so a report can be missing, single or doubled, and
of two outages the second can inherit what the first has left. In
`smoke_harness` max_deliver is the harness's own 3; two checks are enough for a
loop that is satisfied at once, later or never, since the consumer makes any
number of steps between them; two targets are what partial-retry asks for.

`rate_limit` and `rate_limit_exact` run with `CHECK_DEADLOCK FALSE`: the clock and the number of
attempts are bounded, so the system stops. The other modules have an action `Quiet` for
the end of what their bounds allow, or run for ever.

The properties:

- VkBinding: `UniqueLiveBinding`, `LinkedByCode`, `CodesStayUsed`,
  `LinkFollowsCode`, `SuccessIsInTables`, `NoticeIsTrue`,
  `BindingsFollowLifecycle`, `RequestsEnd`. `NoticeIsTrue` is about the binding
  that was read and not about the account: a confirm that overlaps can link the
  account to another binding before the unlink commits.
- ConfirmationRateLimit: `FailuresBounded`. The README's limit is exact for one
  attempt at a time; with W attempts in flight, W - 1 more failures get through
  (`LimitIsExact`, section 4).
- VkDelivery: `NeverPending`, `SentIsTrue`, `SentIsFinal`, `NoSendAfterSent`,
  `AckedIsDelivered`, `CommandsSettle`. The last counts a command that used up
  max_deliver as settled: that it is delivered is not promised.
- NatsRuntime: `ConsumerHasDurable`, `ConsumerStopsFirst`,
  `NothingOutlivesShutdown`, `LongOutageIsReported`, `OneReportPerOutage`,
  `LifespanProceeds`. `ConsumerStopsFirst` is about the lifespan's own close: a
  connection that nats-py has given up is closed beside a consumer that goes on.
  `NothingOutlivesShutdown` leaves out the connection of a degraded start and the
  shutdown that raises. `LongOutageIsReported` excludes one outage, the first of
  a process that started as slowly; that it must is shown by
  `EachOutageIsReported` (section 4).
- BotRuntime: `PollsOnlyConfigured`, `ToldIsStored`. An event that a stop, a kill
  or an exception takes from its handler is lost, and nothing promises that it is
  not.
- SmokeHarness: `EvidenceIsScripted`, `LeftoversAreReported`, `HarnessEnds`. What
  is reported is in the notes of the exception that `run` raises;
  `src/smoke_harness/__main__.py:28` catches it and prints "VK smoke harness failed" without them. The
  scenarios that only sleep expect that nobody is sent to, and show the same
  evidence when the consumer did not run at all.

### Fairness

- VkBinding: strong fairness of each worker's steps. The event loop schedules a
  session again after every await; a statement that waits for a row lock is
  enabled only now and then, and PostgreSQL grants locks in queue order and
  breaks wait cycles. New requests, crashes and the expiry of codes are not fair.
- VkDelivery: the same for each consumer, and weak fairness of the ack_wait
  timer. Faults are not fair.
- NatsRuntime: weak fairness of the steps of startup and of shutdown, since calls
  of nats-py return (connect_timeout, attempt limits); faults, outages, the
  stream's creation and the reconnection are not fair.
- BotRuntime and ConfirmationRateLimit: none, only safety is checked.
- SmokeHarness: weak fairness of the harness alone. Its loops are bounded and its
  calls time out; the consumer may stand still, and the run ends all the same.

## 4. What the violations show

1. `OneUsableCode`. `README.md:202` says that issuing a code marks all previous
   unused codes as used. Two overlapping requests of one user both run
   `invalidate_previous` before either commits its code: two codes are usable.
2. `EntriesAreCommitted`. The journal entry of a refused `issue_confirmation` is
   rolled back by `get_session` together with the request
   (`src/utils/database.py:17`); the unit test that expects it uses a repository
   without a transaction.
3. `EachOutageIsReported`. The docstring of the error policy says a long outage is
   escalated once per incident. What a slow startup counted is carried into the
   next outage, which then is not reported.
4. `LimitIsExact`. `README.md:218` promises at most `VK_CONFIRMATION_MAX_ATTEMPTS`
   failed attempts of an account in a window. Two attempts that overlap both count
   before either commits its failure.

Two more disagreements with the documentation were met, and no run is about them:

- `README.md:75` says that SENT rows let a redelivery skip the addressees it has
  reached. It does so for rows that are committed (`NoSendAfterSent`). The rows of a
  command are committed once, at its end: when the transaction is lost after VK has
  taken a message (a deadlock, a failed statement, the end of the process), the
  SENT row is lost with it and the redelivery sends the message again.
- `README.md:327-354` calls the NATS channel reserved: `setup_consumers()` a no-op,
  no durable, no active consumer, no delivery of notifications. The docstring of
  `setup` at `src/clients/nats/client.py:82-85` says so too. The code registers the durable
  and consumes (`DurableRegistered`, `ConsumerStarts`), as `README.md:73-76` says;
  the older text was left behind.

## 5. Proofs

TLAPS checks the following for every value of the constants that satisfies the
`ASSUME`s of the module: any number of users, accounts, rows, codes, requests,
consumers, commands, events, launches and faults. The assumptions are typings,
that a placeholder such as `None` is not one of the values it stands beside, and
for SmokeHarness that a command has recipients and no user twice.

| Theorem | Property of the specification |
|---|---|
| `VkBinding_proofs!TypeCorrect` | `TypeOK` |
| `UniqueLiveBinding_proofs!UniqueBindings` | `UniqueLiveBinding` |
| `BindingCommits_proofs!UsedCodesStayUsed` | `CodesStayUsed` |
| `BindingCommits_proofs!LinksConsumeCodes` | `LinkedByCode` |
| `BindingCommits_proofs!LinksFollowCodes` | `LinkFollowsCode` |
| `BindingCommits_proofs!SuccessesAreInTables` | `SuccessIsInTables` |
| `BindingCommits_proofs!NoticesAreTrue` | `NoticeIsTrue` |
| `BindingCommits_proofs!BindingsImplementLifecycle` | `BindingsFollowLifecycle` (the refinement) |
| `ConfirmationRateLimit_proofs!TypeCorrect` | `TypeOK` |
| `ConfirmationRateLimit_proofs!FailuresAreBounded` | `FailuresBounded` |
| `VkDelivery_proofs!TypeCorrect` | `TypeOK` |
| `VkDelivery_proofs!PendingIsNeverSeen` | `NeverPending` |
| `VkDelivery_proofs!SentRowsAreTrue` | `SentIsTrue` |
| `VkDelivery_proofs!SentRowsAreFinal` | `SentIsFinal` |
| `VkDelivery_proofs!SentRowsAreSkipped` | `NoSendAfterSent` |
| `VkDelivery_proofs!AcknowledgedIsDelivered` | `AckedIsDelivered` |
| `NatsRuntime_proofs!TypeCorrect` | `TypeOK` |
| `NatsRuntime_proofs!ConsumersHaveDurable` | `ConsumerHasDurable` |
| `NatsRuntime_proofs!ConsumersStopFirst` | `ConsumerStopsFirst` |
| `NatsRuntime_proofs!ShutdownsAreComplete` | `NothingOutlivesShutdown` |
| `NatsRuntime_proofs!LongOutages` | `LongOutageIsReported` |
| `NatsRuntime_proofs!SingleReports` | `OneReportPerOutage` |
| `BotRuntime_proofs!TypeCorrect` | `TypeOK` |
| `BotRuntime_proofs!ConfiguredPolling` | `PollsOnlyConfigured` |
| `BotRuntime_proofs!TruthfulAnswers` | `ToldIsStored` |
| `SmokeHarness_proofs!TypeCorrect` | `TypeOK` |
| `SmokeHarness_proofs!EvidenceIsTrue` | `EvidenceIsScripted` |
| `SmokeHarness_proofs!LeftoversAreNamed` | `LeftoversAreReported` |

`UniqueBindings`. Uniqueness of the committed rows is not inductive: a commit
makes a draft visible whose unique check was made earlier, at its statement. The
invariant `IInv` therefore speaks of versions: `VersionsApart` says that no two
versions, committed or draft, of two different rows have a user or an account in
common while both are live. The unique checks establish it, because they first
wait for the transactions that are writing such a row (`UserPending`,
`PeerPending`) and then test what is committed. `Ownership` says that a request
owns one row at most, the one its local `record_id` names, and only at the
statements after it was taken; without it the row tested and the row committed
could differ. `Inserts` says which requests insert. `VersionsApart` for two
committed versions is `UniqueLiveBinding`.

`BindingCommits_proofs`. The other properties of VkBinding are about a commit, and a
commit only makes visible what its request decided statements earlier on rows it
read then. What has to be shown is that other requests have not taken the ground
from under that decision, and the proof is one by rely and guarantee. `Own(w)` is
what request `w` knows at each of its statements: which of five drafts a row it
owns can be (`RowHeld`: inserted, locked for the unique check, linked, moved,
deleted), which of two a code (`CodeHeld`), and what its locals have to do with the
tables (`Knows`: the record is one of its user, the code one of that record, the
account of a notice has a binding that is deleted or about to be). `Respects(w)`
is what a statement of `w` leaves to all others: their rows, codes and drafts, and
what never changes back in a committed version (the user of a row, `deleted_at`,
`used_at`, the record of a code, having an account at all). Each statement is
shown to establish `Own(w)` for the request that runs it and to respect the
others, once per statement instead of once per pair of statements. `CommitInv`
is `Own` of every request with the invariant of `UniqueBindings`, which gives the
one thing a request cannot know by itself, that its draft collides with nobody's.
`LinkedByCode` is not in `CommitInv`: it is added as a conjunct that only commits
change. `BindingsImplementLifecycle` goes over the five drafts: each commit is one
step of BindingLifecycle or changes no row, every other statement is a stutter.

`FailuresAreBounded`. The bound on the failures alone is not inductive: the
attempts that were let through and may still fail count too. `Budget` says that
for each account the failures of the window and these attempts together never
exceed the limit plus the other workers. A commit moves one from the second to
the first, the clock takes failures out, and an attempt is let through only when
it saw fewer failures than the limit in a window that began no later than the
current one (`Attempts`).

`VkDelivery_proofs`. None of the five properties is inductive: the ledger is
written by a commit, and what is committed was decided at the claim and at the
answer of VK. `LedgerInv` has the same form as `CommitInv`. For each consumer: it
holds the advisory lock of every row it has written (`Held`), a row it has written
and not marked SENT does not say SENT in the table (`Fresh`), PENDING is in the row
in hand and nowhere else (`InHand`), SENT is drafted only of what VK took (`Taken`),
every eligible recipient is left to do, or has failed, or says SENT (`Covered`),
and all say SENT once the message is about to be acknowledged (`Acked`). What
carries `Fresh` over the time between claim and commit is the lock: `Respects` says
that no step of a consumer touches a row another one has locked, nor turns a SENT
back. `SentIsFinal` and `NoSendAfterSent` follow from `Fresh` and `InHand`,
`NeverPending` from `InHand` at the commit, `AckedIsDelivered` from `Covered` and
`Acked`. The types need an argument of their own: that the loop has a row in hand
(`HasMessage`), and that a message which is offered has a delivery left
(`OfferedIsLeft`), without which deliveries could pass max_deliver.

`NatsRuntime_proofs`. For `LongOutages` and `SingleReports`: the policy's count is
never behind the failed attempts of the current outage, `escalated` is set exactly
when the count is above the threshold, and while the connection is down a report
made is remembered in it (`Counted`). Unless the startup was slow, a connection is
left with a count at or below the threshold, so what an outage finds escalated it
has reported itself (`Fresh`). The properties of the lifespan follow from
`Ordered`, which says by phase what has been started: a consumer implies its
durable, the flag `nats_connected` and an open connection; the consumer is gone in
the phases that close the connection, and a shutdown that looks at the flag and
skips the consumer had none.

`BotRuntime_proofs`. `Checked` is the order of the checks at the start. For
`ToldIsStored` the invariant `AnswerInv` adds that an event nobody received has no
handler (so none has two), that nothing is told before a handler's end, and that
a handler which replies has committed what it decided.

`SmokeHarness_proofs`. The consumer keeps `LedgerInv`: its steps are steps of
VkDelivery, and those of the harness leave it alone or put it to rest
(`TaskInv`). On top of this, `CountInv` relates attempts, claims and deliveries:
one delivery sends to a user at most once, because a user that is still ahead of
the loop has not been counted for it, and the users of a command are distinct.
`ScriptInv` says that SENT is written only of users whom the script has let
through, that without a fault it is written of all of them and they are not sent
to again, and that in a refusing scenario nobody is written or sent to. With
these, `ReportInv` can say that what a waiting loop has seen still holds when the
evidence is collected (`Waited`), although the consumer went on: SENT is final, an
exhausted user has no delivery left to be counted, and no FAILED row of a user
whom the script always refuses becomes SENT. Its other parts are the evidence
(`Shown`) and, stage by stage, what the cleanup has removed or noted
(`StreamReported`, `RowsReported`); a late commit cannot bring a row back since
the stage that cleans runs after the one that stops the task (`RunInv`).

TLC finds each of these invariants to hold with the constants of the component's
run, `CommitInv` with four requests instead of five.

Left to TLC. The four liveness properties (`RequestsEnd`, `CommandsSettle`,
`LifespanProceeds`, `HarnessEnds`): they need fairness and
ENABLED, which are out of reach of the provers here. Induction over data and
RECURSIVE operators are out of reach too; no module needs them. The properties of
section 4 are violated, so there is nothing to prove.

## 6. What the models leave out

- The API's answer is sent before the commit; only the outcome of the transaction
  is modelled. The message about an unlink is, with the moment it is sent at.
- A confirm whose binding is unlinked between its read and its UPDATE ends in an
  exception (`Activate` to `Rollback`), without an answer or a journal entry:
  that is in the model, and no property is stated about it.
- `get_profile` and the GET endpoints read only.
- In VkBinding an exception of the bot ends its session with its task; the
  connection that stays checked out until the task is collected is not modelled.
- An UPDATE that finds its row deleted after waiting keeps a lock on it in
  PostgreSQL until its transaction ends. Nothing is written to a deleted row
  again, so that lock is left out.
- The columns `last_error`, `vk_peer_id` and the timestamps of the ledger, and
  names and times of bindings, decide nothing and are left out; the column
  `attempts` is kept only in SmokeHarness, which waits for it.
- The text of a code, of a command and of a payload: a code is a model value,
  and `generate_code`, `normalize_code` and `mask_code` are pure functions of one line;
  what `parse_link_command` tells apart is the kind of an event in BotRuntime.
- The names of the smoke topology, which `for_run` makes of the run's UUID and
  `assert_isolated` then compares with the production names, and the number of
  redeliveries, which is only printed.
- `task_session` has no caller.

### Not modelled

- The Celery probe. Only infrastructure tests invoke it; it counts in Redis keys
  of its own and its one effect is a single SET NX, the rest is Celery's.
- The main backend client: stateless HTTP requests without a caller.
- GET endpoints: one SELECT or a constant each.
- Sentry, settings and containers: they are read or wired once, and no state of
  the service depends on them except the limits, which are constants here.

## 7. Plan

Done: the modules of section 2, and a proof of every safety property and
action property that a passing run checks, the refinement of BindingLifecycle
included.

Left: a composition of VkBinding with the stop and restart of BotRuntime, so that
what a person is told is compared with the tables and not with the decision of the
handler, and the same for VkDelivery with the states of the consumer task in
NatsRuntime; an abstract specification of the ledger (a row of a recipient goes to
SENT and stays there) that VkDelivery is shown to implement.

## 8. Running

    tlc -workers 2 -config MCVkBinding.cfg MCVkBinding
    tlapm UniqueLiveBinding_proofs.tla

The other runs pair module and configuration as in `PROJECT.json`.
