# jobot: TLA+ models, checks and proofs

jobot is a Telegram bot that works on hh.ru for its users: it logs them in,
applies to vacancies, clears old applications, answers employers and refreshes
resumes. This directory holds models of its stateful parts, the TLC runs that
check them and the proofs TLAPS checks. Line numbers refer to the repository
next to it, module names to the files here.

    tlc -workers 2 -config TaskQueue_any.cfg MCTaskQueue.tla     # a run
    tlapm TaskQueue_proofs.tla                                   # the proofs

`PROJECT.json` lists the runs, the map from every definition to its source
lines, the hazards, the findings and the theorems.

## The system

| Component | State | Operations | Module |
|---|---|---|---|
| Task queue: `services/tasks.py`, `heavy_queue.py`, `worker_tasks.py`, `heavy_executor.py`, `celery_app.py` | the `user_tasks` table, the broker's messages, the workers' executions and revocations | enqueue, send, attach id, cancel, revoke, deliver, execute, acknowledge, redeliver | `TaskQueue` |
| Operation guard: `services/concurrency.py` | an asyncio semaphore, a lock per user, the time of the last run | `run_exclusive_heavy` | `OperationGuard`, which implements `ExclusiveHeavy` |
| Login: `auth_manager.py`, `handlers/auth.py` | the registry of login sessions, their background tasks, the chat's FSM state, the stored token | login by code or password, captcha, cancel, tokens by hand, logout | `LoginSessions` |
| Apply operation: `services/apply.py` | three nested loops, their counters and flags | pages, applications, progress and cancellation | `ApplyRun` |
| Dialogues that launch a run: `handlers/apply.py`, `negotiations.py`, `resumes.py`, `decorators.py`, `keyboards.py` | FSM state and data of the chat, the messages that carry buttons | the handlers of the dialogues, the routing of texts | `ApplyWizard` |
| Vacancy filter: `services/vacancy_filter.py` | none | parse, normalise, match | `VacancyFilter` |
| Clearing, replying, updating: `services/negotiation.py`, `resume.py` | a list read once | delete, read and send messages, publish | `NegotiationRun` |
| User configuration: `storage/` | rows or files with encrypted tokens and cookies | save (merge), delete a key, load; asynchronous and synchronous back ends | `ConfigStore` |
| Inline execution: `database.py`, `heavy_executor.py`, `app.py` | one global engine | init and close around each run | `ConfigStore` |
| Keys: `security/` | the keys of each storage, the key of each row | encrypt, decrypt with fallbacks, rotate | `ConfigStore` |
| HH gateways: `services/hh_gateway*.py` | none | one request per call | choices in `ApplyRun`, `NegotiationRun`, `ConfigStore` |
| Access control, texts, migrations, scripts | none of interest here | | not modelled |

How they meet: a dialogue ends in `schedule_heavy_task`, which inserts a row
(`TaskQueue`) and sends a message; a worker executes it through
`HeavyOperationExecutor`, whose progress callback stores a message and raises
when the row says so; the operation runs inside the guard (`OperationGuard`) and
talks to HH (`ApplyRun`, `NegotiationRun`); its client saves renewed tokens through the synchronous
back end while handlers use the asynchronous one (`ConfigStore`). The login shares the chat's FSM with every other dialogue
and asks the queue whether a task is active. Workers and bot share only the
database and the broker. The bot is one process with one event loop; aiogram starts a coroutine
per update, so two updates of one user interleave at every `await`.

What is hard in it: check-then-act on the database without locks; decisions on
a row read earlier; messages delivered again; a status and a flag that say the
same thing in two columns; background tasks that outlive the object that started
them; buttons of old messages; nested loops that one flag must stop; lists that grow old while they are worked
through; two ways to write one row; one engine that several owners open and close. The full
list, with lines, is under `hazards` in `PROJECT.json`.

## Conventions

One action runs from one suspension point (an `await` that can suspend, a query,
a commit, a request) to the next. MemoryStorage never suspends. PostgreSQL runs at
READ COMMITTED, so every statement is a step, and a write of columns by key is
atomic. HH, Telegram, Celery's transport and asyncio's primitives are external:
they are modelled as this code uses them, and what they answer is left open. Every
operator named "Plausible bug" is a variant of the operator below it, with
which the property it belongs to fails; no specification uses it.

Bounds are CONSTANTS: the sets of tasks, sessions, handlers, callers and
vacancies are small in the runs and arbitrary in the proofs. `MaxTime` bounds clocks,
`Budget` how often a disturbance of a kind happens and `MaxKinds` how many kinds happen in one behaviour,
`MaxExecutions` how often a task is executed, `MaxChanges` what others do to negotiations.

## TaskQueue

`row` is the table, `queue`/`unacked` the broker, `revoked` the worker's memory,
`bot` a record per handler coroutine, `exec` one per worker process. `enqueue` is
four steps (count, user's active task, last of the kind, insert), then send and
attach; cancelling is read, commit, revoke. `RunHeavyTask`, `MarkRunning`, the
checkpoint and the outcome are the steps of a worker; `Acknowledge` comes last because
of `acks_late`. `WorkerCrash`, `BotCrash`, `SendFails`, `ExecutionLost` (the
hard time limit, memory, an exception in the bookkeeping) and `Duplicate` (the
visibility timeout) are the disturbances, each with a budget, so a run
names what it tolerates.

| Run | Instance | Question |
|---|---|---|
| `queue_any` | 1 user, 2 tasks, 2 handlers, 2 workers, limit 2, cooldown 1, clock to 1, every disturbance once, any two kinds in a behaviour | What can a cancelled task still do? It never starts if it had not (`CancelledBeforeStartNeverRuns`), and never succeeds if the flag was there when it started (`LateStartNeverSucceeds`). Does a row cancelled before its start stay active (`CancelFreesUnstarted`: no), and how many rows can lose their message (`OrphansAreCounted`: one per failed send, lost execution and double delivery, one per handler and death of the bot)? What do the unlocked checks of `enqueue` guarantee when two handlers of one user race (`OneActivePerUser`, `CooldownBoundsBursts`, `LimitOvershootBounded`)? |
| `queue_recovers` | 2 tasks, 2 handlers, 2 workers, a crash and a cancellation, fair | Does every queued task end (`EveryTaskEnds`)? |

Nothing makes a user wait for the bot's answer, so two handlers of one user may both pass `EnqueueCheckUser` or
`EnqueueCheckCooldown` and insert: whoever double-clicks gets two active tasks, one right after the other. The admission properties
say how far this goes. `OneActivePerUser` counts a user's active rows together with the handlers that are past the check: at most
as many as handlers run at once, so one for a user whose updates come one by one. `CooldownBoundsBursts` says the same of rows
less than a cooldown apart, `LimitOvershootBounded` of the global limit. The runs reach the last value each of them allows.
A row can also come back to life: a cancellation that was decided while the task ran and commits after its
outcome makes it `cancel_requested`, a second execution (after a crash between outcome and acknowledgement, or of a message
delivered twice) makes it `running`. `Revivals` counts what has done so, and the bounds on active rows grow by it; without it TLC
finds them broken. The cooldown's bound does not: `created_at` never changes.

A limit of the code that is in the model: the cancellation that commits after the outcome leaves its row `cancel_requested` for good, an
active row that refuses its user; `CancelFreesUnstarted` says that this needs a task that had started.

Fairness: handlers and workers go on (weak fairness of their steps: the loop runs
them, the soft time limit of 3300 s ends an operation that hangs), the broker delivers what waits and
restores what a dead worker held. Nothing is assumed of users, the clock or
disturbances. Deadlock is not checked: when all ids are used and all tasks
have ended, nothing is left to do.

## OperationGuard

`value`, `waiters` and `woken` are the fields of `asyncio.Semaphore` (Python 3.13), `locked`,
`lock_waiters` and `lock_woken` those of each user's `asyncio.Lock`. `Start` is the synchronous prefix
of `run_exclusive_heavy` (cooldown, `locked()` and both acquisitions as far
as they do not suspend), `ResumeSemaphore` and `ResumeLock` the continuations,
`Finish` the exit of both context managers, after success or an exception.

`ExclusiveHeavy` is what the docstring promises: a user has at most one operation, all
together at most `Limit`. `ImplementsExclusiveHeavy` maps a running call to its
user. The one run, `guard`, has 3 callers, 3 users and 2 slots: the smallest instance in which
two calls of one user are past the `locked()` check at once, one of them waiting for the semaphore behind
other users. `SomebodyMoves` is the absence of deadlock as an invariant: while calls are
pending one of them can go on. The run also checks that everybody gets a turn, under weak fairness of each caller's step: the
loop runs ready callbacks, and operations end. No property says that a cooldown lies between two operations: it is
checked before the wait and stale afterwards. In the program as it is wired every run builds a guard of its own
(heavy_executor.py:118), so nobody waits for it; the guard is modelled as what it is, an object that can be shared.

## LoginSessions

One user. `handler` are the coroutines of the user's updates, `registry` the
`_sessions` entry, `session` the `_AuthSession` objects, `run` the `_run_auth`
tasks, `token` whether a token is stored. The browser's pages appear only as
far as the task waits for the user: for a captcha, for a code. Each prompt has two steps: the task sends it (`AskCaptcha`, `AskCode`;
the user may see it and answer before the call returns), then clears the event and waits (`PromptSent`), which forgets what came in
between, a cancellation too. An input is the number
of the prompt the user has seen last, the new or the old one while it is being sent (`Seen`), so an answer to the wrong prompt is
visible (`InputAnswersItsPrompt`). The login by tokens saves, checks, answers and logs out in steps of their own; a success message that
Telegram refuses logs the user out, as in the code.

The run `login_any` has two sessions, one handler beside the chat's atomic updates, and everything the chat can do: inputs answer their prompts,
a session cancelled while it waits goes no further, no two sessions run until one is cancelled (`OneLoginUntilCancelled`; a press of an old button
starts nothing beside a session), and nobody is locked out (`NeverLockedOut`). A second handler of the login's buttons makes more
states than a run can go through; the theorems hold for any number of handlers and sessions.

Limits of the code that the model has without a property of their own. A cancelled session that ends late unregisters its
successor (`Close`), and a third may start beside the second: `OneLoginUntilCancelled` says until when that cannot happen. A cancellation after
the session's last wait is never seen, so the session still stores its token; one that comes before a wait, or while its prompt is being sent, wakes nobody, and as no input
reaches a cancelled session the wait ends by its timeout. An answer given while the prompt is being sent is forgotten. And a heavy task queued after `/login` was accepted does not stop the login.

That every session ends is not claimed. The prompts end after five minutes, but `oauth_client.authenticate` (auth_manager.py:222) runs in a thread
on the vendor's client, which has no timeout (`project_troubles.md:18`, `:74`): it may hang for ever, and the user with it. What is shown is that a session
that ends, however it ends, is unregistered.

## ApplyRun

`Start` stands for the delivery of a task: everything local is set anew,
while `hh`, `sent` and the `cancel_requested` column keep their values. HH may list any
distinct vacancies on any page, with the status they have at that moment, may
change the status of those not applied to at any time, and may answer a request
with success, `ApiError`, `LimitExceeded` or not at all. An `ApiError` may come before or after HH accepted the application
(`CreateRefused`, `CreateUncounted`: a 5xx); the code counts neither. `Checkpoint` is the executor's
progress callback. `sent_after_cancel` and `late_resumes` are history variables: what was sent after the cancellation and
with which resume of which execution.

The run `apply` has 3 vacancies, 2 resumes, pages of 2, 2 pages, 2 executions and a batch of 2 in place of
10: overlapping pages, a list longer than a page and a second execution after a lost answer all
occur. `NoDoubleApply` holds because a listing carries the relation of every vacancy
already applied to and a page names a vacancy once; were HH to list relations late,
the code would have nothing else to hold on to. Executions of one task follow one another here. Two at once, which `TaskQueue` reaches by
`Duplicate` and the double click, are outside this module: `NoDoubleApply` is
stated for one execution at a time. `CancelLatencyBounded` bounds the applications the loop counts by one batch; those HH accepted with an
error answer are beside that bound, because the progress message that looks for a cancellation depends on the count, and of these the property says that they
are sent with the resume under way, and never by an execution started later. `EveryExecutionEnds` is weak fairness of the run's
steps, which assumes that requests end: the vendor's client does not time out.

## ApplyWizard

All dialogues that end in a heavy run. `fsm` and `data` are the chat's entry in MemoryStorage, `summary` the parameters of the latest summary, `chat` the
kinds of messages with buttons the user has got; `handler` a pressed button between the answer and the rest of its handler, a command whose authorization is looked up,
or the handler's last call to Telegram. Buttons carry no data and no handler looks at the FSM state, so once a message with a button was sent, `Press` may press it at any
time and in any state, again, and beside another handler. Every call of a handler to Telegram is a step of its own and may fail (`CallFails`): a failing edit leaves the
old keyboard with the new state. `launch` is the run the last step
launched. `acked` is a history variable: "yes" was
pressed since terms or mode last changed. `Before` is the order of `app.py:56` and `handlers/negotiations.py`: the states whose handlers take a command for a text.

The run `wizard` has two handlers, terms of one character or none, a letter or none, one search, and asks: is a run confirmed where the
dialogue waits for it the one the latest summary describes (`ConfirmedAsShown`), and was the risk of one-character terms confirmed for it
(`RiskConfirmed`), whatever old buttons are pressed on the way and beside it? They hold because every handler that changes the data leaves the state
`confirm` in the same step, and the ways back to it go through the summary.

What the code does not keep, and the model shows: the summary's button pressed in any other state launches the present data, also while
the risk is being asked; a second press, and one after a restart, launches a run without the filter the summary shows.
`/refresh` and `/api` are registered after the reply dialogue, which
sends them to the employers as a text, although the help lists `/refresh` (texts.py:250); `/clear` and `/reply` typed into the apply dialogue become its
search text or letter. No doc, comment or test says otherwise, so these are limits, not findings.

Texts are reduced to commands, a dash, a number and anything else, excluded terms to absent, short (one character) and long, which is all the
handlers tell apart.

## VacancyFilter

The pure algorithm of the exclusion of vacancies. A text is a sequence of characters; of a character only its class (letter, word character,
blank, comma, mark) and its normal form matter. `typed`, `vacancy` and `mode` are any short text, any vacancy and any
stored mode; one step computes the decision. The properties relate it to definitions that do not share its loops: cutting the vacancy at the
characters that separate words (`SafeMatchesWholeWords`), the comparison of the words
of a title (`TitleIsExcluded`). `str.split`, the test for empty strings and `str.join` are recursive functions along the text, with a named operator for
one step, so that the proofs can follow them.

The run `filter` has an alphabet with one member of each class and one upper-case letter, and all terms and vacancies up to its
bounds: enough for a term at either end of a text, inside a word, beside a mark, and for two terms.
The run stops after one step, so deadlock is not checked.

## NegotiationRun

`task` is the payload, `todo` what is left of the list the run read at its start, each entry as HH gave it *then*; `hh` is what HH has
*now*. Between any two requests others write, view, discard or delete, and the clock goes on. Time is in ticks, `Day` of them a day; `Age` is the elapsed time rounded down
to days, as `timedelta.days` is. `Start`
begins an execution, which forgets all local variables and is repeated after an abort. An answer may be lost
after HH acted (`DeleteAnswerLost`, `ReplyAnswerLost`), which ends the run; an `ApiError`, which does not, may come after HH acted (a case of `DeleteNegotiation` and
`PostReply`: the loop goes on as after a success, but for the count it reports) or instead (`DeleteRefused`, `PostRefused`).
The reported count is left out, as is the blacklisting of employers: every caller passes `blacklist=False`.
`touched` and `due` are history variables: the negotiations others
changed since the list was read, and the messages an employer may still be sent.

The run `negotiations` has two negotiations, days of two ticks, a clock to 4, the
thresholds 0 and 1, one change by others and two executions: a stale entry, an age that is a day and a half, and a lost answer followed by a second execution
all occur. `RepliesMatchMessages` says what the test of `negotiation.py:140` amounts to: a message per message
of the employer, and another for every list that showed the negotiation as not viewed, over repeated executions too. `ClearsWhatWasAsked`: what is deleted was not updated
for longer than the days asked for, in elapsed time and by what HH has now, or is a discard when no days were given, unless others changed it since the list was read; 0 days
are left to the finding below. A cancellation stops neither clearing nor
replying before its end, which the model has and no property could deny. `EveryExecutionEnds` is weak fairness
of the run's own steps, which assumes that requests end; `Abort`, the user and employers owe nothing. Deadlock is not checked: when executions and changes are used up,
nothing is left. `negotiations_days` and `negotiations_answers` are violations, under Findings.

## ConfigStore

`row` is the user's configuration (a row, or a file), with the key it is encrypted with, `cookies` the key of the cookies, `lock` the row
lock or the asyncio lock of the bot's file storage. `client` are the users of the store: handlers, which save and delete through the asynchronous
back end (`Begin`, `LockRow` or `NoRow`, then `Commit` or `Insert`), and everybody who uses the HH client, which saves tokens through
the synchronous one (`SyncRead`, `SyncUpsert`): it reads without a lock and writes the whole row. Any operation may raise between its steps
(`Fail`). A storage has the keys it read when it was created: the bot's at its start, a run's at its own. `secrets` is the step of
the rotation of `docs/security-and-key-rotation.md` the operator has reached. `setup` is chosen in the initial state among the settings considered.

`storage/protocol.py` promises that a save merges into the configuration there is (`:30`) and that a deletion takes one key away.
`TransactionsMerge` is that promise for the handlers: whatever runs beside it, what `save_config` or `delete_config_key` writes is the merge of the configuration at
the moment of the write, first inserts of two handlers included. In PostgreSQL the row lock keeps it without exception. With files the lock covers neither the
HH client nor another process; `overtaken`, a history variable, says that a synchronous save came since the lock's holder read, and only then may a handler overwrite it.
The synchronous save itself writes a whole row from a copy that may be old, in both back ends: it can lose a handler's update and bring a deleted token back. That is a limit of the
code, with no promise against it in the synchronous back end.

| Run | Instance | Question |
|---|---|---|
| `store` | 2 handlers, 1 run, 2 keys, 1 value, both back ends and modes | Do handlers merge into what is stored (`TransactionsMerge`), are locks given back (`TypeOK`), and can a storage created now always read what is stored (`RestartReads`), through restarts and all steps of a rotation? |
| `store_engine` | violation | An inline run's `storage.close()` leaves the bot without a session factory. |

Two keys are what a lost update needs, two handlers and a run what it takes to have two transactions and a synchronous save under way. One value is
enough: a key that comes back is told from one that is absent. `RotateKeys` assumes what the documentation asks of the operator, that bot and
runs with the keys of the step before are gone when the next step is taken, and that everything was encrypted anew before the old key is
dropped; `Reencrypt` is the maintenance task the documentation mentions and the repository does not have.

## What is proved

For every value of the constants, under the modules' named assumptions only, unless stated:

| Theorem | Statement | Extra assumption |
|---|---|---|
| `TaskQueue_proofs!TypeCorrect` | `[](TypeOK /\ Named)` | |
| `TaskQueue_proofs!LateStart` | `[]LateStartNeverSucceeds` | |
| `TaskQueue_proofs!DeadOnArrival` | `CancelledBeforeStartNeverRuns` | |
| `TaskQueue_proofs!CancelFrees` | `[]CancelFreesUnstarted` | |
| `TaskQueue_proofs!OrphansCounted` | `[]OrphansAreCounted` | finitely many tasks and handlers |
| `TaskQueue_proofs!NeverOrphaned` | `[]UncancelledTaskIsHeld` | `Reliable`: sends succeed, the bot stays up, nothing is lost or duplicated |
| `TaskQueue_proofs!OneActive` | `[]OneActivePerUser` | finitely many tasks, handlers and workers |
| `TaskQueue_proofs!Spacing` | `[]CooldownBoundsBursts` | finitely many tasks and handlers |
| `TaskQueue_proofs!Overshoot` | `[]LimitOvershootBounded` | finitely many tasks, handlers and workers |
| `OperationGuard_proofs!TypeCorrect`, `SlotsKept`, `NoDeadlock`, `GuardImplements` | `[]TypeOK`, `[]SlotsConserved`, `[]SomebodyMoves`, `ImplementsExclusiveHeavy` | finitely many callers but for the first |
| `LoginSessions_proofs!TypeCorrect`, `NobodyLockedOut`, `OneLogin`, `AnswersMatch`, `CancelStops` | `[]TypeOK`, `[]NeverLockedOut`, `[]OneLoginUntilCancelled`, `InputAnswersItsPrompt`, `CancelStopsWaiting` | |
| `ApplyRun_proofs!TypeCorrect`, `AppliesOnce`, `CancelBounded`, `StopsAtLimit` | `[]TypeOK`, `[]NoDoubleApply`, `[]CancelLatencyBounded`, `LimitStops` | |
| `ApplyWizard_proofs!TypeCorrect`, `LaunchesAsShown`, `RiskIsConfirmed` | `[]TypeOK`, `[]ConfirmedAsShown`, `[]RiskConfirmed` | |
| `VacancyFilter_proofs!WholeWords`, `TitleExcluded` | `[]SafeMatchesWholeWords`, `[]TitleIsExcluded` | |
| `NegotiationRun_proofs!TypeCorrect`, `RepliesBounded`, `ClearsAsked` | `[]TypeOK`, `[]RepliesMatchMessages`, `ClearsWhatWasAsked` | |
| `ConfigStore_proofs!TypeCorrect`, `Transactions`, `RotationReads` | `[]TypeOK`, `TransactionsMerge`, `[]RestartReads` | |

The arguments, in the order of the modules:

* **Queue.** Types need `Named`: a handler, message or execution that names a task names one with a
  row. A late execution keeps `cancel_requested` set on its row (`LateInv`), because no step clears the flag. A row cancelled before its start
  was never started, and a handler about to commit a cancellation saw `queued` or a started row
  (`StartedInv`); hence an active row with the flag has started. The counted properties are inductive task by task. A task is in order
  (`InOrder`) when its message is in one place, an execution about to be acknowledged left an outcome, and its row, if active, has a
  message; only a mishap takes a task out of order, and no more of them than it adds to `Losses` (`DisorderStep`), so the tasks out of
  order, the orphans among them, are at most as many. Where no mishap happens there are none: `NeverOrphaned`.
  Likewise a task runs once (`RunsOnce`) until a cancellation, crash or second delivery disturbs it, and these disturb no more
  than they add to `Revivals` (`ReviveStep`); a task that runs once never becomes active again. `OneActive` then is a
  weighing of the user's active and disturbed rows, in which a handler past the check counts as the row it is about to add (`UserInv`): the check
  passes only where the user has no active row, and from then on only handlers that passed beside it add one. The limit is the same weighing over all rows and admitted
  handlers (`LimitInv`). For `Spacing` a burst of rows and the handlers about to join it are counted together: an insert turns a joining handler into a row, and the check of the cooldown
  lets a handler join only where no row of the burst is younger than the cooldown.
* **Guard.** `Queued`: the semaphore's waiters are distinct callers in the right state. `LockInv`: a running call holds
  its user's lock, alone, and a resolved waiter finds it free. Slots are counted over the holders. `WaitInv`: a free slot
  or lock with a waiter has been promised to one, and a taken lock belongs to a running call, so whoever waits waits for somebody who moves.
* **Login.** `StepCases` reduces the actions to seven ways of touching registry and sessions; `Asked` and `Fresh` say that a waiting
  session holds nothing or an answer to the prompt it asked last. A running session is the registered one until the first
  cancellation (`Registered`), which nothing takes back.
* **Apply run.** `Marked`: what was applied to is `related`. `Fresh`: the rest of a page is open only where nothing was
  sent, and names nothing twice. `LateInv`: after a cancellation the counted applications are at most the count modulo the batch, and all late ones belong to the resume at
  hand; between resumes and where the batch is full the next checkpoint ends the run.
* **Dialogues.** `Shown`: in the state `confirm` the data are those of the latest summary. `Warned`: no way leads to the letter, or to `confirm`, past an unconfirmed risk
  (`Safe`). Nothing about the user is needed: a button that changes the data leaves these states in the same step.
* **Filter.** Both properties are
  about what the loops compute, for texts of any length. The loops are recursive functions along a text (`Cut`, `Keep` and `Attach` are
  their steps); that such a function exists and what it is after n steps is proved by least counterexample, from `WFMin` and the
  well-foundedness of < on Nat. The parts of `Split` are then characterised without a loop, as the longest stretches of the text
  without a separator (`SplitParts`), which is where a word-wise match must lie. For the title: the words of texts
  with a blank between them are the words of the one followed by those of the other, normalising commutes with cutting, and `Join` of the first words is where `Join` of all begins.
* **Negotiations.** `RunInv` ties the list to the operation. A reply in progress is covered by a message or a list entry not yet
  paid for (`OwedInv`); an entry nobody touched is in `hh` as it was listed (`Current`), so what `should_clear`
  decides of the copy holds of the negotiation, and a number of whole days above a threshold is more elapsed time than it (`WholeDays`).
* **Store.** `Locked`: who writes in a transaction holds the lock and no two do. `Fresh`: in PostgreSQL the copy of a lock's holder is the row, with files so long as no synchronous
  save came; what is merged into the copy is then merged into the row. `KeyInv`:
  storages are at the present step or the one before, and what is stored is encrypted with a key of these.

One of these theorems states what no run repeats: `UncancelledTaskIsHeld`, which `OrphansAreCounted` says
where nothing was mislaid.

Only model-checked: all liveness (`EveryTaskEnds`, `EveryCallReturns`, `EveryExecutionEnds`: fairness and
ENABLED are outside the prover's reach) and the violations.

## Findings

Three runs end in a violation; `PROJECT.json` quotes the lines.

* `store_engine`: with `HEAVY_TASKS_MODE=inline` and PostgreSQL the first heavy run closes the session factory of the whole
  bot, though `init_db()` was called; every later database operation of a handler raises until another run opens it.
* `negotiations_days`: the user asks to delete what was not updated for longer than 0 days, and 0 is false (negotiation.py:63): the discards are deleted, however fresh, and
  nothing old (texts.py:195 promises the age).
* `negotiations_answers`: `/reply` promises messages to chats with an unread answer of the employer (texts.py:201, the docstring at negotiation.py:100); negotiation.py:140 also posts after the
  applicant's own message if the employer has not viewed the negotiation.

The sections above name the other limits of the code that the models have: two active tasks after a double click, a row that stays
`cancel_requested`, a late session that unregisters its successor, cancellations a login does not see, a run without its summary's parameters after a restart or a second press, an old summary's
button that skips the warning, commands sent as replies, a configuration the synchronous save overwrites.

## Not modelled, and why

* The blacklisting of employers (no caller asks for it) and the numbers the operations report.
* The OAuth exchange, Playwright and the HTTP clients: the vendor's code; their outcomes are choices here. The thread pool and the logging of the gateways.
* `InlineRuns` as a composition: that two inline runs of one user do not exclude each other follows from their separate guards, and there is no promise to
  check. What happens to a transaction under way when another run disposes the engine is SQLAlchemy's.
* The recovery of a row whose execution or message was lost: no code of the repository does it; `OrphansAreCounted` says how many there are.
* The files' own reads and writes (`FileConfigBackend` is the vendor's) are taken as atomic.
* Read-only commands (`/status`, `/profile`, `/negotiations`, `/api`), the list of allowed users, texts, keyboards' layout, migrations, scripts and CI.

What a continuation would take first: a composition of `TaskQueue` with two executions of `ApplyRun` or `NegotiationRun` at once (`Duplicate`),
and of `LoginSessions` with the token of `ConfigStore`.
