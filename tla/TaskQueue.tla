----------------------------- MODULE TaskQueue -----------------------------
(***************************************************************************)
(* The queue of heavy operations in celery mode: the user_tasks table, the *)
(* bot coroutines that enqueue and cancel (services/tasks.py and           *)
(* heavy_queue.py), the Celery broker as the code configures it            *)
(* (celery_app.py: acks_late, a time limit) and the worker processes that  *)
(* run bot.run_heavy_task (worker_tasks.py, heavy_executor.py).            *)
(*                                                                         *)
(* PostgreSQL runs at READ COMMITTED, so every query of a session and      *)
(* every commit is a step of its own.  SQLAlchemy updates only the columns *)
(* that changed; a session that reads one row and commits a value that     *)
(* does not depend on it (mark_*, attach_celery_id) is one atomic write.   *)
(***************************************************************************)
EXTENDS Naturals, FiniteSets

CONSTANTS
    Users,
    Operations,
    Tasks,                          \* the task ids uuid4 will give, a bound
    Handlers,                       \* concurrent update handlers of the bot
    Workers,                        \* worker processes (--concurrency)
    HEAVY_TASK_GLOBAL_LIMIT,
    HEAVY_TASK_COOLDOWN_SECONDS,
    MaxTime,                        \* bound on the clock
    Budget,                         \* how often each disturbance may happen
    MaxKinds,                       \* how many kinds of it, a bound
    None

Disturbances ==
    {"cancel", "send_fails", "bot_crash", "worker_crash", "lost", "duplicate"}

ASSUME ConstantsAssumption ==
    /\ HEAVY_TASK_GLOBAL_LIMIT \in Nat
    /\ HEAVY_TASK_COOLDOWN_SECONDS \in Nat
    /\ MaxTime \in Nat
    /\ Budget \in [Disturbances -> Nat]
    /\ MaxKinds \in Nat
    /\ None \notin Users \cup Operations \cup Tasks

VARIABLES
    clock,      \* seconds
    row,        \* the user_tasks table
    queue,      \* tasks whose message waits in the broker
    unacked,    \* tasks whose message was delivered and not acknowledged
    revoked,    \* the worker's in-memory set of revoked ids
    bot,        \* the local state of each handler coroutine
    exec,       \* the local state of each worker process
    left        \* what is left of Budget

vars == <<clock, row, queue, unacked, revoked, bot, exec, left>>

-----------------------------------------------------------------------------
(* Rows                                                                    *)

ACTIVE_TASK_STATUSES == {"queued", "running", "cancel_requested"}
Finished == {"success", "failed", "cancelled"}

Rows == [status : ACTIVE_TASK_STATUSES \cup Finished \cup {"absent"},
         user_id : Users \cup {None},
         operation : Operations \cup {None},
         created_at : Nat,
         cancel_requested : BOOLEAN,
         celery_task_id : BOOLEAN,       \* set, or NULL
         started_at : BOOLEAN]           \* set, or NULL

NoRow == [status |-> "absent", user_id |-> None, operation |-> None,
          created_at |-> 0, cancel_requested |-> FALSE,
          celery_task_id |-> FALSE, started_at |-> FALSE]

IsActive(t) == row[t].status \in ACTIVE_TASK_STATUSES
Active == {t \in Tasks : IsActive(t)}

\* Plausible bug: only a waiting task counts as the user's active one.
WaitingOf(u) == {t \in Tasks : row[t].status = "queued" /\ row[t].user_id = u}

ActiveOf(u) == {t \in Active : row[t].user_id = u}

\* The rows that ORDER BY created_at DESC LIMIT 1 may return from S.
Latest(S) ==
    {t \in S : \A s \in S : row[s].created_at <= row[t].created_at}

-----------------------------------------------------------------------------
(* Handlers and executions                                                 *)

HandlerStates ==
    [pc : {"idle", "user_check", "cooldown_check", "insert", "send", "attach",
           "cancel_commit", "revoke"},
     user : Users \cup {None},
     operation : Operations \cup {None},
     now : Nat,
     task : Tasks \cup {None},
     seen : ACTIVE_TASK_STATUSES \cup {"absent"}]

IdleHandler == [pc |-> "idle", user |-> None, operation |-> None, now |-> 0,
                task |-> None, seen |-> "absent"]

\* "late" is a history variable: the cancel flag was already set when this
\* execution marked the row as running.
Executions ==
    [pc : {"idle", "fetched", "running", "succeeded", "cancelled", "failed",
           "finished"},
     task : Tasks \cup {None},
     late : BOOLEAN]

IdleWorker == [pc |-> "idle", task |-> None, late |-> FALSE]

Executing(t) == \E w \in Workers : exec[w].task = t

Init ==
    /\ clock = 0
    /\ row = [t \in Tasks |-> NoRow]
    /\ queue = {} /\ unacked = {} /\ revoked = {}
    /\ bot = [h \in Handlers |-> IdleHandler]
    /\ exec = [w \in Workers |-> IdleWorker]
    /\ left = Budget

Spend(kind) ==
    /\ left[kind] > 0
    /\ Cardinality({k \in Disturbances : k = kind \/ left[k] < Budget[k]}) <= MaxKinds
    /\ left' = [left EXCEPT ![kind] = @ - 1]

Tick ==
    /\ clock < MaxTime
    /\ clock' = clock + 1
    /\ UNCHANGED <<row, queue, unacked, revoked, bot, exec, left>>

-----------------------------------------------------------------------------
(* schedule_heavy_task: enqueue, send_task, attach_celery_id               *)

\* Plausible bug: an off-by-one in the global limit.
BelowLimitOffByOne == Cardinality(Active) <= HEAVY_TASK_GLOBAL_LIMIT

BelowLimit == Cardinality(Active) < HEAVY_TASK_GLOBAL_LIMIT

\* now is read, the transaction opens (created_at is its start) and the
\* global count is taken; GlobalTaskLimitError leaves no trace.
EnqueueBegin(h, u, op) ==
    /\ bot[h].pc = "idle"
    /\ BelowLimit
    /\ bot' = [bot EXCEPT ![h] = [IdleHandler EXCEPT
                  !.pc = "user_check", !.user = u, !.operation = op,
                  !.now = clock]]
    /\ UNCHANGED <<clock, row, queue, unacked, revoked, exec, left>>

EnqueueCheckUser(h) ==
    /\ bot[h].pc = "user_check"
    /\ bot' = IF ActiveOf(bot[h].user) # {}
              THEN [bot EXCEPT ![h] = IdleHandler]      \* TaskAlreadyRunningError
              ELSE [bot EXCEPT ![h].pc = "cooldown_check"]
    /\ UNCHANGED <<clock, row, queue, unacked, revoked, exec, left>>

SameOperation(u, op) ==
    {t \in Tasks : row[t].user_id = u /\ row[t].operation = op}

\* Plausible bug: created_at ascending, the oldest row decides.
LastSameAscending(u, op) ==
    {t \in SameOperation(u, op) : \A s \in SameOperation(u, op) :
        row[t].created_at <= row[s].created_at}

LastSame(u, op) == Latest(SameOperation(u, op))

CoolingDown(t, now) ==
    row[t].created_at + HEAVY_TASK_COOLDOWN_SECONDS > now

EnqueueCheckCooldown(h) ==
    LET u == bot[h].user
        op == bot[h].operation
    IN  /\ bot[h].pc = "cooldown_check"
        /\ \/ /\ \E t \in LastSame(u, op) :
                    CoolingDown(t, bot[h].now)              \* TaskCooldownError
              /\ bot' = [bot EXCEPT ![h] = IdleHandler]
           \/ /\ \/ SameOperation(u, op) = {}
                 \/ \E t \in LastSame(u, op) : ~CoolingDown(t, bot[h].now)
              /\ bot' = [bot EXCEPT ![h].pc = "insert"]
        /\ UNCHANGED <<clock, row, queue, unacked, revoked, exec, left>>

EnqueueInsert(h) ==
    /\ bot[h].pc = "insert"
    /\ \E t \in Tasks :
        /\ row[t].status = "absent"
        /\ row' = [row EXCEPT ![t] = [NoRow EXCEPT
                      !.status = "queued", !.user_id = bot[h].user,
                      !.operation = bot[h].operation, !.created_at = bot[h].now]]
        /\ bot' = [bot EXCEPT ![h] = [@ EXCEPT !.pc = "send", !.task = t]]
    /\ UNCHANGED <<clock, queue, unacked, revoked, exec, left>>

SendTask(h) ==
    /\ bot[h].pc = "send"
    /\ queue' = queue \cup {bot[h].task}
    /\ bot' = [bot EXCEPT ![h].pc = "attach"]
    /\ UNCHANGED <<clock, row, unacked, revoked, exec, left>>

\* The broker is unreachable: send_task raises after the row was committed.
SendFails(h) ==
    /\ bot[h].pc = "send"
    /\ Spend("send_fails")
    /\ bot' = [bot EXCEPT ![h] = IdleHandler]
    /\ UNCHANGED <<clock, row, queue, unacked, revoked, exec>>

AttachCeleryId(h) ==
    /\ bot[h].pc = "attach"
    /\ row' = [row EXCEPT ![bot[h].task].celery_task_id = TRUE]
    /\ bot' = [bot EXCEPT ![h] = IdleHandler]
    /\ UNCHANGED <<clock, queue, unacked, revoked, exec, left>>

-----------------------------------------------------------------------------
(* cancel_user_task: request_cancel, then revoke                           *)

\* The session loads the latest active row of the user; without one the
\* handler answers that there is nothing to cancel.
RequestCancelRead(h, u) ==
    /\ bot[h].pc = "idle"
    /\ Spend("cancel")
    /\ \E t \in Latest(ActiveOf(u)) :
        bot' = [bot EXCEPT ![h] = [IdleHandler EXCEPT
                   !.pc = "cancel_commit", !.user = u, !.task = t,
                   !.seen = row[t].status]]
    /\ UNCHANGED <<clock, row, queue, unacked, revoked, exec>>

\* Plausible bug: a waiting task is only flagged, as a running one is.
CancelStatusFlagOnly(h) ==
    IF bot[h].seen = "cancel_requested" THEN row[bot[h].task].status ELSE "cancel_requested"

\* What the session flushes, decided by the status it read.  A row read as
\* "cancel_requested" has no changed status, so none is written.
CancelStatus(h) ==
    CASE bot[h].seen = "queued"           -> "cancelled"
      [] bot[h].seen = "cancel_requested" -> row[bot[h].task].status
      [] OTHER                            -> "cancel_requested"

RequestCancelCommit(h) ==
    /\ bot[h].pc = "cancel_commit"
    /\ row' = [row EXCEPT ![bot[h].task] =
                  [@ EXCEPT !.cancel_requested = TRUE, !.status = CancelStatus(h)]]
    /\ bot' = [bot EXCEPT ![h] = [@ EXCEPT !.pc = "revoke", !.seen = "absent"]]
    /\ UNCHANGED <<clock, queue, unacked, revoked, exec, left>>

\* The row is refreshed; revoke is a broadcast that a worker may miss.
CancelRevoke(h) ==
    /\ bot[h].pc = "revoke"
    /\ \/ /\ row[bot[h].task].celery_task_id
          /\ revoked' = revoked \cup {bot[h].task}
       \/ UNCHANGED revoked
    /\ bot' = [bot EXCEPT ![h] = IdleHandler]
    /\ UNCHANGED <<clock, row, queue, unacked, exec, left>>

\* The bot process dies between two steps of its handlers.
BotCrash ==
    /\ Spend("bot_crash")
    /\ bot' = [h \in Handlers |-> IdleHandler]
    /\ UNCHANGED <<clock, row, queue, unacked, revoked, exec>>

-----------------------------------------------------------------------------
(* run_heavy_task: the worker                                              *)

\* Plausible bug: the status is not looked at before the start.
NeverCancelledBeforeStart(t) == FALSE

\* Plausible bug: only a queued row may start, a running one is skipped.
StartsOnlyQueued(t) == row[t].status # "queued"

CancelledBeforeStart(t) == row[t].status = "cancelled"

\* Plausible bug: task_acks_late is off, delivery acknowledges.
DeliveredAcksEarly(t) == unacked \ {t}

Delivered(t) == unacked \cup {t}

\* A worker takes the message and get_task finds a row that may start.
RunHeavyTask(w, t) ==
    /\ exec[w].pc = "idle"
    /\ t \in queue \ revoked
    /\ ~CancelledBeforeStart(t)
    /\ queue' = queue \ {t}
    /\ unacked' = Delivered(t)
    /\ exec' = [exec EXCEPT ![w] = [pc |-> "fetched", task |-> t, late |-> FALSE]]
    /\ UNCHANGED <<clock, row, revoked, bot, left>>

\* The message is revoked, or the task was cancelled before its start: the
\* execution ends at once and the message is acknowledged.
SkipTask(w, t) ==
    /\ exec[w].pc = "idle"
    /\ t \in queue
    /\ t \in revoked \/ CancelledBeforeStart(t)
    /\ queue' = queue \ {t}
    /\ UNCHANGED <<clock, row, unacked, revoked, bot, exec, left>>

MarkRunning(w) ==
    LET t == exec[w].task
    IN  /\ exec[w].pc = "fetched"
        /\ row' = [row EXCEPT ![t] =
                      [@ EXCEPT !.status = "running", !.started_at = TRUE]]
        /\ exec' = [exec EXCEPT ![w] =
                       [@ EXCEPT !.pc = "running", !.late = row[t].cancel_requested]]
        /\ UNCHANGED <<clock, queue, unacked, revoked, bot, left>>

\* Plausible bug: the checkpoint looks at the status, not at the flag.
CancelRequestedByStatus(t) == row[t].status = "cancel_requested"

is_cancel_requested(t) == row[t].cancel_requested

\* make_progress finds the cancel flag and raises TaskCancelledError.
CheckpointCancels(w) ==
    /\ exec[w].pc = "running"
    /\ is_cancel_requested(exec[w].task)
    /\ exec' = [exec EXCEPT ![w].pc = "cancelled"]
    /\ UNCHANGED <<clock, row, queue, unacked, revoked, bot, left>>

\* The last make_progress of the operation finds no cancel flag.
LastCheckpointPasses(w) ==
    /\ exec[w].pc = "running"
    /\ ~is_cancel_requested(exec[w].task)
    /\ exec' = [exec EXCEPT ![w].pc = "succeeded"]
    /\ UNCHANGED <<clock, row, queue, unacked, revoked, bot, left>>

\* The operation (the soft time limit included) or mark_success raises.
OperationFails(w) ==
    /\ exec[w].pc \in {"running", "succeeded"}
    /\ exec' = [exec EXCEPT ![w].pc = "failed"]
    /\ UNCHANGED <<clock, row, queue, unacked, revoked, bot, left>>

\* Plausible bug: a status spelled differently from tasks.py:26.
OutcomeMisspelt ==
    [succeeded |-> "success", cancelled |-> "canceled", failed |-> "failed"]

Outcome == [succeeded |-> "success", cancelled |-> "cancelled", failed |-> "failed"]

\* mark_success, mark_cancelled, mark_failed
MarkFinished(w) ==
    /\ exec[w].pc \in DOMAIN Outcome
    /\ row' = [row EXCEPT ![exec[w].task].status = Outcome[exec[w].pc]]
    /\ exec' = [exec EXCEPT ![w].pc = "finished"]
    /\ UNCHANGED <<clock, queue, unacked, revoked, bot, left>>

\* acks_late: the message is acknowledged when the execution has ended.  A
\* redelivered message keeps its delivery tag, so any execution's ack ends it.
Acknowledge(w) ==
    /\ exec[w].pc = "finished"
    /\ unacked' = unacked \ {exec[w].task}
    /\ exec' = [exec EXCEPT ![w] = IdleWorker]
    /\ UNCHANGED <<clock, row, queue, revoked, bot, left>>

-----------------------------------------------------------------------------
(* Broker and worker disturbances                                          *)

\* The execution ends without writing the row and its message is acknowledged:
\* the hard time limit, a killed child, or mark_running / mark_failed raising.
ExecutionLost(w) ==
    /\ exec[w].pc \notin {"idle", "finished"}
    /\ Spend("lost")
    /\ unacked' = unacked \ {exec[w].task}
    /\ exec' = [exec EXCEPT ![w] = IdleWorker]
    /\ UNCHANGED <<clock, row, queue, revoked, bot>>

\* The worker container dies and restarts; its revoked set was in memory.
WorkerCrash ==
    /\ Spend("worker_crash")
    /\ exec' = [w \in Workers |-> IdleWorker]
    /\ revoked' = {}
    /\ UNCHANGED <<clock, row, queue, unacked, bot>>

Requeue(t) ==
    /\ t \in unacked
    /\ unacked' = unacked \ {t}
    /\ queue' = queue \cup {t}
    /\ UNCHANGED <<clock, row, revoked, bot, exec>>

\* The visibility timeout returns a message whose worker is gone.
Restore(t) == ~Executing(t) /\ Requeue(t) /\ UNCHANGED left

\* The timeout (an hour) runs out while the task still executes.
Duplicate(t) == Executing(t) /\ Requeue(t) /\ Spend("duplicate")

-----------------------------------------------------------------------------
HandlerStep(h) ==
    \/ EnqueueCheckUser(h) \/ EnqueueCheckCooldown(h) \/ EnqueueInsert(h)
    \/ SendTask(h) \/ AttachCeleryId(h)
    \/ RequestCancelCommit(h) \/ CancelRevoke(h)

HandlerNext(h) ==
    \/ \E u \in Users, op \in Operations : EnqueueBegin(h, u, op)
    \/ \E u \in Users : RequestCancelRead(h, u)
    \/ HandlerStep(h)
    \/ SendFails(h)

Deliver(t) == \E w \in Workers : RunHeavyTask(w, t) \/ SkipTask(w, t)

WorkerStep(w) ==
    \/ MarkRunning(w) \/ CheckpointCancels(w) \/ LastCheckpointPasses(w)
    \/ OperationFails(w) \/ MarkFinished(w) \/ Acknowledge(w)

Next ==
    \/ Tick
    \/ \E h \in Handlers : HandlerNext(h)
    \/ BotCrash
    \/ \E t \in Tasks : Deliver(t) \/ Restore(t) \/ Duplicate(t)
    \/ \E w \in Workers : WorkerStep(w) \/ ExecutionLost(w)
    \/ WorkerCrash

Spec == Init /\ [][Next]_vars

\* Coroutines and workers keep going (the soft time limit ends an operation
\* that hangs), the broker delivers and redelivers; users, the clock and the
\* disturbances owe nothing.
Fairness ==
    /\ \A h \in Handlers : WF_vars(HandlerStep(h))
    /\ \A w \in Workers : WF_vars(WorkerStep(w))
    /\ \A t \in Tasks : WF_vars(Deliver(t)) /\ WF_vars(Restore(t))

FairSpec == Spec /\ Fairness

-----------------------------------------------------------------------------
(* Properties                                                              *)

\* The shape of the state: every row, coroutine and execution has the fields
\* and values the code gives them.
TypeOK ==
    /\ clock \in 0..MaxTime
    /\ row \in [Tasks -> Rows]
    /\ queue \subseteq Tasks /\ unacked \subseteq Tasks /\ revoked \subseteq Tasks
    /\ bot \in [Handlers -> HandlerStates]
    /\ exec \in [Workers -> Executions]
    /\ left \in [Disturbances -> Nat]

\* mark_running overwrites the status of a task whose cancellation committed
\* after get_task; the flag survives, so such an execution never ends as a
\* success, whatever crashes or is delivered twice.
LateStartNeverSucceeds ==
    \A w \in Workers : exec[w].late => exec[w].pc # "succeeded"

\* A task cancelled before any execution saw it (status "cancelled", never
\* started, no worker holding it) never starts and stays cancelled, although
\* its message may still be sent, delivered or redelivered.
CancelledBeforeStartNeverRuns ==
    [][\A t \in Tasks :
          row[t].status = "cancelled" /\ ~row[t].started_at /\ ~Executing(t)
          => /\ row'[t].status = "cancelled"
             /\ ~row'[t].started_at
             /\ \A w \in Workers : exec'[w].task # t]_vars

\* Somebody still has to act on t: a handler about to send its message, the
\* broker (waiting or unacknowledged), which only loses what it delivered twice.
Sending(t) == \E h \in Handlers : bot[h].pc = "send" /\ bot[h].task = t
Held(t) == Sending(t) \/ t \in queue \cup unacked

\* Active rows nobody asked to cancel and nobody will act on.
Orphans == {t \in Active : ~row[t].cancel_requested /\ ~Held(t)}

\* No row is orphaned, whenever handlers cancel other tasks and workers crash
\* (acks_late).
UncancelledTaskIsHeld == Orphans = {}

\* How often a disturbance has happened so far.
Spent(kind) == Budget[kind] - left[kind]

\* Rows are orphaned by nothing but a send that failed, an execution lost or a message
\* delivered twice, one row each, and by a bot that dies before a send, a row per
\* handler at most.  No crash of a worker and no cancellation of another task adds to
\* these (celery_app.py:43).
OrphansAreCounted ==
    Cardinality(Orphans) <= Spent("send_fails") + Spent("lost") + Spent("duplicate")
                            + Spent("bot_crash") * Cardinality(Handlers)

\* A cancellation that commits before the task starts leaves no active row, whatever
\* became of the message: the user is free again, and only a task that started can
\* stay behind as "cancel_requested" (tasks.py:149).
CancelFreesUnstarted ==
    \A t \in Active : row[t].cancel_requested => row[t].started_at

\* What brings a row back to life: a cancellation or a second delivery one each, a
\* crash the one of every worker.
Revivals ==
    Spent("cancel") + Spent("duplicate") + Spent("worker_crash") * Cardinality(Workers)

\* Handlers of u past the check that the user has no active task.
Checked(u) ==
    {h \in Handlers : bot[h].user = u /\ bot[h].pc \in {"cooldown_check", "insert"}}

\* enqueue refuses a second task while the user has an active one, but nothing locks the
\* check and the insert together: a user has as many active rows, those about to be
\* inserted counted, as handlers can be between the two, one for a single handler, and
\* besides only what was brought back to life (tasks.py:61).
OneActivePerUser ==
    \A u \in Users :
        Cardinality({t \in Active : row[t].user_id = u}) + Cardinality(Checked(u))
            <= Cardinality(Handlers) + Revivals

\* Rows created less than a cooldown apart from each other, and the handlers that are
\* about to insert one more among them.
Burst(S) ==
    \A x, y \in S : row[x].created_at < row[y].created_at + HEAVY_TASK_COOLDOWN_SECONDS

Joining(u, op, S) ==
    {h \in Handlers : /\ bot[h].pc = "insert" /\ bot[h].user = u /\ bot[h].operation = op
                      /\ \A x \in S : CoolingDown(x, bot[h].now)}

\* Two rows of one user and operation less than a cooldown apart come from handlers that
\* were between the check and the insert at the same time: such a burst, those about to
\* join it counted, is no larger than the number of handlers, so for a single handler
\* all rows are a cooldown apart, whatever is cancelled, lost or revived (tasks.py:78).
CooldownBoundsBursts ==
    \A u \in Users, op \in Operations : \A S \in SUBSET SameOperation(u, op) :
        Burst(S) => Cardinality(S) + Cardinality(Joining(u, op, S))
                        <= Cardinality(Handlers)

\* Handlers past the global count that may still insert a row.
Deciding == {"user_check", "cooldown_check", "insert"}
Admitted == {h \in Handlers : bot[h].pc \in Deciding}

\* The count and the insert are apart, so the limit can be passed, but by no
\* more than the other handlers that run at the same time and the rows that were
\* brought back to life, the rows about to be inserted counted with the active ones.
LimitOvershootBounded ==
    Active # {} \/ Admitted # {} =>
        Cardinality(Active) + Cardinality(Admitted)
            < HEAVY_TASK_GLOBAL_LIMIT + Cardinality(Handlers) + Revivals

\* A queued task nobody cancels finishes: the worker picks it up, again if
\* need be after a crash, and writes an outcome.
EveryTaskEnds ==
    \A t \in Tasks : row[t].status = "queued" ~>
        row[t].status \in Finished \/ row[t].cancel_requested

=============================================================================
