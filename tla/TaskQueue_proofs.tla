-------------------------- MODULE TaskQueue_proofs --------------------------
(* What holds of TaskQueue for every number of users, tasks, handlers and  *)
(* workers, every limit and every budget of disturbances.                  *)
EXTENDS TaskQueue, FiniteSetTheorems, TLAPS

-----------------------------------------------------------------------------
(* The updates the actions make keep the records' types.                   *)

Statuses == ACTIVE_TASK_STATUSES \cup Finished \cup {"absent"}

LEMMA RowUpdates ==
    ASSUME NEW r \in Rows, NEW s \in Statuses
    PROVE  /\ r.status \in Statuses
           /\ [r EXCEPT !.status = s] \in Rows
           /\ [r EXCEPT !.status = s, !.started_at = TRUE] \in Rows
           /\ [r EXCEPT !.cancel_requested = TRUE, !.status = s] \in Rows
           /\ [r EXCEPT !.celery_task_id = TRUE] \in Rows
  BY DEF Rows, Statuses

LEMMA NewRow ==
    ASSUME NEW u \in Users \cup {None}, NEW op \in Operations \cup {None},
           NEW n \in Nat
    PROVE  [NoRow EXCEPT !.status = "queued", !.user_id = u,
                            !.operation = op, !.created_at = n] \in Rows
  BY DEF Rows, NoRow, ACTIVE_TASK_STATUSES

LEMMA NoRowTyped == NoRow \in Rows
  BY DEF Rows, NoRow

LEMMA HandlerUpdates ==
    ASSUME NEW r \in HandlerStates
    PROVE  /\ r.user \in Users \cup {None}
           /\ r.operation \in Operations \cup {None}
           /\ r.now \in Nat
           /\ r.task \in Tasks \cup {None}
           /\ [r EXCEPT !.pc = "cooldown_check"] \in HandlerStates
           /\ [r EXCEPT !.pc = "insert"] \in HandlerStates
           /\ \A t \in Tasks : [r EXCEPT !.pc = "send", !.task = t] \in HandlerStates
           /\ [r EXCEPT !.pc = "attach"] \in HandlerStates
           /\ [r EXCEPT !.pc = "revoke", !.seen = "absent"] \in HandlerStates
  BY DEF HandlerStates, IdleHandler

LEMMA NewEnqueue ==
    ASSUME NEW u \in Users, NEW op \in Operations, NEW n \in Nat
    PROVE  [IdleHandler EXCEPT !.pc = "user_check", !.user = u,
                  !.operation = op, !.now = n] \in HandlerStates
  BY DEF HandlerStates, IdleHandler

LEMMA NewCancel ==
    ASSUME NEW u \in Users, NEW t \in Tasks, NEW s \in ACTIVE_TASK_STATUSES
    PROVE  [IdleHandler EXCEPT !.pc = "cancel_commit", !.user = u,
                  !.task = t, !.seen = s] \in HandlerStates
  BY DEF HandlerStates, IdleHandler

LEMMA IdleHandlerTyped == IdleHandler \in HandlerStates
  BY DEF HandlerStates, IdleHandler

LEMMA ExecutionUpdates ==
    ASSUME NEW e \in Executions
    PROVE  /\ e.task \in Tasks \cup {None}
           /\ \A b \in BOOLEAN : [e EXCEPT !.pc = "running", !.late = b] \in Executions
           /\ [e EXCEPT !.pc = "cancelled"] \in Executions
           /\ [e EXCEPT !.pc = "succeeded"] \in Executions
           /\ [e EXCEPT !.pc = "failed"] \in Executions
           /\ [e EXCEPT !.pc = "finished"] \in Executions
  BY DEF Executions

LEMMA IdleWorkerTyped == IdleWorker \in Executions
  BY DEF Executions, IdleWorker

-----------------------------------------------------------------------------
(* Type correctness                                                        *)

LEMMA TypeInit == Init => TypeOK
  BY ConstantsAssumption, NoRowTyped, IdleHandlerTyped, IdleWorkerTyped
  DEF Init, TypeOK

LEMMA SpendTyped ==
    ASSUME left \in [Disturbances -> Nat], NEW k \in Disturbances, Spend(k)
    PROVE  left' \in [Disturbances -> Nat]
  BY DEF Spend

\* Whatever a coroutine, a message or an execution names has a row: the
\* branch "Task not found" of run_heavy_task is never taken.
Present == {t \in Tasks : row[t].status # "absent"}
Named ==
    /\ \A h \in Handlers :
          bot[h].pc \in {"send", "attach", "cancel_commit", "revoke"}
          => bot[h].task \in Present
    /\ queue \cup unacked \subseteq Present
    /\ \A w \in Workers : exec[w].pc # "idle" => exec[w].task \in Present

LEMMA TypeStep == TypeOK /\ Named /\ [Next]_vars => TypeOK'
<1> SUFFICES ASSUME TypeOK, Named, [Next]_vars PROVE TypeOK'
    OBVIOUS
<1> USE ConstantsAssumption DEF TypeOK
<1>1. ASSUME NEW h \in Handlers, NEW u \in Users, NEW op \in Operations,
             EnqueueBegin(h, u, op)
      PROVE  TypeOK'
    <2>1. clock \in Nat
        BY DEF TypeOK
    <2>2. [IdleHandler EXCEPT !.pc = "user_check", !.user = u,
               !.operation = op, !.now = clock] \in HandlerStates
        BY <2>1, NewEnqueue
    <2> QED BY <1>1, <2>1, <2>2 DEF EnqueueBegin
<1>2. ASSUME NEW h \in Handlers,
             EnqueueCheckUser(h)
      PROVE  TypeOK'
    <2>1. IdleHandler \in HandlerStates
        BY IdleHandlerTyped
    <2>2. [bot[h] EXCEPT !.pc = "cooldown_check"] \in HandlerStates
        BY HandlerUpdates
    <2> QED BY <1>2, <2>1, <2>2 DEF EnqueueCheckUser
<1>3. ASSUME NEW h \in Handlers,
             EnqueueCheckCooldown(h)
      PROVE  TypeOK'
    <2>1. IdleHandler \in HandlerStates
        BY IdleHandlerTyped
    <2>2. [bot[h] EXCEPT !.pc = "insert"] \in HandlerStates
        BY HandlerUpdates
    <2> QED BY <1>3, <2>1, <2>2 DEF EnqueueCheckCooldown
<1>4. ASSUME NEW h \in Handlers,
             EnqueueInsert(h)
      PROVE  TypeOK'
    <2>1. [NoRow EXCEPT !.status = "queued", !.user_id = bot[h].user,
                       !.operation = bot[h].operation, !.created_at = bot[h].now] \in Rows
        BY HandlerUpdates, NewRow
    <2>2. \A t \in Tasks : [bot[h] EXCEPT !.pc = "send", !.task = t] \in HandlerStates
        BY HandlerUpdates
    <2>3. row' \in [Tasks -> Rows] BY <1>4, <2>1 DEF EnqueueInsert
    <2>4. bot' \in [Handlers -> HandlerStates] BY <1>4, <2>2 DEF EnqueueInsert
    <2> QED BY <1>4, <2>3, <2>4 DEF EnqueueInsert
<1>5. ASSUME NEW h \in Handlers,
             SendTask(h)
      PROVE  TypeOK'
    <2>1. bot[h].task \in Tasks
        BY <1>5 DEF SendTask, Named, Present
    <2>2. [bot[h] EXCEPT !.pc = "attach"] \in HandlerStates
        BY HandlerUpdates
    <2> QED BY <1>5, <2>1, <2>2 DEF SendTask
<1>6. ASSUME NEW h \in Handlers,
             SendFails(h)
      PROVE  TypeOK'
    <2>1. IdleHandler \in HandlerStates
        BY IdleHandlerTyped
    <2>2. "send_fails" \in Disturbances
        BY DEF Disturbances
    <2> QED BY <1>6, <2>1, <2>2, SpendTyped DEF SendFails
<1>7. ASSUME NEW h \in Handlers,
             AttachCeleryId(h)
      PROVE  TypeOK'
    <2>1. IdleHandler \in HandlerStates
        BY IdleHandlerTyped
    <2>2. \A t \in Tasks : [row[t] EXCEPT !.celery_task_id = TRUE] \in Rows
        BY RowUpdates DEF Statuses
    <2> QED BY <1>7, <2>1, <2>2 DEF AttachCeleryId
<1>8. ASSUME NEW h \in Handlers, NEW u \in Users,
             RequestCancelRead(h, u)
      PROVE  TypeOK'
    <2>1. "cancel" \in Disturbances
        BY DEF Disturbances
    <2>2. \A t \in Active :
            [IdleHandler EXCEPT !.pc = "cancel_commit", !.user = u, !.task = t,
                                !.seen = row[t].status] \in HandlerStates
        BY NewCancel DEF Active, IsActive
    <2> QED BY <1>8, <2>1, <2>2, SpendTyped DEF RequestCancelRead, Latest,
        ActiveOf, Active
<1>9. ASSUME NEW h \in Handlers,
             RequestCancelCommit(h)
      PROVE  TypeOK'
    <2>1. [bot[h] EXCEPT !.pc = "revoke", !.seen = "absent"] \in HandlerStates
        BY HandlerUpdates
    <2>2. \A t \in Tasks, s \in Statuses :
              [row[t] EXCEPT !.cancel_requested = TRUE, !.status = s] \in Rows
        BY RowUpdates
    <2>3. bot[h].task \in Tasks => CancelStatus(h) \in Statuses
        BY RowUpdates DEF CancelStatus, Statuses, ACTIVE_TASK_STATUSES, Finished
    <2> QED BY <1>9, <2>1, <2>2, <2>3 DEF RequestCancelCommit
<1>10. ASSUME NEW h \in Handlers,
             CancelRevoke(h)
      PROVE  TypeOK'
    <2>1. bot[h].task \in Tasks
        BY <1>10 DEF CancelRevoke, Named, Present
    <2>2. IdleHandler \in HandlerStates
        BY IdleHandlerTyped
    <2> QED BY <1>10, <2>1, <2>2 DEF CancelRevoke
<1>11. ASSUME BotCrash PROVE TypeOK'
    <2>1. IdleHandler \in HandlerStates
        BY IdleHandlerTyped
    <2>2. "bot_crash" \in Disturbances
        BY DEF Disturbances
    <2> QED BY <1>11, <2>1, <2>2, SpendTyped DEF BotCrash
<1>12. ASSUME NEW w \in Workers, NEW t \in Tasks,
             RunHeavyTask(w, t)
      PROVE  TypeOK'
    <2>1. [pc |-> "fetched", task |-> t, late |-> FALSE] \in Executions
        BY DEF Executions
    <2> QED BY <1>12, <2>1 DEF RunHeavyTask, Delivered
<1>13. ASSUME NEW w \in Workers, NEW t \in Tasks,
             SkipTask(w, t)
      PROVE  TypeOK'
    BY <1>13 DEF SkipTask
<1>14. ASSUME NEW w \in Workers,
             MarkRunning(w)
      PROVE  TypeOK'
    <2>1. exec[w].task \in Tasks
        BY <1>14 DEF MarkRunning, Named, Present
    <2>2. \A t \in Tasks :
              [row[t] EXCEPT !.status = "running", !.started_at = TRUE] \in Rows
        BY RowUpdates DEF Statuses, ACTIVE_TASK_STATUSES
    <2>3. \A b \in BOOLEAN : [exec[w] EXCEPT !.pc = "running", !.late = b] \in Executions
        BY ExecutionUpdates
    <2>4. row[exec[w].task].cancel_requested \in BOOLEAN
        BY <2>1 DEF Rows
    <2> QED BY <1>14, <2>1, <2>2, <2>3, <2>4 DEF MarkRunning
<1>15. ASSUME NEW w \in Workers,
             CheckpointCancels(w)
      PROVE  TypeOK'
    <2>1. [exec[w] EXCEPT !.pc = "cancelled"] \in Executions
        BY ExecutionUpdates
    <2> QED BY <1>15, <2>1 DEF CheckpointCancels
<1>16. ASSUME NEW w \in Workers,
             LastCheckpointPasses(w)
      PROVE  TypeOK'
    <2>1. [exec[w] EXCEPT !.pc = "succeeded"] \in Executions
        BY ExecutionUpdates
    <2> QED BY <1>16, <2>1 DEF LastCheckpointPasses
<1>17. ASSUME NEW w \in Workers,
             OperationFails(w)
      PROVE  TypeOK'
    <2>1. [exec[w] EXCEPT !.pc = "failed"] \in Executions
        BY ExecutionUpdates
    <2> QED BY <1>17, <2>1 DEF OperationFails
<1>18. ASSUME NEW w \in Workers,
             MarkFinished(w)
      PROVE  TypeOK'
    <2>1. \A t \in Tasks, s \in Statuses : [row[t] EXCEPT !.status = s] \in Rows
        BY RowUpdates
    <2>2. [exec[w] EXCEPT !.pc = "finished"] \in Executions
        BY ExecutionUpdates
    <2>3. Outcome[exec[w].pc] \in Statuses
        BY <1>18 DEF MarkFinished, Outcome, Statuses, Finished
    <2> QED BY <1>18, <2>1, <2>2, <2>3 DEF MarkFinished
<1>19. ASSUME NEW w \in Workers,
             Acknowledge(w)
      PROVE  TypeOK'
    <2>1. IdleWorker \in Executions
        BY IdleWorkerTyped
    <2> QED BY <1>19, <2>1 DEF Acknowledge
<1>20. ASSUME NEW w \in Workers,
             ExecutionLost(w)
      PROVE  TypeOK'
    <2>1. IdleWorker \in Executions
        BY IdleWorkerTyped
    <2>2. "lost" \in Disturbances
        BY DEF Disturbances
    <2> QED BY <1>20, <2>1, <2>2, SpendTyped DEF ExecutionLost
<1>21. ASSUME WorkerCrash PROVE TypeOK'
    <2>1. IdleWorker \in Executions
        BY IdleWorkerTyped
    <2>2. "worker_crash" \in Disturbances
        BY DEF Disturbances
    <2> QED BY <1>21, <2>1, <2>2, SpendTyped DEF WorkerCrash
<1>22. ASSUME NEW t \in Tasks,
             Restore(t)
      PROVE  TypeOK'
    BY <1>22 DEF Restore, Requeue
<1>23. ASSUME NEW t \in Tasks,
             Duplicate(t)
      PROVE  TypeOK'
    <2>1. "duplicate" \in Disturbances
        BY DEF Disturbances
    <2> QED BY <1>23, <2>1, SpendTyped DEF Duplicate, Requeue
<1>24. ASSUME Tick PROVE TypeOK'
    BY <1>24 DEF Tick
<1>25. CASE UNCHANGED vars
    BY <1>25 DEF vars
<1> QED
    BY <1>1, <1>2, <1>3, <1>4, <1>5, <1>6, <1>7, <1>8, <1>9, <1>10, <1>11,
        <1>12, <1>13, <1>14, <1>15, <1>16, <1>17, <1>18, <1>19, <1>20, <1>21,
        <1>22, <1>23, <1>24, <1>25 DEF Next, HandlerNext, HandlerStep, Deliver,
        WorkerStep

\* Rows never vanish, keep their owner, operation and creation time, and the
\* cancel flag and started_at are never taken back.
RowKept(t) ==
    row[t].status # "absent" =>
                    /\ row'[t].status # "absent"
                    /\ row'[t].user_id = row[t].user_id
                    /\ row'[t].operation = row[t].operation
                    /\ row'[t].created_at = row[t].created_at
                    /\ row[t].cancel_requested => row'[t].cancel_requested
                    /\ row[t].started_at => row'[t].started_at

LEMMA RowsKept ==
    ASSUME TypeOK, [Next]_vars, NEW x \in Tasks PROVE RowKept(x)
<1> USE DEF TypeOK, Rows, RowKept
<1>1. ASSUME NEW h \in Handlers,
             EnqueueInsert(h)
      PROVE  RowKept(x)
    BY <1>1 DEF EnqueueInsert, NoRow
<1>2. ASSUME NEW h \in Handlers,
             AttachCeleryId(h)
      PROVE  RowKept(x)
    BY <1>2 DEF AttachCeleryId
<1>3. ASSUME NEW h \in Handlers,
             RequestCancelCommit(h)
      PROVE  RowKept(x)
    BY <1>3 DEF RequestCancelCommit, CancelStatus, ACTIVE_TASK_STATUSES,
        Finished
<1>4. ASSUME NEW w \in Workers,
             MarkRunning(w)
      PROVE  RowKept(x)
    BY <1>4 DEF MarkRunning
<1>5. ASSUME NEW w \in Workers,
             MarkFinished(w)
      PROVE  RowKept(x)
    BY <1>5 DEF MarkFinished, Outcome
<1>6. CASE UNCHANGED <<row>>
    BY <1>6
<1> QED
    BY <1>1, <1>2, <1>3, <1>4, <1>5, <1>6
    DEF Next, HandlerNext, HandlerStep, Deliver, WorkerStep, vars, EnqueueBegin,
        EnqueueCheckUser, EnqueueCheckCooldown, SendTask, SendFails,
        RequestCancelRead, CancelRevoke, BotCrash, RunHeavyTask, SkipTask,
        CheckpointCancels, LastCheckpointPasses, OperationFails, Acknowledge,
        ExecutionLost, WorkerCrash, Restore, Duplicate, Tick, Requeue

LEMMA PresentGrows ==
    ASSUME TypeOK, [Next]_vars PROVE Present \subseteq Present'
<1> SUFFICES ASSUME NEW x \in Present PROVE x \in Present'
    OBVIOUS
<1>1. RowKept(x)
    BY RowsKept DEF Present
<1> QED
    BY <1>1 DEF RowKept, Present

LEMMA NamedInit == Init => Named
  BY DEF Init, Named, IdleHandler, IdleWorker

LEMMA NamedStep ==
    ASSUME TypeOK, Named, [Next]_vars PROVE Named'
<1> USE PresentGrows DEF Named, TypeOK, HandlerStates, Executions
<1>1. ASSUME NEW h \in Handlers, NEW u \in Users, NEW op \in Operations,
             EnqueueBegin(h, u, op)
      PROVE  Named'
    BY <1>1 DEF EnqueueBegin, IdleHandler
<1>2. ASSUME NEW h \in Handlers,
             EnqueueCheckUser(h)
      PROVE  Named'
    BY <1>2 DEF EnqueueCheckUser, IdleHandler
<1>3. ASSUME NEW h \in Handlers,
             EnqueueCheckCooldown(h)
      PROVE  Named'
    BY <1>3 DEF EnqueueCheckCooldown, IdleHandler
<1>4. ASSUME NEW h \in Handlers,
             EnqueueInsert(h)
      PROVE  Named'
    BY <1>4 DEF EnqueueInsert, Present, Rows, NoRow, ACTIVE_TASK_STATUSES
<1>5. ASSUME NEW h \in Handlers,
             SendTask(h)
      PROVE  Named'
    BY <1>5 DEF SendTask
<1>6. ASSUME NEW h \in Handlers,
             SendFails(h)
      PROVE  Named'
    BY <1>6 DEF SendFails, IdleHandler
<1>7. ASSUME NEW h \in Handlers,
             AttachCeleryId(h)
      PROVE  Named'
    BY <1>7 DEF AttachCeleryId, IdleHandler
<1>8. ASSUME NEW h \in Handlers, NEW u \in Users,
             RequestCancelRead(h, u)
      PROVE  Named'
    BY <1>8 DEF RequestCancelRead, Present, Latest, ActiveOf, Active, IsActive,
        ACTIVE_TASK_STATUSES, IdleHandler
<1>9. ASSUME NEW h \in Handlers,
             RequestCancelCommit(h)
      PROVE  Named'
    BY <1>9 DEF RequestCancelCommit
<1>10. ASSUME NEW h \in Handlers,
             CancelRevoke(h)
      PROVE  Named'
    BY <1>10 DEF CancelRevoke, IdleHandler
<1>11. ASSUME BotCrash PROVE Named'
    BY <1>11 DEF BotCrash, IdleHandler
<1>12. ASSUME NEW w \in Workers, NEW t \in Tasks,
             RunHeavyTask(w, t)
      PROVE  Named'
    BY <1>12 DEF RunHeavyTask, Delivered
<1>13. ASSUME NEW w \in Workers, NEW t \in Tasks,
             SkipTask(w, t)
      PROVE  Named'
    BY <1>13 DEF SkipTask
<1>14. ASSUME NEW w \in Workers,
             MarkRunning(w)
      PROVE  Named'
    BY <1>14 DEF MarkRunning
<1>15. ASSUME NEW w \in Workers,
             CheckpointCancels(w)
      PROVE  Named'
    BY <1>15 DEF CheckpointCancels
<1>16. ASSUME NEW w \in Workers,
             LastCheckpointPasses(w)
      PROVE  Named'
    BY <1>16 DEF LastCheckpointPasses
<1>17. ASSUME NEW w \in Workers,
             OperationFails(w)
      PROVE  Named'
    BY <1>17 DEF OperationFails
<1>18. ASSUME NEW w \in Workers,
             MarkFinished(w)
      PROVE  Named'
    BY <1>18 DEF MarkFinished, Outcome
<1>19. ASSUME NEW w \in Workers,
             Acknowledge(w)
      PROVE  Named'
    BY <1>19 DEF Acknowledge, IdleWorker
<1>20. ASSUME NEW w \in Workers,
             ExecutionLost(w)
      PROVE  Named'
    BY <1>20 DEF ExecutionLost, IdleWorker
<1>21. ASSUME WorkerCrash PROVE Named'
    BY <1>21 DEF WorkerCrash, IdleWorker
<1>22. ASSUME NEW t \in Tasks,
             Restore(t)
      PROVE  Named'
    BY <1>22 DEF Restore, Requeue
<1>23. ASSUME NEW t \in Tasks,
             Duplicate(t)
      PROVE  Named'
    BY <1>23 DEF Duplicate, Requeue
<1>24. CASE UNCHANGED <<row, queue, unacked, bot, exec>>
    BY <1>24 DEF Present
<1> QED
    BY <1>1, <1>2, <1>3, <1>4, <1>5, <1>6, <1>7, <1>8, <1>9, <1>10, <1>11,
        <1>12, <1>13, <1>14, <1>15, <1>16, <1>17, <1>18, <1>19, <1>20, <1>21,
        <1>22, <1>23, <1>24
    DEF Next, HandlerNext, HandlerStep, Deliver, WorkerStep, vars, Tick

\* Every reachable state has the shape TypeOK gives.
THEOREM TypeCorrect == Spec => [](TypeOK /\ Named)
<1>1. Init => TypeOK /\ Named
    BY TypeInit, NamedInit
<1>2. TypeOK /\ Named /\ [Next]_vars => (TypeOK /\ Named)'
    BY TypeStep, NamedStep
<1> QED
    BY <1>1, <1>2, PTL DEF Spec

LEMMA CooldownFrame ==
    ASSUME NEW h \in Handlers, EnqueueCheckCooldown(h)
    PROVE  /\ bot[h].pc = "cooldown_check"
           /\ \/ bot' = [bot EXCEPT ![h] = IdleHandler]
              \/ bot' = [bot EXCEPT ![h].pc = "insert"]
           /\ UNCHANGED <<clock, row, queue, unacked, revoked, exec, left>>
  BY DEF EnqueueCheckCooldown

-----------------------------------------------------------------------------
(* A start after a cancellation never ends as a success                    *)

\* The inductive form: the flag that made the start late is still there, so
\* the last checkpoint cannot pass.
LateInv ==
    \A w \in Workers : exec[w].late =>
        /\ exec[w].pc \notin {"idle", "succeeded"}
        /\ row[exec[w].task].cancel_requested

LEMMA LateStep ==
    ASSUME TypeOK, Named, LateInv, [Next]_vars PROVE LateInv'
<1> DEFINE FlagsKept == \A t \in Present :
                            row[t].cancel_requested => row'[t].cancel_requested
<1>a. FlagsKept
    BY RowsKept DEF RowKept, Present
<1> HIDE DEF FlagsKept
<1> USE <1>a DEF FlagsKept, LateInv, TypeOK, Named, Executions
<1>1. ASSUME NEW h \in Handlers,
             EnqueueInsert(h)
      PROVE  LateInv'
    BY <1>1 DEF EnqueueInsert
<1>2. ASSUME NEW h \in Handlers,
             AttachCeleryId(h)
      PROVE  LateInv'
    BY <1>2 DEF AttachCeleryId, IdleHandler
<1>3. ASSUME NEW h \in Handlers,
             RequestCancelCommit(h)
      PROVE  LateInv'
    BY <1>3 DEF RequestCancelCommit
<1>4. ASSUME NEW w \in Workers, NEW t \in Tasks,
             RunHeavyTask(w, t)
      PROVE  LateInv'
    BY <1>4 DEF RunHeavyTask, CancelledBeforeStart
<1>5. ASSUME NEW w \in Workers,
             MarkRunning(w)
      PROVE  LateInv'
    BY <1>5 DEF MarkRunning, Rows
<1>6. ASSUME NEW w \in Workers,
             CheckpointCancels(w)
      PROVE  LateInv'
    BY <1>6 DEF CheckpointCancels
<1>7. ASSUME NEW w \in Workers,
             LastCheckpointPasses(w)
      PROVE  LateInv'
    BY <1>7 DEF LastCheckpointPasses, is_cancel_requested
<1>8. ASSUME NEW w \in Workers,
             OperationFails(w)
      PROVE  LateInv'
    BY <1>8 DEF OperationFails
<1>9. ASSUME NEW w \in Workers,
             MarkFinished(w)
      PROVE  LateInv'
    BY <1>9 DEF MarkFinished, Outcome
<1>10. ASSUME NEW w \in Workers,
             Acknowledge(w)
      PROVE  LateInv'
    BY <1>10 DEF Acknowledge, IdleWorker
<1>11. ASSUME NEW w \in Workers,
             ExecutionLost(w)
      PROVE  LateInv'
    BY <1>11 DEF ExecutionLost, IdleWorker
<1>12. ASSUME WorkerCrash PROVE LateInv'
    BY <1>12 DEF WorkerCrash, IdleWorker
<1>13. CASE UNCHANGED <<row, exec>>
    BY <1>13
<1> QED
    BY <1>1, <1>2, <1>3, <1>4, <1>5, <1>6, <1>7, <1>8, <1>9, <1>10, <1>11,
        <1>12, <1>13
    DEF Next, HandlerNext, HandlerStep, Deliver, WorkerStep, vars, EnqueueBegin,
        EnqueueCheckUser, EnqueueCheckCooldown, SendTask, SendFails,
        RequestCancelRead, CancelRevoke, BotCrash, SkipTask, Restore, Duplicate,
        Tick, Requeue

\* No execution that started after a committed cancellation succeeds.
THEOREM LateStart == Spec => []LateStartNeverSucceeds
<1>1. Init => LateInv
    BY DEF Init, LateInv, IdleWorker
<1>2. TypeOK /\ Named /\ LateInv /\ [Next]_vars => LateInv'
    BY LateStep
<1>3. LateInv => LateStartNeverSucceeds
    BY DEF LateInv, LateStartNeverSucceeds
<1> QED
    BY <1>1, <1>2, <1>3, TypeCorrect, PTL DEF Spec

-----------------------------------------------------------------------------
(* A task cancelled before its start never runs                            *)

\* A status that only a started task can have, in the table or in the memory
\* of a handler that is about to commit a cancellation.
StartedInv ==
    /\ \A t \in Tasks : row[t].status \in {"running", "cancel_requested"}
                        => row[t].started_at
    /\ \A h \in Handlers : bot[h].pc = "cancel_commit" /\ bot[h].seen # "queued"
                           => row[bot[h].task].started_at

LEMMA StartedStep ==
    ASSUME TypeOK, Named, StartedInv, [Next]_vars PROVE StartedInv'
<1> DEFINE StartsKept == \A t \in Present : row[t].started_at => row'[t].started_at
<1>a. StartsKept
    BY RowsKept DEF RowKept, Present
<1> HIDE DEF StartsKept
<1> USE <1>a DEF StartsKept, StartedInv, TypeOK, Named, HandlerStates, Rows
<1>1. ASSUME NEW h \in Handlers, NEW u \in Users, NEW op \in Operations,
             EnqueueBegin(h, u, op)
      PROVE  StartedInv'
    BY <1>1 DEF EnqueueBegin, IdleHandler
<1>2. ASSUME NEW h \in Handlers,
             EnqueueCheckUser(h)
      PROVE  StartedInv'
    BY <1>2 DEF EnqueueCheckUser, IdleHandler
<1>3. ASSUME NEW h \in Handlers,
             EnqueueCheckCooldown(h)
      PROVE  StartedInv'
    BY <1>3, CooldownFrame DEF IdleHandler
<1>4. ASSUME NEW h \in Handlers,
             EnqueueInsert(h)
      PROVE  StartedInv'
    BY <1>4 DEF EnqueueInsert, NoRow
<1>5. ASSUME NEW h \in Handlers,
             SendTask(h)
      PROVE  StartedInv'
    BY <1>5 DEF SendTask
<1>6. ASSUME NEW h \in Handlers,
             SendFails(h)
      PROVE  StartedInv'
    BY <1>6 DEF SendFails, IdleHandler
<1>7. ASSUME NEW h \in Handlers,
             AttachCeleryId(h)
      PROVE  StartedInv'
    BY <1>7 DEF AttachCeleryId, IdleHandler, Present
<1>8. ASSUME NEW h \in Handlers, NEW u \in Users,
             RequestCancelRead(h, u)
      PROVE  StartedInv'
    BY <1>8 DEF RequestCancelRead, IdleHandler, Latest, ActiveOf, Active,
        IsActive, ACTIVE_TASK_STATUSES, Present
<1>9. ASSUME NEW h \in Handlers,
             RequestCancelCommit(h)
      PROVE  StartedInv'
    BY <1>9 DEF RequestCancelCommit, CancelStatus, Present
<1>10. ASSUME NEW h \in Handlers,
             CancelRevoke(h)
      PROVE  StartedInv'
    BY <1>10 DEF CancelRevoke, IdleHandler
<1>11. ASSUME BotCrash PROVE StartedInv'
    BY <1>11 DEF BotCrash, IdleHandler
<1>12. ASSUME NEW w \in Workers,
             MarkRunning(w)
      PROVE  StartedInv'
    BY <1>12 DEF MarkRunning, Present
<1>13. ASSUME NEW w \in Workers,
             MarkFinished(w)
      PROVE  StartedInv'
    BY <1>13 DEF MarkFinished, Outcome
<1>14. CASE UNCHANGED <<row, bot>>
    BY <1>14
<1> QED
    BY <1>1, <1>2, <1>3, <1>4, <1>5, <1>6, <1>7, <1>8, <1>9, <1>10, <1>11,
        <1>12, <1>13, <1>14
    DEF Next, HandlerNext, HandlerStep, Deliver, WorkerStep, vars, RunHeavyTask,
        SkipTask, CheckpointCancels, LastCheckpointPasses, OperationFails,
        Acknowledge, ExecutionLost, WorkerCrash, Restore, Duplicate, Tick,
        Requeue

LEMMA CancelledStaysCancelled ==
    ASSUME TypeOK, Named, StartedInv, [Next]_vars, NEW x \in Tasks,
           row[x].status = "cancelled", ~row[x].started_at, ~Executing(x)
    PROVE  /\ row'[x].status = "cancelled"
           /\ ~row'[x].started_at
           /\ \A w \in Workers : exec'[w].task # x
<1> DEFINE Goal == /\ row'[x].status = "cancelled"
                   /\ ~row'[x].started_at
                   /\ \A w \in Workers : exec'[w].task # x
<1> SUFFICES Goal
    OBVIOUS
<1> USE ConstantsAssumption DEF Executing, TypeOK, Named, Rows, Executions
<1>1. ASSUME NEW h \in Handlers,
             EnqueueInsert(h)
      PROVE  Goal
    BY <1>1 DEF EnqueueInsert
<1>2. ASSUME NEW h \in Handlers,
             AttachCeleryId(h)
      PROVE  Goal
    BY <1>2 DEF AttachCeleryId, IdleHandler
<1>3. ASSUME NEW h \in Handlers,
             RequestCancelCommit(h)
      PROVE  Goal
    BY <1>3 DEF RequestCancelCommit, CancelStatus, StartedInv
<1>4. ASSUME NEW w \in Workers, NEW t \in Tasks,
             RunHeavyTask(w, t)
      PROVE  Goal
    BY <1>4 DEF RunHeavyTask, CancelledBeforeStart
<1>5. ASSUME NEW w \in Workers,
             MarkRunning(w)
      PROVE  Goal
    BY <1>5 DEF MarkRunning
<1>6. ASSUME NEW w \in Workers,
             CheckpointCancels(w)
      PROVE  Goal
    BY <1>6 DEF CheckpointCancels
<1>7. ASSUME NEW w \in Workers,
             LastCheckpointPasses(w)
      PROVE  Goal
    BY <1>7 DEF LastCheckpointPasses
<1>8. ASSUME NEW w \in Workers,
             OperationFails(w)
      PROVE  Goal
    BY <1>8 DEF OperationFails
<1>9. ASSUME NEW w \in Workers,
             MarkFinished(w)
      PROVE  Goal
    BY <1>9 DEF MarkFinished, Outcome
<1>10. ASSUME NEW w \in Workers,
             Acknowledge(w)
      PROVE  Goal
    BY <1>10 DEF Acknowledge, IdleWorker
<1>11. ASSUME NEW w \in Workers,
             ExecutionLost(w)
      PROVE  Goal
    BY <1>11 DEF ExecutionLost, IdleWorker
<1>12. ASSUME WorkerCrash PROVE Goal
    BY <1>12 DEF WorkerCrash, IdleWorker
<1>13. CASE UNCHANGED <<row, exec>>
    BY <1>13
<1> QED
    BY <1>1, <1>2, <1>3, <1>4, <1>5, <1>6, <1>7, <1>8, <1>9, <1>10, <1>11,
        <1>12, <1>13
    DEF Next, HandlerNext, HandlerStep, Deliver, WorkerStep, vars, EnqueueBegin,
        EnqueueCheckUser, EnqueueCheckCooldown, SendTask, SendFails,
        RequestCancelRead, CancelRevoke, BotCrash, SkipTask, Restore, Duplicate,
        Tick, Requeue

\* Cancelled before its start means never started, under every disturbance.
THEOREM DeadOnArrival == Spec => CancelledBeforeStartNeverRuns
<1>1. Init => StartedInv
    BY DEF Init, StartedInv, IdleHandler, NoRow
<1>2. TypeOK /\ Named /\ StartedInv /\ [Next]_vars => StartedInv'
    BY StartedStep
<1> DEFINE Kept == \A t \in Tasks :
          row[t].status = "cancelled" /\ ~row[t].started_at /\ ~Executing(t)
          => /\ row'[t].status = "cancelled"
             /\ ~row'[t].started_at
             /\ \A w \in Workers : exec'[w].task # t
<1>3. TypeOK /\ Named /\ StartedInv /\ [Next]_vars => [Kept]_vars
    BY CancelledStaysCancelled
<1> QED
    BY <1>1, <1>2, <1>3, TypeCorrect, PTL DEF Spec, CancelledBeforeStartNeverRuns

LEMMA CancelFreesStep ==
    ASSUME TypeOK, Named, StartedInv, CancelFreesUnstarted, [Next]_vars
    PROVE  CancelFreesUnstarted'
<1> USE DEF CancelFreesUnstarted, Active, IsActive, ACTIVE_TASK_STATUSES, TypeOK, Rows
<1>1. ASSUME NEW h \in Handlers,
             EnqueueInsert(h)
      PROVE  CancelFreesUnstarted'
    BY <1>1 DEF EnqueueInsert, NoRow
<1>2. ASSUME NEW h \in Handlers,
             AttachCeleryId(h)
      PROVE  CancelFreesUnstarted'
    BY <1>2 DEF AttachCeleryId
<1>3. ASSUME NEW h \in Handlers,
             RequestCancelCommit(h)
      PROVE  CancelFreesUnstarted'
    BY <1>3 DEF RequestCancelCommit, CancelStatus, StartedInv, HandlerStates
<1>4. ASSUME NEW w \in Workers,
             MarkRunning(w)
      PROVE  CancelFreesUnstarted'
    BY <1>4 DEF MarkRunning
<1>5. ASSUME NEW w \in Workers,
             MarkFinished(w)
      PROVE  CancelFreesUnstarted'
    BY <1>5 DEF MarkFinished, Outcome
<1>6. CASE UNCHANGED row
    BY <1>6
<1> QED
    BY <1>1, <1>2, <1>3, <1>4, <1>5, <1>6
    DEF Next, HandlerNext, HandlerStep, Deliver, WorkerStep, vars, EnqueueBegin,
        EnqueueCheckUser, EnqueueCheckCooldown, SendTask, SendFails,
        RequestCancelRead, CancelRevoke, BotCrash, RunHeavyTask, SkipTask,
        CheckpointCancels, LastCheckpointPasses, OperationFails, Acknowledge,
        ExecutionLost, WorkerCrash, Restore, Duplicate, Tick, Requeue

\* A cancellation leaves an active row behind only if the task had started, under
\* every disturbance: what the handler read as "queued" is closed by its own commit.
THEOREM CancelFrees == Spec => []CancelFreesUnstarted
<1>1. Init => StartedInv /\ CancelFreesUnstarted
    BY DEF Init, StartedInv, IdleHandler, NoRow, CancelFreesUnstarted, Active,
       IsActive, ACTIVE_TASK_STATUSES
<1>2. TypeOK /\ Named /\ StartedInv /\ CancelFreesUnstarted /\ [Next]_vars
      => (StartedInv /\ CancelFreesUnstarted)'
    BY StartedStep, CancelFreesStep
<1> QED
    BY <1>1, <1>2, TypeCorrect, PTL DEF Spec

-----------------------------------------------------------------------------
(* What orphans a task, and how many                                       *)

Live(w) == exec[w].pc # "idle"

\* A send that fails, a bot that dies between the commit and the send, an execution
\* that is lost, a message that is delivered twice.
Mislaid == {"send_fails", "bot_crash", "lost", "duplicate"}

\* Only a cancellation revokes.
RevokedIsFlagged ==
    /\ \A t \in revoked : t \in Present /\ row[t].cancel_requested
    /\ \A h \in Handlers : bot[h].pc = "revoke" => row[bot[h].task].cancel_requested

\* A task's message is about to be sent by one handler, or waits, or is
\* unacknowledged and then at most one worker executes it.
OneMessage(t) ==
    /\ t \notin queue \cap unacked
    /\ \A w \in Workers : Live(w) /\ exec[w].task = t => t \in unacked
    /\ \A w1, w2 \in Workers : /\ w1 # w2 /\ Live(w1) /\ Live(w2)
                               /\ exec[w1].task = t
                               => exec[w2].task # t
    /\ Sending(t) => t \notin queue \cup unacked
    /\ \A h1, h2 \in Handlers : /\ h1 # h2 /\ bot[h1].pc = "send" /\ bot[h2].pc = "send"
                                /\ bot[h1].task = t
                                => bot[h2].task # t

\* What is about to be acknowledged is over.
OutcomeWritten(t) ==
    \A w \in Workers : exec[w].pc = "finished" /\ exec[w].task = t =>
          ~IsActive(t) \/ row[t].cancel_requested

NotOrphaned(t) == IsActive(t) => row[t].cancel_requested \/ Held(t)

\* The task by task inductive form: a task without a mishap of its own stays in
\* order, whatever happens to the others.
InOrder(t) == OneMessage(t) /\ OutcomeWritten(t) /\ NotOrphaned(t)

LEMMA SpendCounts ==
    ASSUME left \in [Disturbances -> Nat], NEW k \in Disturbances, Spend(k)
    PROVE  /\ left'[k] = left[k] - 1 /\ left[k] > 0 /\ left'[k] # left[k]
           /\ \A j \in Disturbances \ {k} : left'[j] = left[j]
  BY DEF Spend

LEMMA RevokedStep ==
    ASSUME TypeOK, Named, RevokedIsFlagged, [Next]_vars PROVE RevokedIsFlagged'
<1> DEFINE FlagsKept == \A t \in Present :
                            row[t].cancel_requested => row'[t].cancel_requested
<1>a. FlagsKept /\ Present \subseteq Present'
    BY RowsKept, PresentGrows DEF RowKept, Present
<1>b. revoked' \subseteq revoked \/ \E h \in Handlers : CancelRevoke(h)
    BY DEF Next, HandlerNext, HandlerStep, Deliver, WorkerStep, vars, EnqueueBegin,
        EnqueueCheckUser, EnqueueCheckCooldown, EnqueueInsert, SendTask, SendFails,
        AttachCeleryId, RequestCancelRead, RequestCancelCommit, BotCrash,
        RunHeavyTask, SkipTask, MarkRunning, CheckpointCancels,
        LastCheckpointPasses, OperationFails, MarkFinished, Acknowledge,
        ExecutionLost, WorkerCrash, Restore, Duplicate, Tick, Requeue
<1>c. ASSUME NEW h \in Handlers, bot'[h].pc = "revoke"
      PROVE  \/ bot[h].pc = "revoke" /\ bot'[h].task = bot[h].task
             \/ RequestCancelCommit(h)
    <2> DEFINE Goal == \/ bot[h].pc = "revoke" /\ bot'[h].task = bot[h].task
                       \/ RequestCancelCommit(h)
    <2> SUFFICES Goal
        OBVIOUS
    <2> USE <1>c DEF TypeOK, HandlerStates
    <2>1. ASSUME NEW g \in Handlers, NEW u \in Users, NEW op \in Operations,
                 EnqueueBegin(g, u, op)
          PROVE Goal
        BY <2>1 DEF EnqueueBegin, IdleHandler
    <2>2. ASSUME NEW g \in Handlers,
                 EnqueueCheckUser(g)
          PROVE Goal
        BY <2>2 DEF EnqueueCheckUser, IdleHandler
    <2>3. ASSUME NEW g \in Handlers,
                 EnqueueCheckCooldown(g)
          PROVE Goal
        BY <2>3, CooldownFrame DEF IdleHandler
    <2>4. ASSUME NEW g \in Handlers,
                 EnqueueInsert(g)
          PROVE Goal
        BY <2>4 DEF EnqueueInsert
    <2>5. ASSUME NEW g \in Handlers,
                 SendTask(g)
          PROVE Goal
        BY <2>5 DEF SendTask
    <2>6. ASSUME NEW g \in Handlers,
                 SendFails(g)
          PROVE Goal
        BY <2>6 DEF SendFails, IdleHandler
    <2>7. ASSUME NEW g \in Handlers,
                 AttachCeleryId(g)
          PROVE Goal
        BY <2>7 DEF AttachCeleryId, IdleHandler
    <2>8. ASSUME NEW g \in Handlers, NEW u \in Users,
                 RequestCancelRead(g, u)
          PROVE Goal
        BY <2>8 DEF RequestCancelRead, IdleHandler
    <2>9. ASSUME NEW g \in Handlers,
                 RequestCancelCommit(g)
          PROVE Goal
        BY <2>9 DEF RequestCancelCommit
    <2>10. ASSUME NEW g \in Handlers,
                 CancelRevoke(g)
          PROVE Goal
        BY <2>10 DEF CancelRevoke, IdleHandler
    <2>11. ASSUME BotCrash PROVE Goal
        BY <2>11 DEF BotCrash, IdleHandler
    <2>12. CASE UNCHANGED bot
        BY <2>12
    <2> HIDE DEF Goal, TypeOK, HandlerStates
    <2> QED
        BY <2>1, <2>2, <2>3, <2>4, <2>5, <2>6, <2>7, <2>8, <2>9, <2>10, <2>11, <2>12
        DEF Next, HandlerNext, HandlerStep, Deliver, WorkerStep, vars, RunHeavyTask,
            SkipTask, MarkRunning, CheckpointCancels, LastCheckpointPasses,
            OperationFails, MarkFinished, Acknowledge, ExecutionLost, WorkerCrash,
            Restore, Duplicate, Tick, Requeue
<1> HIDE DEF FlagsKept
<1>1. \A t \in revoked' : t \in Present' /\ row'[t].cancel_requested
    <2>1. CASE revoked' \subseteq revoked
        BY <1>a, <2>1 DEF RevokedIsFlagged, FlagsKept
    <2>2. ASSUME NEW h \in Handlers, CancelRevoke(h)
          PROVE  \A t \in revoked' : t \in Present' /\ row'[t].cancel_requested
        BY <1>a, <2>2 DEF RevokedIsFlagged, FlagsKept, CancelRevoke, Named
    <2> QED
        BY <1>b, <2>1, <2>2
<1>2. ASSUME NEW h \in Handlers, bot'[h].pc = "revoke"
      PROVE  row'[bot'[h].task].cancel_requested
    <2>1. CASE bot[h].pc = "revoke" /\ bot'[h].task = bot[h].task
        BY <1>a, <2>1 DEF RevokedIsFlagged, FlagsKept, Named
    <2>2. CASE RequestCancelCommit(h)
        BY <2>2 DEF RequestCancelCommit, TypeOK, Named, Present, HandlerStates, Rows
    <2> QED
        BY <1>c, <1>2, <2>1, <2>2
<1> QED
    BY <1>1, <1>2 DEF RevokedIsFlagged

LEMMA InOrderStep ==
    ASSUME TypeOK, Named, RevokedIsFlagged, [Next]_vars,
           \A k \in Mislaid : left'[k] = left[k],
           NEW x \in Tasks, InOrder(x)
    PROVE  InOrder(x)'
<1>a. row[x].status # "absent" /\ row[x].cancel_requested => row'[x].cancel_requested
    BY RowsKept DEF RowKept
<1> USE ConstantsAssumption DEF InOrder, TypeOK, Named, Live, Sending
<1>1. ASSUME NEW h \in Handlers, NEW u \in Users, NEW op \in Operations,
             EnqueueBegin(h, u, op)
      PROVE  InOrder(x)'
    <2>1. OneMessage(x)'
        BY <1>1 DEF EnqueueBegin, IdleHandler, OneMessage, HandlerStates
    <2>2. OutcomeWritten(x)'
        BY <1>1 DEF EnqueueBegin, IdleHandler, OutcomeWritten, IsActive
    <2>3. NotOrphaned(x)'
        BY <1>1 DEF EnqueueBegin, IdleHandler, NotOrphaned, IsActive, Held,
            Sending, OneMessage, OutcomeWritten, HandlerStates
    <2> QED BY <2>1, <2>2, <2>3 DEF InOrder
<1>2. ASSUME NEW h \in Handlers,
             EnqueueCheckUser(h)
      PROVE  InOrder(x)'
    <2>1. OneMessage(x)'
        BY <1>2 DEF EnqueueCheckUser, IdleHandler, OneMessage, HandlerStates
    <2>2. OutcomeWritten(x)'
        BY <1>2 DEF EnqueueCheckUser, IdleHandler, OutcomeWritten, IsActive
    <2>3. NotOrphaned(x)'
        BY <1>2 DEF EnqueueCheckUser, IdleHandler, NotOrphaned, IsActive, Held,
            Sending, OneMessage, OutcomeWritten, HandlerStates
    <2> QED BY <2>1, <2>2, <2>3 DEF InOrder
<1>3. ASSUME NEW h \in Handlers,
             EnqueueCheckCooldown(h)
      PROVE  InOrder(x)'
    <2>a. /\ UNCHANGED <<queue, unacked, exec>>
          /\ \A k \in Handlers : bot'[k].pc = "send" => bot'[k] = bot[k]
        <3>1. CASE bot' = [bot EXCEPT ![h] = IdleHandler]
            BY <1>3, <3>1, CooldownFrame DEF IdleHandler, HandlerStates
        <3>2. CASE bot' = [bot EXCEPT ![h].pc = "insert"]
            BY <1>3, <3>2, CooldownFrame DEF HandlerStates
        <3> QED
            BY <1>3, <3>1, <3>2, CooldownFrame
    <2>1. OneMessage(x)'
        BY <2>a DEF OneMessage
    <2>2. OutcomeWritten(x)'
        BY <1>3, CooldownFrame DEF IdleHandler, OutcomeWritten, IsActive
    <2>3. NotOrphaned(x)'
        BY <1>3, CooldownFrame DEF IdleHandler, NotOrphaned, IsActive, Held,
            Sending, OneMessage, OutcomeWritten, HandlerStates
    <2> QED BY <2>1, <2>2, <2>3 DEF InOrder
<1>4. ASSUME NEW h \in Handlers,
             EnqueueInsert(h)
      PROVE  InOrder(x)'
    <2>1. OneMessage(x)'
        BY <1>4 DEF EnqueueInsert, NoRow, Present, OneMessage, HandlerStates
    <2>2. OutcomeWritten(x)'
        BY <1>4, <1>a DEF EnqueueInsert, NoRow, Present, OutcomeWritten,
            IsActive, ACTIVE_TASK_STATUSES, Rows, OneMessage
    <2>3. NotOrphaned(x)'
        BY <1>4, <1>a DEF EnqueueInsert, NoRow, Present, NotOrphaned, IsActive,
            Held, Sending, OneMessage, OutcomeWritten, ACTIVE_TASK_STATUSES,
            Rows, HandlerStates
    <2> QED BY <2>1, <2>2, <2>3 DEF InOrder
<1>5. ASSUME NEW h \in Handlers,
             SendTask(h)
      PROVE  InOrder(x)'
    <2>1. OneMessage(x)'
        BY <1>5 DEF SendTask, OneMessage, HandlerStates
    <2>2. OutcomeWritten(x)'
        BY <1>5 DEF SendTask, OutcomeWritten, IsActive
    <2>3. NotOrphaned(x)'
        BY <1>5 DEF SendTask, NotOrphaned, IsActive, Held, Sending, OneMessage,
            OutcomeWritten, HandlerStates
    <2> QED BY <2>1, <2>2, <2>3 DEF InOrder
<1>6. ASSUME NEW h \in Handlers,
             AttachCeleryId(h)
      PROVE  InOrder(x)'
    <2>1. OneMessage(x)'
        BY <1>6 DEF AttachCeleryId, IdleHandler, OneMessage, HandlerStates
    <2>2. OutcomeWritten(x)'
        BY <1>6, <1>a DEF AttachCeleryId, IdleHandler, OutcomeWritten, IsActive,
            ACTIVE_TASK_STATUSES, Rows, OneMessage
    <2>3. NotOrphaned(x)'
        BY <1>6, <1>a DEF AttachCeleryId, IdleHandler, NotOrphaned, IsActive,
            Held, Sending, OneMessage, OutcomeWritten, ACTIVE_TASK_STATUSES,
            Rows, HandlerStates
    <2> QED BY <2>1, <2>2, <2>3 DEF InOrder
<1>7. ASSUME NEW h \in Handlers, NEW u \in Users,
             RequestCancelRead(h, u)
      PROVE  InOrder(x)'
    <2>1. OneMessage(x)'
        BY <1>7 DEF RequestCancelRead, IdleHandler, OneMessage, HandlerStates
    <2>2. OutcomeWritten(x)'
        BY <1>7 DEF RequestCancelRead, IdleHandler, OutcomeWritten, IsActive
    <2>3. NotOrphaned(x)'
        BY <1>7 DEF RequestCancelRead, IdleHandler, NotOrphaned, IsActive, Held,
            Sending, OneMessage, OutcomeWritten, HandlerStates
    <2> QED BY <2>1, <2>2, <2>3 DEF InOrder
<1>8. ASSUME NEW h \in Handlers,
             RequestCancelCommit(h)
      PROVE  InOrder(x)'
    <2>1. OneMessage(x)'
        BY <1>8 DEF RequestCancelCommit, Present, OneMessage, HandlerStates
    <2>2. OutcomeWritten(x)'
        BY <1>8, <1>a DEF RequestCancelCommit, Present, OutcomeWritten,
            IsActive, ACTIVE_TASK_STATUSES, Rows, OneMessage
    <2>3. NotOrphaned(x)'
        BY <1>8, <1>a DEF RequestCancelCommit, Present, NotOrphaned, IsActive,
            Held, Sending, OneMessage, OutcomeWritten, ACTIVE_TASK_STATUSES,
            Rows, HandlerStates
    <2> QED BY <2>1, <2>2, <2>3 DEF InOrder
<1>9. ASSUME NEW h \in Handlers,
             CancelRevoke(h)
      PROVE  InOrder(x)'
    <2>1. OneMessage(x)'
        BY <1>9 DEF CancelRevoke, IdleHandler, OneMessage, HandlerStates
    <2>2. OutcomeWritten(x)'
        BY <1>9 DEF CancelRevoke, IdleHandler, OutcomeWritten, IsActive
    <2>3. NotOrphaned(x)'
        BY <1>9 DEF CancelRevoke, IdleHandler, NotOrphaned, IsActive, Held,
            Sending, OneMessage, OutcomeWritten, HandlerStates
    <2> QED BY <2>1, <2>2, <2>3 DEF InOrder
<1>10. ASSUME NEW w \in Workers, NEW t \in Tasks,
             RunHeavyTask(w, t)
      PROVE  InOrder(x)'
    <2>1. OneMessage(x)'
        BY <1>10 DEF RunHeavyTask, Delivered, OneMessage, Executions
    <2>2. OutcomeWritten(x)'
        BY <1>10 DEF RunHeavyTask, Delivered, OutcomeWritten, IsActive,
            ACTIVE_TASK_STATUSES, Rows, OneMessage, Executions
    <2>3. NotOrphaned(x)'
        BY <1>10 DEF RunHeavyTask, Delivered, NotOrphaned, IsActive, Held,
            Sending, OneMessage, OutcomeWritten, Executions
    <2> QED BY <2>1, <2>2, <2>3 DEF InOrder
<1>11. ASSUME NEW w \in Workers, NEW t \in Tasks,
             SkipTask(w, t)
      PROVE  InOrder(x)'
    <2>1. OneMessage(x)'
        BY <1>11 DEF SkipTask, CancelledBeforeStart, RevokedIsFlagged,
            OneMessage
    <2>2. OutcomeWritten(x)'
        BY <1>11 DEF SkipTask, CancelledBeforeStart, RevokedIsFlagged,
            OutcomeWritten, IsActive
    <2>3. NotOrphaned(x)'
        BY <1>11 DEF SkipTask, CancelledBeforeStart, RevokedIsFlagged,
            NotOrphaned, IsActive, Held, Sending, OneMessage, OutcomeWritten,
            ACTIVE_TASK_STATUSES, Rows
    <2> QED BY <2>1, <2>2, <2>3 DEF InOrder
<1>12. ASSUME NEW w \in Workers,
             MarkRunning(w)
      PROVE  InOrder(x)'
    <2>1. OneMessage(x)'
        BY <1>12 DEF MarkRunning, OneMessage, Executions
    <2>2. OutcomeWritten(x)'
        BY <1>12, <1>a DEF MarkRunning, OutcomeWritten, IsActive,
            ACTIVE_TASK_STATUSES, Rows, OneMessage, Executions
    <2>3. NotOrphaned(x)'
        BY <1>12, <1>a DEF MarkRunning, NotOrphaned, IsActive, Held, Sending,
            OneMessage, OutcomeWritten, ACTIVE_TASK_STATUSES, Rows, Executions
    <2> QED BY <2>1, <2>2, <2>3 DEF InOrder
<1>13. ASSUME NEW w \in Workers,
             CheckpointCancels(w)
      PROVE  InOrder(x)'
    <2>1. OneMessage(x)'
        BY <1>13 DEF CheckpointCancels, OneMessage, Executions
    <2>2. OutcomeWritten(x)'
        BY <1>13 DEF CheckpointCancels, OutcomeWritten, IsActive,
            ACTIVE_TASK_STATUSES, Rows, OneMessage, Executions
    <2>3. NotOrphaned(x)'
        BY <1>13 DEF CheckpointCancels, NotOrphaned, IsActive, Held, Sending,
            OneMessage, OutcomeWritten, Executions
    <2> QED BY <2>1, <2>2, <2>3 DEF InOrder
<1>14. ASSUME NEW w \in Workers,
             LastCheckpointPasses(w)
      PROVE  InOrder(x)'
    <2>1. OneMessage(x)'
        BY <1>14 DEF LastCheckpointPasses, OneMessage, Executions
    <2>2. OutcomeWritten(x)'
        BY <1>14 DEF LastCheckpointPasses, OutcomeWritten, IsActive,
            ACTIVE_TASK_STATUSES, Rows, OneMessage, Executions
    <2>3. NotOrphaned(x)'
        BY <1>14 DEF LastCheckpointPasses, NotOrphaned, IsActive, Held, Sending,
            OneMessage, OutcomeWritten, Executions
    <2> QED BY <2>1, <2>2, <2>3 DEF InOrder
<1>15. ASSUME NEW w \in Workers,
             OperationFails(w)
      PROVE  InOrder(x)'
    <2>1. OneMessage(x)'
        BY <1>15 DEF OperationFails, OneMessage, Executions
    <2>2. OutcomeWritten(x)'
        BY <1>15 DEF OperationFails, OutcomeWritten, IsActive,
            ACTIVE_TASK_STATUSES, Rows, OneMessage, Executions
    <2>3. NotOrphaned(x)'
        BY <1>15 DEF OperationFails, NotOrphaned, IsActive, Held, Sending,
            OneMessage, OutcomeWritten, Executions
    <2> QED BY <2>1, <2>2, <2>3 DEF InOrder
<1>16. ASSUME NEW w \in Workers,
             MarkFinished(w)
      PROVE  InOrder(x)'
    <2>1. OneMessage(x)'
        BY <1>16 DEF MarkFinished, Outcome, OneMessage, Executions
    <2>2. OutcomeWritten(x)'
        BY <1>16, <1>a DEF MarkFinished, Outcome, OutcomeWritten, IsActive,
            ACTIVE_TASK_STATUSES, Rows, OneMessage, Executions
    <2>3. NotOrphaned(x)'
        BY <1>16, <1>a DEF MarkFinished, Outcome, NotOrphaned, IsActive, Held,
            Sending, OneMessage, OutcomeWritten, ACTIVE_TASK_STATUSES, Rows,
            Executions
    <2> QED BY <2>1, <2>2, <2>3 DEF InOrder
<1>17. ASSUME NEW w \in Workers,
             Acknowledge(w)
      PROVE  InOrder(x)'
    <2>1. OneMessage(x)'
        BY <1>17 DEF Acknowledge, IdleWorker, OneMessage, Executions
    <2>2. OutcomeWritten(x)'
        BY <1>17 DEF Acknowledge, IdleWorker, OutcomeWritten, IsActive,
            ACTIVE_TASK_STATUSES, Rows, OneMessage, Executions
    <2>3. NotOrphaned(x)'
        BY <1>17 DEF Acknowledge, IdleWorker, NotOrphaned, IsActive, Held,
            Sending, OneMessage, OutcomeWritten, Executions
    <2> QED BY <2>1, <2>2, <2>3 DEF InOrder
<1>18. ASSUME WorkerCrash PROVE InOrder(x)'
    <2>1. OneMessage(x)'
        BY <1>18 DEF WorkerCrash, IdleWorker, OneMessage, Executions
    <2>2. OutcomeWritten(x)'
        BY <1>18 DEF WorkerCrash, IdleWorker, OutcomeWritten, IsActive,
            ACTIVE_TASK_STATUSES, Rows, OneMessage, Executions
    <2>3. NotOrphaned(x)'
        BY <1>18 DEF WorkerCrash, IdleWorker, NotOrphaned, IsActive, Held,
            Sending, OneMessage, OutcomeWritten, Executions
    <2> QED BY <2>1, <2>2, <2>3 DEF InOrder
<1>19. ASSUME NEW t \in Tasks,
             Restore(t)
      PROVE  InOrder(x)'
    <2>1. OneMessage(x)'
        BY <1>19 DEF Restore, Requeue, Executing, OneMessage
    <2>2. OutcomeWritten(x)'
        BY <1>19 DEF Restore, Requeue, Executing, OutcomeWritten, IsActive
    <2>3. NotOrphaned(x)'
        BY <1>19 DEF Restore, Requeue, Executing, NotOrphaned, IsActive, Held,
            Sending, OneMessage, OutcomeWritten
    <2> QED BY <2>1, <2>2, <2>3 DEF InOrder
<1>20. ASSUME NEW h \in Handlers, SendFails(h) PROVE InOrder(x)'
    BY <1>20, SpendCounts DEF SendFails, Mislaid, Disturbances
<1>21. ASSUME BotCrash PROVE InOrder(x)'
    BY <1>21, SpendCounts DEF BotCrash, Mislaid, Disturbances
<1>22. ASSUME NEW w \in Workers, ExecutionLost(w) PROVE InOrder(x)'
    BY <1>22, SpendCounts DEF ExecutionLost, Mislaid, Disturbances
<1>23. ASSUME NEW t \in Tasks, Duplicate(t) PROVE InOrder(x)'
    BY <1>23, SpendCounts DEF Duplicate, Mislaid, Disturbances
<1>24. CASE UNCHANGED <<row, queue, unacked, bot, exec>>
    BY <1>24 DEF InOrder, OneMessage, OutcomeWritten, NotOrphaned, IsActive, Held,
        Sending
<1> QED
    BY <1>1, <1>2, <1>3, <1>4, <1>5, <1>6, <1>7, <1>8, <1>9, <1>10, <1>11,
        <1>12, <1>13, <1>14, <1>15, <1>16, <1>17, <1>18, <1>19, <1>20, <1>21,
        <1>22, <1>23, <1>24 DEF Next, HandlerNext, HandlerStep, Deliver,
        WorkerStep, vars, Tick

\* A mishap puts no other task out of order than its own.
LEMMA MishapIsLocal ==
    ASSUME TypeOK, Named, NEW x \in Tasks, InOrder(x)
    PROVE  /\ \A h \in Handlers : SendFails(h) /\ bot[h].task # x => InOrder(x)'
           /\ BotCrash /\ ~Sending(x) => InOrder(x)'
           /\ \A w \in Workers : ExecutionLost(w) /\ exec[w].task # x => InOrder(x)'
           /\ \A t \in Tasks : Duplicate(t) /\ t # x => InOrder(x)'
<1> USE ConstantsAssumption DEF InOrder, TypeOK, Live, Sending, IsActive, Held
<1>1. ASSUME NEW h \in Handlers, SendFails(h), bot[h].task # x PROVE InOrder(x)'
    BY <1>1 DEF SendFails, IdleHandler, OneMessage, OutcomeWritten, NotOrphaned,
        HandlerStates
<1>2. ASSUME BotCrash, ~Sending(x) PROVE InOrder(x)'
    BY <1>2 DEF BotCrash, IdleHandler, OneMessage, OutcomeWritten, NotOrphaned
<1>3. ASSUME NEW w \in Workers, ExecutionLost(w), exec[w].task # x PROVE InOrder(x)'
    BY <1>3 DEF ExecutionLost, IdleWorker, OneMessage, OutcomeWritten, NotOrphaned,
        Executions
<1>4. ASSUME NEW t \in Tasks, Duplicate(t), t # x PROVE InOrder(x)'
    BY <1>4 DEF Duplicate, Requeue, OneMessage, OutcomeWritten, NotOrphaned
<1> QED
    BY <1>1, <1>2, <1>3, <1>4

LEMMA MishapOrNone ==
    ASSUME TypeOK, [Next]_vars
    PROVE  \/ \A k \in Mislaid : left'[k] = left[k]
           \/ \E h \in Handlers : SendFails(h)
           \/ \E w \in Workers : ExecutionLost(w)
           \/ \E t \in Tasks : Duplicate(t)
           \/ BotCrash
<1>1. ASSUME NEW h \in Handlers, NEW u \in Users, RequestCancelRead(h, u)
      PROVE  \A k \in Mislaid : left'[k] = left[k]
    BY <1>1, SpendCounts DEF RequestCancelRead, TypeOK, Mislaid, Disturbances
<1>2. ASSUME WorkerCrash PROVE \A k \in Mislaid : left'[k] = left[k]
    BY <1>2, SpendCounts DEF WorkerCrash, TypeOK, Mislaid, Disturbances
<1>3. CASE UNCHANGED left
    BY <1>3
<1> QED
    BY <1>1, <1>2, <1>3
    DEF Next, HandlerNext, HandlerStep, Deliver, WorkerStep, vars, EnqueueBegin,
        EnqueueCheckUser, EnqueueCheckCooldown, EnqueueInsert, SendTask,
        AttachCeleryId, RequestCancelCommit, CancelRevoke, RunHeavyTask, SkipTask,
        MarkRunning, CheckpointCancels, LastCheckpointPasses, OperationFails,
        MarkFinished, Acknowledge, Restore, Tick

Disordered == {t \in Tasks : ~InOrder(t)}

Losses ==
    Spent("send_fails") + Spent("lost") + Spent("duplicate")
    + Spent("bot_crash") * Cardinality(Handlers)

LEMMA LossesTyped ==
    ASSUME TypeOK, IsFiniteSet(Handlers) PROVE Losses \in Int
<1>1. Cardinality(Handlers) \in Nat
    BY FS_CardinalityType
<1>2. \A k \in Disturbances : Spent(k) \in Int
    BY ConstantsAssumption DEF TypeOK, Spent
<1>3. \A s \in Int : s * Cardinality(Handlers) \in Int
    BY <1>1
<1> QED
    BY <1>2, <1>3 DEF Losses, Disturbances

\* What a disturbance adds to Losses.
LEMMA LossesCount ==
    ASSUME TypeOK, IsFiniteSet(Handlers),
           left' \in [Disturbances -> Nat]
    PROVE  /\ Losses \in Int /\ Losses' \in Int
           /\ (\A k \in Mislaid : left'[k] = left[k]) => Losses' = Losses
           /\ Spend("send_fails") \/ Spend("lost") \/ Spend("duplicate")
              => Losses' = Losses + 1
           /\ Spend("bot_crash") => Losses' = Losses + Cardinality(Handlers)
<1> DEFINE c == Cardinality(Handlers)
<1>1. c \in Nat
    BY FS_CardinalityType
<1>2. \A k \in Disturbances : Spent(k) \in Int /\ Spent(k)' \in Int
    BY ConstantsAssumption DEF TypeOK, Spent
<1>3. \A k \in Disturbances : /\ left'[k] = left[k] => Spent(k)' = Spent(k)
                              /\ Spend(k) => Spent(k)' = Spent(k) + 1
    BY ConstantsAssumption, SpendCounts DEF TypeOK, Spent
<1>4. ASSUME NEW k \in Disturbances, NEW j \in Disturbances \ {k}, Spend(k)
      PROVE  Spent(j)' = Spent(j)
    BY <1>4, <1>3, SpendCounts DEF TypeOK
<1>5. \A s \in Int : s * c \in Int /\ (s + 1) * c = s * c + c
    BY <1>1
<1> HIDE DEF c
<1>6. Losses = Spent("send_fails") + Spent("lost") + Spent("duplicate")
               + Spent("bot_crash") * c
    BY DEF Losses, c
<1>7. Losses' = Spent("send_fails")' + Spent("lost")' + Spent("duplicate")'
                + Spent("bot_crash")' * c
    BY DEF Losses, c
<1>8. {"send_fails", "lost", "duplicate", "bot_crash"} \subseteq Disturbances
    BY DEF Disturbances
<1> HIDE DEF Losses, Spent, Spend
<1>9. Losses \in Int /\ Losses' \in Int
    BY <1>2, <1>5, <1>6, <1>7, <1>8
<1>10. ASSUME \A k \in Mislaid : left'[k] = left[k] PROVE Losses' = Losses
    BY <1>3, <1>6, <1>7, <1>8, <1>10 DEF Mislaid
<1>11. ASSUME NEW k \in {"send_fails", "lost", "duplicate"}, Spend(k)
       PROVE  Losses' = Losses + 1
    <2>1. /\ Spent(k)' = Spent(k) + 1
          /\ \A j \in Disturbances \ {k} : Spent(j)' = Spent(j)
        BY <1>3, <1>4, <1>8, <1>11
    <2>2. Spent("bot_crash")' = Spent("bot_crash")
        BY <2>1, <1>8
    <2>3. Spent("bot_crash") * c \in Int
        BY <1>2, <1>5, <1>8
    <2> QED
        BY <1>2, <1>6, <1>7, <1>8, <2>1, <2>2, <2>3
<1>12. ASSUME Spend("bot_crash") PROVE Losses' = Losses + c
    <2>1. /\ Spent("bot_crash")' = Spent("bot_crash") + 1
          /\ \A j \in Disturbances \ {"bot_crash"} : Spent(j)' = Spent(j)
        BY <1>3, <1>4, <1>8, <1>12
    <2>2. Spent("bot_crash")' * c = Spent("bot_crash") * c + c
        BY <2>1, <1>2, <1>5, <1>8
    <2>3. Spent("bot_crash") * c \in Int
        BY <1>2, <1>5, <1>8
    <2> QED
        BY <1>1, <1>2, <1>6, <1>7, <1>8, <2>1, <2>2, <2>3
<1> QED
    BY <1>9, <1>10, <1>11, <1>12 DEF c

\* What a finite set indexes is no larger.
LEMMA IndexedBound ==
    ASSUME NEW S, IsFiniteSet(S), NEW f, NEW Z, \A z \in Z : \E s \in S : f[s] = z
    PROVE  /\ IsFiniteSet(Z)
           /\ Cardinality(Z) \in Nat /\ Cardinality(S) \in Nat
           /\ Cardinality(Z) <= Cardinality(S)
<1> DEFINE T == {f[s] : s \in S}
           g == [s \in S |-> f[s]]
<1>1. g \in Surjection(S, T)
    BY DEF Surjection
<1>2. IsFiniteSet(T) /\ Cardinality(T) <= Cardinality(S)
    BY <1>1, FS_Surjection
<1>3. Z \subseteq T
    OBVIOUS
<1> HIDE DEF T
<1>4. IsFiniteSet(Z) /\ Cardinality(Z) <= Cardinality(T)
    BY <1>2, <1>3, FS_Subset
<1> QED
    BY <1>2, <1>4, FS_CardinalityType

LEMMA SmallUnion ==
    ASSUME NEW S, NEW T, NEW Z, IsFiniteSet(T), IsFiniteSet(Z), S \subseteq T \cup Z
    PROVE  /\ IsFiniteSet(S)
           /\ Cardinality(S) <= Cardinality(T) + Cardinality(Z)
<1>1. /\ IsFiniteSet(T \cup Z) /\ IsFiniteSet(T \cap Z)
      /\ Cardinality(T \cup Z) = Cardinality(T) + Cardinality(Z) - Cardinality(T \cap Z)
    BY FS_Union, FS_Subset
<1>2. IsFiniteSet(S) /\ Cardinality(S) <= Cardinality(T \cup Z)
    BY <1>1, FS_Subset
<1> QED
    BY <1>1, <1>2, FS_CardinalityType

\* Every step puts at most as many tasks out of order as it adds to Losses.
LEMMA DisorderStep ==
    ASSUME TypeOK, Named, RevokedIsFlagged, [Next]_vars,
           IsFiniteSet(Handlers)
    PROVE  \E Z \in SUBSET Tasks :
              /\ IsFiniteSet(Z)
              /\ Disordered' \subseteq Disordered \cup Z
              /\ Cardinality(Z) <= Losses' - Losses
<1> DEFINE Goal == \E Z \in SUBSET Tasks :
              /\ IsFiniteSet(Z)
              /\ Disordered' \subseteq Disordered \cup Z
              /\ Cardinality(Z) <= Losses' - Losses
<1> SUFFICES Goal
    OBVIOUS
<1>0. /\ IsFiniteSet({}) /\ Cardinality({}) = 0
      /\ \A t \in Tasks : IsFiniteSet({t}) /\ Cardinality({t}) = 1
    BY FS_EmptySet, FS_Singleton
<1>a. left' \in [Disturbances -> Nat]
    BY TypeStep DEF TypeOK
<1>b. ASSUME NEW t \in Tasks, Disordered' \subseteq Disordered \cup {t},
             Losses' = Losses + 1
      PROVE  Goal
    <2> DEFINE Z == {t}
    <2>1. /\ Z \in SUBSET Tasks /\ IsFiniteSet(Z) /\ Cardinality(Z) = 1
          /\ Disordered' \subseteq Disordered \cup Z
        BY <1>0, <1>b
    <2> HIDE DEF Z
    <2> QED
        BY <1>b, <2>1, <1>a, LossesCount
<1>1. CASE \A k \in Mislaid : left'[k] = left[k]
    <2>1. Disordered' \subseteq Disordered
        BY <1>1, InOrderStep DEF Disordered
    <2> QED
        BY <1>0, <1>1, <2>1, <1>a, LossesCount
<1>2. ASSUME NEW h \in Handlers, SendFails(h) PROVE Goal
    <2>1. bot[h].task \in Tasks
        BY <1>2 DEF SendFails, Named, Present
    <2>2. Disordered' \subseteq Disordered \cup {bot[h].task}
        BY <1>2, MishapIsLocal DEF Disordered
    <2>3. Losses' = Losses + 1
        BY <1>2, <1>a, LossesCount DEF SendFails
    <2> QED
        BY <2>1, <2>2, <2>3, <1>b
<1>3. ASSUME NEW w \in Workers, ExecutionLost(w) PROVE Goal
    <2>1. exec[w].task \in Tasks
        BY <1>3 DEF ExecutionLost, Named, Present
    <2>2. Disordered' \subseteq Disordered \cup {exec[w].task}
        BY <1>3, MishapIsLocal DEF Disordered
    <2>3. Losses' = Losses + 1
        BY <1>3, <1>a, LossesCount DEF ExecutionLost
    <2> QED
        BY <2>1, <2>2, <2>3, <1>b
<1>4. ASSUME NEW t \in Tasks, Duplicate(t) PROVE Goal
    <2>1. Disordered' \subseteq Disordered \cup {t}
        BY <1>4, MishapIsLocal DEF Disordered
    <2>2. Losses' = Losses + 1
        BY <1>4, <1>a, LossesCount DEF Duplicate
    <2> QED
        BY <2>1, <2>2, <1>b
<1>5. CASE BotCrash
    <2> DEFINE Unsent == {t \in Tasks : Sending(t)}
               f == [h \in Handlers |-> bot[h].task]
    <2>1. \A t \in Unsent : \E h \in Handlers : f[h] = t
        BY DEF Sending
    <2>2. /\ IsFiniteSet(Unsent)
          /\ Cardinality(Unsent) \in Nat /\ Cardinality(Handlers) \in Nat
          /\ Cardinality(Unsent) <= Cardinality(Handlers)
        BY <2>1, IndexedBound
    <2>3. Disordered' \subseteq Disordered \cup Unsent
        BY <1>5, MishapIsLocal DEF Disordered
    <2>4. Losses' = Losses + Cardinality(Handlers) /\ Losses \in Int
        BY <1>5, <1>a, LossesCount DEF BotCrash
    <2>5. Unsent \in SUBSET Tasks
        OBVIOUS
    <2> HIDE DEF Unsent
    <2> QED
        BY <2>2, <2>3, <2>4, <2>5
<1> QED
    BY <1>1, <1>2, <1>3, <1>4, <1>5, MishapOrNone

OrderInv == RevokedIsFlagged /\ Cardinality(Disordered) <= Losses

LEMMA OrderInit ==
    ASSUME Init PROVE RevokedIsFlagged /\ Disordered = {}
  BY ConstantsAssumption
  DEF Init, RevokedIsFlagged, Disordered, InOrder, OneMessage, OutcomeWritten,
      NotOrphaned, Live, Sending, IsActive, NoRow, IdleHandler, IdleWorker,
      ACTIVE_TASK_STATUSES

LEMMA OrderStep ==
    ASSUME IsFiniteSet(Tasks), IsFiniteSet(Handlers),
           TypeOK, Named, OrderInv, [Next]_vars
    PROVE  OrderInv'
<1>1. RevokedIsFlagged'
    BY RevokedStep DEF OrderInv
<1>2. PICK Z \in SUBSET Tasks :
          /\ IsFiniteSet(Z)
          /\ Disordered' \subseteq Disordered \cup Z
          /\ Cardinality(Z) <= Losses' - Losses
    BY DisorderStep DEF OrderInv
<1>3. IsFiniteSet(Disordered) /\ IsFiniteSet(Disordered')
    BY FS_Subset DEF Disordered
<1>4. Cardinality(Disordered') <= Cardinality(Disordered) + Cardinality(Z)
    BY <1>2, <1>3, SmallUnion
<1>5. /\ Cardinality(Disordered) \in Nat /\ Cardinality(Disordered') \in Nat
      /\ Cardinality(Z) \in Nat
    BY <1>2, <1>3, FS_CardinalityType
<1>6. Losses \in Int /\ Losses' \in Int
    BY TypeStep, LossesCount DEF TypeOK
<1>7. Cardinality(Disordered') <= Losses'
    BY <1>2, <1>4, <1>5, <1>6 DEF OrderInv
<1> QED
    BY <1>1, <1>7 DEF OrderInv

\* Under every disturbance there are at most as many orphaned rows as mishaps that
\* orphan one, a dying bot counting once per handler.
THEOREM OrphansCounted ==
    IsFiniteSet(Tasks) /\ IsFiniteSet(Handlers) /\ Spec => []OrphansAreCounted
<1> SUFFICES ASSUME IsFiniteSet(Tasks), IsFiniteSet(Handlers)
             PROVE  Spec => []OrphansAreCounted
    OBVIOUS
<1>1. Init => OrderInv
    <2> SUFFICES ASSUME Init PROVE OrderInv
        OBVIOUS
    <2>1. \A k \in Disturbances : Spent(k) = 0
        BY ConstantsAssumption DEF Init, Spent
    <2>2. Losses = 0
        BY <2>1, FS_CardinalityType DEF Losses, Disturbances
    <2>3. Cardinality(Disordered) = 0
        BY OrderInit, FS_EmptySet
    <2> QED
        BY <2>2, <2>3, OrderInit DEF OrderInv
<1>2. TypeOK /\ Named /\ OrderInv /\ [Next]_vars => OrderInv'
    BY OrderStep
<1>3. TypeOK /\ OrderInv => OrphansAreCounted
    <2> SUFFICES ASSUME TypeOK, OrderInv PROVE OrphansAreCounted
        OBVIOUS
    <2>1. Orphans \subseteq Disordered
        BY DEF Orphans, Disordered, InOrder, NotOrphaned, Active
    <2>2. IsFiniteSet(Disordered)
        BY FS_Subset DEF Disordered
    <2>3. /\ IsFiniteSet(Orphans) /\ Cardinality(Orphans) <= Cardinality(Disordered)
          /\ Cardinality(Orphans) \in Nat /\ Cardinality(Disordered) \in Nat
        BY <2>1, <2>2, FS_Subset, FS_CardinalityType
    <2>4. Losses \in Int
        BY LossesTyped
    <2> HIDE DEF Losses
    <2>5. Cardinality(Orphans) <= Losses
        BY <2>3, <2>4 DEF OrderInv
    <2> QED
        BY <2>5 DEF OrphansAreCounted, Losses
<1> QED
    BY <1>1, <1>2, <1>3, TypeCorrect, PTL DEF Spec

\* None of the mishaps happens.  Workers may crash and users may cancel, without bound.
Reliable == \A k \in Mislaid : Budget[k] = 0
Faultless == \A k \in Mislaid : left[k] = 0

\* With a reliable broker and bot, an active task nobody cancelled always has
\* its message somewhere, however often workers crash.
THEOREM NeverOrphaned == Reliable /\ Spec => []UncancelledTaskIsHeld
<1> SUFFICES ASSUME Reliable PROVE Spec => []UncancelledTaskIsHeld
    OBVIOUS
<1> DEFINE Inv == Faultless /\ RevokedIsFlagged /\ Disordered = {}
<1>1. Init => Inv
    BY OrderInit DEF Reliable, Faultless, Init
<1>2. TypeOK /\ Named /\ Inv /\ [Next]_vars => Inv'
    <2> SUFFICES ASSUME TypeOK, Named, Inv, [Next]_vars PROVE Inv'
        OBVIOUS
    <2>1. \A k \in Mislaid : k \in Disturbances /\ ~Spend(k)
        BY DEF Faultless, Spend, Mislaid, Disturbances
    <2>2. \A k \in Mislaid : left'[k] = left[k]
        BY <2>1, MishapOrNone
        DEF Mislaid, SendFails, ExecutionLost, Duplicate, BotCrash
    <2>3. Faultless'
        BY <2>2 DEF Faultless
    <2>4. Disordered' = {}
        BY <2>2, InOrderStep DEF Disordered
    <2> QED
        BY <2>3, <2>4, RevokedStep
<1>3. Inv => UncancelledTaskIsHeld
    BY DEF Disordered, InOrder, NotOrphaned, UncancelledTaskIsHeld, Orphans, Active
<1> HIDE DEF Inv
<1> QED
    BY <1>1, <1>2, <1>3, TypeCorrect, PTL DEF Spec

-----------------------------------------------------------------------------
(* What brings a row back to life, and how many                            *)

\* A cancellation, a crash of the workers, a second delivery.
Reviving == {"cancel", "worker_crash", "duplicate"}

IdleIsFree == \A w \in Workers : ~Live(w) => exec[w].task = None

\* A task that runs once: what waits, is about to be sent or executes is active, in
\* one place, and no handler is about to commit a cancellation of it.
RunsOnce(t) ==
    /\ t \in queue => IsActive(t) /\ ~Executing(t)
    /\ t \in unacked => Executing(t)
    /\ \A w \in Workers : Live(w) /\ exec[w].task = t /\ exec[w].pc # "finished"
                          => IsActive(t)
    /\ \A w1, w2 \in Workers : w1 # w2 /\ Live(w1) /\ Live(w2) /\ exec[w1].task = t
                               => exec[w2].task # t
    /\ Sending(t) => IsActive(t) /\ t \notin queue /\ ~Executing(t)
    /\ \A h1, h2 \in Handlers : /\ h1 # h2 /\ bot[h1].pc = "send" /\ bot[h2].pc = "send"
                                /\ bot[h1].task = t
                                => bot[h2].task # t
    /\ \A h \in Handlers : bot[h].pc = "cancel_commit" => bot[h].task # t

LEMMA IdleIsFreeStep ==
    ASSUME IdleIsFree, [Next]_vars, TypeOK PROVE IdleIsFree'
<1> USE DEF IdleIsFree, Live, TypeOK, Executions
<1>1. ASSUME NEW w \in Workers, NEW t \in Tasks, RunHeavyTask(w, t) PROVE IdleIsFree'
    BY <1>1 DEF RunHeavyTask
<1>2. ASSUME NEW w \in Workers, MarkRunning(w) PROVE IdleIsFree'
    BY <1>2 DEF MarkRunning
<1>3. ASSUME NEW w \in Workers, CheckpointCancels(w) PROVE IdleIsFree'
    BY <1>3 DEF CheckpointCancels
<1>4. ASSUME NEW w \in Workers, LastCheckpointPasses(w) PROVE IdleIsFree'
    BY <1>4 DEF LastCheckpointPasses
<1>5. ASSUME NEW w \in Workers, OperationFails(w) PROVE IdleIsFree'
    BY <1>5 DEF OperationFails
<1>6. ASSUME NEW w \in Workers, MarkFinished(w) PROVE IdleIsFree'
    BY <1>6 DEF MarkFinished
<1>7. ASSUME NEW w \in Workers, Acknowledge(w) PROVE IdleIsFree'
    BY <1>7 DEF Acknowledge, IdleWorker
<1>8. ASSUME NEW w \in Workers, ExecutionLost(w) PROVE IdleIsFree'
    BY <1>8 DEF ExecutionLost, IdleWorker
<1>9. ASSUME WorkerCrash PROVE IdleIsFree'
    BY <1>9 DEF WorkerCrash, IdleWorker
<1>10. CASE UNCHANGED exec
    BY <1>10
<1> HIDE DEF IdleIsFree, TypeOK, Executions
<1> QED
    BY <1>1, <1>2, <1>3, <1>4, <1>5, <1>6, <1>7, <1>8, <1>9, <1>10
    DEF Next, HandlerNext, HandlerStep, Deliver, WorkerStep, vars, EnqueueBegin,
        EnqueueCheckUser, EnqueueCheckCooldown, EnqueueInsert, SendTask, SendFails,
        AttachCeleryId, RequestCancelRead, RequestCancelCommit, CancelRevoke, BotCrash,
        SkipTask, Restore, Duplicate, Tick, Requeue

LEMMA RunsOnceStep ==
    ASSUME TypeOK, Named, IdleIsFree, [Next]_vars,
           \A k \in Reviving : left'[k] = left[k],
           NEW x \in Tasks, RunsOnce(x)
    PROVE  RunsOnce(x)'
<1> USE ConstantsAssumption DEF RunsOnce, IdleIsFree, TypeOK, Named, Live, Sending,
    Executing, IsActive, ACTIVE_TASK_STATUSES
<1>1. ASSUME NEW h \in Handlers, NEW u \in Users, NEW op \in Operations,
             EnqueueBegin(h, u, op)
      PROVE  RunsOnce(x)'
    BY <1>1 DEF EnqueueBegin, IdleHandler, HandlerStates
<1>2. ASSUME NEW h \in Handlers,
             EnqueueCheckUser(h)
      PROVE  RunsOnce(x)'
    BY <1>2 DEF EnqueueCheckUser, IdleHandler, HandlerStates
<1>3. ASSUME NEW h \in Handlers,
             EnqueueCheckCooldown(h)
      PROVE  RunsOnce(x)'
    BY <1>3, CooldownFrame, SMTT(30) DEF IdleHandler, HandlerStates
<1>4. ASSUME NEW h \in Handlers,
             EnqueueInsert(h)
      PROVE  RunsOnce(x)'
    BY <1>4 DEF EnqueueInsert, NoRow, Present, Rows, HandlerStates
<1>5. ASSUME NEW h \in Handlers,
             SendTask(h)
      PROVE  RunsOnce(x)'
    BY <1>5 DEF SendTask, HandlerStates
<1>6. ASSUME NEW h \in Handlers,
             SendFails(h)
      PROVE  RunsOnce(x)'
    BY <1>6 DEF SendFails, IdleHandler, HandlerStates
<1>7. ASSUME NEW h \in Handlers,
             AttachCeleryId(h)
      PROVE  RunsOnce(x)'
    BY <1>7 DEF AttachCeleryId, IdleHandler, Rows, HandlerStates
<1>8. ASSUME NEW h \in Handlers,
             RequestCancelCommit(h)
      PROVE  RunsOnce(x)'
    BY <1>8 DEF RequestCancelCommit, Rows, HandlerStates
<1>9. ASSUME NEW h \in Handlers,
             CancelRevoke(h)
      PROVE  RunsOnce(x)'
    BY <1>9 DEF CancelRevoke, IdleHandler, HandlerStates
<1>10. ASSUME BotCrash PROVE RunsOnce(x)'
    BY <1>10 DEF BotCrash, IdleHandler, HandlerStates
<1>11. ASSUME NEW w \in Workers, NEW t \in Tasks,
             RunHeavyTask(w, t)
      PROVE  RunsOnce(x)'
    BY <1>11 DEF RunHeavyTask, Delivered, Executions
<1>12. ASSUME NEW w \in Workers, NEW t \in Tasks,
             SkipTask(w, t)
      PROVE  RunsOnce(x)'
    BY <1>12 DEF SkipTask
<1>13. ASSUME NEW w \in Workers,
             MarkRunning(w)
      PROVE  RunsOnce(x)'
    BY <1>13 DEF MarkRunning, Rows, Executions
<1>14. ASSUME NEW w \in Workers,
             CheckpointCancels(w)
      PROVE  RunsOnce(x)'
    BY <1>14 DEF CheckpointCancels, Executions
<1>15. ASSUME NEW w \in Workers,
             LastCheckpointPasses(w)
      PROVE  RunsOnce(x)'
    BY <1>15 DEF LastCheckpointPasses, Executions
<1>16. ASSUME NEW w \in Workers,
             OperationFails(w)
      PROVE  RunsOnce(x)'
    BY <1>16 DEF OperationFails, Executions
<1>17. ASSUME NEW w \in Workers,
             MarkFinished(w)
      PROVE  RunsOnce(x)'
    BY <1>17 DEF MarkFinished, Outcome, Rows, Executions
<1>18. ASSUME NEW w \in Workers,
             Acknowledge(w)
      PROVE  RunsOnce(x)'
    BY <1>18 DEF Acknowledge, IdleWorker, Executions
<1>19. ASSUME NEW w \in Workers,
             ExecutionLost(w)
      PROVE  RunsOnce(x)'
    BY <1>19 DEF ExecutionLost, IdleWorker, Executions
<1>20. ASSUME NEW t \in Tasks,
             Restore(t)
      PROVE  RunsOnce(x)'
    BY <1>20 DEF Restore, Requeue
<1>21. ASSUME NEW h \in Handlers, NEW u \in Users, RequestCancelRead(h, u)
      PROVE  RunsOnce(x)'
    BY <1>21, SpendCounts DEF RequestCancelRead, Reviving, Disturbances
<1>22. ASSUME WorkerCrash PROVE RunsOnce(x)'
    BY <1>22, SpendCounts DEF WorkerCrash, Reviving, Disturbances
<1>23. ASSUME NEW t \in Tasks, Duplicate(t) PROVE RunsOnce(x)'
    BY <1>23, SpendCounts DEF Duplicate, Reviving, Disturbances
<1>24. CASE UNCHANGED <<row, queue, unacked, bot, exec>>
    BY <1>24
<1> QED
    BY <1>1, <1>2, <1>3, <1>4, <1>5, <1>6, <1>7, <1>8, <1>9, <1>10, <1>11,
        <1>12, <1>13, <1>14, <1>15, <1>16, <1>17, <1>18, <1>19, <1>20, <1>21,
        <1>22, <1>23, <1>24 DEF Next, HandlerNext, HandlerStep, Deliver,
        WorkerStep, vars, Tick

\* What revives one task, or those that execute, disturbs no other.
LEMMA RevivalIsLocal ==
    ASSUME TypeOK, Named, IdleIsFree, NEW x \in Tasks, RunsOnce(x)
    PROVE  /\ \A h \in Handlers, u \in Users, t \in Tasks :
                 RequestCancelRead(h, u) /\ bot'[h].task = t /\ t # x => RunsOnce(x)'
           /\ WorkerCrash /\ ~Executing(x) => RunsOnce(x)'
           /\ \A t \in Tasks : Duplicate(t) /\ t # x => RunsOnce(x)'
<1> USE ConstantsAssumption DEF RunsOnce, IdleIsFree, TypeOK, Live, Sending, Executing,
    IsActive
<1>1. ASSUME NEW h \in Handlers, NEW u \in Users, NEW t \in Tasks,
             RequestCancelRead(h, u), bot'[h].task = t, t # x
      PROVE  RunsOnce(x)'
    BY <1>1 DEF RequestCancelRead, IdleHandler, HandlerStates
<1>2. ASSUME WorkerCrash, ~Executing(x) PROVE RunsOnce(x)'
    BY <1>2 DEF WorkerCrash, IdleWorker
<1>3. ASSUME NEW t \in Tasks, Duplicate(t), t # x PROVE RunsOnce(x)'
    BY <1>3 DEF Duplicate, Requeue
<1> QED
    BY <1>1, <1>2, <1>3

LEMMA RevivalOrNone ==
    ASSUME TypeOK, [Next]_vars
    PROVE  \/ \A k \in Reviving : left'[k] = left[k]
           \/ \E h \in Handlers, u \in Users : RequestCancelRead(h, u)
           \/ \E t \in Tasks : Duplicate(t)
           \/ WorkerCrash
<1>1. ASSUME NEW h \in Handlers, SendFails(h)
      PROVE  \A k \in Reviving : left'[k] = left[k]
    BY <1>1, SpendCounts DEF SendFails, TypeOK, Reviving, Disturbances
<1>2. ASSUME BotCrash PROVE \A k \in Reviving : left'[k] = left[k]
    BY <1>2, SpendCounts DEF BotCrash, TypeOK, Reviving, Disturbances
<1>3. ASSUME NEW w \in Workers, ExecutionLost(w)
      PROVE  \A k \in Reviving : left'[k] = left[k]
    BY <1>3, SpendCounts DEF ExecutionLost, TypeOK, Reviving, Disturbances
<1>4. CASE UNCHANGED left
    BY <1>4
<1> QED
    BY <1>1, <1>2, <1>3, <1>4
    DEF Next, HandlerNext, HandlerStep, Deliver, WorkerStep, vars, EnqueueBegin,
        EnqueueCheckUser, EnqueueCheckCooldown, EnqueueInsert, SendTask,
        AttachCeleryId, RequestCancelCommit, CancelRevoke, RunHeavyTask, SkipTask,
        MarkRunning, CheckpointCancels, LastCheckpointPasses, OperationFails,
        MarkFinished, Acknowledge, Restore, Tick

Disturbed == {t \in Tasks : ~RunsOnce(t)}

LEMMA RevivalsTyped ==
    ASSUME TypeOK, IsFiniteSet(Workers) PROVE Revivals \in Int
<1>1. Cardinality(Workers) \in Nat
    BY FS_CardinalityType
<1>2. \A k \in Disturbances : Spent(k) \in Int
    BY ConstantsAssumption DEF TypeOK, Spent
<1>3. \A s \in Int : s * Cardinality(Workers) \in Int
    BY <1>1
<1> QED
    BY <1>2, <1>3 DEF Revivals, Disturbances

\* What a disturbance adds to Revivals.
LEMMA RevivalsCount ==
    ASSUME TypeOK, IsFiniteSet(Workers), left' \in [Disturbances -> Nat]
    PROVE  /\ Revivals \in Int /\ Revivals' \in Int
           /\ (\A k \in Reviving : left'[k] = left[k]) => Revivals' = Revivals
           /\ Spend("cancel") \/ Spend("duplicate") => Revivals' = Revivals + 1
           /\ Spend("worker_crash") => Revivals' = Revivals + Cardinality(Workers)
<1> DEFINE c == Cardinality(Workers)
<1>1. c \in Nat
    BY FS_CardinalityType
<1>2. \A k \in Disturbances : Spent(k) \in Int /\ Spent(k)' \in Int
    BY ConstantsAssumption DEF TypeOK, Spent
<1>3. \A k \in Disturbances : /\ left'[k] = left[k] => Spent(k)' = Spent(k)
                              /\ Spend(k) => Spent(k)' = Spent(k) + 1
    BY ConstantsAssumption, SpendCounts DEF TypeOK, Spent
<1>4. ASSUME NEW k \in Disturbances, NEW j \in Disturbances \ {k}, Spend(k)
      PROVE  Spent(j)' = Spent(j)
    BY <1>4, <1>3, SpendCounts DEF TypeOK
<1>5. \A s \in Int : s * c \in Int /\ (s + 1) * c = s * c + c
    BY <1>1
<1> HIDE DEF c
<1>6. Revivals = Spent("cancel") + Spent("duplicate") + Spent("worker_crash") * c
    BY DEF Revivals, c
<1>7. Revivals' = Spent("cancel")' + Spent("duplicate")' + Spent("worker_crash")' * c
    BY DEF Revivals, c
<1>8. {"cancel", "duplicate", "worker_crash"} \subseteq Disturbances
    BY DEF Disturbances
<1> HIDE DEF Revivals, Spent, Spend
<1>9. Revivals \in Int /\ Revivals' \in Int
    BY <1>2, <1>5, <1>6, <1>7, <1>8
<1>10. ASSUME \A k \in Reviving : left'[k] = left[k] PROVE Revivals' = Revivals
    BY <1>3, <1>6, <1>7, <1>8, <1>10 DEF Reviving
<1>11. ASSUME NEW k \in {"cancel", "duplicate"}, Spend(k)
       PROVE  Revivals' = Revivals + 1
    <2>1. /\ Spent(k)' = Spent(k) + 1
          /\ \A j \in Disturbances \ {k} : Spent(j)' = Spent(j)
        BY <1>3, <1>4, <1>8, <1>11
    <2>2. Spent("worker_crash")' = Spent("worker_crash")
        BY <2>1, <1>8
    <2>3. Spent("worker_crash") * c \in Int
        BY <1>2, <1>5, <1>8
    <2> QED
        BY <1>2, <1>6, <1>7, <1>8, <2>1, <2>2, <2>3
<1>12. ASSUME Spend("worker_crash") PROVE Revivals' = Revivals + c
    <2>1. /\ Spent("worker_crash")' = Spent("worker_crash") + 1
          /\ \A j \in Disturbances \ {"worker_crash"} : Spent(j)' = Spent(j)
        BY <1>3, <1>4, <1>8, <1>12
    <2>2. Spent("worker_crash")' * c = Spent("worker_crash") * c + c
        BY <2>1, <1>2, <1>5, <1>8
    <2>3. Spent("worker_crash") * c \in Int
        BY <1>2, <1>5, <1>8
    <2> QED
        BY <1>1, <1>2, <1>6, <1>7, <1>8, <2>1, <2>2, <2>3
<1> QED
    BY <1>9, <1>10, <1>11, <1>12 DEF c

\* Every step disturbs at most as many tasks as it adds to Revivals.
LEMMA DisturbedStep ==
    ASSUME TypeOK, Named, IdleIsFree, [Next]_vars, IsFiniteSet(Workers)
    PROVE  \E Z \in SUBSET Tasks :
              /\ IsFiniteSet(Z)
              /\ Disturbed' \subseteq Disturbed \cup Z
              /\ Cardinality(Z) <= Revivals' - Revivals
<1> DEFINE Goal == \E Z \in SUBSET Tasks :
              /\ IsFiniteSet(Z)
              /\ Disturbed' \subseteq Disturbed \cup Z
              /\ Cardinality(Z) <= Revivals' - Revivals
<1> SUFFICES Goal
    OBVIOUS
<1>0. /\ IsFiniteSet({}) /\ Cardinality({}) = 0
      /\ \A t \in Tasks : IsFiniteSet({t}) /\ Cardinality({t}) = 1
    BY FS_EmptySet, FS_Singleton
<1>a. left' \in [Disturbances -> Nat]
    BY TypeStep DEF TypeOK
<1>b. ASSUME NEW t \in Tasks, Disturbed' \subseteq Disturbed \cup {t},
             Revivals' = Revivals + 1
      PROVE  Goal
    <2> DEFINE Z == {t}
    <2>1. /\ Z \in SUBSET Tasks /\ IsFiniteSet(Z) /\ Cardinality(Z) = 1
          /\ Disturbed' \subseteq Disturbed \cup Z
        BY <1>0, <1>b
    <2> HIDE DEF Z
    <2> QED
        BY <1>b, <2>1, <1>a, RevivalsCount
<1>1. CASE \A k \in Reviving : left'[k] = left[k]
    <2>1. Disturbed' \subseteq Disturbed
        BY <1>1, RunsOnceStep DEF Disturbed
    <2> QED
        BY <1>0, <1>1, <2>1, <1>a, RevivalsCount
<1>2. ASSUME NEW h \in Handlers, NEW u \in Users, RequestCancelRead(h, u) PROVE Goal
    <2>1. bot'[h].task \in Tasks
        BY <1>2 DEF RequestCancelRead, IdleHandler, Latest, ActiveOf, Active, TypeOK
    <2>2. Disturbed' \subseteq Disturbed \cup {bot'[h].task}
        BY <1>2, <2>1, RevivalIsLocal DEF Disturbed
    <2>3. Revivals' = Revivals + 1
        BY <1>2, <1>a, RevivalsCount DEF RequestCancelRead
    <2> QED
        BY <2>1, <2>2, <2>3, <1>b
<1>3. ASSUME NEW t \in Tasks, Duplicate(t) PROVE Goal
    <2>1. Disturbed' \subseteq Disturbed \cup {t}
        BY <1>3, RevivalIsLocal DEF Disturbed
    <2>2. Revivals' = Revivals + 1
        BY <1>3, <1>a, RevivalsCount DEF Duplicate
    <2> QED
        BY <2>1, <2>2, <1>b
<1>4. CASE WorkerCrash
    <2> DEFINE Caught == {t \in Tasks : Executing(t)}
               f == [w \in Workers |-> exec[w].task]
    <2>1. \A t \in Caught : \E w \in Workers : f[w] = t
        BY DEF Executing
    <2>2. /\ IsFiniteSet(Caught)
          /\ Cardinality(Caught) \in Nat /\ Cardinality(Workers) \in Nat
          /\ Cardinality(Caught) <= Cardinality(Workers)
        BY <2>1, IndexedBound
    <2>3. Disturbed' \subseteq Disturbed \cup Caught
        BY <1>4, RevivalIsLocal DEF Disturbed
    <2>4. Revivals' = Revivals + Cardinality(Workers) /\ Revivals \in Int
        BY <1>4, <1>a, RevivalsCount DEF WorkerCrash
    <2>5. Caught \in SUBSET Tasks
        OBVIOUS
    <2> HIDE DEF Caught
    <2> QED
        BY <2>2, <2>3, <2>4, <2>5
<1> QED
    BY <1>1, <1>2, <1>3, <1>4, RevivalOrNone

\* Only a disturbed task becomes active again, and nothing else adds a row.
LEMMA ActiveStep ==
    ASSUME TypeOK, Named, IdleIsFree, [Next]_vars,
           ~ \E h \in Handlers : EnqueueInsert(h)
    PROVE  Active' \subseteq Active \cup Disturbed /\ Present' \subseteq Present
<1> DEFINE Goal == Active' \subseteq Active \cup Disturbed /\ Present' \subseteq Present
<1> SUFFICES Goal
    OBVIOUS
<1> USE DEF Active, IsActive, Present, TypeOK, Rows, ACTIVE_TASK_STATUSES
<1>1. ASSUME NEW h \in Handlers, EnqueueInsert(h) PROVE Goal
    BY <1>1
<1>2. ASSUME NEW h \in Handlers, AttachCeleryId(h) PROVE Goal
    BY <1>2 DEF AttachCeleryId, Named
<1>3. ASSUME NEW h \in Handlers, RequestCancelCommit(h) PROVE Goal
    BY <1>3 DEF RequestCancelCommit, Disturbed, RunsOnce, Named
<1>4. ASSUME NEW w \in Workers, MarkRunning(w) PROVE Goal
    BY <1>4 DEF MarkRunning, Disturbed, RunsOnce, Live, Named
<1>5. ASSUME NEW w \in Workers, MarkFinished(w) PROVE Goal
    BY <1>5 DEF MarkFinished, Outcome, Named
<1>6. CASE UNCHANGED row
    BY <1>6
<1> HIDE DEF Goal, Active, IsActive, Present, TypeOK, Rows, ACTIVE_TASK_STATUSES
<1> QED
    BY <1>1, <1>2, <1>3, <1>4, <1>5, <1>6
    DEF Next, HandlerNext, HandlerStep, Deliver, WorkerStep, vars, EnqueueBegin,
        EnqueueCheckUser, EnqueueCheckCooldown, SendTask, SendFails,
        RequestCancelRead, CancelRevoke, BotCrash, RunHeavyTask, SkipTask,
        CheckpointCancels, LastCheckpointPasses, OperationFails, Acknowledge,
        ExecutionLost, WorkerCrash, Restore, Duplicate, Tick, Requeue

LEMMA DisturbedIsPresent == TypeOK /\ Named => Active \cup Disturbed \subseteq Present
  BY ConstantsAssumption
  DEF Named, Disturbed, RunsOnce, Executing, Live, Sending, Present, Active, IsActive,
      ACTIVE_TASK_STATUSES, TypeOK

\* At most Revivals tasks run more than once.
ReviveInv == IdleIsFree /\ Cardinality(Disturbed) <= Revivals

\* The step in numbers: it disturbs a set Z of tasks no larger than what it adds to
\* Revivals, and but for an insertion Z bounds the rows that become active.
LEMMA ReviveStep ==
    ASSUME IsFiniteSet(Tasks), IsFiniteSet(Workers),
           TypeOK, Named, ReviveInv, [Next]_vars
    PROVE  /\ ReviveInv'
           /\ \E Z \in SUBSET Tasks :
                 /\ IsFiniteSet(Z) /\ Cardinality(Z) \in Nat
                 /\ Cardinality(Z) <= Revivals' - Revivals
                 /\ Disturbed' \subseteq Disturbed \cup Z
                 /\ \/ \E h \in Handlers : EnqueueInsert(h)
                    \/ Active' \cup Disturbed' \subseteq Active \cup Disturbed \cup Z
<1>1. PICK Z \in SUBSET Tasks :
          /\ IsFiniteSet(Z)
          /\ Disturbed' \subseteq Disturbed \cup Z
          /\ Cardinality(Z) <= Revivals' - Revivals
    BY DisturbedStep DEF ReviveInv
<1>2. IsFiniteSet(Disturbed) /\ IsFiniteSet(Disturbed')
    BY FS_Subset DEF Disturbed
<1>3. Cardinality(Disturbed') <= Cardinality(Disturbed) + Cardinality(Z)
    BY <1>1, <1>2, SmallUnion
<1>4. /\ Cardinality(Disturbed) \in Nat /\ Cardinality(Disturbed') \in Nat
      /\ Cardinality(Z) \in Nat
    BY <1>1, <1>2, FS_CardinalityType
<1>5. Revivals \in Int /\ Revivals' \in Int
    BY TypeStep, RevivalsCount DEF TypeOK
<1>6. ReviveInv'
    BY <1>1, <1>3, <1>4, <1>5, IdleIsFreeStep DEF ReviveInv
<1>7. \/ \E h \in Handlers : EnqueueInsert(h)
      \/ Active' \cup Disturbed' \subseteq Active \cup Disturbed \cup Z
    BY <1>1, ActiveStep DEF ReviveInv
<1> QED
    BY <1>1, <1>4, <1>6, <1>7

LEMMA ReviveInit ==
    ASSUME Init, IsFiniteSet(Workers)
    PROVE  ReviveInv /\ Disturbed = {} /\ Active = {} /\ Revivals = 0
<1>1. IdleIsFree /\ Disturbed = {} /\ Active = {}
    BY ConstantsAssumption
    DEF Init, IdleIsFree, Disturbed, RunsOnce, Live, Sending, Executing, Active,
        IsActive, NoRow, IdleHandler, IdleWorker, ACTIVE_TASK_STATUSES
<1>2. \A k \in Disturbances : Spent(k) = 0
    BY ConstantsAssumption DEF Init, Spent
<1>3. Revivals = 0
    BY <1>2, FS_CardinalityType DEF Revivals, Disturbances
<1> QED
    BY <1>1, <1>3, FS_EmptySet DEF ReviveInv

-----------------------------------------------------------------------------
(* Admission: one task per user, the cooldown, the global limit            *)

\* The user's rows that are active or may become so again.
Mine(u) == {t \in Active \cup Disturbed : row[t].user_id = u}

\* A handler between the check and the insert weighs as much as the row it is about to
\* add, and a task that may come back to life as much as an active one.
UserInv ==
    \A u \in Users : Cardinality(Mine(u)) + Cardinality(Checked(u))
                         <= Cardinality(Handlers) + Revivals

LEMMA CheckedStep ==
    ASSUME TypeOK, [Next]_vars, NEW v \in Users
    PROVE  \/ Checked(v)' \subseteq Checked(v)
           \/ \E h \in Handlers :
                 EnqueueCheckUser(h) /\ bot[h].user = v /\ ActiveOf(v) = {}
<1> DEFINE Goal == \/ Checked(v)' \subseteq Checked(v)
                   \/ \E h \in Handlers :
                        EnqueueCheckUser(h) /\ bot[h].user = v /\ ActiveOf(v) = {}
<1> SUFFICES Goal
    OBVIOUS
<1> USE DEF Checked, TypeOK, HandlerStates
<1>1. ASSUME NEW h \in Handlers, NEW u \in Users, NEW op \in Operations,
             EnqueueBegin(h, u, op)
      PROVE Goal
    BY <1>1 DEF EnqueueBegin, IdleHandler
<1>2. ASSUME NEW h \in Handlers,
             EnqueueCheckUser(h)
      PROVE Goal
    BY <1>2 DEF EnqueueCheckUser, IdleHandler
<1>3. ASSUME NEW h \in Handlers,
             EnqueueCheckCooldown(h)
      PROVE Goal
    BY <1>3, CooldownFrame DEF IdleHandler
<1>4. ASSUME NEW h \in Handlers,
             EnqueueInsert(h)
      PROVE Goal
    BY <1>4 DEF EnqueueInsert
<1>5. ASSUME NEW h \in Handlers,
             SendTask(h)
      PROVE Goal
    BY <1>5 DEF SendTask
<1>6. ASSUME NEW h \in Handlers,
             SendFails(h)
      PROVE Goal
    BY <1>6 DEF SendFails, IdleHandler
<1>7. ASSUME NEW h \in Handlers,
             AttachCeleryId(h)
      PROVE Goal
    BY <1>7 DEF AttachCeleryId, IdleHandler
<1>8. ASSUME NEW h \in Handlers, NEW u \in Users,
             RequestCancelRead(h, u)
      PROVE Goal
    BY <1>8 DEF RequestCancelRead, IdleHandler
<1>9. ASSUME NEW h \in Handlers,
             RequestCancelCommit(h)
      PROVE Goal
    BY <1>9 DEF RequestCancelCommit
<1>10. ASSUME NEW h \in Handlers,
             CancelRevoke(h)
      PROVE Goal
    BY <1>10 DEF CancelRevoke, IdleHandler
<1>11. ASSUME BotCrash PROVE Goal
    BY <1>11 DEF BotCrash, IdleHandler
<1>12. CASE UNCHANGED bot
    BY <1>12
<1> HIDE DEF Goal, Checked, TypeOK, HandlerStates
<1> QED
    BY <1>1, <1>2, <1>3, <1>4, <1>5, <1>6, <1>7, <1>8, <1>9, <1>10, <1>11, <1>12
    DEF Next, HandlerNext, HandlerStep, Deliver, WorkerStep, vars, RunHeavyTask,
        SkipTask, MarkRunning, CheckpointCancels, LastCheckpointPasses,
        OperationFails, MarkFinished, Acknowledge, ExecutionLost, WorkerCrash,
        Restore, Duplicate, Tick, Requeue

LEMMA MineStep ==
    ASSUME TypeOK, Named, [Next]_vars, NEW v \in Users, NEW Z,
           Active' \cup Disturbed' \subseteq Active \cup Disturbed \cup Z
    PROVE  Mine(v)' \subseteq Mine(v) \cup Z
<1> SUFFICES ASSUME NEW t \in Mine(v)', t \notin Z PROVE t \in Mine(v)
    OBVIOUS
<1>1. t \in Active \cup Disturbed /\ t \in Present /\ t \in Tasks
    BY DisturbedIsPresent DEF Mine, Present
<1>2. row'[t].user_id = row[t].user_id
    BY <1>1, RowsKept DEF RowKept, Present
<1> QED
    BY <1>1, <1>2 DEF Mine

LEMMA UserStep ==
    ASSUME IsFiniteSet(Tasks), IsFiniteSet(Handlers), IsFiniteSet(Workers),
           TypeOK, Named, ReviveInv, UserInv, [Next]_vars
    PROVE  UserInv'
<1> DEFINE n == Cardinality(Handlers)
<1> SUFFICES ASSUME NEW v \in Users
             PROVE  Cardinality(Mine(v)') + Cardinality(Checked(v)') <= n + Revivals'
    BY DEF UserInv
<1> DEFINE M == Mine(v)
           C == Checked(v)
           Goal == Cardinality(M') + Cardinality(C') <= n + Revivals'
<1>1. PICK Z \in SUBSET Tasks :
          /\ IsFiniteSet(Z) /\ Cardinality(Z) \in Nat
          /\ Cardinality(Z) <= Revivals' - Revivals
          /\ Disturbed' \subseteq Disturbed \cup Z
          /\ \/ \E h \in Handlers : EnqueueInsert(h)
             \/ Active' \cup Disturbed' \subseteq Active \cup Disturbed \cup Z
    BY ReviveStep
<1>2. ReviveInv'
    BY ReviveStep
<1>3. /\ M \subseteq Tasks /\ M' \subseteq Tasks /\ Disturbed' \subseteq Tasks
      /\ C \subseteq Handlers /\ C' \subseteq Handlers
    BY DEF Mine, Active, Disturbed, Checked
<1>4. /\ IsFiniteSet(M) /\ IsFiniteSet(M') /\ IsFiniteSet(Disturbed')
      /\ IsFiniteSet(C) /\ IsFiniteSet(C') /\ Cardinality(C') <= n
    BY <1>3, FS_Subset
<1>5. /\ Cardinality(M) \in Nat /\ Cardinality(M') \in Nat
      /\ Cardinality(Disturbed') \in Nat /\ n \in Nat
      /\ Cardinality(C) \in Nat /\ Cardinality(C') \in Nat
    BY <1>4, FS_CardinalityType
<1>6. Revivals \in Int /\ Revivals' \in Int
    BY TypeStep, RevivalsCount DEF TypeOK
<1>7. Cardinality(M) + Cardinality(C) <= n + Revivals
    BY DEF UserInv
<1>8. ASSUME M' \subseteq M \cup Z, C' \subseteq C PROVE Goal
    <2>1. Cardinality(M') <= Cardinality(M) + Cardinality(Z)
        BY <1>1, <1>4, <1>8, SmallUnion
    <2>2. Cardinality(C') <= Cardinality(C)
        BY <1>4, <1>8, FS_Subset
    <2> HIDE DEF M, C, n
    <2> QED
        BY <1>1, <1>5, <1>6, <1>7, <2>1, <2>2
<1>9. ASSUME NEW h \in Handlers, EnqueueInsert(h) PROVE Goal
    <2>1. PICK t \in Tasks :
              /\ row[t].status = "absent"
              /\ row' = [row EXCEPT ![t] = [NoRow EXCEPT
                            !.status = "queued", !.user_id = bot[h].user,
                            !.operation = bot[h].operation, !.created_at = bot[h].now]]
              /\ bot' = [bot EXCEPT ![h] = [@ EXCEPT !.pc = "send", !.task = t]]
        BY <1>9 DEF EnqueueInsert
    <2>2. row'[t].user_id = bot[h].user
        BY <2>1 DEF TypeOK, NoRow
    <2>3. \A s \in Tasks \ {t} : row'[s] = row[s]
        BY <2>1 DEF TypeOK
    <2>4. \A s \in M' \ {t} : s \in M \cup Z
        BY <1>1, <2>3 DEF Mine, Active, IsActive, Disturbed
    <2>5. CASE bot[h].user = v
        <3>1. h \in C /\ C' = C \ {h}
            BY <1>9, <2>1, <2>5 DEF Checked, EnqueueInsert, TypeOK, HandlerStates
        <3>2. M' \subseteq (M \cup {t}) \cup Z
            BY <2>4
        <3>3. /\ IsFiniteSet({t}) /\ Cardinality({t}) = 1
            BY FS_Singleton
        <3>4. /\ IsFiniteSet(M \cup {t})
              /\ Cardinality(M \cup {t}) <= Cardinality(M) + 1
            BY <1>4, <3>3, SmallUnion, FS_Union
        <3>5. Cardinality(M') <= Cardinality(M \cup {t}) + Cardinality(Z)
            BY <1>1, <3>2, <3>4, SmallUnion
        <3>6. Cardinality(C') = Cardinality(C) - 1
            BY <1>4, <3>1, FS_RemoveElement
        <3>7. Cardinality(M \cup {t}) \in Nat
            BY <3>4, FS_CardinalityType
        <3> HIDE DEF M, C, n
        <3> QED
            BY <1>1, <1>5, <1>6, <1>7, <3>4, <3>5, <3>6, <3>7
    <2>6. CASE bot[h].user # v
        <3>1. M' \subseteq M \cup Z
            BY <2>2, <2>4, <2>6 DEF Mine
        <3>2. C' \subseteq C
            BY <2>1, <2>6 DEF Checked, TypeOK, HandlerStates
        <3> QED
            BY <1>8, <3>1, <3>2
    <2> QED
        BY <2>5, <2>6
<1>10. CASE Active' \cup Disturbed' \subseteq Active \cup Disturbed \cup Z
    <2>1. M' \subseteq M \cup Z
        BY <1>10, MineStep
    <2>2. ASSUME NEW h \in Handlers, EnqueueCheckUser(h), bot[h].user = v,
                 ActiveOf(v) = {}
          PROVE  Goal
        <3>1. UNCHANGED row
            BY <2>2 DEF EnqueueCheckUser
        <3>2. M' \subseteq Disturbed'
            BY <2>2, <3>1 DEF Mine, ActiveOf, Active, IsActive
        <3>3. Cardinality(M') <= Cardinality(Disturbed')
            BY <1>4, <3>2, FS_Subset
        <3>4. Cardinality(Disturbed') <= Revivals'
            BY <1>2 DEF ReviveInv
        <3> HIDE DEF M, C, n
        <3> QED
            BY <1>4, <1>5, <1>6, <3>3, <3>4
    <2> QED
        BY <1>8, <2>1, <2>2, CheckedStep
<1> QED
    BY <1>1, <1>9, <1>10

\* A user has as many active rows as handlers that passed the check before one of them
\* inserted, and those a disturbance brought back to life.
THEOREM OneActive ==
    IsFiniteSet(Tasks) /\ IsFiniteSet(Handlers) /\ IsFiniteSet(Workers) /\ Spec
    => []OneActivePerUser
<1> SUFFICES ASSUME IsFiniteSet(Tasks), IsFiniteSet(Handlers), IsFiniteSet(Workers)
             PROVE  Spec => []OneActivePerUser
    OBVIOUS
<1>1. Init => ReviveInv /\ UserInv
    <2> SUFFICES ASSUME Init PROVE ReviveInv /\ UserInv
        OBVIOUS
    <2>1. \A u \in Users : Mine(u) = {} /\ Checked(u) = {}
        BY ReviveInit DEF Mine, Checked, Init, IdleHandler
    <2>2. Cardinality({}) = 0 /\ Cardinality(Handlers) \in Nat
        BY FS_EmptySet, FS_CardinalityType
    <2>3. \A u \in Users : /\ Cardinality(Mine(u)) = 0 /\ Cardinality(Checked(u)) = 0
        BY <2>1, <2>2
    <2> QED
        BY <2>2, <2>3, ReviveInit DEF UserInv
<1>2. TypeOK /\ Named /\ [Next]_vars /\ ReviveInv /\ UserInv => (ReviveInv /\ UserInv)'
    BY ReviveStep, UserStep
<1>3. TypeOK /\ UserInv => OneActivePerUser
    <2> SUFFICES ASSUME TypeOK, UserInv, NEW u \in Users
                 PROVE  Cardinality({t \in Active : row[t].user_id = u})
                            + Cardinality(Checked(u)) <= Cardinality(Handlers) + Revivals
        BY DEF OneActivePerUser
    <2> DEFINE A == {t \in Active : row[t].user_id = u}
    <2>1. A \subseteq Mine(u) /\ Mine(u) \subseteq Tasks /\ Checked(u) \subseteq Handlers
        BY DEF Mine, Active, Disturbed, Checked
    <2>2. /\ Cardinality(A) \in Nat /\ Cardinality(Mine(u)) \in Nat
          /\ Cardinality(A) <= Cardinality(Mine(u))
          /\ Cardinality(Checked(u)) \in Nat /\ Cardinality(Handlers) \in Nat
        BY <2>1, FS_Subset, FS_CardinalityType
    <2> HIDE DEF A
    <2>3. Cardinality(A) + Cardinality(Checked(u)) <= Cardinality(Handlers) + Revivals
        BY <2>2, RevivalsTyped DEF UserInv
    <2> QED
        BY <2>3 DEF A
<1> QED
    BY <1>1, <1>2, <1>3, TypeCorrect, PTL DEF Spec

\* No step but the check of the cooldown brings a handler to the insert.
LEMMA InsertingStep ==
    ASSUME TypeOK, [Next]_vars, NEW x \in Handlers, bot'[x].pc = "insert"
    PROVE  bot'[x] = bot[x] \/ EnqueueCheckCooldown(x)
<1> DEFINE Goal == bot'[x] = bot[x] \/ EnqueueCheckCooldown(x)
<1> SUFFICES Goal
    OBVIOUS
<1> USE DEF TypeOK, HandlerStates
<1>1. ASSUME NEW h \in Handlers, NEW u \in Users, NEW op \in Operations,
             EnqueueBegin(h, u, op)
      PROVE Goal
    BY <1>1 DEF EnqueueBegin, IdleHandler
<1>2. ASSUME NEW h \in Handlers,
             EnqueueCheckUser(h)
      PROVE Goal
    BY <1>2 DEF EnqueueCheckUser, IdleHandler
<1>3. ASSUME NEW h \in Handlers,
             EnqueueCheckCooldown(h)
      PROVE Goal
    BY <1>3, CooldownFrame DEF IdleHandler
<1>4. ASSUME NEW h \in Handlers,
             EnqueueInsert(h)
      PROVE Goal
    BY <1>4 DEF EnqueueInsert
<1>5. ASSUME NEW h \in Handlers,
             SendTask(h)
      PROVE Goal
    BY <1>5 DEF SendTask
<1>6. ASSUME NEW h \in Handlers,
             SendFails(h)
      PROVE Goal
    BY <1>6 DEF SendFails, IdleHandler
<1>7. ASSUME NEW h \in Handlers,
             AttachCeleryId(h)
      PROVE Goal
    BY <1>7 DEF AttachCeleryId, IdleHandler
<1>8. ASSUME NEW h \in Handlers, NEW u \in Users,
             RequestCancelRead(h, u)
      PROVE Goal
    BY <1>8 DEF RequestCancelRead, IdleHandler
<1>9. ASSUME NEW h \in Handlers,
             RequestCancelCommit(h)
      PROVE Goal
    BY <1>9 DEF RequestCancelCommit
<1>10. ASSUME NEW h \in Handlers,
             CancelRevoke(h)
      PROVE Goal
    BY <1>10 DEF CancelRevoke, IdleHandler
<1>11. ASSUME BotCrash PROVE Goal
    BY <1>11 DEF BotCrash, IdleHandler
<1>12. CASE UNCHANGED bot
    BY <1>12
<1> HIDE DEF Goal, TypeOK, HandlerStates
<1> QED
    BY <1>1, <1>2, <1>3, <1>4, <1>5, <1>6, <1>7, <1>8, <1>9, <1>10, <1>11, <1>12
    DEF Next, HandlerNext, HandlerStep, Deliver, WorkerStep, vars, RunHeavyTask,
        SkipTask, MarkRunning, CheckpointCancels, LastCheckpointPasses,
        OperationFails, MarkFinished, Acknowledge, ExecutionLost, WorkerCrash,
        Restore, Duplicate, Tick, Requeue

\* Who asked for what and when is written by the insertion alone.
LEMMA StampsKept ==
    ASSUME TypeOK, [Next]_vars, NEW x \in Tasks, ~ \E h \in Handlers : EnqueueInsert(h)
    PROVE  /\ row'[x].user_id = row[x].user_id
           /\ row'[x].operation = row[x].operation
           /\ row'[x].created_at = row[x].created_at
<1> DEFINE Goal == /\ row'[x].user_id = row[x].user_id
                   /\ row'[x].operation = row[x].operation
                   /\ row'[x].created_at = row[x].created_at
<1> SUFFICES Goal
    OBVIOUS
<1> USE DEF TypeOK, Rows
<1>1. ASSUME NEW h \in Handlers, EnqueueInsert(h) PROVE Goal
    BY <1>1
<1>2. ASSUME NEW h \in Handlers, AttachCeleryId(h) PROVE Goal
    BY <1>2 DEF AttachCeleryId
<1>3. ASSUME NEW h \in Handlers, RequestCancelCommit(h) PROVE Goal
    BY <1>3 DEF RequestCancelCommit
<1>4. ASSUME NEW w \in Workers, MarkRunning(w) PROVE Goal
    BY <1>4 DEF MarkRunning
<1>5. ASSUME NEW w \in Workers, MarkFinished(w) PROVE Goal
    BY <1>5 DEF MarkFinished
<1>6. CASE UNCHANGED row
    BY <1>6
<1> HIDE DEF Goal, TypeOK, Rows
<1> QED
    BY <1>1, <1>2, <1>3, <1>4, <1>5, <1>6
    DEF Next, HandlerNext, HandlerStep, Deliver, WorkerStep, vars, EnqueueBegin,
        EnqueueCheckUser, EnqueueCheckCooldown, SendTask, SendFails,
        RequestCancelRead, CancelRevoke, BotCrash, RunHeavyTask, SkipTask,
        CheckpointCancels, LastCheckpointPasses, OperationFails, Acknowledge,
        ExecutionLost, WorkerCrash, Restore, Duplicate, Tick, Requeue

\* A handler whose check succeeds saw no row of a burst it would join.
LEMMA CooldownPassed ==
    ASSUME TypeOK, NEW h \in Handlers, EnqueueCheckCooldown(h), bot'[h].pc = "insert",
           NEW t \in SameOperation(bot[h].user, bot[h].operation)
    PROVE  ~CoolingDown(t, bot[h].now)
<1> DEFINE S == SameOperation(bot[h].user, bot[h].operation)
<1>1. PICK s \in S : /\ \A r \in S : row[r].created_at <= row[s].created_at
                     /\ ~CoolingDown(s, bot[h].now)
    BY DEF EnqueueCheckCooldown, LastSame, Latest, IdleHandler, TypeOK, HandlerStates
<1>2. /\ row[s].created_at \in Nat /\ row[t].created_at \in Nat /\ bot[h].now \in Nat
    BY <1>1 DEF SameOperation, TypeOK, Rows, HandlerStates
<1>3. row[t].created_at <= row[s].created_at
    BY <1>1
<1> HIDE DEF S
<1> QED
    BY <1>1, <1>2, <1>3, ConstantsAssumption DEF CoolingDown

\* The property is inductive as it stands: a handler comes to the insert only when it
\* would join no burst but one of no row, and an insertion takes it from Joining.
LEMMA BurstStep ==
    ASSUME IsFiniteSet(Tasks), IsFiniteSet(Handlers), TypeOK,
           CooldownBoundsBursts, [Next]_vars
    PROVE  CooldownBoundsBursts'
<1> DEFINE n == Cardinality(Handlers)
<1> SUFFICES ASSUME NEW u \in Users, NEW op \in Operations,
                    NEW S \in SUBSET SameOperation(u, op)', Burst(S)'
             PROVE  Cardinality(S) + Cardinality(Joining(u, op, S)') <= n
    BY DEF CooldownBoundsBursts
<1> DEFINE J == Joining(u, op, S)'
           Same == SameOperation(u, op)
           Goal == Cardinality(S) + Cardinality(J) <= n
<1> SUFFICES Goal
    OBVIOUS
<1>1. /\ S \subseteq Tasks /\ J \subseteq Handlers
      /\ \A T : Joining(u, op, T) \subseteq Handlers
    BY DEF SameOperation, Joining
<1>2. /\ IsFiniteSet(S) /\ IsFiniteSet(J) /\ Cardinality(J) <= n
      /\ Cardinality(S) \in Nat /\ Cardinality(J) \in Nat /\ n \in Nat
    BY <1>1, FS_Subset, FS_CardinalityType
<1>3. CASE \E h \in Handlers : EnqueueInsert(h)
    <2>1. PICK h \in Handlers, t \in Tasks :
              /\ bot[h].pc = "insert"
              /\ row[t].status = "absent"
              /\ row' = [row EXCEPT ![t] = [NoRow EXCEPT
                            !.status = "queued", !.user_id = bot[h].user,
                            !.operation = bot[h].operation, !.created_at = bot[h].now]]
              /\ bot' = [bot EXCEPT ![h] = [@ EXCEPT !.pc = "send", !.task = t]]
        BY <1>3 DEF EnqueueInsert
    <2>2. \A s \in Tasks \ {t} : row'[s] = row[s]
        BY <2>1 DEF TypeOK
    <2>3. /\ row'[t].user_id = bot[h].user /\ row'[t].operation = bot[h].operation
          /\ row'[t].created_at = bot[h].now
        BY <2>1 DEF TypeOK, NoRow
    <2>4. bot'[h].pc = "send" /\ \A x \in Handlers \ {h} : bot'[x] = bot[x]
        BY <2>1 DEF TypeOK, HandlerStates
    <2> DEFINE T == S \ {t}
               K == Joining(u, op, T)
    <2>5. T \in SUBSET Same /\ Burst(T)
        BY <1>1, <2>2 DEF SameOperation, Burst
    <2>6. Cardinality(T) + Cardinality(K) <= n
        BY <2>5 DEF CooldownBoundsBursts
    <2>7. J \subseteq K \ {h}
        BY <1>1, <2>2, <2>4 DEF Joining, CoolingDown
    <2>8. /\ IsFiniteSet(T) /\ IsFiniteSet(K)
          /\ Cardinality(T) \in Nat /\ Cardinality(K) \in Nat
        BY <1>1, <1>2, FS_Subset, FS_CardinalityType
    <2>9. CASE t \in S
        <3>1. bot[h].user = u /\ bot[h].operation = op
            BY <2>3, <2>9 DEF SameOperation
        <3>2. \A x \in T : CoolingDown(x, bot[h].now)
            BY <1>1, <2>2, <2>3, <2>9 DEF Burst, CoolingDown
        <3>3. h \in K
            BY <2>1, <3>1, <3>2 DEF Joining
        <3>4. Cardinality(K \ {h}) = Cardinality(K) - 1 /\ IsFiniteSet(K \ {h})
            BY <2>8, <3>3, FS_RemoveElement, FS_Subset
        <3>5. Cardinality(J) <= Cardinality(K \ {h})
            BY <2>7, <3>4, FS_Subset
        <3>6. Cardinality(T) = Cardinality(S) - 1
            BY <1>2, <2>9, FS_RemoveElement
        <3> HIDE DEF T, K, J, n
        <3> QED
            BY <1>2, <2>6, <2>8, <3>4, <3>5, <3>6
    <2>10. CASE t \notin S
        <3>1. T = S
            BY <2>10
        <3>2. Cardinality(J) <= Cardinality(K)
            BY <2>7, <2>8, FS_Subset
        <3> HIDE DEF T, K, J, n
        <3> QED
            BY <1>2, <2>6, <2>8, <3>1, <3>2
    <2> QED
        BY <2>9, <2>10
<1>4. CASE ~ \E h \in Handlers : EnqueueInsert(h)
    <2>2. \A s \in S : /\ s \in Tasks
                       /\ row'[s].user_id = row[s].user_id
                       /\ row'[s].operation = row[s].operation
                       /\ row'[s].created_at = row[s].created_at
        BY <1>1, <1>4, StampsKept
    <2>3. S \in SUBSET Same /\ Burst(S)
        BY <2>2 DEF SameOperation, Burst
    <2>4. Cardinality(S) + Cardinality(Joining(u, op, S)) <= n
        BY <2>3 DEF CooldownBoundsBursts
    <2>5. CASE J \subseteq Joining(u, op, S)
        <3>1. IsFiniteSet(Joining(u, op, S)) /\ Cardinality(J) <= Cardinality(Joining(u, op, S))
            BY <1>1, <2>5, FS_Subset
        <3>2. Cardinality(Joining(u, op, S)) \in Nat
            BY <3>1, FS_CardinalityType
        <3> HIDE DEF J, n
        <3> QED
            BY <1>2, <2>4, <3>1, <3>2
    <2>6. ASSUME NEW x \in J, x \notin Joining(u, op, S) PROVE Goal
        <3>1. x \in Handlers /\ bot'[x].pc = "insert"
              /\ bot'[x].user = u /\ bot'[x].operation = op
              /\ \A s \in S : row[s].created_at + HEAVY_TASK_COOLDOWN_SECONDS > bot'[x].now
            BY <2>2, <2>6 DEF Joining, CoolingDown
        <3>2. EnqueueCheckCooldown(x)
            BY <2>6, <3>1, InsertingStep DEF Joining, CoolingDown
        <3>3. bot'[x].user = bot[x].user /\ bot'[x].operation = bot[x].operation
              /\ bot'[x].now = bot[x].now
            BY <3>1, <3>2, CooldownFrame DEF IdleHandler, TypeOK, HandlerStates
        <3>4. \A s \in S : ~CoolingDown(s, bot[x].now)
            BY <2>3, <3>1, <3>2, <3>3, CooldownPassed
        <3>5. S = {}
            BY <3>1, <3>3, <3>4 DEF CoolingDown
        <3> HIDE DEF J, n
        <3> QED
            BY <1>2, <3>5, FS_EmptySet
    <2> QED
        BY <2>5, <2>6
<1> QED
    BY <1>3, <1>4

\* The rows of one operation of one user that are less than a cooldown apart are as many
\* as handlers that were between the check and the insert together, under every
\* disturbance: with one handler all are a cooldown apart.
THEOREM Spacing ==
    IsFiniteSet(Tasks) /\ IsFiniteSet(Handlers) /\ Spec => []CooldownBoundsBursts
<1> SUFFICES ASSUME IsFiniteSet(Tasks), IsFiniteSet(Handlers)
             PROVE  Spec => []CooldownBoundsBursts
    OBVIOUS
<1>1. Init => CooldownBoundsBursts
    <2> SUFFICES ASSUME Init, NEW u \in Users, NEW op \in Operations
                 PROVE  \A S \in SUBSET SameOperation(u, op) :
                            Cardinality(S) + Cardinality(Joining(u, op, S))
                                <= Cardinality(Handlers)
        BY DEF CooldownBoundsBursts
    <2>1. SameOperation(u, op) = {} /\ \A S : Joining(u, op, S) = {}
        BY ConstantsAssumption DEF Init, SameOperation, Joining, NoRow, IdleHandler
    <2>2. Cardinality({}) = 0 /\ Cardinality(Handlers) \in Nat
        BY FS_EmptySet, FS_CardinalityType
    <2>3. \A S \in SUBSET SameOperation(u, op) :
             Cardinality(S) = 0 /\ Cardinality(Joining(u, op, S)) = 0
        BY <2>1, <2>2
    <2> QED
        BY <2>2, <2>3
<1>2. TypeOK /\ [Next]_vars /\ CooldownBoundsBursts => CooldownBoundsBursts'
    BY BurstStep
<1> QED
    BY <1>1, <1>2, TypeCorrect, PTL DEF Spec

-----------------------------------------------------------------------------
(* The global limit is passed by at most the other handlers and revivals   *)

\* A handler between the count and the insert weighs as much as the row it is about to
\* add, and a task that may come back to life as much as an active one.
LimitInv ==
    Present # {} \/ Admitted # {} =>
        Cardinality(Active \cup Disturbed) + Cardinality(Admitted)
            < HEAVY_TASK_GLOBAL_LIMIT + Cardinality(Handlers) + Revivals

LEMMA AdmittedStep ==
    ASSUME TypeOK, [Next]_vars,
           ~ \E h \in Handlers, u \in Users, op \in Operations : EnqueueBegin(h, u, op)
    PROVE  Admitted' \subseteq Admitted
<1> DEFINE Goal == Admitted' \subseteq Admitted
<1> SUFFICES Goal
    OBVIOUS
<1> USE DEF Admitted, Deciding, TypeOK, HandlerStates
<1>1. ASSUME NEW h \in Handlers, NEW u \in Users, NEW op \in Operations,
             EnqueueBegin(h, u, op)
      PROVE Goal
    BY <1>1
<1>2. ASSUME NEW h \in Handlers,
             EnqueueCheckUser(h)
      PROVE Goal
    BY <1>2 DEF EnqueueCheckUser, IdleHandler
<1>3. ASSUME NEW h \in Handlers,
             EnqueueCheckCooldown(h)
      PROVE Goal
    BY <1>3, CooldownFrame DEF IdleHandler
<1>4. ASSUME NEW h \in Handlers,
             EnqueueInsert(h)
      PROVE Goal
    BY <1>4 DEF EnqueueInsert
<1>5. ASSUME NEW h \in Handlers,
             SendTask(h)
      PROVE Goal
    BY <1>5 DEF SendTask
<1>6. ASSUME NEW h \in Handlers,
             SendFails(h)
      PROVE Goal
    BY <1>6 DEF SendFails, IdleHandler
<1>7. ASSUME NEW h \in Handlers,
             AttachCeleryId(h)
      PROVE Goal
    BY <1>7 DEF AttachCeleryId, IdleHandler
<1>8. ASSUME NEW h \in Handlers, NEW u \in Users,
             RequestCancelRead(h, u)
      PROVE Goal
    BY <1>8 DEF RequestCancelRead, IdleHandler
<1>9. ASSUME NEW h \in Handlers,
             RequestCancelCommit(h)
      PROVE Goal
    BY <1>9 DEF RequestCancelCommit
<1>10. ASSUME NEW h \in Handlers,
             CancelRevoke(h)
      PROVE Goal
    BY <1>10 DEF CancelRevoke, IdleHandler
<1>11. ASSUME BotCrash PROVE Goal
    BY <1>11 DEF BotCrash, IdleHandler
<1>12. CASE UNCHANGED bot
    BY <1>12
<1> HIDE DEF Goal, Admitted, Deciding, TypeOK, HandlerStates
<1> QED
    BY <1>1, <1>2, <1>3, <1>4, <1>5, <1>6, <1>7, <1>8, <1>9, <1>10, <1>11, <1>12
    DEF Next, HandlerNext, HandlerStep, Deliver, WorkerStep, vars, RunHeavyTask,
        SkipTask, MarkRunning, CheckpointCancels, LastCheckpointPasses,
        OperationFails, MarkFinished, Acknowledge, ExecutionLost, WorkerCrash,
        Restore, Duplicate, Tick, Requeue

LEMMA LimitStep ==
    ASSUME IsFiniteSet(Tasks), IsFiniteSet(Handlers), IsFiniteSet(Workers),
           TypeOK, Named, ReviveInv, LimitInv, [Next]_vars
    PROVE  LimitInv'
<1> DEFINE A == Active \cup Disturbed
           B == Active' \cup Disturbed'
<1>1. PICK Z \in SUBSET Tasks :
          /\ IsFiniteSet(Z) /\ Cardinality(Z) \in Nat
          /\ Cardinality(Z) <= Revivals' - Revivals
          /\ Disturbed' \subseteq Disturbed \cup Z
          /\ (\E h \in Handlers : EnqueueInsert(h)) \/ B \subseteq A \cup Z
    BY ReviveStep
<1>2. ReviveInv'
    BY ReviveStep
<1>3. /\ A \subseteq Tasks /\ B \subseteq Tasks
      /\ Active' \subseteq Tasks /\ Disturbed' \subseteq Tasks
      /\ Admitted \subseteq Handlers /\ Admitted' \subseteq Handlers
    BY DEF Active, Disturbed, Admitted
<1> HIDE DEF A, B
<1>4. /\ IsFiniteSet(A) /\ IsFiniteSet(B)
      /\ IsFiniteSet(Active') /\ IsFiniteSet(Disturbed')
      /\ IsFiniteSet(Admitted) /\ IsFiniteSet(Admitted')
      /\ Cardinality(Admitted') <= Cardinality(Handlers)
    BY <1>3, FS_Subset
<1>5. /\ Cardinality(A) \in Nat /\ Cardinality(B) \in Nat
      /\ Cardinality(Active') \in Nat /\ Cardinality(Disturbed') \in Nat
      /\ Cardinality(Admitted) \in Nat /\ Cardinality(Admitted') \in Nat
      /\ Cardinality(Handlers) \in Nat
    BY <1>4, FS_CardinalityType
<1>6. /\ Revivals \in Int /\ Revivals' \in Int
      /\ HEAVY_TASK_GLOBAL_LIMIT \in Nat
    BY TypeStep, RevivalsCount, ConstantsAssumption DEF TypeOK
<1>7. Present # {} \/ Admitted # {} =>
          Cardinality(A) + Cardinality(Admitted)
              < HEAVY_TASK_GLOBAL_LIMIT + Cardinality(Handlers) + Revivals
    BY DEF LimitInv, A
<1> DEFINE Goal == Cardinality(B) + Cardinality(Admitted')
                       < HEAVY_TASK_GLOBAL_LIMIT + Cardinality(Handlers) + Revivals'
<1>8. ASSUME NEW h \in Handlers, NEW u \in Users, NEW op \in Operations,
             EnqueueBegin(h, u, op)
      PROVE  Goal
    <2>1. Active' = Active /\ Cardinality(Active) < HEAVY_TASK_GLOBAL_LIMIT
        BY <1>8 DEF EnqueueBegin, BelowLimit, Active, IsActive
    <2>2. Cardinality(B) <= Cardinality(Active') + Cardinality(Disturbed')
        BY <1>4, SmallUnion DEF B
    <2>3. Cardinality(Disturbed') <= Revivals'
        BY <1>2 DEF ReviveInv
    <2> QED
        BY <1>4, <1>5, <1>6, <2>1, <2>2, <2>3
<1>9. ASSUME NEW h \in Handlers, EnqueueInsert(h) PROVE Goal
    <2>1. PICK t \in Tasks : Active' = Active \cup {t}
        BY <1>9 DEF EnqueueInsert, Active, IsActive, NoRow, ACTIVE_TASK_STATUSES,
           TypeOK, Rows
    <2>2. h \in Admitted /\ Admitted' = Admitted \ {h}
        BY <1>9 DEF EnqueueInsert, Admitted, Deciding, TypeOK, HandlerStates
    <2>3. B \subseteq (A \cup {t}) \cup Z
        BY <1>1, <2>1 DEF A, B
    <2>4. IsFiniteSet({t}) /\ Cardinality({t}) = 1
        BY FS_Singleton
    <2>5. /\ IsFiniteSet(A \cup {t})
          /\ Cardinality(A \cup {t}) <= Cardinality(A) + 1
        BY <1>4, <2>4, SmallUnion, FS_Union
    <2>6. Cardinality(B) <= Cardinality(A \cup {t}) + Cardinality(Z)
        BY <1>1, <2>3, <2>5, SmallUnion
    <2>7. Cardinality(Admitted') = Cardinality(Admitted) - 1
        BY <1>4, <2>2, FS_RemoveElement
    <2>8. Cardinality(A \cup {t}) \in Nat
        BY <2>5, FS_CardinalityType
    <2> QED
        BY <1>1, <1>5, <1>6, <1>7, <2>2, <2>5, <2>6, <2>7, <2>8
<1>10. ASSUME ~ \E h \in Handlers, u \in Users, op \in Operations : EnqueueBegin(h, u, op),
              ~ \E h \in Handlers : EnqueueInsert(h),
              Present' # {} \/ Admitted' # {}
       PROVE  Goal
    <2>1. Admitted' \subseteq Admitted /\ Present' \subseteq Present
        BY <1>10, AdmittedStep, ActiveStep DEF ReviveInv
    <2>2. B \subseteq A \cup Z
        BY <1>1, <1>10
    <2>3. Cardinality(B) <= Cardinality(A) + Cardinality(Z)
        BY <1>1, <1>4, <2>2, SmallUnion
    <2>4. Cardinality(Admitted') <= Cardinality(Admitted)
        BY <1>4, <2>1, FS_Subset
    <2> QED
        BY <1>1, <1>5, <1>6, <1>7, <1>10, <2>1, <2>3, <2>4
<1> QED
    BY <1>8, <1>9, <1>10 DEF LimitInv, B

\* Rows active or about to be inserted pass the global limit by fewer than the handlers
\* and the rows that a disturbance brought back to life.
THEOREM Overshoot ==
    IsFiniteSet(Tasks) /\ IsFiniteSet(Handlers) /\ IsFiniteSet(Workers) /\ Spec
    => []LimitOvershootBounded
<1> SUFFICES ASSUME IsFiniteSet(Tasks), IsFiniteSet(Handlers), IsFiniteSet(Workers)
             PROVE  Spec => []LimitOvershootBounded
    OBVIOUS
<1>1. Init => ReviveInv /\ LimitInv
    BY ReviveInit
    DEF Init, LimitInv, Present, Admitted, Deciding, NoRow, IdleHandler
<1>2. TypeOK /\ Named /\ [Next]_vars /\ ReviveInv /\ LimitInv => (ReviveInv /\ LimitInv)'
    BY ReviveStep, LimitStep
<1>3. TypeOK /\ Named /\ LimitInv => LimitOvershootBounded
    <2> SUFFICES ASSUME TypeOK, Named, LimitInv, Active # {} \/ Admitted # {}
                 PROVE  Cardinality(Active) + Cardinality(Admitted)
                            < HEAVY_TASK_GLOBAL_LIMIT + Cardinality(Handlers) + Revivals
        BY DEF LimitOvershootBounded
    <2>1. /\ IsFiniteSet(Active \cup Disturbed) /\ IsFiniteSet(Admitted)
          /\ Cardinality(Active) <= Cardinality(Active \cup Disturbed)
          /\ IsFiniteSet(Active)
        <3>1. Active \cup Disturbed \subseteq Tasks /\ Admitted \subseteq Handlers
            BY DEF Active, Disturbed, Admitted
        <3>2. IsFiniteSet(Active \cup Disturbed) /\ IsFiniteSet(Admitted)
            BY <3>1, FS_Subset
        <3> QED
            BY <3>2, FS_Subset
    <2>2. /\ Cardinality(Active) \in Nat /\ Cardinality(Active \cup Disturbed) \in Nat
          /\ Cardinality(Admitted) \in Nat /\ Cardinality(Handlers) \in Nat
        BY <2>1, FS_CardinalityType
    <2>3. Present # {} \/ Admitted # {}
        BY DisturbedIsPresent
    <2> QED
        BY <2>1, <2>2, <2>3, RevivalsTyped, ConstantsAssumption DEF LimitInv
<1> QED
    BY <1>1, <1>2, <1>3, TypeCorrect, PTL DEF Spec

=============================================================================
