--------------------------- MODULE OperationGuard ---------------------------
(***************************************************************************)
(* OperationGuard (services/concurrency.py): a cooldown check, a per-user  *)
(* asyncio.Lock and a global asyncio.Semaphore around a heavy operation.   *)
(*                                                                         *)
(* Coroutines share one event loop, so a step runs from one suspension to  *)
(* the next: only waiting on the semaphore, waiting on the lock and the    *)
(* operation itself suspend.  Semaphore and Lock are the standard          *)
(* library's (Python 3.13): FIFO deques of futures; a release resolves the *)
(* first unresolved future, whose coroutine resumes in a later step, in    *)
(* the order of resolution.  Nothing in the bot cancels a waiting caller.  *)
(***************************************************************************)
EXTENDS Naturals, Sequences, FiniteSets

CONSTANTS
    Users, Operations,
    Callers,                        \* concurrent calls of run_exclusive_heavy
    max_global_heavy_tasks,
    operation_cooldown_seconds,
    MaxTime,                        \* bound on the loop's clock
    None

ASSUME GuardAssumption ==
    /\ max_global_heavy_tasks \in Nat \ {0}
    /\ operation_cooldown_seconds \in Nat
    /\ MaxTime \in Nat
    /\ None \notin Users \cup Operations \cup Nat

VARIABLES
    clock,
    call,           \* what each caller does
    value,          \* _global_heavy_semaphore._value
    waiters,        \* _global_heavy_semaphore._waiters
    woken,          \* how many of the first waiters have a resolved future
    locked,         \* _user_locks[u]._locked
    lock_waiters,   \* _user_locks[u]._waiters
    lock_woken,     \* is the first of them resolved?
    last_time       \* _last_operation_time

vars == <<clock, call, value, waiters, woken, locked, lock_waiters, lock_woken, last_time>>

Idle == [pc |-> "idle", user |-> None, operation |-> None]

Init ==
    /\ clock = 0
    /\ call = [c \in Callers |-> Idle]
    /\ value = max_global_heavy_tasks
    /\ waiters = <<>> /\ woken = 0
    /\ locked = [u \in Users |-> FALSE]
    /\ lock_waiters = [u \in Users |-> <<>>]
    /\ lock_woken = [u \in Users |-> FALSE]
    /\ last_time = [k \in Users \X Operations |-> None]

Tick ==
    /\ clock < MaxTime
    /\ clock' = clock + 1
    /\ UNCHANGED <<call, value, waiters, woken, locked, lock_waiters, lock_woken, last_time>>

-----------------------------------------------------------------------------
\* Plausible bug: the early locked() check is trusted, nobody waits for the lock.
LockNeverAwaited(u) == TRUE

\* Lock.acquire succeeds at once.
LockFree(u) == ~locked[u] /\ lock_waiters[u] = <<>>

\* async with user_lock, by a caller that holds a slot of the semaphore.
EnterLock(c, u, op) ==
    IF LockFree(u)
    THEN /\ call' = [call EXCEPT ![c] =
                       [pc |-> "running", user |-> u, operation |-> op]]
         /\ locked' = [locked EXCEPT ![u] = TRUE]
         /\ UNCHANGED <<lock_waiters, lock_woken>>
    ELSE /\ call' = [call EXCEPT ![c] =
                       [pc |-> "lock_wait", user |-> u, operation |-> op]]
         /\ lock_waiters' = [lock_waiters EXCEPT ![u] = Append(@, c)]
         /\ UNCHANGED <<locked, lock_woken>>

Cooling(u, op) ==
    /\ last_time[<<u, op>>] # None
    /\ clock - last_time[<<u, op>>] < operation_cooldown_seconds

\* Semaphore.acquire succeeds at once only if nobody waits, resolved or not.
SlotFree == value > 0 /\ waiters = <<>>

\* OperationInProgressError: a refused call changes nothing.
Refuse(c, u, op) ==
    /\ call[c].pc = "idle"
    /\ Cooling(u, op) \/ locked[u]
    /\ UNCHANGED vars

\* An accepted call, up to its first suspension.
Start(c, u, op) ==
    /\ call[c].pc = "idle"
    /\ ~Cooling(u, op)
    /\ ~locked[u]
    /\ \/ /\ SlotFree
          /\ value' = value - 1
          /\ EnterLock(c, u, op)
          /\ UNCHANGED <<waiters, woken>>
       \/ /\ ~SlotFree
          /\ waiters' = Append(waiters, c)
          /\ call' = [call EXCEPT ![c] =
                        [pc |-> "sem_wait", user |-> u, operation |-> op]]
          /\ UNCHANGED <<value, woken, locked, lock_waiters, lock_woken>>
    /\ UNCHANGED <<clock, last_time>>

\* Plausible bug: more waiters are woken than there are.
WakesForEverySlot(rest) == value

\* How many further waiters a resumed one wakes: as many as there are slots.
SpareWakes(rest) == IF value < rest THEN value ELSE rest

\* The first resolved waiter of the semaphore resumes with its slot.
ResumeSemaphore(c) ==
    LET u == call[c].user
        k == SpareWakes(Len(waiters) - woken)
    IN  /\ woken > 0
        /\ c = Head(waiters)
        /\ waiters' = Tail(waiters)
        /\ woken' = woken - 1 + k
        /\ value' = value - k
        /\ EnterLock(c, u, call[c].operation)
        /\ UNCHANGED <<clock, last_time>>

\* The resolved waiter of a user's lock resumes and takes it.
ResumeLock(c) ==
    LET u == call[c].user
    IN  /\ call[c].pc = "lock_wait"
        /\ lock_woken[u]
        /\ c = Head(lock_waiters[u])
        /\ lock_waiters' = [lock_waiters EXCEPT ![u] = Tail(@)]
        /\ lock_woken' = [lock_woken EXCEPT ![u] = FALSE]
        /\ locked' = [locked EXCEPT ![u] = TRUE]
        /\ call' = [call EXCEPT ![c].pc = "running"]
        /\ UNCHANGED <<clock, value, waiters, woken, last_time>>

\* Plausible bug: the slot goes back to the counter although a waiter got it.
ReleaseSlotTwice ==
    /\ value' = value + 1
    /\ woken' = IF woken < Len(waiters) THEN woken + 1 ELSE woken

\* Plausible bug: the counter goes up and nobody is told.
ReleaseSlotUnnoticed == value' = value + 1 /\ UNCHANGED woken

\* Semaphore.release: the slot goes to the first unresolved waiter, if any.
ReleaseSlot ==
    IF woken < Len(waiters)
    THEN woken' = woken + 1 /\ UNCHANGED value
    ELSE value' = value + 1 /\ UNCHANGED woken

\* Plausible bug: acquire and release without try/finally.
FinishLeakingOnError(c, ok) ==
    LET u == call[c].user
    IN  /\ call[c].pc = "running"
        /\ call' = [call EXCEPT ![c] = Idle]
        /\ IF ok
           THEN /\ locked' = [locked EXCEPT ![u] = FALSE]
                /\ lock_woken' = [lock_woken EXCEPT ![u] = lock_waiters[u] # <<>>]
                /\ ReleaseSlot
                /\ last_time' = [last_time EXCEPT ![<<u, call[c].operation>>] = clock]
           ELSE UNCHANGED <<locked, lock_woken, value, woken, last_time>>
        /\ UNCHANGED <<clock, waiters, lock_waiters>>

\* The operation ends; both context managers release, the lock first.  Only an
\* operation that did not raise is remembered.
Finish(c, ok) ==
    LET u == call[c].user
    IN  /\ call[c].pc = "running"
        /\ locked' = [locked EXCEPT ![u] = FALSE]
        /\ lock_woken' = [lock_woken EXCEPT ![u] = lock_waiters[u] # <<>>]
        /\ ReleaseSlot
        /\ call' = [call EXCEPT ![c] = Idle]
        /\ last_time' = IF ok
                        THEN [last_time EXCEPT ![<<u, call[c].operation>>] = clock]
                        ELSE last_time
        /\ UNCHANGED <<clock, waiters, lock_waiters>>

-----------------------------------------------------------------------------
Step(c) == ResumeSemaphore(c) \/ ResumeLock(c) \/ \E ok \in BOOLEAN : Finish(c, ok)

Next ==
    \/ Tick
    \/ \E c \in Callers :
          \/ \E u \in Users, op \in Operations : Start(c, u, op) \/ Refuse(c, u, op)
          \/ Step(c)

Spec == Init /\ [][Next]_vars

\* The loop resumes whoever is ready, and operations end; nobody has to call.
FairSpec == Spec /\ \A c \in Callers : WF_vars(Step(c))

-----------------------------------------------------------------------------
(* Properties. *)

Calls == [pc : {"idle"}, user : {None}, operation : {None}]
         \cup [pc : {"sem_wait", "lock_wait", "running"}, user : Users, operation : Operations]

\* Types, and the resolved waiters of the semaphore are among its waiters.
TypeOK ==
    /\ clock \in 0..MaxTime
    /\ call \in [Callers -> Calls]
    /\ value \in Nat
    /\ waiters \in Seq(Callers)
    /\ woken \in 0..Len(waiters)
    /\ locked \in [Users -> BOOLEAN]
    /\ lock_waiters \in [Users -> Seq(Callers)]
    /\ lock_woken \in [Users -> BOOLEAN]
    /\ last_time \in [Users \X Operations -> Nat \cup {None}]

Holders == {c \in Callers : call[c].pc \in {"lock_wait", "running"}}

\* No slot of the global semaphore is lost or made up: those free, those given
\* to a resolved waiter and those held make up the configured limit, however
\* operations end (concurrency.py:56).
SlotsConserved == value + woken + Cardinality(Holders) = max_global_heavy_tasks

Abs == INSTANCE ExclusiveHeavy WITH
    Limit <- max_global_heavy_tasks,
    serving <- [c \in Callers |-> IF call[c].pc = "running" THEN call[c].user ELSE None]

\* The guard keeps what its docstring promises (concurrency.py:40): one running
\* operation per user, at most max_global_heavy_tasks in all, although the
\* lock is looked at long before it is taken.
ImplementsExclusiveHeavy == Abs!Spec

\* Not suspended in a wait: its operation runs, or its future is resolved and the
\* loop will resume it.
Moves(c) ==
    \/ call[c].pc = "running"
    \/ woken > 0 /\ waiters # <<>> /\ c = Head(waiters)
    \/ /\ call[c].pc = "lock_wait" /\ lock_woken[call[c].user]
       /\ lock_waiters[call[c].user] # <<>> /\ c = Head(lock_waiters[call[c].user])

\* The callers never all wait for each other: while calls are pending one of them can
\* go on, although slots are held by callers that wait for a lock and locks by
\* operations that wait for nobody (concurrency.py:56).
SomebodyMoves == (\E c \in Callers : call[c].pc # "idle") => \E c \in Callers : Moves(c)

\* A call that was not refused gets its turn and returns: semaphore and lock
\* are taken in one order, released on every way out, and wake-ups are not lost.
EveryCallReturns == \A c \in Callers : call[c].pc # "idle" ~> call[c].pc = "idle"

=============================================================================
