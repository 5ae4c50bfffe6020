------------------------ MODULE OperationGuard_proofs ------------------------
(***************************************************************************)
(* What TLAPS proves of OperationGuard, for any users, operations, callers *)
(* and limits.  The inductive invariant adds to the types: who queues at   *)
(* the semaphore, once (Queued); a running call holds its user's lock,     *)
(* alone, and a resolved waiter of a lock finds it free (LockInv).         *)
(***************************************************************************)
EXTENDS OperationGuard, FiniteSetTheorems, SequenceTheorems, TLAPS

Queued ==
    /\ \A i \in 1..Len(waiters) : call[waiters[i]].pc = "sem_wait"
    /\ \A i, j \in 1..Len(waiters) : waiters[i] = waiters[j] => i = j

LockInv ==
    /\ \A c \in Callers : call[c].pc = "running" => locked[call[c].user]
    /\ \A c, d \in Callers :
          /\ call[c].pc = "running" /\ call[d].pc = "running"
          /\ call[c].user = call[d].user
          => c = d
    /\ \A u \in Users : lock_woken[u] => ~locked[u] /\ lock_waiters[u] # <<>>

-----------------------------------------------------------------------------
(* Types.                                                                  *)

LEMMA IdleTyped == Idle \in Calls
BY DEF Idle, Calls

LEMMA EnterLockTyped ==
    ASSUME TypeOK, NEW c \in Callers, NEW u \in Users, NEW op \in Operations,
           EnterLock(c, u, op)
    PROVE  /\ call' \in [Callers -> Calls]
           /\ locked' \in [Users -> BOOLEAN]
           /\ lock_waiters' \in [Users -> Seq(Callers)]
           /\ lock_woken' \in [Users -> BOOLEAN]
<1>1. \A pc \in {"sem_wait", "lock_wait", "running"} :
         [pc |-> pc, user |-> u, operation |-> op] \in Calls
    BY DEF Calls
<1>2. Append(lock_waiters[u], c) \in Seq(Callers)
    BY AppendProperties DEF TypeOK
<1> QED
    BY <1>1, <1>2 DEF EnterLock, TypeOK

LEMMA WakesTyped ==
    ASSUME TypeOK, NEW k \in Nat
    PROVE  /\ SpareWakes(k) \in Nat
           /\ SpareWakes(k) <= k
           /\ SpareWakes(k) <= value
BY DEF TypeOK, SpareWakes

LEMMA CallTyped ==
    ASSUME TypeOK, NEW c \in Callers, call[c].pc # "idle"
    PROVE  call[c].user \in Users /\ call[c].operation \in Operations
BY DEF TypeOK, Calls

LEMMA TypeStep == TypeOK /\ Queued /\ LockInv /\ [Next]_vars => TypeOK'
<1> SUFFICES ASSUME TypeOK, Queued, LockInv, [Next]_vars PROVE TypeOK'
    OBVIOUS
<1> USE GuardAssumption
<1>1. CASE Tick
    BY <1>1 DEF Tick, TypeOK
<1>2. ASSUME NEW c \in Callers, NEW u \in Users, NEW op \in Operations, Start(c, u, op)
      PROVE  TypeOK'
    <2>1. CASE SlotFree
        <3>1. EnterLock(c, u, op) /\ value' = value - 1
            BY <1>2, <2>1 DEF Start
        <3>2. value' \in Nat
            BY <3>1, <2>1 DEF SlotFree, TypeOK
        <3> QED
            BY <1>2, <2>1, <3>1, <3>2, EnterLockTyped DEF Start, TypeOK
    <2>2. CASE ~SlotFree
        <3>1. /\ Append(waiters, c) \in Seq(Callers)
              /\ Len(Append(waiters, c)) = Len(waiters) + 1
            BY AppendProperties DEF TypeOK
        <3>2. [pc |-> "sem_wait", user |-> u, operation |-> op] \in Calls
            BY DEF Calls
        <3>3. Len(waiters) \in Nat
            BY LenProperties DEF TypeOK
        <3>4. woken \in 0..Len(waiters')
            BY <1>2, <2>2, <3>1, <3>3 DEF Start, TypeOK
        <3> QED
            BY <1>2, <2>2, <3>1, <3>2, <3>4 DEF Start, TypeOK
    <2> QED
        BY <2>1, <2>2
<1>3. ASSUME NEW c \in Callers, ResumeSemaphore(c)
      PROVE  TypeOK'
    <2> DEFINE k == SpareWakes(Len(waiters) - woken)
    <2>1. Len(waiters) \in Nat /\ woken \in Nat /\ woken > 0 /\ woken <= Len(waiters)
        BY <1>3, LenProperties DEF ResumeSemaphore, TypeOK
    <2>2. k \in Nat /\ k <= Len(waiters) - woken /\ k <= value
        BY <2>1, WakesTyped
    <2>3. waiters # <<>>
        BY <2>1, EmptySeq
    <2>4. Tail(waiters) \in Seq(Callers) /\ Len(Tail(waiters)) = Len(waiters) - 1
        BY <2>3, HeadTailProperties DEF TypeOK
    <2>5. waiters[1] = c /\ 1 \in 1..Len(waiters)
        BY <1>3, <2>1, <2>3 DEF ResumeSemaphore, TypeOK
    <2>6. call[c].pc = "sem_wait"
        BY <2>5 DEF Queued
    <2>7. EnterLock(c, call[c].user, call[c].operation)
        BY <1>3 DEF ResumeSemaphore
    <2>8. /\ call' \in [Callers -> Calls]
          /\ locked' \in [Users -> BOOLEAN]
          /\ lock_waiters' \in [Users -> Seq(Callers)]
          /\ lock_woken' \in [Users -> BOOLEAN]
        BY <2>6, <2>7, CallTyped, EnterLockTyped
    <2>9. value' \in Nat /\ woken' \in 0..Len(waiters')
        BY <1>3, <2>1, <2>2, <2>4 DEF ResumeSemaphore, TypeOK
    <2> QED
        BY <1>3, <2>4, <2>8, <2>9 DEF ResumeSemaphore, TypeOK
<1>4. ASSUME NEW c \in Callers, ResumeLock(c)
      PROVE  TypeOK'
    <2> DEFINE u == call[c].user
    <2>1. u \in Users
        BY <1>4, CallTyped DEF ResumeLock
    <2>2. Tail(lock_waiters[u]) \in Seq(Callers)
        <3>1. lock_waiters[u] # <<>> /\ lock_waiters[u] \in Seq(Callers)
            BY <1>4, <2>1 DEF ResumeLock, LockInv, TypeOK
        <3> QED
            BY <3>1, HeadTailProperties
    <2>3. \A r \in Calls : r.pc = "lock_wait" => [r EXCEPT !.pc = "running"] \in Calls
        BY DEF Calls
    <2>4. [call[c] EXCEPT !.pc = "running"] \in Calls
        BY <1>4, <2>3 DEF ResumeLock, TypeOK
    <2>5. call' \in [Callers -> Calls]
        BY <1>4, <2>4 DEF ResumeLock, TypeOK
    <2> QED
        BY <1>4, <2>1, <2>2, <2>5 DEF ResumeLock, TypeOK
<1>5. ASSUME NEW c \in Callers, NEW ok \in BOOLEAN, Finish(c, ok)
      PROVE  TypeOK'
    <2> DEFINE u == call[c].user
    <2>1. u \in Users /\ call[c].operation \in Operations
        BY <1>5, CallTyped DEF Finish
    <2>2. value' \in Nat /\ woken' \in 0..Len(waiters')
        <3>1. Len(waiters) \in Nat
            BY LenProperties DEF TypeOK
        <3> QED
            BY <1>5, <3>1 DEF Finish, ReleaseSlot, TypeOK
    <2>3. call' \in [Callers -> Calls]
        BY <1>5, IdleTyped DEF Finish, TypeOK
    <2>4. last_time' \in [Users \X Operations -> Nat \cup {None}]
        BY <1>5, <2>1 DEF Finish, TypeOK
    <2>5. locked' \in [Users -> BOOLEAN] /\ lock_woken' \in [Users -> BOOLEAN]
        BY <1>5, <2>1 DEF Finish, TypeOK
    <2> QED
        BY <1>5, <2>2, <2>3, <2>4, <2>5 DEF Finish, TypeOK
<1>6. ASSUME NEW c \in Callers, NEW u \in Users, NEW op \in Operations, Refuse(c, u, op)
      PROVE  TypeOK'
    BY <1>6 DEF Refuse, vars, TypeOK
<1>7. CASE UNCHANGED vars
    BY <1>7 DEF vars, TypeOK
<1> QED
    BY <1>1, <1>2, <1>3, <1>4, <1>5, <1>6, <1>7 DEF Next, Step

-----------------------------------------------------------------------------
(* Who waits at the semaphore, and who holds a lock.                       *)

\* The facts about the first resolved waiter that every proof below needs.
LEMMA FirstWaiter ==
    ASSUME TypeOK, Queued, NEW c \in Callers, ResumeSemaphore(c)
    PROVE  /\ Len(waiters) \in Nat /\ woken \in 1..Len(waiters)
           /\ waiters # <<>>
           /\ 1 \in 1..Len(waiters) /\ waiters[1] = c
           /\ call[c].pc = "sem_wait"
           /\ EnterLock(c, call[c].user, call[c].operation)
<1>1. Len(waiters) \in Nat /\ woken \in 1..Len(waiters)
    BY LenProperties DEF ResumeSemaphore, TypeOK
<1>2. waiters # <<>>
    BY <1>1, EmptySeq
<1>3. 1 \in 1..Len(waiters) /\ waiters[1] = c
    BY <1>1, <1>2 DEF ResumeSemaphore, TypeOK
<1> QED
    BY <1>1, <1>2, <1>3 DEF ResumeSemaphore, Queued

LEMMA EnterLockFrame ==
    ASSUME TypeOK, NEW c \in Callers, NEW u \in Users, NEW op \in Operations,
           EnterLock(c, u, op)
    PROVE  /\ \A d \in Callers \ {c} : call'[d] = call[d]
           /\ call'[c].user = u
           /\ call'[c].pc = IF LockFree(u) THEN "running" ELSE "lock_wait"
BY DEF EnterLock, TypeOK

LEMMA EnterLockKeepsLockInv ==
    ASSUME TypeOK, LockInv, NEW c \in Callers, NEW u \in Users, NEW op \in Operations,
           call[c].pc # "running", EnterLock(c, u, op)
    PROVE  LockInv'
<1>1. CASE LockFree(u)
    <2>1. \A d \in Callers : call[d].pc = "running" => call[d].user # u
        BY <1>1 DEF LockInv, LockFree
    <2>2. /\ locked' = [locked EXCEPT ![u] = TRUE]
          /\ lock_waiters' = lock_waiters /\ lock_woken' = lock_woken
        BY <1>1 DEF EnterLock
    <2>3. ~lock_woken[u]
        BY <1>1 DEF LockInv, LockFree
    <2>4. \A d \in Callers : call'[d].pc = "running" => locked'[call'[d].user]
        <3>1. locked'[u] /\ \A v \in Users : locked[v] => locked'[v]
            BY <2>2 DEF TypeOK
        <3>2. call'[c].user = u /\ \A d \in Callers \ {c} : call'[d] = call[d]
            BY EnterLockFrame
        <3>3. \A d \in Callers : call[d].pc = "running" => call[d].user \in Users
            BY CallTyped
        <3> QED
            BY <3>1, <3>2, <3>3 DEF LockInv
    <2>5. \A d, e \in Callers :
             call'[d].pc = "running" /\ call'[e].pc = "running"
             /\ call'[d].user = call'[e].user => d = e
        BY <2>1, EnterLockFrame DEF LockInv
    <2>6. \A v \in Users : lock_woken'[v] => ~locked'[v] /\ lock_waiters'[v] # <<>>
        BY <2>2, <2>3 DEF LockInv, TypeOK
    <2> QED
        BY <2>4, <2>5, <2>6 DEF LockInv
<1>2. CASE ~LockFree(u)
    <2>1. /\ lock_waiters' = [lock_waiters EXCEPT ![u] = Append(@, c)]
          /\ locked' = locked /\ lock_woken' = lock_woken
        BY <1>2 DEF EnterLock
    <2>2. Append(lock_waiters[u], c) # <<>>
        BY AppendProperties DEF TypeOK
    <2>3. \A v \in Users : lock_woken'[v] => ~locked'[v] /\ lock_waiters'[v] # <<>>
        BY <2>1, <2>2 DEF LockInv, TypeOK
    <2>4. \A d \in Callers : call'[d].pc = "running" => call'[d] = call[d]
        BY <1>2, EnterLockFrame
    <2> QED
        BY <2>1, <2>3, <2>4 DEF LockInv
<1> QED
    BY <1>1, <1>2

LEMMA QueuedStep == TypeOK /\ Queued /\ [Next]_vars => Queued'
<1> SUFFICES ASSUME TypeOK, Queued, [Next]_vars PROVE Queued'
    OBVIOUS
<1>0. Len(waiters) \in Nat /\ \A i \in 1..Len(waiters) : waiters[i] \in Callers
    BY LenProperties, ElementOfSeq DEF TypeOK
<1>1. CASE Tick
    BY <1>1 DEF Tick, Queued
<1>2. ASSUME NEW c \in Callers, NEW u \in Users, NEW op \in Operations, Start(c, u, op)
      PROVE  Queued'
    <2>1. \A i \in 1..Len(waiters) : waiters[i] # c
        BY <1>2 DEF Start, Queued
    <2>2. CASE SlotFree
        <3>1. waiters' = waiters /\ \A d \in Callers \ {c} : call'[d] = call[d]
            BY <1>2, <2>2, EnterLockFrame DEF Start
        <3> QED
            BY <1>0, <2>1, <3>1 DEF Queued
    <2>3. CASE ~SlotFree
        <3>1. /\ waiters' = Append(waiters, c)
              /\ call'[c].pc = "sem_wait"
              /\ \A d \in Callers \ {c} : call'[d] = call[d]
            BY <1>2, <2>3 DEF Start, TypeOK
        <3>2. /\ Len(waiters') = Len(waiters) + 1
              /\ \A i \in 1..Len(waiters) : waiters'[i] = waiters[i]
              /\ waiters'[Len(waiters) + 1] = c
            BY <3>1, AppendProperties DEF TypeOK
        <3> QED
            BY <1>0, <2>1, <3>1, <3>2 DEF Queued
    <2> QED
        BY <2>2, <2>3
<1>3. ASSUME NEW c \in Callers, ResumeSemaphore(c)
      PROVE  Queued'
    <2>1. /\ waiters' = Tail(waiters)
          /\ \A d \in Callers \ {c} : call'[d] = call[d]
        BY <1>3, FirstWaiter, CallTyped, EnterLockFrame DEF ResumeSemaphore
    <2>2. /\ Len(waiters') = Len(waiters) - 1
          /\ \A i \in 1..Len(waiters') : waiters'[i] = waiters[i + 1]
        BY <1>3, <2>1, FirstWaiter, HeadTailProperties DEF TypeOK
    <2>3. \A i \in 1..Len(waiters') : i + 1 \in 1..Len(waiters) /\ i + 1 # 1
        BY <1>0, <2>2
    <2>4. \A i \in 1..Len(waiters') : waiters[i + 1] \in Callers \ {c}
        BY <1>0, <1>3, <2>3, FirstWaiter DEF Queued
    <2>5. \A i \in 1..Len(waiters') : call'[waiters'[i]].pc = "sem_wait"
        BY <2>1, <2>2, <2>3, <2>4 DEF Queued
    <2>6. \A i, j \in 1..Len(waiters') : waiters'[i] = waiters'[j] => i = j
        <3> SUFFICES ASSUME NEW i \in 1..Len(waiters'), NEW j \in 1..Len(waiters'),
                            waiters'[i] = waiters'[j]
                     PROVE  i = j
            OBVIOUS
        <3>1. waiters[i + 1] = waiters[j + 1]
            BY <2>2
        <3>2. i + 1 = j + 1
            BY <2>3, <3>1 DEF Queued
        <3> QED
            BY <1>0, <2>2, <3>2
    <2> QED
        BY <2>5, <2>6 DEF Queued
<1>4. ASSUME NEW c \in Callers, ResumeLock(c)
      PROVE  Queued'
    BY <1>0, <1>4 DEF ResumeLock, Queued, TypeOK
<1>5. ASSUME NEW c \in Callers, NEW ok \in BOOLEAN, Finish(c, ok)
      PROVE  Queued'
    BY <1>0, <1>5 DEF Finish, Queued, TypeOK
<1>6. ASSUME NEW c \in Callers, NEW u \in Users, NEW op \in Operations, Refuse(c, u, op)
      PROVE  Queued'
    BY <1>6 DEF Refuse, vars, Queued
<1>7. CASE UNCHANGED vars
    BY <1>7 DEF vars, Queued
<1> QED
    BY <1>1, <1>2, <1>3, <1>4, <1>5, <1>6, <1>7 DEF Next, Step

LEMMA LockStep == TypeOK /\ Queued /\ LockInv /\ [Next]_vars => LockInv'
<1> SUFFICES ASSUME TypeOK, Queued, LockInv, [Next]_vars PROVE LockInv'
    OBVIOUS
<1>1. CASE Tick
    BY <1>1 DEF Tick, LockInv
<1>2. ASSUME NEW c \in Callers, NEW u \in Users, NEW op \in Operations, Start(c, u, op)
      PROVE  LockInv'
    <2>1. CASE SlotFree
        BY <1>2, <2>1, EnterLockKeepsLockInv DEF Start
    <2>2. CASE ~SlotFree
        <3>1. \A d \in Callers : call'[d].pc = "running" => call'[d] = call[d]
            BY <1>2, <2>2 DEF Start, TypeOK
        <3> QED
            BY <1>2, <2>2, <3>1 DEF Start, LockInv
    <2> QED
        BY <2>1, <2>2
<1>3. ASSUME NEW c \in Callers, ResumeSemaphore(c)
      PROVE  LockInv'
    BY <1>3, FirstWaiter, CallTyped, EnterLockKeepsLockInv
<1>4. ASSUME NEW c \in Callers, ResumeLock(c)
      PROVE  LockInv'
    <2> DEFINE u == call[c].user
    <2>1. u \in Users /\ lock_woken[u] /\ ~locked[u]
        BY <1>4, CallTyped DEF ResumeLock, LockInv
    <2>2. \A d \in Callers : call[d].pc = "running" => call[d].user # u
        BY <2>1 DEF LockInv
    <2>3. /\ locked' = [locked EXCEPT ![u] = TRUE]
          /\ lock_woken' = [lock_woken EXCEPT ![u] = FALSE]
          /\ lock_waiters' = [lock_waiters EXCEPT ![u] = Tail(@)]
        BY <1>4 DEF ResumeLock
    <2>4. /\ \A d \in Callers \ {c} : call'[d] = call[d]
          /\ call'[c].user = u
        BY <1>4 DEF ResumeLock, TypeOK, Calls
    <2>5. \A d \in Callers : call'[d].pc = "running" => locked'[call'[d].user]
        <3>1. locked'[u] /\ \A v \in Users : locked[v] => locked'[v]
            BY <2>1, <2>3 DEF TypeOK
        <3>2. \A d \in Callers : call[d].pc = "running" => call[d].user \in Users
            BY CallTyped
        <3> QED
            BY <2>4, <3>1, <3>2 DEF LockInv
    <2>6. \A d, e \in Callers :
             call'[d].pc = "running" /\ call'[e].pc = "running"
             /\ call'[d].user = call'[e].user => d = e
        BY <2>2, <2>4 DEF LockInv
    <2>7. \A v \in Users : lock_woken'[v] => ~locked'[v] /\ lock_waiters'[v] # <<>>
        BY <2>1, <2>3 DEF LockInv, TypeOK
    <2> QED
        BY <2>5, <2>6, <2>7 DEF LockInv
<1>5. ASSUME NEW c \in Callers, NEW ok \in BOOLEAN, Finish(c, ok)
      PROVE  LockInv'
    <2> DEFINE u == call[c].user
    <2>1. u \in Users /\ call[c].pc = "running"
        BY <1>5, CallTyped DEF Finish
    <2>2. /\ locked' = [locked EXCEPT ![u] = FALSE]
          /\ lock_woken' = [lock_woken EXCEPT ![u] = lock_waiters[u] # <<>>]
          /\ lock_waiters' = lock_waiters
        BY <1>5 DEF Finish
    <2>3. \A d \in Callers : call'[d].pc = "running" => d # c /\ call'[d] = call[d]
        BY <1>5 DEF Finish, Idle, TypeOK
    <2>4. \A d \in Callers : call'[d].pc = "running" => locked'[call'[d].user]
        BY <2>1, <2>2, <2>3, CallTyped DEF LockInv, TypeOK
    <2>5. \A v \in Users : lock_woken'[v] => ~locked'[v] /\ lock_waiters'[v] # <<>>
        BY <2>1, <2>2 DEF LockInv, TypeOK
    <2> QED
        BY <2>3, <2>4, <2>5 DEF LockInv
<1>6. ASSUME NEW c \in Callers, NEW u \in Users, NEW op \in Operations, Refuse(c, u, op)
      PROVE  LockInv'
    BY <1>6 DEF Refuse, vars, LockInv
<1>7. CASE UNCHANGED vars
    BY <1>7 DEF vars, LockInv
<1> QED
    BY <1>1, <1>2, <1>3, <1>4, <1>5, <1>6, <1>7 DEF Next, Step

Inv == TypeOK /\ Queued /\ LockInv

LEMMA InvInit == Init => Inv
BY GuardAssumption, IdleTyped, EmptySeq DEF Init, Inv, TypeOK, Queued, LockInv, Idle

\* Types hold, for any users, operations, callers, limit and cooldown; with
\* them, who waits where and who holds which lock.
THEOREM TypeCorrect == Spec => []TypeOK
<1>1. Inv /\ [Next]_vars => Inv'
    BY TypeStep, QueuedStep, LockStep DEF Inv
<1>2. Inv => TypeOK
    BY DEF Inv
<1> QED
    BY InvInit, <1>1, <1>2, PTL DEF Spec

-----------------------------------------------------------------------------
(* No slot is lost or made up.                                             *)

LEMMA EnterLockHolds ==
    ASSUME TypeOK, NEW c \in Callers, NEW u \in Users, NEW op \in Operations,
           IsFiniteSet(Callers), call[c].pc \in {"idle", "sem_wait"}, EnterLock(c, u, op)
    PROVE  Cardinality(Holders') = Cardinality(Holders) + 1
<1>1. c \notin Holders /\ IsFiniteSet(Holders)
    BY FS_Subset DEF Holders
<1>2. Holders' = Holders \cup {c}
    BY EnterLockFrame DEF Holders
<1> QED
    BY <1>1, <1>2, FS_AddElement

LEMMA SlotsStep ==
    ASSUME IsFiniteSet(Callers)
    PROVE  Inv /\ SlotsConserved /\ [Next]_vars => SlotsConserved'
<1> SUFFICES ASSUME Inv, SlotsConserved, [Next]_vars PROVE SlotsConserved'
    OBVIOUS
<1>0. TypeOK /\ Queued /\ LockInv
    BY DEF Inv
<1>a. /\ value \in Nat /\ woken \in Nat /\ Len(waiters) \in Nat
      /\ max_global_heavy_tasks \in Nat
    BY <1>0, GuardAssumption, LenProperties DEF TypeOK
<1>b. IsFiniteSet(Holders) /\ Cardinality(Holders) \in Nat
    BY FS_Subset, FS_CardinalityType DEF Holders
<1>1. CASE Tick
    BY <1>1 DEF Tick, SlotsConserved, Holders
<1>2. ASSUME NEW c \in Callers, NEW u \in Users, NEW op \in Operations, Start(c, u, op)
      PROVE  SlotsConserved'
    <2>1. CASE SlotFree
        <3>1. Cardinality(Holders') = Cardinality(Holders) + 1
            BY <1>0, <1>2, <2>1, EnterLockHolds DEF Start
        <3>2. value' = value - 1 /\ woken' = woken
            BY <1>2, <2>1 DEF Start
        <3> QED
            BY <1>a, <1>b, <3>1, <3>2 DEF SlotsConserved
    <2>2. CASE ~SlotFree
        <3>1. Holders' = Holders
            <4>1. call' = [call EXCEPT ![c] =
                             [pc |-> "sem_wait", user |-> u, operation |-> op]]
                  /\ call[c].pc = "idle"
                BY <1>2, <2>2 DEF Start
            <4>2. \A d \in Callers : call'[d].pc \in {"lock_wait", "running"}
                                   <=> call[d].pc \in {"lock_wait", "running"}
                BY <1>0, <4>1 DEF TypeOK
            <4> QED
                BY <4>2 DEF Holders
        <3> QED
            BY <1>2, <2>2, <3>1 DEF Start, SlotsConserved
    <2> QED
        BY <2>1, <2>2
<1>3. ASSUME NEW c \in Callers, ResumeSemaphore(c)
      PROVE  SlotsConserved'
    <2> DEFINE k == SpareWakes(Len(waiters) - woken)
    <2>1. Cardinality(Holders') = Cardinality(Holders) + 1
        BY <1>0, <1>3, FirstWaiter, CallTyped, EnterLockHolds
    <2>2. k \in Nat
        <3>1. Len(waiters) - woken \in Nat
            BY <1>0, <1>a DEF TypeOK
        <3> QED
            BY <1>0, <3>1, WakesTyped
    <2>3. value' = value - k /\ woken' = woken - 1 + k
        BY <1>3 DEF ResumeSemaphore
    <2> QED
        BY <1>a, <1>b, <2>1, <2>2, <2>3 DEF SlotsConserved
<1>4. ASSUME NEW c \in Callers, ResumeLock(c)
      PROVE  SlotsConserved'
    <2>1. Holders' = Holders
        BY <1>0, <1>4 DEF ResumeLock, Holders, TypeOK, Calls
    <2> QED
        BY <1>4, <2>1 DEF ResumeLock, SlotsConserved
<1>5. ASSUME NEW c \in Callers, NEW ok \in BOOLEAN, Finish(c, ok)
      PROVE  SlotsConserved'
    <2>1. c \in Holders /\ Holders' = Holders \ {c}
        BY <1>0, <1>5 DEF Finish, Holders, Idle, TypeOK
    <2>2. Cardinality(Holders') = Cardinality(Holders) - 1
        BY <1>b, <2>1, FS_RemoveElement
    <2>3. \/ value' = value /\ woken' = woken + 1
          \/ value' = value + 1 /\ woken' = woken
        BY <1>5, <1>a DEF Finish, ReleaseSlot
    <2> QED
        BY <1>a, <1>b, <2>2, <2>3 DEF SlotsConserved
<1>6. ASSUME NEW c \in Callers, NEW u \in Users, NEW op \in Operations, Refuse(c, u, op)
      PROVE  SlotsConserved'
    BY <1>6 DEF Refuse, vars, SlotsConserved, Holders
<1>7. CASE UNCHANGED vars
    BY <1>7 DEF vars, SlotsConserved, Holders
<1> QED
    BY <1>1, <1>2, <1>3, <1>4, <1>5, <1>6, <1>7 DEF Next, Step

LEMMA SlotsInit == Init => SlotsConserved
<1> SUFFICES ASSUME Init PROVE SlotsConserved
    OBVIOUS
<1>1. Holders = {}
    BY DEF Init, Holders, Idle
<1> QED
    BY <1>1, GuardAssumption, FS_EmptySet DEF Init, SlotsConserved

\* No slot of the semaphore is ever lost or made up, for any finite number of
\* concurrent calls.
THEOREM SlotsKept == IsFiniteSet(Callers) /\ Spec => []SlotsConserved
<1> SUFFICES ASSUME IsFiniteSet(Callers) PROVE Spec => []SlotsConserved
    OBVIOUS
<1>1. Inv /\ [Next]_vars => Inv'
    BY TypeStep, QueuedStep, LockStep DEF Inv
<1>2. Inv /\ SlotsConserved /\ [Next]_vars => SlotsConserved'
    BY SlotsStep
<1> QED
    BY InvInit, SlotsInit, <1>1, <1>2, PTL DEF Spec

-----------------------------------------------------------------------------
(* Some pending call can always go on.                                     *)

\* Who waits is in the queue he waits in, and nobody else.
LockQueued ==
    /\ \A u \in Users : \A i \in 1..Len(lock_waiters[u]) :
          /\ call[lock_waiters[u][i]].pc = "lock_wait"
          /\ call[lock_waiters[u][i]].user = u
    /\ \A u \in Users : \A i, j \in 1..Len(lock_waiters[u]) :
          lock_waiters[u][i] = lock_waiters[u][j] => i = j

Waiting ==
    /\ \A c \in Callers : call[c].pc = "sem_wait" =>
          \E i \in 1..Len(waiters) : waiters[i] = c
    /\ \A c \in Callers : call[c].pc = "lock_wait" =>
          \E i \in 1..Len(lock_waiters[call[c].user]) : lock_waiters[call[c].user][i] = c

\* No wake-up is lost: what is free is nobody's only as long as nobody waits for it,
\* and a lock is held by an operation that runs.
Told ==
    /\ value > 0 => waiters = <<>> \/ woken > 0
    /\ \A u \in Users : lock_waiters[u] # <<>> => locked[u] \/ lock_woken[u]
    /\ \A u \in Users : locked[u] =>
          \E c \in Callers : call[c].pc = "running" /\ call[c].user = u

WaitInv == LockQueued /\ Waiting /\ Told

LEMMA WaitInit == Init => WaitInv
BY GuardAssumption DEF Init, WaitInv, LockQueued, Waiting, Told, Idle

\* A sequence with an element more, and with its first one less.
LEMMA Appended ==
    ASSUME NEW S, NEW s \in Seq(S), NEW e \in S
    PROVE  /\ Len(s) \in Nat /\ Len(Append(s, e)) = Len(s) + 1
           /\ \A i \in 1..Len(s) : Append(s, e)[i] = s[i]
           /\ Append(s, e)[Len(s) + 1] = e
           /\ Append(s, e) # <<>>
BY AppendProperties, LenProperties

LEMMA Shortened ==
    ASSUME NEW S, NEW s \in Seq(S), s # <<>>
    PROVE  /\ Len(s) \in Nat /\ 1 \in 1..Len(s) /\ s[1] = Head(s)
           /\ Len(Tail(s)) = Len(s) - 1
           /\ \A i \in 1..Len(Tail(s)) : i + 1 \in 1..Len(s) /\ Tail(s)[i] = s[i + 1]
           /\ \A i \in 1..Len(s) : i = 1 \/ (i - 1 \in 1..Len(Tail(s)) /\ Tail(s)[i - 1] = s[i])
<1>1. Len(s) \in Nat /\ Len(s) # 0
    BY LenProperties, EmptySeq
<1>2. /\ Len(Tail(s)) = Len(s) - 1
      /\ \A i \in 1..Len(Tail(s)) : Tail(s)[i] = s[i + 1]
    BY HeadTailProperties
<1>3. s[1] = Head(s)
    BY HeadTailProperties
<1> QED
    BY <1>1, <1>2, <1>3

LEMMA EnterLockWaits ==
    ASSUME TypeOK, LockQueued, NEW c \in Callers, NEW u \in Users, NEW op \in Operations,
           call[c].pc \notin {"lock_wait", "running"}, EnterLock(c, u, op),
           \A d \in Callers : call[d].pc = "lock_wait" =>
              \E i \in 1..Len(lock_waiters[call[d].user]) : lock_waiters[call[d].user][i] = d,
           \A v \in Users : lock_waiters[v] # <<>> => locked[v] \/ lock_woken[v],
           \A v \in Users : locked[v] =>
              \E d \in Callers : call[d].pc = "running" /\ call[d].user = v
    PROVE  /\ LockQueued'
           /\ \A d \in Callers : call'[d].pc = "lock_wait" =>
                 \E i \in 1..Len(lock_waiters'[call'[d].user]) : lock_waiters'[call'[d].user][i] = d
           /\ \A v \in Users : lock_waiters'[v] # <<>> => locked'[v] \/ lock_woken'[v]
           /\ \A v \in Users : locked'[v] =>
                 \E d \in Callers : call'[d].pc = "running" /\ call'[d].user = v
<1>0. \A v \in Users : /\ Len(lock_waiters[v]) \in Nat
                       /\ \A i \in 1..Len(lock_waiters[v]) : lock_waiters[v][i] \in Callers \ {c}
    BY LenProperties, ElementOfSeq DEF TypeOK, LockQueued
<1>f. /\ \A d \in Callers \ {c} : call'[d] = call[d]
      /\ call'[c].user = u
      /\ call'[c].pc = IF LockFree(u) THEN "running" ELSE "lock_wait"
    BY EnterLockFrame
<1>u. \A d \in Callers : call[d].pc = "lock_wait" => call[d].user \in Users
    BY CallTyped
<1>1. CASE LockFree(u)
    <2>1. /\ locked' = [locked EXCEPT ![u] = TRUE]
          /\ lock_waiters' = lock_waiters /\ lock_woken' = lock_woken
        BY <1>1 DEF EnterLock
    <2>2. LockQueued'
        BY <1>0, <1>f, <2>1 DEF LockQueued
    <2>3. \A d \in Callers : call'[d].pc = "lock_wait" =>
             d # c /\ call'[d] = call[d]
        BY <1>1, <1>f
    <2>4. \A v \in Users : locked'[v] =>
                 \E d \in Callers : call'[d].pc = "running" /\ call'[d].user = v
        <3> SUFFICES ASSUME NEW v \in Users, locked'[v]
                     PROVE  \E d \in Callers : call'[d].pc = "running" /\ call'[d].user = v
            OBVIOUS
        <3>1. CASE v = u
            BY <1>1, <1>f, <3>1
        <3>2. CASE v # u
            <4>1. PICK d \in Callers : call[d].pc = "running" /\ call[d].user = v
                BY <2>1, <3>2 DEF TypeOK
            <4> QED
                BY <1>f, <4>1
        <3> QED
            BY <3>1, <3>2
    <2>5. \A v \in Users : lock_waiters'[v] # <<>> => locked'[v] \/ lock_woken'[v]
        BY <2>1 DEF TypeOK
    <2> QED
        BY <2>1, <2>2, <2>3, <2>4, <2>5
<1>2. CASE ~LockFree(u)
    <2>1. /\ lock_waiters' = [lock_waiters EXCEPT ![u] = Append(@, c)]
          /\ locked' = locked /\ lock_woken' = lock_woken
        BY <1>2 DEF EnterLock
    <2> DEFINE s == lock_waiters[u]
    <2>2. /\ Len(s) \in Nat /\ Len(lock_waiters'[u]) = Len(s) + 1
          /\ \A i \in 1..Len(s) : lock_waiters'[u][i] = s[i]
          /\ lock_waiters'[u][Len(s) + 1] = c
        BY <2>1, Appended DEF TypeOK
    <2>3. \A v \in Users \ {u} : lock_waiters'[v] = lock_waiters[v]
        BY <2>1 DEF TypeOK
    <2>4. \A v \in Users : \A i \in 1..Len(lock_waiters'[v]) :
             \/ i \in 1..Len(lock_waiters[v]) /\ lock_waiters'[v][i] = lock_waiters[v][i]
             \/ v = u /\ i = Len(s) + 1 /\ lock_waiters'[v][i] = c
        BY <2>2, <2>3
    <2>5. LockQueued'
        <3>1. \A v \in Users : \A i \in 1..Len(lock_waiters'[v]) :
                 call'[lock_waiters'[v][i]].pc = "lock_wait" /\ call'[lock_waiters'[v][i]].user = v
            BY <1>0, <1>2, <1>f, <2>4 DEF LockQueued
        <3>2. ASSUME NEW v \in Users, NEW i \in 1..Len(lock_waiters'[v]),
                     NEW j \in 1..Len(lock_waiters'[v]),
                     lock_waiters'[v][i] = lock_waiters'[v][j]
              PROVE  i = j
            BY <1>0, <2>4, <3>2 DEF LockQueued
        <3> QED
            BY <3>1, <3>2 DEF LockQueued
    <2>6. \A d \in Callers : call'[d].pc = "lock_wait" =>
                 \E i \in 1..Len(lock_waiters'[call'[d].user]) : lock_waiters'[call'[d].user][i] = d
        <3> SUFFICES ASSUME NEW d \in Callers, call'[d].pc = "lock_wait"
                     PROVE  \E i \in 1..Len(lock_waiters'[call'[d].user]) :
                               lock_waiters'[call'[d].user][i] = d
            OBVIOUS
        <3>1. CASE d = c
            <4>1. call'[d].user = u /\ Len(s) + 1 \in 1..Len(lock_waiters'[u])
                BY <1>f, <2>2, <3>1
            <4> QED
                BY <2>2, <3>1, <4>1
        <3>2. CASE d # c
            <4>1. call'[d] = call[d] /\ call[d].user \in Users
                BY <1>f, <1>u, <3>2
            <4>2. PICK i \in 1..Len(lock_waiters[call[d].user]) : lock_waiters[call[d].user][i] = d
                BY <4>1
            <4>3. /\ i \in 1..Len(lock_waiters'[call[d].user])
                  /\ lock_waiters'[call[d].user][i] = lock_waiters[call[d].user][i]
                BY <2>2, <2>3, <4>1
            <4> QED
                BY <4>1, <4>2, <4>3
        <3> QED
            BY <3>1, <3>2
    <2>7. \A v \in Users : lock_waiters'[v] # <<>> => locked'[v] \/ lock_woken'[v]
        <3>1. locked[u] \/ lock_woken[u]
            BY <1>2 DEF LockFree
        <3> QED
            BY <2>1, <2>3, <3>1
    <2>8. \A v \in Users : locked'[v] =>
                 \E d \in Callers : call'[d].pc = "running" /\ call'[d].user = v
        BY <1>f, <2>1
    <2> QED
        BY <2>5, <2>6, <2>7, <2>8
<1> QED
    BY <1>1, <1>2

LEMMA WaitStep ==
    ASSUME TypeOK, Queued, LockInv, WaitInv, [Next]_vars PROVE WaitInv'
<1>0. /\ Len(waiters) \in Nat /\ value \in Nat /\ woken \in Nat
      /\ \A i \in 1..Len(waiters) : waiters[i] \in Callers
      /\ \A u \in Users : /\ Len(lock_waiters[u]) \in Nat
                          /\ \A i \in 1..Len(lock_waiters[u]) : lock_waiters[u][i] \in Callers
    BY LenProperties, ElementOfSeq DEF TypeOK
<1>1. CASE Tick
    BY <1>1 DEF Tick, WaitInv, LockQueued, Waiting, Told
<1>2. ASSUME NEW c \in Callers, NEW u \in Users, NEW op \in Operations, Start(c, u, op)
      PROVE  WaitInv'
    <2>0. call[c].pc = "idle"
        BY <1>2 DEF Start
    <2>1. CASE SlotFree
        <3>1. /\ EnterLock(c, u, op) /\ value' = value - 1
              /\ UNCHANGED <<waiters, woken>> /\ waiters = <<>>
            BY <1>2, <2>1 DEF Start, SlotFree
        <3>2. \A d \in Callers : call'[d].pc = "sem_wait" => call[d].pc = "sem_wait"
            BY <3>1, EnterLockFrame
        <3> QED
            BY <2>0, <3>1, <3>2, EnterLockWaits DEF WaitInv, Waiting, Told
    <2>2. CASE ~SlotFree
        <3>1. /\ waiters' = Append(waiters, c)
              /\ call' = [call EXCEPT ![c] =
                            [pc |-> "sem_wait", user |-> u, operation |-> op]]
              /\ UNCHANGED <<value, woken, locked, lock_waiters, lock_woken>>
            BY <1>2, <2>2 DEF Start
        <3>2. /\ Len(waiters') = Len(waiters) + 1
              /\ \A i \in 1..Len(waiters) : waiters'[i] = waiters[i]
              /\ waiters'[Len(waiters) + 1] = c
            BY <3>1, Appended DEF TypeOK
        <3>3. /\ call'[c].pc = "sem_wait"
              /\ \A d \in Callers \ {c} : call'[d] = call[d]
            BY <3>1 DEF TypeOK
        <3>4. value > 0 => woken > 0
            BY <2>2 DEF SlotFree, WaitInv, Told
        <3>5. LockQueued'
            BY <1>0, <2>0, <3>1, <3>3 DEF WaitInv, LockQueued
        <3>6. Waiting'
            <4>1. ASSUME NEW d \in Callers, call'[d].pc = "sem_wait"
                  PROVE  \E i \in 1..Len(waiters') : waiters'[i] = d
                <5>1. CASE d = c
                    <6>1. Len(waiters) + 1 \in 1..Len(waiters')
                        BY <1>0, <3>2
                    <6> QED
                        BY <3>2, <5>1, <6>1
                <5>2. CASE d # c
                    <6>1. PICK i \in 1..Len(waiters) : waiters[i] = d
                        BY <3>3, <4>1, <5>2 DEF WaitInv, Waiting
                    <6>2. i \in 1..Len(waiters') /\ waiters'[i] = d
                        BY <1>0, <3>2, <6>1
                    <6> QED
                        BY <6>2
                <5> QED
                    BY <5>1, <5>2
            <4> QED
                BY <3>1, <3>3, <4>1 DEF WaitInv, Waiting
        <3>7. Told'
            BY <2>0, <3>1, <3>3, <3>4 DEF WaitInv, Told
        <3> QED
            BY <3>5, <3>6, <3>7 DEF WaitInv
    <2> QED
        BY <2>1, <2>2
<1>3. ASSUME NEW c \in Callers, ResumeSemaphore(c)
      PROVE  WaitInv'
    <2> DEFINE k == SpareWakes(Len(waiters) - woken)
    <2>1. /\ woken \in 1..Len(waiters) /\ waiters # <<>> /\ waiters[1] = c
          /\ call[c].pc = "sem_wait"
          /\ EnterLock(c, call[c].user, call[c].operation)
          /\ call[c].user \in Users /\ call[c].operation \in Operations
        BY <1>3, FirstWaiter, CallTyped
    <2>2. /\ waiters' = Tail(waiters)
          /\ value' = value - k /\ woken' = woken - 1 + k
        BY <1>3 DEF ResumeSemaphore
    <2>3. /\ LockQueued'
          /\ \A d \in Callers : call'[d].pc = "lock_wait" =>
                \E i \in 1..Len(lock_waiters'[call'[d].user]) : lock_waiters'[call'[d].user][i] = d
          /\ \A v \in Users : lock_waiters'[v] # <<>> => locked'[v] \/ lock_woken'[v]
          /\ \A v \in Users : locked'[v] =>
                \E d \in Callers : call'[d].pc = "running" /\ call'[d].user = v
        BY <2>1, EnterLockWaits DEF WaitInv, Waiting, Told
    <2>4. value' > 0 => waiters' = <<>> \/ woken' > 0
        <3>1. Len(waiters') = Len(waiters) - 1
            BY <2>1, <2>2, Shortened DEF TypeOK
        <3>2. waiters' = <<>> \/ Len(waiters') > 0
            BY <1>0, <2>1, <2>2, <3>1, EmptySeq, HeadTailProperties DEF TypeOK
        <3> QED
            BY <1>0, <2>1, <2>2, <3>1, <3>2 DEF SpareWakes
    <2>5. ASSUME NEW d \in Callers, call'[d].pc = "sem_wait"
          PROVE  \E i \in 1..Len(waiters') : waiters'[i] = d
        <3>1. d # c /\ call[d].pc = "sem_wait"
            BY <2>1, <2>5, EnterLockFrame
        <3>2. PICK i \in 1..Len(waiters) : waiters[i] = d
            BY <3>1 DEF WaitInv, Waiting
        <3>3. i # 1
            BY <2>1, <3>1, <3>2
        <3>4. i - 1 \in 1..Len(waiters') /\ waiters'[i - 1] = d
            BY <2>1, <2>2, <3>2, <3>3, Shortened DEF TypeOK
        <3> QED
            BY <3>4
    <2> QED
        BY <2>3, <2>4, <2>5 DEF WaitInv, Waiting, Told
<1>4. ASSUME NEW c \in Callers, ResumeLock(c)
      PROVE  WaitInv'
    <2> DEFINE u == call[c].user
               s == lock_waiters[u]
    <2>1. /\ u \in Users /\ call[c].pc = "lock_wait" /\ c = Head(s)
          /\ s \in Seq(Callers) /\ s # <<>>
        BY <1>4, CallTyped DEF ResumeLock, LockInv, TypeOK
    <2>2. /\ locked' = [locked EXCEPT ![u] = TRUE]
          /\ lock_woken' = [lock_woken EXCEPT ![u] = FALSE]
          /\ lock_waiters' = [lock_waiters EXCEPT ![u] = Tail(@)]
          /\ UNCHANGED <<value, waiters, woken>>
        BY <1>4 DEF ResumeLock
    <2>3. /\ \A d \in Callers \ {c} : call'[d] = call[d]
          /\ call'[c].user = u /\ call'[c].pc = "running"
        BY <1>4 DEF ResumeLock, TypeOK, Calls
    <2>4. /\ s[1] = c /\ 1 \in 1..Len(s)
          /\ lock_waiters'[u] = Tail(s)
          /\ \A v \in Users \ {u} : lock_waiters'[v] = lock_waiters[v]
        BY <2>1, <2>2, Shortened DEF TypeOK
    <2>5. \A i \in 1..Len(Tail(s)) :
             i + 1 \in 1..Len(s) /\ i + 1 # 1 /\ Tail(s)[i] = s[i + 1] /\ i \in Nat
        BY <2>1, Shortened
    <2>6. LockQueued'
        <3>1. ASSUME NEW v \in Users, NEW i \in 1..Len(lock_waiters'[v])
              PROVE  /\ lock_waiters'[v][i] # c
                     /\ call'[lock_waiters'[v][i]].pc = "lock_wait"
                     /\ call'[lock_waiters'[v][i]].user = v
            <4>1. CASE v = u
                <5>1. Tail(s)[i] = s[i + 1] /\ i + 1 \in 1..Len(s) /\ i + 1 # 1
                    BY <2>4, <2>5, <3>1, <4>1
                <5>2. s[i + 1] # c /\ s[i + 1] \in Callers
                    BY <1>0, <2>1, <2>4, <5>1 DEF WaitInv, LockQueued
                <5>3. call[s[i + 1]].pc = "lock_wait" /\ call[s[i + 1]].user = u
                    BY <2>1, <5>1 DEF WaitInv, LockQueued
                <5>4. lock_waiters'[v][i] = s[i + 1]
                    BY <2>4, <4>1, <5>1
                <5> QED
                    BY <2>3, <4>1, <5>2, <5>3, <5>4
            <4>2. CASE v # u
                <5>1. call[lock_waiters[v][i]].user = v /\ lock_waiters[v][i] \in Callers
                    BY <1>0, <2>4, <3>1, <4>2 DEF WaitInv, LockQueued
                <5> QED
                    BY <2>3, <2>4, <3>1, <4>2, <5>1 DEF WaitInv, LockQueued
            <4> QED
                BY <4>1, <4>2
        <3>2. ASSUME NEW v \in Users, NEW i \in 1..Len(lock_waiters'[v]),
                     NEW j \in 1..Len(lock_waiters'[v]),
                     lock_waiters'[v][i] = lock_waiters'[v][j]
              PROVE  i = j
            <4>1. CASE v = u
                <5>1. /\ i + 1 \in 1..Len(s) /\ j + 1 \in 1..Len(s) /\ s[i + 1] = s[j + 1]
                      /\ i \in Nat /\ j \in Nat
                    BY <2>4, <2>5, <3>2, <4>1
                <5>2. i + 1 = j + 1
                    BY <2>1, <5>1 DEF WaitInv, LockQueued
                <5> QED
                    BY <5>1, <5>2
            <4>2. CASE v # u
                BY <2>4, <3>2, <4>2 DEF WaitInv, LockQueued
            <4> QED
                BY <4>1, <4>2
        <3> QED
            BY <3>1, <3>2 DEF LockQueued
    <2>7. Waiting'
        <3>1. ASSUME NEW d \in Callers, call'[d].pc = "lock_wait"
              PROVE  \E i \in 1..Len(lock_waiters'[call'[d].user]) :
                        lock_waiters'[call'[d].user][i] = d
            <4>1. d # c /\ call'[d] = call[d] /\ call[d].user \in Users
                BY <2>3, <3>1, CallTyped
            <4>2. PICK i \in 1..Len(lock_waiters[call[d].user]) : lock_waiters[call[d].user][i] = d
                BY <3>1, <4>1 DEF WaitInv, Waiting
            <4>3. CASE call[d].user = u
                <5>1. i # 1
                    BY <2>4, <4>1, <4>2, <4>3
                <5>2. i - 1 \in 1..Len(Tail(s)) /\ Tail(s)[i - 1] = d
                    BY <2>1, <4>2, <4>3, <5>1, Shortened
                <5> QED
                    BY <2>4, <4>1, <4>3, <5>2
            <4>4. CASE call[d].user # u
                BY <2>4, <4>1, <4>2, <4>4
            <4> QED
                BY <4>3, <4>4
        <3>2. \A d \in Callers : call'[d].pc = "sem_wait" => call[d].pc = "sem_wait"
            BY <2>3
        <3> QED
            BY <2>2, <3>1, <3>2 DEF WaitInv, Waiting
    <2>8. Told'
        <3>1. \A v \in Users : locked'[v] =>
                 \E d \in Callers : call'[d].pc = "running" /\ call'[d].user = v
            <4> SUFFICES ASSUME NEW v \in Users, locked'[v]
                         PROVE  \E d \in Callers : call'[d].pc = "running" /\ call'[d].user = v
                OBVIOUS
            <4>1. CASE v = u
                BY <2>3, <4>1
            <4>2. CASE v # u
                <5>1. PICK d \in Callers : call[d].pc = "running" /\ call[d].user = v
                    BY <2>2, <4>2 DEF TypeOK, WaitInv, Told
                <5> QED
                    BY <2>1, <2>3, <5>1
            <4> QED
                BY <4>1, <4>2
        <3>2. \A v \in Users : lock_waiters'[v] # <<>> => locked'[v] \/ lock_woken'[v]
            BY <2>1, <2>2, <2>4 DEF TypeOK, WaitInv, Told
        <3> QED
            BY <2>2, <3>1, <3>2 DEF WaitInv, Told
    <2> QED
        BY <2>6, <2>7, <2>8 DEF WaitInv
<1>5. ASSUME NEW c \in Callers, NEW ok \in BOOLEAN, Finish(c, ok)
      PROVE  WaitInv'
    <2> DEFINE u == call[c].user
    <2>1. u \in Users /\ call[c].pc = "running"
        BY <1>5, CallTyped DEF Finish
    <2>2. /\ locked' = [locked EXCEPT ![u] = FALSE]
          /\ lock_woken' = [lock_woken EXCEPT ![u] = lock_waiters[u] # <<>>]
          /\ UNCHANGED <<waiters, lock_waiters>>
          /\ ReleaseSlot
        BY <1>5 DEF Finish
    <2>3. call'[c] = Idle /\ \A d \in Callers \ {c} : call'[d] = call[d]
        BY <1>5 DEF Finish, TypeOK
    <2>4. LockQueued'
        BY <1>0, <2>1, <2>2, <2>3 DEF WaitInv, LockQueued
    <2>5. Waiting'
        <3>1. \A d \in Callers : call'[d].pc # "idle" => d # c /\ call'[d] = call[d]
            BY <2>3 DEF Idle
        <3> QED
            BY <2>2, <3>1 DEF WaitInv, Waiting
    <2>6. value' > 0 => waiters' = <<>> \/ woken' > 0
        <3>1. waiters = <<>> \/ Len(waiters) > 0
            BY <1>0, EmptySeq DEF TypeOK
        <3> QED
            BY <1>0, <2>2, <3>1 DEF ReleaseSlot, TypeOK, WaitInv, Told
    <2>7. \A v \in Users : lock_waiters'[v] # <<>> => locked'[v] \/ lock_woken'[v]
        BY <2>1, <2>2 DEF TypeOK, WaitInv, Told
    <2>8. \A v \in Users : locked'[v] =>
             \E d \in Callers : call'[d].pc = "running" /\ call'[d].user = v
        <3> SUFFICES ASSUME NEW v \in Users, locked'[v]
                     PROVE  \E d \in Callers : call'[d].pc = "running" /\ call'[d].user = v
            OBVIOUS
        <3>1. v # u /\ locked[v]
            BY <2>1, <2>2 DEF TypeOK
        <3>2. PICK d \in Callers : call[d].pc = "running" /\ call[d].user = v
            BY <3>1 DEF WaitInv, Told
        <3> QED
            BY <2>3, <3>1, <3>2
    <2> QED
        BY <2>4, <2>5, <2>6, <2>7, <2>8 DEF WaitInv, Told
<1>6. ASSUME NEW c \in Callers, NEW u \in Users, NEW op \in Operations, Refuse(c, u, op)
      PROVE  WaitInv'
    BY <1>6 DEF Refuse, vars, WaitInv, LockQueued, Waiting, Told
<1>7. CASE UNCHANGED vars
    BY <1>7 DEF vars, WaitInv, LockQueued, Waiting, Told
<1> QED
    BY <1>1, <1>2, <1>3, <1>4, <1>5, <1>6, <1>7 DEF Next, Step

\* If no operation runs and no lock was passed on, nobody holds a slot, so all of them
\* are free or given to the first waiters.
LEMMA WaitMoves ==
    ASSUME IsFiniteSet(Callers), TypeOK, Queued, LockInv, WaitInv, SlotsConserved
    PROVE  SomebodyMoves
<1> SUFFICES ASSUME \A c \in Callers : ~Moves(c), NEW b \in Callers, call[b].pc # "idle"
             PROVE  FALSE
    BY DEF SomebodyMoves
<1>0. /\ Len(waiters) \in Nat /\ value \in Nat /\ woken \in 0..Len(waiters)
      /\ max_global_heavy_tasks > 0 /\ max_global_heavy_tasks \in Nat
    BY GuardAssumption, LenProperties DEF TypeOK
<1>1. \A c \in Callers : call[c].pc # "running"
    BY DEF Moves
<1>2. \A u \in Users : ~locked[u]
    BY <1>1 DEF WaitInv, Told
<1>3. ASSUME NEW c \in Callers, call[c].pc = "lock_wait" PROVE FALSE
    <2> DEFINE u == call[c].user
               s == lock_waiters[u]
    <2>1. u \in Users /\ s \in Seq(Callers)
        BY <1>3, CallTyped DEF TypeOK
    <2>2. PICK i \in 1..Len(s) : s[i] = c
        BY <1>3 DEF WaitInv, Waiting
    <2>3. s # <<>>
        BY <2>1, <2>2, EmptySeq, LenProperties
    <2>4. lock_woken[u]
        BY <1>2, <2>1, <2>3 DEF WaitInv, Told
    <2>5. Head(s) \in Callers /\ 1 \in 1..Len(s) /\ s[1] = Head(s)
        BY <2>1, <2>3, Shortened, HeadTailProperties
    <2>6. call[Head(s)].pc = "lock_wait" /\ call[Head(s)].user = u
        BY <2>1, <2>5 DEF WaitInv, LockQueued
    <2>7. Moves(Head(s))
        BY <2>3, <2>4, <2>5, <2>6 DEF Moves
    <2> QED
        BY <2>5, <2>7
<1>4. Holders = {}
    BY <1>1, <1>3 DEF Holders
<1>5. value + woken = max_global_heavy_tasks
    BY <1>0, <1>4, FS_EmptySet DEF SlotsConserved
<1>6. woken = 0
    <2> SUFFICES ASSUME woken > 0 PROVE FALSE
        BY <1>0
    <2>1. waiters # <<>> /\ waiters \in Seq(Callers)
        BY <1>0, EmptySeq DEF TypeOK
    <2>2. Head(waiters) \in Callers
        BY <2>1, HeadTailProperties
    <2> QED
        BY <2>1, <2>2 DEF Moves
<1>7. waiters = <<>>
    BY <1>0, <1>5, <1>6 DEF WaitInv, Told
<1>8. call[b].pc = "sem_wait"
    BY <1>1, <1>3 DEF TypeOK, Calls
<1>9. \E i \in 1..Len(waiters) : waiters[i] = b
    BY <1>8 DEF WaitInv, Waiting
<1> QED
    BY <1>7, <1>9, EmptySeq

\* The calls of the guard never all wait for each other, for any users, operations,
\* limit and finite number of concurrent calls: the safety half of EveryCallReturns.
THEOREM NoDeadlock == IsFiniteSet(Callers) /\ Spec => []SomebodyMoves
<1> SUFFICES ASSUME IsFiniteSet(Callers) PROVE Spec => []SomebodyMoves
    OBVIOUS
<1>1. Inv /\ [Next]_vars => Inv'
    BY TypeStep, QueuedStep, LockStep DEF Inv
<1>2. Inv /\ SlotsConserved /\ [Next]_vars => SlotsConserved'
    BY SlotsStep
<1>3. Inv /\ WaitInv /\ [Next]_vars => WaitInv'
    BY WaitStep DEF Inv
<1>4. Inv /\ SlotsConserved /\ WaitInv => SomebodyMoves
    BY WaitMoves DEF Inv
<1> QED
    BY InvInit, SlotsInit, WaitInit, <1>1, <1>2, <1>3, <1>4, PTL DEF Spec

-----------------------------------------------------------------------------
(* The guard implements ExclusiveHeavy.                                    *)

ServingOf == [c \in Callers |-> IF call[c].pc = "running" THEN call[c].user ELSE None]

\* A step that starts an operation is a Begin.
LEMMA StartsAsBegin ==
    ASSUME IsFiniteSet(Callers), Inv, SlotsConserved, Inv', SlotsConserved',
           NEW c \in Callers, call[c].pc # "running", call'[c].pc = "running",
           \A d \in Callers \ {c} : call'[d] = call[d]
    PROVE  Abs!Next
<1>0. PICK u \in Users : call'[c].user = u
    BY CallTyped DEF Inv, TypeOK, Calls
<1>1. \A d \in Callers : call[d].pc = "running" => call[d].user \in Users
    BY CallTyped DEF Inv
<1>2. None \notin Users
    BY GuardAssumption
<1>3. \A d \in Callers : ServingOf[d] # u
    <2>1. \A d \in Callers \ {c} : call[d].pc = "running" => call[d].user # u
        BY <1>0 DEF Inv, LockInv
    <2> QED
        BY <1>1, <1>2, <2>1 DEF ServingOf
<1>4. Cardinality({d \in Callers : ServingOf[d] # None}) < max_global_heavy_tasks
    <2> DEFINE S == {d \in Callers : ServingOf[d] # None}
    <2>1. S \cup {c} \subseteq Holders' /\ IsFiniteSet(Holders')
        BY <1>2, FS_Subset DEF ServingOf, Holders
    <2>2. c \notin S /\ IsFiniteSet(S)
        BY FS_Subset DEF ServingOf
    <2>3. Cardinality(S \cup {c}) = Cardinality(S) + 1
        BY <2>2, FS_AddElement
    <2>4. Cardinality(S \cup {c}) <= Cardinality(Holders')
        BY <2>1, FS_Subset
    <2>5. Cardinality(Holders') <= max_global_heavy_tasks
        <3>1. value' \in Nat /\ woken' \in Nat
            BY LenProperties DEF Inv, TypeOK
        <3>2. Cardinality(Holders') \in Nat
            BY <2>1, FS_CardinalityType
        <3> QED
            BY <3>1, <3>2, GuardAssumption DEF SlotsConserved
    <2>6. Cardinality(S) \in Nat /\ Cardinality(Holders') \in Nat
        BY <2>1, <2>2, FS_CardinalityType
    <2>7. Cardinality(S) < max_global_heavy_tasks
        BY <2>3, <2>4, <2>5, <2>6, GuardAssumption
    <2> QED
        BY <2>7
<1>5. ServingOf[c] = None
    BY DEF ServingOf
<1>6. ServingOf' = [ServingOf EXCEPT ![c] = u]
    BY <1>0 DEF ServingOf
<1>7. Abs!Serving = {d \in Callers : ServingOf[d] # None}
    BY DEF Abs!Serving, ServingOf
<1>8. Abs!Begin(c, u)
    BY <1>3, <1>4, <1>5, <1>6, <1>7 DEF Abs!Begin, Abs!Cardinality, Cardinality, ServingOf
<1> QED
    BY <1>8 DEF Abs!Next

\* Steps that neither start nor end an operation stutter.
LEMMA Stutters ==
    ASSUME \A d \in Callers :
              \/ call'[d] = call[d]
              \/ call[d].pc # "running" /\ call'[d].pc # "running"
    PROVE  ServingOf' = ServingOf
BY DEF ServingOf

LEMMA EnterLockRefines ==
    ASSUME IsFiniteSet(Callers), Inv, SlotsConserved, Inv', SlotsConserved',
           NEW c \in Callers, NEW u \in Users, NEW op \in Operations,
           call[c].pc # "running", EnterLock(c, u, op)
    PROVE  Abs!Next \/ ServingOf' = ServingOf
<1>0. TypeOK
    BY DEF Inv
<1>1. CASE LockFree(u)
    BY <1>0, <1>1, EnterLockFrame, StartsAsBegin
<1>2. CASE ~LockFree(u)
    BY <1>0, <1>2, EnterLockFrame, Stutters
<1> QED
    BY <1>1, <1>2

LEMMA StepRefines ==
    ASSUME IsFiniteSet(Callers), Inv, SlotsConserved, Inv', SlotsConserved', [Next]_vars
    PROVE  Abs!Next \/ ServingOf' = ServingOf
<1>0. TypeOK /\ Queued /\ LockInv
    BY DEF Inv
<1>1. CASE Tick
    BY <1>1 DEF Tick, ServingOf
<1>2. ASSUME NEW c \in Callers, NEW u \in Users, NEW op \in Operations, Start(c, u, op)
      PROVE  Abs!Next \/ ServingOf' = ServingOf
    <2>1. CASE SlotFree
        BY <1>2, <2>1, EnterLockRefines DEF Start
    <2>2. CASE ~SlotFree
        <3>1. \A d \in Callers :
                 \/ call'[d] = call[d]
                 \/ call[d].pc # "running" /\ call'[d].pc # "running"
            BY <1>0, <1>2, <2>2 DEF Start, TypeOK
        <3> QED
            BY <3>1, Stutters
    <2> QED
        BY <2>1, <2>2
<1>3. ASSUME NEW c \in Callers, ResumeSemaphore(c)
      PROVE  Abs!Next \/ ServingOf' = ServingOf
    BY <1>0, <1>3, FirstWaiter, CallTyped, EnterLockRefines
<1>4. ASSUME NEW c \in Callers, ResumeLock(c)
      PROVE  Abs!Next \/ ServingOf' = ServingOf
    <2>1. /\ call[c].pc # "running" /\ call'[c].pc = "running"
          /\ \A d \in Callers \ {c} : call'[d] = call[d]
        BY <1>0, <1>4 DEF ResumeLock, TypeOK, Calls
    <2> QED
        BY <2>1, StartsAsBegin
<1>5. ASSUME NEW c \in Callers, NEW ok \in BOOLEAN, Finish(c, ok)
      PROVE  Abs!Next \/ ServingOf' = ServingOf
    <2>1. call' = [call EXCEPT ![c] = Idle] /\ call[c].pc = "running"
        BY <1>5 DEF Finish
    <2>2. call[c].user # None
        BY <1>0, <2>1, CallTyped, GuardAssumption
    <2>3. ServingOf' = [ServingOf EXCEPT ![c] = None]
        BY <1>0, <2>1 DEF ServingOf, Idle, TypeOK
    <2>4. Abs!End(c)
        BY <2>1, <2>2, <2>3 DEF Abs!End, ServingOf
    <2> QED
        BY <2>4 DEF Abs!Next
<1>6. ASSUME NEW c \in Callers, NEW u \in Users, NEW op \in Operations, Refuse(c, u, op)
      PROVE  Abs!Next \/ ServingOf' = ServingOf
    BY <1>6 DEF Refuse, vars, ServingOf
<1>7. CASE UNCHANGED vars
    BY <1>7 DEF vars, ServingOf
<1> QED
    BY <1>1, <1>2, <1>3, <1>4, <1>5, <1>6, <1>7 DEF Next, Step

\* run_exclusive_heavy keeps its promise: for any users, operations, cooldown,
\* limit and finite number of concurrent calls, at most one operation runs per
\* user and at most max_global_heavy_tasks run in all.
THEOREM GuardImplements == IsFiniteSet(Callers) /\ Spec => ImplementsExclusiveHeavy
<1> SUFFICES ASSUME IsFiniteSet(Callers) PROVE Spec => Abs!Spec
    BY DEF ImplementsExclusiveHeavy
<1>1. Init => Abs!Init
    BY DEF Init, Abs!Init, Idle
<1>2. Inv /\ [Next]_vars => Inv'
    BY TypeStep, QueuedStep, LockStep DEF Inv
<1>3. Inv /\ SlotsConserved /\ [Next]_vars => SlotsConserved'
    BY SlotsStep
<1>4. Inv /\ SlotsConserved /\ Inv' /\ SlotsConserved' /\ [Next]_vars
      => Abs!Next \/ ServingOf' = ServingOf
    BY StepRefines
<1>5. Inv /\ SlotsConserved /\ Inv' /\ SlotsConserved' /\ [Next]_vars
      => [Abs!Next]_[c \in Callers |-> IF call[c].pc = "running" THEN call[c].user ELSE None]
    BY <1>4 DEF ServingOf
<1> QED
    BY InvInit, SlotsInit, <1>1, <1>2, <1>3, <1>5, PTL DEF Spec, Abs!Spec

=============================================================================
