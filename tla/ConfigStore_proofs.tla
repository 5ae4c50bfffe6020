------------------------- MODULE ConfigStore_proofs -------------------------
(* What ConfigStore keeps for all handlers, runs, keys and values. *)
EXTENDS ConfigStore, TLAPS

\* Only handlers lock and insert; one writes under the lock, and that one holds it.
Locked ==
    /\ lock # None => client[lock].op.kind # "sync"
    /\ \A c \in Clients :
        /\ client[c].pc \in {"locking", "inserting"} => c \in Handlers
        /\ client[c].pc = "writing" /\ client[c].op.kind # "sync"
           => c \in Handlers /\ lock = c

TypeInv == TypeOK /\ Locked

LEMMA StateKinds ==
    ASSUME NEW s \in States
    PROVE  /\ s.pc \in {"idle", "off", "locking", "inserting", "writing"}
           /\ s.pc \in {"locking", "inserting"} => s.op \in AsyncOps
           /\ s.pc = "writing" => s.op \in AsyncOps \cup SyncOps /\ s.read \in Maps
    BY DEF States, Idle, Off

LEMMA OpKinds ==
    ASSUME NEW op \in AsyncOps \cup SyncOps
    PROVE  /\ op.key \in Keys
           /\ op.kind # "delete" => op.value \in Values
           /\ op.kind # "sync" => op \in AsyncOps
           /\ op \in AsyncOps => op.kind # "sync"
           /\ op.kind = "save" => op \in AsyncOps
    BY DEF AsyncOps, SyncOps

LEMMA NewStates ==
    /\ Idle \in States /\ Idle.pc = "idle"
    /\ Off \in States /\ Off.pc = "off"
    /\ \A op \in AsyncOps, pc \in {"locking", "inserting"} :
            LET s == [pc |-> pc, op |-> op] IN s \in States /\ s.pc = pc /\ s.op = op
    /\ \A op \in AsyncOps \cup SyncOps, read \in Maps :
            LET s == [pc |-> "writing", op |-> op, read |-> read]
            IN  s \in States /\ s.pc = "writing" /\ s.op = op /\ s.read = read
    BY DEF States, Idle, Off

LEMMA MergedType ==
    ASSUME NEW op \in AsyncOps \cup SyncOps, NEW data \in Maps
    PROVE  Merged(op, data) \in Maps
    BY OpKinds DEF Merged, Maps

LEMMA DataType ==
    ASSUME NEW r \in Rows \cup {None}
    PROVE  Data(r) \in Maps
    BY DEF Data, Rows, Maps, Empty

LEMMA NoneIsNoRow == StoreAssumption => None \notin Rows /\ None \notin Ciphers
    BY DEF StoreAssumption, Rows, Ciphers, Maps

LEMMA CipherType == ASSUME NEW c PROVE Cipher(c) \in Ciphers
    BY DEF Cipher, Primary, Ciphers

LEMMA PutType ==
    ASSUME NEW c, NEW op \in AsyncOps \cup SyncOps, NEW read \in Maps, Put(c, op, read)
    PROVE  row' \in Rows /\ cookies' = cookies
    BY MergedType, CipherType DEF Put, Rows

LEMMA BecomesType ==
    ASSUME client \in [Clients -> States], NEW c \in Clients, NEW s \in States, Becomes(c, s)
    PROVE  /\ client' \in [Clients -> States] /\ client'[c] = s
           /\ \A d \in Clients \ {c} : client'[d] = client[d]
    BY DEF Becomes

LEMMA TypeInit == Init => TypeInv
  <1> SUFFICES ASSUME Init PROVE TypeInv
    OBVIOUS
  <1> USE StoreAssumption
  <1>1. row \in Rows \cup {None} /\ cookies \in Ciphers \cup {None}
    BY DEF Init, Rows, Ciphers, Maps, Empty
  <1>2. client \in [Clients -> States] /\ \A c \in Clients : client[c].pc \in {"idle", "off"}
    BY DEF Init, States, Idle, Off
  <1>3. TypeOK
    <2>1. opened \in [Storages -> 0..2] /\ secrets \in 0..2
      BY DEF Init
    <2>2. setup \in Setups /\ lock = None /\ factory \in BOOLEAN /\ overtaken \in BOOLEAN
      BY DEF Init
    <2> QED
      BY <1>1, <1>2, <2>1, <2>2 DEF TypeOK
  <1>4. lock = None
    BY DEF Init
  <1> QED
    BY <1>2, <1>3, <1>4 DEF TypeInv, Locked

LEMMA TypeClient ==
    ASSUME TypeInv, NEW c \in Clients, ClientStep(c)
    PROVE  TypeInv'
  <1> USE StoreAssumption, NoneIsNoRow
  <1> DEFINE Same == UNCHANGED <<setup, factory, keys>>
  <1>0. /\ client \in [Clients -> States] /\ lock \in Handlers \cup {None}
        /\ row \in Rows \cup {None} /\ cookies \in Ciphers \cup {None} /\ None \notin Clients
    BY DEF TypeInv, TypeOK, Clients
  <1> USE <1>0
  <1>1. ASSUME NEW op \in AsyncOps, Begin(c, op)
        PROVE  TypeInv'
    <2> DEFINE s == [pc |-> "locking", op |-> op]
    <2>1. s \in States /\ s.pc = "locking"
      BY NewStates
    <2>2. /\ client' \in [Clients -> States] /\ client'[c] = s
          /\ \A d \in Clients \ {c} : client'[d] = client[d]
      BY <1>1, <2>1, BecomesType DEF Begin
    <2>3. lock # c
      BY <1>1 DEF Begin, TypeInv, TypeOK, Idle
    <2> HIDE DEF s
    <2>4. TypeOK'
      BY <1>1, <2>1, <2>2, <2>3 DEF Begin, TypeInv, TypeOK, store, keys, Clients
    <2> QED
      BY <1>1, <2>1, <2>2, <2>3, <2>4 DEF Begin, TypeInv, Locked, store, Clients
  <1>2. ASSUME LockRow(c)
        PROVE  TypeInv'
    <2> DEFINE s == [pc |-> "writing", op |-> client[c].op, read |-> Data(row)]
    <2>1. client[c].op \in AsyncOps /\ c \in Handlers
      BY <1>2, StateKinds DEF LockRow, TypeInv, Locked
    <2>2. s \in States /\ s.pc = "writing" /\ s.op.kind # "sync"
      BY <2>1, NewStates, DataType, OpKinds
    <2>3. /\ client' \in [Clients -> States] /\ client'[c] = s
          /\ \A d \in Clients \ {c} : client'[d] = client[d]
      BY <1>2, <2>2, BecomesType DEF LockRow
    <2> HIDE DEF s
    <2>4. TypeOK'
      BY <1>2, <2>1, <2>2, <2>3 DEF LockRow, TypeInv, TypeOK, keys, Clients
    <2> QED
      BY <1>2, <2>1, <2>2, <2>3, <2>4 DEF LockRow, TypeInv, Locked, Clients
  <1>3. ASSUME NoRow(c)
        PROVE  TypeInv'
    <2> PICK s \in States : /\ s.pc \in {"idle", "inserting"}
                            /\ Becomes(c, s)
      <3>1. client[c].op \in AsyncOps
        BY <1>3, StateKinds DEF NoRow
      <3> DEFINE i == [pc |-> "inserting", op |-> client[c].op]
      <3>2. i \in States /\ i.pc = "inserting" /\ Idle \in States /\ Idle.pc = "idle"
        BY <3>1, NewStates
      <3>3. Becomes(c, i) \/ Becomes(c, Idle)
        BY <1>3 DEF NoRow
      <3> HIDE DEF i
      <3> QED
        BY <3>2, <3>3
    <2>1. client[c].pc = "locking" /\ lock = None /\ c \in Handlers
      BY <1>3 DEF NoRow, TypeInv, Locked
    <2>2. /\ client' \in [Clients -> States] /\ client'[c] = s
          /\ \A d \in Clients \ {c} : client'[d] = client[d]
      BY BecomesType
    <2>3. TypeOK'
      BY <1>3, <2>1, <2>2 DEF NoRow, TypeInv, TypeOK, keys, store, Clients
    <2> QED
      BY <1>3, <2>1, <2>2, <2>3 DEF NoRow, TypeInv, Locked, store
  <1>4. ASSUME Insert(c)
        PROVE  TypeInv'
    <2>1. client[c].pc = "inserting" /\ client[c].op \in AsyncOps
      BY <1>4, StateKinds DEF Insert
    <2>2. Empty \in Maps
      BY DEF Empty, Maps
    <2>3. row' \in Rows \cup {None} /\ cookies' = cookies
      <3>1. CASE row = None
        BY <1>4, <2>1, <2>2, <3>1, PutType DEF Insert
      <3>2. CASE row # None
        BY <1>4, <3>2 DEF Insert, TypeInv, TypeOK
      <3> QED
        BY <3>1, <3>2
    <2>4. /\ client' \in [Clients -> States] /\ client'[c] = Idle
          /\ \A d \in Clients \ {c} : client'[d] = client[d]
      BY <1>4, NewStates, BecomesType DEF Insert
    <2>5. TypeOK'
      BY <1>4, <2>1, <2>3, <2>4 DEF Insert, TypeInv, TypeOK, keys, Clients
    <2> QED
      BY <1>4, <2>1, <2>4, <2>5, NewStates DEF Insert, TypeInv, TypeOK, Locked, Clients
  <1>5. ASSUME Commit(c)
        PROVE  TypeInv'
    <2>1. /\ client[c].pc = "writing" /\ client[c].op \in AsyncOps \cup SyncOps
          /\ client[c].read \in Maps /\ lock = c
      BY <1>5, StateKinds DEF Commit, TypeInv, Locked
    <2>2. row' \in Rows \cup {None} /\ cookies' = cookies
      BY <1>5, <2>1, PutType DEF Commit
    <2>3. /\ client' \in [Clients -> States] /\ client'[c] = Idle
          /\ \A d \in Clients \ {c} : client'[d] = client[d]
      BY <1>5, NewStates, BecomesType DEF Commit
    <2>4. TypeOK'
      BY <1>5, <2>2, <2>3 DEF Commit, TypeInv, TypeOK, keys
    <2> QED
      BY <1>5, <2>1, <2>3, <2>4, NewStates DEF Commit, TypeInv, Locked
  <1>6. ASSUME NEW op \in SyncOps, SyncRead(c, op)
        PROVE  TypeInv'
    <2> DEFINE s == [pc |-> "writing", op |-> op, read |-> Data(row)]
    <2>1. s \in States /\ s.pc = "writing" /\ s.op.kind = "sync"
      BY NewStates, DataType DEF SyncOps
    <2>2. /\ client' \in [Clients -> States] /\ client'[c] = s
          /\ \A d \in Clients \ {c} : client'[d] = client[d]
      BY <1>6, <2>1, BecomesType DEF SyncRead
    <2> HIDE DEF s
    <2>3. TypeOK'
      BY <1>6, <2>1, <2>2 DEF SyncRead, TypeInv, TypeOK, store, keys, Clients
    <2>4. lock # c
      BY <1>6 DEF SyncRead, TypeInv, TypeOK, Idle
    <2> QED
      BY <1>6, <2>1, <2>2, <2>3, <2>4 DEF SyncRead, TypeInv, Locked, store, Clients
  <1>7. ASSUME SyncUpsert(c)
        PROVE  TypeInv'
    <2>1. /\ client[c].pc = "writing" /\ client[c].op \in AsyncOps \cup SyncOps
          /\ client[c].read \in Maps /\ client[c].op.kind = "sync"
      BY <1>7, StateKinds DEF SyncUpsert
    <2>2. row' \in Rows \cup {None} /\ cookies' = cookies
      BY <1>7, <2>1, PutType DEF SyncUpsert
    <2>3. /\ client' \in [Clients -> States] /\ client'[c] = Idle
          /\ \A d \in Clients \ {c} : client'[d] = client[d]
      BY <1>7, NewStates, BecomesType DEF SyncUpsert
    <2>4. lock # c
      BY <2>1 DEF TypeInv, Locked
    <2> QED
      BY <1>7, <2>2, <2>3, <2>4, NewStates DEF SyncUpsert, TypeInv, TypeOK, Locked, keys, Clients
  <1>8. ASSUME SaveCookies(c)
        PROVE  TypeInv'
    BY <1>8, CipherType DEF SaveCookies, TypeInv, TypeOK, Locked, keys
  <1>9. ASSUME Fail(c)
        PROVE  TypeInv'
    <2>1. /\ client' \in [Clients -> States] /\ client'[c] = Idle
          /\ \A d \in Clients \ {c} : client'[d] = client[d]
      BY <1>9, NewStates, BecomesType DEF Fail
    <2>2. TypeOK'
      BY <1>9, <2>1 DEF Fail, TypeInv, TypeOK, keys, Clients
    <2> QED
      BY <1>9, <2>1, <2>2, NewStates DEF Fail, TypeInv, Locked, Clients
  <1> QED
    BY <1>1, <1>2, <1>3, <1>4, <1>5, <1>6, <1>7, <1>8, <1>9 DEF ClientStep

LEMMA TypeRest ==
    ASSUME TypeInv,
           \/ \E r \in Runs : StartRun(r) \/ EndRun(r)
           \/ \E p \in Processes : Restart(p)
           \/ RotateKeys \/ Reencrypt
    PROVE  TypeInv'
  <1> USE StoreAssumption, NoneIsNoRow
  <1>0. /\ client \in [Clients -> States] /\ lock \in Handlers \cup {None}
        /\ row \in Rows \cup {None} /\ cookies \in Ciphers \cup {None} /\ None \notin Clients
        /\ opened \in [Storages -> 0..2] /\ secrets \in 0..2
    BY DEF TypeInv, TypeOK, Clients
  <1> USE <1>0
  <1>1. ASSUME NEW r \in Runs, StartRun(r) \/ EndRun(r)
        PROVE  TypeInv'
    <2> PICK s \in {Idle, Off} : Becomes(r, s)
      BY <1>1 DEF StartRun, EndRun
    <2>1. s \in States /\ s.pc \in {"idle", "off"} /\ r \in Clients /\ lock # r
      BY NewStates DEF Clients
    <2>2. /\ client' \in [Clients -> States] /\ client'[r] = s
          /\ \A d \in Clients \ {r} : client'[d] = client[d]
      BY <2>1, BecomesType
    <2>3. /\ UNCHANGED <<setup, store, secrets>> /\ factory' \in BOOLEAN
          /\ opened' \in [Storages -> 0..2]
      BY <1>1 DEF StartRun, EndRun, TypeInv, TypeOK, keys
    <2>4. TypeOK'
      BY <2>1, <2>2, <2>3 DEF TypeInv, TypeOK, store, Clients
    <2> QED
      BY <2>1, <2>2, <2>3, <2>4 DEF TypeInv, Locked, store, Clients
  <1>2. ASSUME NEW p \in Processes, Restart(p)
        PROVE  TypeInv'
    <2>1. /\ client' \in [Clients -> States]
          /\ \A c \in Clients : \/ client'[c] = client[c] /\ Process(c) # p
                               \/ client'[c].pc \in {"idle", "off"}
      BY <1>2, NewStates DEF Restart
    <2>2. /\ UNCHANGED <<setup, row, cookies, overtaken, secrets>> /\ factory' \in BOOLEAN
          /\ opened' \in [Storages -> 0..2] /\ lock' = IF p = "bot" THEN None ELSE lock
      BY <1>2 DEF Restart, TypeInv, TypeOK
    <2>3. lock' # None => lock' = lock /\ Process(lock) # p /\ client'[lock] = client[lock]
      BY <1>2, <2>2 DEF Restart, Process, Processes, Clients
    <2>4. TypeOK'
      BY <2>1, <2>2, <2>3 DEF TypeInv, TypeOK
    <2>5. \A c \in Handlers : p = "bot" => client'[c].pc = "idle"
      BY <1>2, NewStates DEF Restart, Process, Clients
    <2> QED
      BY <2>1, <2>2, <2>3, <2>4, <2>5 DEF TypeInv, Locked
  <1>3. CASE RotateKeys
    BY <1>3 DEF RotateKeys, TypeInv, TypeOK, Locked, store
  <1>4. CASE Reencrypt
    <2>1. row' \in Rows \cup {None} /\ cookies' \in Ciphers \cup {None}
      BY <1>4 DEF Reencrypt, Rows, Ciphers
    <2> QED
      BY <1>4, <2>1 DEF Reencrypt, TypeInv, TypeOK, Locked, keys
  <1> QED
    BY <1>1, <1>2, <1>3, <1>4

LEMMA TypeNext == TypeInv /\ [Next]_vars => TypeInv'
  <1> SUFFICES ASSUME TypeInv, [Next]_vars PROVE TypeInv'
    OBVIOUS
  <1>1. CASE UNCHANGED vars
    BY <1>1 DEF vars, store, keys, TypeInv, TypeOK, Locked
  <1> QED
    BY <1>1, TypeClient, TypeRest DEF Next

\* Types of the stored rows, the locks, the clients and the keys; a lock is held by a
\* handler in the middle of its transaction (postgres.py:64-85).
THEOREM TypeCorrect == Spec => []TypeOK
  <1>1. Spec => []TypeInv
    BY TypeInit, TypeNext, PTL DEF Spec
  <1> QED
    BY <1>1, PTL DEF TypeInv

-----------------------------------------------------------------------------
(* Handlers merge into what is stored                                      *)

\* What the holder of the lock read is what is stored still; with files, unless a
\* synchronous save came since.
Fresh ==
    \A c \in Clients :
        /\ client[c].pc = "inserting" => Postgres
        /\ client[c].pc = "writing" /\ client[c].op.kind # "sync"
           => /\ Postgres => row # None
              /\ Postgres \/ ~overtaken => client[c].read = Data(row)

LEMMA FreshInit == Init => Fresh
  BY DEF Init, Fresh, Idle, Off, Clients

\* While a handler is between its read and its write, nobody else changes what is
\* stored, but for a synchronous save with files.
LEMMA FreshKept ==
    ASSUME TypeInv, Fresh, setup' = setup, NEW c \in Clients,
           \A d \in Clients \ {c} :
              client'[d] = client[d] \/ client'[d].pc \notin {"inserting", "writing"},
           client'[c].pc = "inserting" => Postgres,
           \/ client'[c].pc # "writing" \/ client'[c].op.kind = "sync"
           \/ (Postgres => row' # None) /\ client'[c].read = Data(row'),
           lock \in Clients \ {c} => \/ row' = row /\ overtaken' = overtaken
                                     \/ Postgres /\ row = None
                                     \/ ~Postgres /\ overtaken'
    PROVE  Fresh'
  BY DEF Fresh, TypeInv, Locked, Postgres, Clients

\* The handlers' writes are merges.
Merges ==
    \A c \in Handlers :
        Saves(c) => Data(row)' = Merged(client[c].op, Data(row)) \/ (~Postgres /\ overtaken)

LEMMA FreshClient ==
    ASSUME TypeInv, Fresh, NEW c \in Clients, ClientStep(c)
    PROVE  Fresh' /\ Merges
  <1> USE StoreAssumption, NoneIsNoRow
  <1>0. /\ client \in [Clients -> States] /\ lock \in Handlers \cup {None}
        /\ row \in Rows \cup {None} /\ None \notin Clients /\ Handlers \subseteq Clients
    BY DEF TypeInv, TypeOK, Clients
  <1> USE <1>0
  <1>a. \A s \in States : Becomes(c, s) =>
          client'[c] = s /\ \A d \in Clients \ {c} : client'[d] = client[d]
    BY BecomesType
  <1>b. row' = row => Merges
    BY DEF Merges, Saves
  <1>c. ASSUME \A d \in Clients \ {c} : client'[d] = client[d],
               \/ client[c].op.kind = "sync"
               \/ Data(row)' = Merged(client[c].op, Data(row))
               \/ ~Postgres /\ overtaken
        PROVE  Merges
    <2>1. Idle.pc = "idle"
      BY NewStates
    <2>2. \A d \in Clients \ {c} : ~Saves(d)
      BY <1>c, <2>1 DEF Saves
    <2> QED
      BY <1>c, <2>2 DEF Merges, Saves
  <1>1. ASSUME NEW op \in AsyncOps, Begin(c, op)
        PROVE  Fresh' /\ Merges
    <2>1. row' = row /\ overtaken' = overtaken /\ setup' = setup
      BY <1>1 DEF Begin, store
    <2> DEFINE s == [pc |-> "locking", op |-> op]
    <2>3. s \in States /\ s.pc = "locking"
      BY NewStates
    <2>2. client'[c].pc = "locking" /\ \A d \in Clients \ {c} : client'[d] = client[d]
      BY <1>1, <1>a, <2>3 DEF Begin
    <2> QED
      BY <1>b, <2>1, <2>2, FreshKept
  <1>2. ASSUME LockRow(c)
        PROVE  Fresh' /\ Merges
    <2> DEFINE s == [pc |-> "writing", op |-> client[c].op, read |-> Data(row)]
    <2>1. row' = row /\ setup' = setup /\ lock = None /\ (Postgres => row # None)
      BY <1>2 DEF LockRow
    <2>2. s \in States /\ s.read = Data(row) /\ s.pc = "writing"
      BY <1>2, StateKinds, NewStates, DataType DEF LockRow
    <2>3. client'[c] = s /\ \A d \in Clients \ {c} : client'[d] = client[d]
      BY <1>2, <2>2, <1>a DEF LockRow
    <2> HIDE DEF s
    <2> QED
      BY <1>b, <2>1, <2>2, <2>3, FreshKept
  <1>3. ASSUME NoRow(c)
        PROVE  Fresh' /\ Merges
    <2>1. row' = row /\ overtaken' = overtaken /\ setup' = setup
      BY <1>3 DEF NoRow, store
    <2> DEFINE i == [pc |-> "inserting", op |-> client[c].op]
    <2>2. i \in States /\ i.pc = "inserting" /\ Idle \in States /\ Idle.pc = "idle"
      BY <1>3, StateKinds, NewStates DEF NoRow
    <2>3. (Becomes(c, i) /\ Postgres) \/ Becomes(c, Idle)
      BY <1>3 DEF NoRow
    <2> HIDE DEF i
    <2>4. /\ client'[c].pc # "writing" /\ \A d \in Clients \ {c} : client'[d] = client[d]
          /\ client'[c].pc = "inserting" => Postgres
      BY <2>2, <2>3, <1>a
    <2> QED
      BY <1>b, <2>1, <2>4, FreshKept
  <1>4. ASSUME Insert(c)
        PROVE  Fresh' /\ Merges
    <2>1. /\ setup' = setup /\ overtaken' = overtaken /\ (row # None => row' = row)
          /\ Postgres
      BY <1>4 DEF Insert, Fresh
    <2>2. client'[c].pc = "idle" /\ \A d \in Clients \ {c} : client'[d] = client[d]
      BY <1>4, <1>a, NewStates DEF Insert
    <2>3. row = None => Data(row)' = Merged(client[c].op, Data(row))
      <3> SUFFICES ASSUME row = None PROVE Data(row') = Merged(client[c].op, Empty)
        BY DEF Data
      <3>1. Put(c, client[c].op, Empty) /\ client[c].op \in AsyncOps /\ Empty \in Maps
        BY <1>4, StateKinds DEF Insert, Empty, Maps
      <3>2. row' # None
        BY <3>1, PutType
      <3> QED
        BY <3>1, <3>2 DEF Put, Data
    <2> QED
      BY <1>b, <1>c, <2>1, <2>2, <2>3, FreshKept
  <1>5. ASSUME Commit(c)
        PROVE  Fresh' /\ Merges
    <2>1. setup' = setup /\ lock = c
      BY <1>5 DEF Commit, TypeInv, Locked
    <2>2. client'[c].pc = "idle" /\ \A d \in Clients \ {c} : client'[d] = client[d]
      BY <1>5, <1>a, NewStates DEF Commit
    <2>3. Data(row)' = Merged(client[c].op, client[c].read)
      <3>1. client[c].op \in AsyncOps \cup SyncOps /\ client[c].read \in Maps
        BY <1>5, StateKinds DEF Commit
      <3>2. Put(c, client[c].op, client[c].read) /\ row' # None
        BY <1>5, <3>1, PutType DEF Commit
      <3> QED
        BY <3>2 DEF Put, Data
    <2>4. Postgres \/ ~overtaken => client[c].read = Data(row)
      BY <1>5 DEF Commit, Fresh
    <2> QED
      BY <1>c, <2>1, <2>2, <2>3, <2>4, FreshKept
  <1>6. ASSUME NEW op \in SyncOps, SyncRead(c, op)
        PROVE  Fresh' /\ Merges
    <2> DEFINE s == [pc |-> "writing", op |-> op, read |-> Data(row)]
    <2>1. row' = row /\ overtaken' = overtaken /\ setup' = setup
      BY <1>6 DEF SyncRead, store
    <2>2. s \in States /\ s.op.kind = "sync" /\ s.pc = "writing"
      BY NewStates, DataType DEF SyncOps
    <2>3. client'[c] = s /\ \A d \in Clients \ {c} : client'[d] = client[d]
      BY <1>6, <2>2, <1>a DEF SyncRead
    <2> HIDE DEF s
    <2> QED
      BY <1>b, <2>1, <2>2, <2>3, FreshKept
  <1>7. ASSUME SyncUpsert(c)
        PROVE  Fresh' /\ Merges
    <2>1. /\ setup' = setup /\ overtaken' /\ client[c].op.kind = "sync"
          /\ Postgres => lock = None
      BY <1>7 DEF SyncUpsert
    <2>2. client'[c].pc = "idle" /\ \A d \in Clients \ {c} : client'[d] = client[d]
      BY <1>7, <1>a, NewStates DEF SyncUpsert
    <2> QED
      BY <1>c, <2>1, <2>2, FreshKept
  <1>8. ASSUME SaveCookies(c)
        PROVE  Fresh' /\ Merges
    BY <1>8 DEF SaveCookies, Fresh, Merges, Saves, Postgres
  <1>9. ASSUME Fail(c)
        PROVE  Fresh' /\ Merges
    <2>1. row' = row /\ overtaken' = overtaken /\ setup' = setup
      BY <1>9 DEF Fail
    <2>2. client'[c].pc = "idle" /\ \A d \in Clients \ {c} : client'[d] = client[d]
      BY <1>9, <1>a, NewStates DEF Fail
    <2> QED
      BY <1>b, <2>1, <2>2, FreshKept
  <1> QED
    BY <1>1, <1>2, <1>3, <1>4, <1>5, <1>6, <1>7, <1>8, <1>9 DEF ClientStep

\* Runs, processes and keys leave the data alone.
LEMMA FreshRest ==
    ASSUME TypeInv, Fresh,
           \/ \E r \in Runs : StartRun(r) \/ EndRun(r)
           \/ \E p \in Processes : Restart(p)
           \/ RotateKeys \/ Reencrypt
    PROVE  Fresh' /\ Data(row)' = Data(row)
  <1> USE StoreAssumption, NoneIsNoRow
  <1>0. client \in [Clients -> States] /\ None \notin Clients
    BY DEF TypeInv, TypeOK, Clients
  <1>1. ASSUME NEW r \in Runs, StartRun(r) \/ EndRun(r)
        PROVE  Fresh' /\ Data(row)' = Data(row)
    <2>1. r \in Clients /\ row' = row /\ overtaken' = overtaken /\ setup' = setup
      BY <1>1 DEF StartRun, EndRun, store, Clients
    <2>2. /\ client'[r].pc \in {"idle", "off"}
          /\ \A d \in Clients \ {r} : client'[d] = client[d]
      BY <1>0, <1>1, <2>1, BecomesType, NewStates DEF StartRun, EndRun
    <2> QED
      BY <2>1, <2>2, FreshKept
  <1>2. ASSUME NEW p \in Processes, Restart(p)
        PROVE  Fresh' /\ Data(row)' = Data(row)
    <2>1. row' = row /\ overtaken' = overtaken /\ setup' = setup
      BY <1>2 DEF Restart
    <2>2. \A d \in Clients : client'[d] = client[d] \/ client'[d].pc \in {"idle", "off"}
      BY <1>2, NewStates DEF Restart
    <2> QED
      BY <2>1, <2>2 DEF Fresh, Postgres
  <1>3. CASE RotateKeys
    BY <1>3 DEF RotateKeys, store, Fresh, Postgres
  <1>4. CASE Reencrypt
    <2>1. UNCHANGED <<setup, lock, overtaken, client>> /\ lock = None
      BY <1>4 DEF Reencrypt
    <2>2. Data(row') = Data(row)
      <3>1. CASE row' = row
        BY <3>1
      <3>2. CASE row # None /\ row' = [row EXCEPT !.key = "k1"]
        <4>1. row \in Rows
          BY <3>2 DEF TypeInv, TypeOK
        <4>2. row' \in Rows /\ row'.data = row.data
          BY <3>2, <4>1 DEF Rows, Ciphers
        <4> QED
          BY <3>2, <4>2 DEF Data
      <3> QED
        BY <1>4, <3>1, <3>2 DEF Reencrypt
    <2>3. ASSUME NEW c \in Clients
          PROVE  ~(client[c].pc = "writing" /\ client[c].op.kind # "sync")
      BY <1>0, <2>1 DEF TypeInv, Locked
    <2> QED
      BY <2>1, <2>2, <2>3 DEF Fresh, Postgres
  <1> QED
    BY <1>1, <1>2, <1>3, <1>4

LEMMA FreshNext == TypeInv /\ Fresh /\ [Next]_vars => Fresh'
  <1> SUFFICES ASSUME TypeInv, Fresh, [Next]_vars PROVE Fresh'
    OBVIOUS
  <1>1. CASE UNCHANGED vars
    BY <1>1 DEF vars, store, keys, Fresh, Postgres
  <1> QED
    BY <1>1, FreshClient, FreshRest DEF Next

\* Handlers merge into what is stored at that moment: they lose no update and revive no
\* deleted key (protocol.py:30, postgres.py:64), but for a synchronous save with files.
THEOREM Transactions == Spec => TransactionsMerge
  <1>1. Spec => [](TypeInv /\ Fresh)
    BY TypeInit, TypeNext, FreshInit, FreshNext, PTL DEF Spec
  <1>2. TypeInv /\ Fresh /\ [Next]_vars
        => [\A c \in Handlers :
              Saves(c) => \/ Data(row)' = Merged(client[c].op, Data(row))
                          \/ ~Postgres /\ overtaken]_vars
    <2> SUFFICES ASSUME TypeInv, Fresh, Next PROVE Merges
      BY DEF Merges
    <2> QED
      BY FreshClient, FreshRest DEF Next, Merges, Saves
  <1> QED
    BY <1>1, <1>2, PTL DEF Spec, TransactionsMerge

-----------------------------------------------------------------------------
(* A key rotation                                                          *)

\* Nobody lags behind by more than a step, and the key dropped last is gone.
KeyInv ==
    /\ \A s \in Storages : opened[s] <= secrets /\ (Open(s) => opened[s] + 1 >= secrets)
    /\ secrets = 0 => cookies # "k1" /\ (row # None => row.key # "k1")
    /\ secrets = 2 => cookies # "k0" /\ (row # None => row.key # "k0")

LEMMA KeyInit == Init => KeyInv
  <1> SUFFICES ASSUME Init PROVE KeyInv
    OBVIOUS
  <1>1. cookies # "k1" /\ (row # None => row.key # "k1")
    BY StoreAssumption DEF Init
  <1> QED
    BY <1>1 DEF Init, KeyInv

\* What a client encrypts may be stored at the step the secrets are at.
LEMMA CipherFits ==
    ASSUME TypeInv, KeyInv, NEW c \in Clients, client[c] # Off
    PROVE  /\ Cipher(c) \in {"plain", "k0", "k1"}
           /\ secrets = 0 => Cipher(c) # "k1"
           /\ secrets = 2 => Cipher(c) # "k0"
  <1>1. Storage(c) \in Storages /\ Open(Storage(c))
    BY StoreAssumption DEF Storage, Storages, Open
  <1>2. /\ opened[Storage(c)] \in 0..2 /\ secrets \in 0..2
        /\ opened[Storage(c)] <= secrets /\ opened[Storage(c)] + 1 >= secrets
    BY <1>1 DEF TypeInv, TypeOK, KeyInv
  <1> QED
    BY <1>2 DEF Cipher, Primary

LEMMA KeyClient ==
    ASSUME TypeInv, TypeInv', KeyInv, NEW c \in Clients, ClientStep(c)
    PROVE  KeyInv'
  <1> USE StoreAssumption, NoneIsNoRow
  <1>1. client[c] # Off /\ UNCHANGED keys
    <2>1. Off.pc = "off" /\ Off # Idle
      BY DEF Off, Idle
    <2> QED
      BY <2>1 DEF ClientStep, Begin, LockRow, NoRow, Insert, Commit, SyncRead, SyncUpsert,
                  SaveCookies, Fail
  <1>2. \A s \in Storages : Open(s)' => Open(s)
    <2>1. \A d \in Clients : client'[d] # client[d] => d = c
      BY DEF ClientStep, Begin, LockRow, NoRow, Insert, Commit, SyncRead, SyncUpsert,
             SaveCookies, Fail, Becomes, TypeInv, TypeOK
    <2> QED
      BY <1>1, <2>1 DEF Open, Storages, Clients
  <1>3. /\ row' = row \/ row'.key = Cipher(c)
        /\ cookies' \in {cookies, Cipher(c)}
    <2>1. \A op, read : Put(c, op, read) => row'.key = Cipher(c) /\ cookies' = cookies
      BY DEF Put
    <2>2. CASE SaveCookies(c)
      BY <2>2 DEF SaveCookies
    <2>3. CASE Insert(c) \/ Commit(c) \/ SyncUpsert(c)
      BY <2>1, <2>3 DEF Insert, Commit, SyncUpsert
    <2>4. CASE ~(SaveCookies(c) \/ Insert(c) \/ Commit(c) \/ SyncUpsert(c))
      BY <2>4 DEF ClientStep, Begin, LockRow, NoRow, SyncRead, Fail, store
    <2> QED
      BY <2>2, <2>3, <2>4
  <1> QED
    BY <1>1, <1>2, <1>3, CipherFits DEF KeyInv, keys

LEMMA KeyRest ==
    ASSUME TypeInv, KeyInv,
           \/ \E r \in Runs : StartRun(r) \/ EndRun(r)
           \/ \E p \in Processes : Restart(p)
           \/ RotateKeys \/ Reencrypt
    PROVE  KeyInv'
  <1> USE StoreAssumption
  <1>0. /\ client \in [Clients -> States] /\ opened \in [Storages -> 0..2] /\ secrets \in 0..2
        /\ Storages \ {"bot"} \subseteq Clients
    BY DEF TypeInv, TypeOK, Storages, Clients
  <1>1. ASSUME NEW r \in Runs, StartRun(r)
        PROVE  KeyInv'
    <2>1. /\ UNCHANGED <<row, cookies, secrets>> /\ opened' = [opened EXCEPT ![r] = secrets]
          /\ \A s \in Storages \ {r} : Open(s)' => Open(s)
      BY <1>0, <1>1 DEF StartRun, Becomes, Open, store
    <2> QED
      BY <1>0, <2>1 DEF KeyInv
  <1>2. ASSUME NEW r \in Runs, EndRun(r)
        PROVE  KeyInv'
    <2>1. /\ UNCHANGED <<row, cookies, secrets, opened>>
          /\ \A s \in Storages : Open(s)' => Open(s)
      BY <1>0, <1>2 DEF EndRun, Becomes, Open, store, keys
    <2> QED
      BY <1>0, <2>1 DEF KeyInv
  <1>3. ASSUME NEW p \in Processes, Restart(p)
        PROVE  KeyInv'
    <2>1. /\ UNCHANGED <<row, cookies, secrets>>
          /\ opened' = IF p = "bot" THEN [opened EXCEPT !["bot"] = secrets] ELSE opened
          /\ \A s \in Storages : Open(s)' => Open(s)
      BY <1>0, <1>3 DEF Restart, Open, Storages
    <2> QED
      BY <1>0, <2>1 DEF KeyInv
  <1>4. CASE RotateKeys
    BY <1>0, <1>4 DEF RotateKeys, KeyInv, Open, store
  <1>5. CASE Reencrypt
    <2>1. /\ secrets = 1 /\ secrets' = 1 /\ opened' = opened /\ client' = client
      BY <1>5 DEF Reencrypt, keys
    <2> QED
      BY <1>0, <2>1 DEF KeyInv, Open
  <1> QED
    BY <1>1, <1>2, <1>3, <1>4, <1>5

LEMMA KeyNext == TypeInv /\ KeyInv /\ [Next]_vars => KeyInv'
  <1> SUFFICES ASSUME TypeInv, KeyInv, [Next]_vars PROVE KeyInv'
    OBVIOUS
  <1>1. CASE UNCHANGED vars
    BY <1>1 DEF vars, store, keys, KeyInv, Open
  <1> QED
    BY <1>1, TypeNext, KeyClient, KeyRest DEF Next

\* At every step of a rotation, what is stored can be read by a storage created now
\* (crypto.py:31), while older ones are still writing with the keys they have.
THEOREM RotationReads == Spec => []RestartReads
  <1>1. Spec => [](TypeInv /\ KeyInv)
    BY TypeInit, TypeNext, KeyInit, KeyNext, PTL DEF Spec
  <1>2. TypeInv /\ KeyInv => RestartReads
    BY DEF TypeInv, TypeOK, KeyInv, RestartReads, Decrypts, Primary, Fallbacks, Rows, Ciphers
  <1> QED
    BY <1>1, <1>2, PTL
=============================================================================
