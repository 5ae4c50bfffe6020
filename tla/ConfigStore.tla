---------------------------- MODULE ConfigStore ----------------------------
(***************************************************************************)
(* The stored configuration and cookies of one user, in a row each of      *)
(* PostgreSQL (storage/postgres.py, postgres_sync_backends.py) or in files *)
(* (filesystem.py), and the processes that use them: the bot, with the     *)
(* handlers of the user's updates, and the heavy runs, inside the bot or in*)
(* a worker (run_heavy_operation).                                         *)
(*                                                                         *)
(* Handlers read, merge and write under a lock; whoever uses the HH client *)
(* (external) saves its token through the synchronous back end, which has  *)
(* none.  A storage has the keys it read when it was created: the bot's    *)
(* when the bot started, a run's when the run did (security/crypto.py).    *)
(***************************************************************************)
EXTENDS Naturals, FiniteSets

CONSTANTS
    Handlers,   \* coroutines of the bot
    Runs,       \* heavy runs
    Keys,
    Values,
    Setups,     \* the settings considered: back end and mode
    None

Clients == Handlers \cup Runs
Processes == {"bot", "worker"}

ASSUME StoreAssumption ==
    /\ Setups \subseteq [backend : {"postgres", "filesystem"}, mode : {"inline", "celery"}]
    /\ Handlers \cap Runs = {} /\ "bot" \notin Runs
    /\ None \notin Values \cup Clients \cup {"plain", "k0", "k1"}
    /\ None \notin [data : [Keys -> Values \cup {None}], key : {"plain", "k0", "k1"}]

VARIABLES
    setup,
    row,        \* user_config, or config.json
    cookies,    \* user_cookies: the key it is encrypted with
    lock,       \* of the row; with files the asyncio lock of the bot's storage
    client,
    factory,    \* does the bot's process have an async_session_factory?
    secrets,    \* the step of the key rotation the secrets are at
    opened,     \* and were at when the storage was created
    overtaken   \* has a synchronous save come since the holder of the lock read?

store == <<row, cookies, lock, overtaken>>
keys == <<secrets, opened>>
vars == <<setup, store, client, factory, keys>>

Maps == [Keys -> Values \cup {None}]
Empty == [k \in Keys |-> None]
Ciphers == {"plain", "k0", "k1"}
Rows == [data : Maps, key : Ciphers]

\* save_config and delete_config_key of a storage connector; save of a synchronous
\* back end, which the HH client calls.
AsyncOps == [kind : {"save"}, key : Keys, value : Values] \cup [kind : {"delete"}, key : Keys]
SyncOps == [kind : {"sync"}, key : Keys, value : Values]

Idle == [pc |-> "idle"]
Off == [pc |-> "off"]
States ==
    {Idle, Off} \cup [pc : {"locking", "inserting"}, op : AsyncOps]
    \cup [pc : {"writing"}, op : AsyncOps \cup SyncOps, read : Maps]

Postgres == setup.backend = "postgres"
Process(c) == IF c \in Runs /\ setup.mode = "celery" THEN "worker" ELSE "bot"

\* Handlers share the storage of create_dispatcher, a run creates its own.
Storages == {"bot"} \cup Runs
Storage(c) == IF c \in Runs THEN c ELSE "bot"
Open(s) == s \in Runs => client[s] # Off

Init ==
    /\ setup \in Setups
    /\ row \in {None} \cup [data : {Empty}, key : IF Postgres THEN {"plain", "k0"} ELSE {"plain"}]
    /\ cookies \in {None} \cup IF Postgres THEN {"plain", "k0"} ELSE {"plain"}
    /\ lock = None /\ overtaken = FALSE
    /\ client = [c \in Clients |-> IF c \in Runs THEN Off ELSE Idle]
    /\ factory = TRUE
    /\ secrets = 0 /\ opened = [s \in Storages |-> 0]

-----------------------------------------------------------------------------
(* Encryption                                                              *)

Primary(step) == IF step = 0 THEN "k0" ELSE "k1"

\* Plausible bug: the old keys are not tried.
FallbacksIgnored(step) == {}

Fallbacks(step) == IF step = 1 THEN {"k0"} ELSE {}

\* decrypt_text; what was written before encryption is read as it is.
Decrypts(step, cipher) == cipher \in {"plain", Primary(step)} \cup Fallbacks(step)

Cipher(c) == IF Postgres THEN Primary(opened[Storage(c)]) ELSE "plain"
Readable(c) == row # None => Decrypts(opened[Storage(c)], row.key)

-----------------------------------------------------------------------------
(* The configuration                                                       *)

Data(r) == IF r = None THEN Empty ELSE r.data

\* dict.update and dict.pop.
Merged(op, data) == [data EXCEPT ![op.key] = IF op.kind = "delete" THEN None ELSE op.value]

Becomes(c, state) == client' = [client EXCEPT ![c] = state]

\* The store gets what the client makes of the copy it read.
Put(c, op, read) ==
    /\ row' = [data |-> Merged(op, read), key |-> Cipher(c)]
    /\ UNCHANGED cookies

\* get_session_factory raises when there is none.
Begin(c, op) ==
    /\ client[c] = Idle /\ c \in Handlers
    /\ Postgres => factory
    /\ Becomes(c, [pc |-> "locking", op |-> op])
    /\ UNCHANGED <<setup, store, factory, keys>>

\* Plausible bug: the row is read without FOR UPDATE.
LockRowShared(c) ==
    /\ client[c].pc = "locking" /\ lock = None
    /\ row # None \/ (~Postgres /\ client[c].op.kind = "save")
    /\ Readable(c)
    /\ Becomes(c, [pc |-> "writing", op |-> client[c].op, read |-> Data(row)])
    /\ UNCHANGED <<setup, store, factory, keys>>

\* SELECT FOR UPDATE finds the row; with files the lock is there in any case.
LockRow(c) ==
    /\ client[c].pc = "locking" /\ lock = None
    /\ row # None \/ (~Postgres /\ client[c].op.kind = "save")
    /\ Readable(c)
    /\ lock' = c /\ overtaken' = FALSE
    /\ Becomes(c, [pc |-> "writing", op |-> client[c].op, read |-> Data(row)])
    /\ UNCHANGED <<setup, row, cookies, factory, keys>>

\* It finds none: nothing is locked, a save will insert, a deletion returns.
NoRow(c) ==
    /\ client[c].pc = "locking" /\ lock = None
    /\ row = None /\ (~Postgres => client[c].op.kind = "delete")
    /\ Becomes(c, IF client[c].op.kind = "save" THEN [pc |-> "inserting", op |-> client[c].op]
                                                ELSE Idle)
    /\ UNCHANGED <<setup, store, factory, keys>>

\* INSERT; a row that came between makes it an IntegrityError.
Insert(c) ==
    /\ client[c].pc = "inserting"
    /\ IF row = None THEN Put(c, client[c].op, Empty) ELSE UNCHANGED <<row, cookies>>
    /\ Becomes(c, Idle)
    /\ UNCHANGED <<setup, lock, overtaken, factory, keys>>

\* UPDATE and COMMIT.
Commit(c) ==
    /\ client[c].pc = "writing" /\ client[c].op.kind # "sync"
    /\ Put(c, client[c].op, client[c].read)
    /\ lock' = None
    /\ Becomes(c, Idle)
    /\ UNCHANGED <<setup, overtaken, factory, keys>>

\* PgSyncConfigBackend.save: the row is read without a lock,
SyncRead(c, op) ==
    /\ client[c] = Idle /\ Readable(c)
    /\ Becomes(c, [pc |-> "writing", op |-> op, read |-> Data(row)])
    /\ UNCHANGED <<setup, store, factory, keys>>

\* and written whole, in PostgreSQL when no transaction has it locked.
SyncUpsert(c) ==
    /\ client[c].pc = "writing" /\ client[c].op.kind = "sync"
    /\ Postgres => lock = None
    /\ Put(c, client[c].op, client[c].read)
    /\ overtaken' = TRUE
    /\ Becomes(c, Idle)
    /\ UNCHANGED <<setup, lock, factory, keys>>

\* save_cookies and save_from_text: one upsert, nothing is read.
SaveCookies(c) ==
    /\ client[c] = Idle
    /\ cookies' = Cipher(c)
    /\ UNCHANGED <<setup, row, lock, overtaken, client, factory, keys>>

\* Plausible bug: the lock is not released when the operation raises.
FailKeepsLock(c) ==
    /\ client[c].pc \in {"locking", "inserting", "writing"}
    /\ Becomes(c, Idle)
    /\ UNCHANGED <<setup, store, factory, keys>>

\* An operation ends in an exception: what it cannot decrypt, a lost connection.
Fail(c) ==
    /\ client[c].pc \in {"locking", "inserting", "writing"}
    /\ lock' = IF lock = c THEN None ELSE lock
    /\ Becomes(c, Idle)
    /\ UNCHANGED <<setup, row, cookies, overtaken, factory, keys>>

-----------------------------------------------------------------------------
(* Heavy runs, processes, keys                                             *)

\* Inline with PostgreSQL, the run opens and closes the engine of the bot's process.
SharesEngine == Postgres /\ setup.mode = "inline"

\* create_storage reads the secrets, storage.init() sets the globals of the process.
StartRun(r) ==
    /\ client[r] = Off
    /\ Becomes(r, Idle)
    /\ opened' = [opened EXCEPT ![r] = secrets]
    /\ factory' = (factory \/ SharesEngine)
    /\ UNCHANGED <<setup, store, secrets>>

\* storage.close() unsets them, whoever needs them still.
EndRun(r) ==
    /\ client[r] = Idle /\ r \in Runs
    /\ Becomes(r, Off)
    /\ factory' = (factory /\ ~SharesEngine)
    /\ UNCHANGED <<setup, store, keys>>

\* A process starts again; of the bot's, create_dispatcher and on_startup are run.
Restart(p) ==
    /\ opened' = IF p = "bot" THEN [opened EXCEPT !["bot"] = secrets] ELSE opened
    /\ client' = [c \in Clients |->
                    IF Process(c) # p THEN client[c] ELSE IF c \in Runs THEN Off ELSE Idle]
    /\ lock' = IF p = "bot" THEN None ELSE lock
    /\ factory' = (factory \/ p = "bot")
    /\ UNCHANGED <<setup, row, cookies, overtaken, secrets>>

\* The operator goes on to the next step of docs/security-and-key-rotation.md when
\* every storage with the keys of the step before is gone, and drops the old key when
\* nothing is encrypted with it.
RotateKeys ==
    /\ secrets < 2 /\ Postgres
    /\ \A s \in Storages : Open(s) => opened[s] = secrets
    /\ secrets = 1 => cookies # "k0" /\ (row # None => row.key # "k0")
    /\ secrets' = secrets + 1
    /\ UNCHANGED <<setup, store, client, factory, opened>>

\* The maintenance task of its second step, which the repository does not have.
Reencrypt ==
    /\ secrets = 1 /\ lock = None
    /\ \/ row # None /\ row' = [row EXCEPT !.key = "k1"] /\ UNCHANGED cookies
       \/ cookies # None /\ cookies' = "k1" /\ UNCHANGED row
    /\ UNCHANGED <<setup, lock, overtaken, client, factory, keys>>

-----------------------------------------------------------------------------
ClientStep(c) ==
    \/ \E op \in AsyncOps : Begin(c, op)
    \/ LockRow(c) \/ NoRow(c) \/ Insert(c) \/ Commit(c)
    \/ \E op \in SyncOps : SyncRead(c, op)
    \/ SyncUpsert(c) \/ SaveCookies(c) \/ Fail(c)

Next ==
    \/ \E c \in Clients : ClientStep(c)
    \/ \E r \in Runs : StartRun(r) \/ EndRun(r)
    \/ \E p \in Processes : Restart(p)
    \/ RotateKeys \/ Reencrypt

Spec == Init /\ [][Next]_vars

-----------------------------------------------------------------------------
(* Properties.                                                             *)

\* Types; whoever holds the lock is writing.
TypeOK ==
    /\ setup \in Setups
    /\ row \in Rows \cup {None} /\ cookies \in Ciphers \cup {None}
    /\ lock \in Handlers \cup {None} /\ (lock # None => client[lock].pc = "writing")
    /\ client \in [Clients -> States]
    /\ factory \in BOOLEAN /\ overtaken \in BOOLEAN
    /\ secrets \in 0..2 /\ opened \in [Storages -> 0..2]

\* A handler's save_config or delete_config_key changes the configuration.
Saves(c) ==
    /\ client[c].pc \in {"inserting", "writing"} /\ client[c].op.kind # "sync"
    /\ client'[c] = Idle /\ Data(row)' # Data(row)

\* A handler merges into the configuration as it is when it is written (protocol.py:30,
\* postgres.py:64), first inserts included: handlers lose no update and revive no
\* deleted token.  With files a synchronous save can come in between (filesystem.py:55).
TransactionsMerge ==
    [][\A c \in Handlers :
         Saves(c) => \/ Data(row)' = Merged(client[c].op, Data(row))
                     \/ ~Postgres /\ overtaken]_vars

\* What is stored can be read by a storage created now, at every step of a key
\* rotation and while others still write with the keys of the step before.
RestartReads ==
    /\ row # None => Decrypts(secrets, row.key)
    /\ cookies # None => Decrypts(secrets, cookies)

\* FALSE.  After init_db() there is a session factory (database.py:33, "call after
\* init_db()"), since a run opens and closes the storage within one run of an operation
\* (heavy_executor.py:110): an inline run closes the engine of the whole bot.
OpenAfterStartup == Postgres => factory

=============================================================================
