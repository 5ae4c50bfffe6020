--------------------------- MODULE NegotiationRun ---------------------------
(***************************************************************************)
(* The operations "clear", "reply" and "update" of one user                *)
(* (services/negotiation.py, services/resume.py) under the branches of     *)
(* HeavyOperationExecutor.  Each reads a list once and works through it,   *)
(* one request at a time, while the user, employers and the clock go on.   *)
(*                                                                         *)
(* A task may be executed again from the start (TaskQueue); executions of  *)
(* a user follow one another.  HH is external.  The list is a set here:    *)
(* the order HH gives it in is open, and it names an entry once.  No       *)
(* caller asks for employers to be blacklisted, and the number an          *)
(* execution reports is left out.                                          *)
(***************************************************************************)
EXTENDS Integers, FiniteSets

CONSTANTS
    Negotiations,
    Resumes,
    Thresholds,     \* the days a user may type, an int
    Day,            \* ticks of a day
    MaxTime,        \* bound on the clock
    MaxChanges,     \* bound on what others do to negotiations
    MaxExecutions,  \* bound on the executions
    None

VARIABLES
    pc,
    task,           \* the payload: what is asked for
    cancel_requested,
    executions,
    todo,           \* what is left of the list, as HH gave it
    current,        \* the entry a message is about to be posted to
    now,
    hh,             \* the negotiations as they are; None when deleted
    renewable,      \* the resumes that can be published
    changes,
    touched,        \* negotiations changed by others since the list was read
    due             \* messages of the employer, and lists that showed the negotiation as
                    \* not viewed, less the messages the bot sent

run == <<pc, todo, current>>
history == <<changes, touched, due>>
vars == <<run, task, cancel_requested, executions, now, hh, renewable, history>>

Times == 0..MaxTime
Tasks == [op : {"clear"}, older_than : Thresholds \cup {None}] \cup [op : {"reply", "update"}]
Threads == [state : {"open", "discard"}, updated : Times,
            last : {"applicant", "employer"}, viewed : BOOLEAN]
Listed == [n : Negotiations, thread : Threads, published : BOOLEAN]
Entries == Listed \cup [resume : Resumes]

ASSUME NegotiationAssumption ==
    /\ Thresholds \subseteq Int /\ Day \in Nat \ {0}
    /\ MaxTime \in Nat /\ MaxChanges \in Nat /\ MaxExecutions \in Nat
    /\ None \notin Int /\ None \notin Threads /\ None \notin Listed

Init ==
    /\ pc = "idle" /\ task \in Tasks /\ cancel_requested = FALSE /\ executions = 0
    /\ todo = {} /\ current = None
    /\ now = 0
    /\ hh \in [Negotiations -> {th \in Threads : th.updated = 0 /\ (th.last = "employer" => th.viewed)}]
    /\ renewable = Resumes
    /\ changes = 0 /\ touched = {}
    /\ due = [n \in Negotiations |-> IF hh[n].last = "employer" THEN 1 ELSE 0]

-----------------------------------------------------------------------------
(* The world                                                               *)

Alive == {n \in Negotiations : hh[n] # None}

\* Somebody else changes a negotiation, while they matter.
Change(n, thread) ==
    /\ task.op # "update"
    /\ changes < MaxChanges /\ changes' = changes + 1
    /\ hh' = [hh EXCEPT ![n] = thread]
    /\ touched' = IF pc \in {"idle", "list"} THEN {} ELSE touched \cup {n}
    /\ UNCHANGED <<run, task, cancel_requested, executions, now, renewable>>

EmployerWrites(n) ==
    /\ Change(n, [hh[n] EXCEPT !.last = "employer", !.viewed = TRUE, !.updated = now])
    /\ due' = [due EXCEPT ![n] = @ + 1]

\* The employer discards or invites, or the user writes or deletes by hand.
OtherChange(n) ==
    /\ \/ \E s \in {"open", "discard"} : Change(n, [hh[n] EXCEPT !.state = s, !.updated = now])
       \/ \E b \in BOOLEAN :
             Change(n, [hh[n] EXCEPT !.last = "applicant", !.viewed = b, !.updated = now])
       \/ Change(n, None)
    /\ UNCHANGED due

EmployerViews(n) == Change(n, [hh[n] EXCEPT !.viewed = TRUE]) /\ UNCHANGED due

Tick ==
    /\ now < MaxTime
    /\ now' = now + 1
    /\ UNCHANGED <<run, task, cancel_requested, executions, hh, renewable, history>>

\* /cancel_task; of these operations only "update" looks for it before the end.
RequestCancel ==
    /\ task.op = "update"
    /\ cancel_requested' = TRUE
    /\ UNCHANGED <<run, task, executions, now, hh, renewable, history>>

\* A resume can be published again.
Renewal(r) ==
    /\ task.op = "update"
    /\ renewable' = renewable \cup {r}
    /\ UNCHANGED <<run, task, cancel_requested, executions, now, hh, history>>

World ==
    \/ \E n \in Alive : EmployerWrites(n) \/ OtherChange(n) \/ EmployerViews(n)
    \/ \E r \in Resumes : Renewal(r)
    \/ Tick \/ RequestCancel

-----------------------------------------------------------------------------
(* Executions                                                              *)

outside == <<task, cancel_requested, now>>

\* The task's message is delivered.  Only "update" looks for a cancellation first.
Start ==
    /\ pc = "idle" /\ executions < MaxExecutions
    /\ executions' = executions + 1
    /\ pc' = IF task.op = "update" /\ cancel_requested THEN "idle" ELSE "list"
    /\ UNCHANGED <<todo, current, outside, hh, renewable, history>>

\* The local variables of an execution end with it.
Over ==
    /\ pc' = "idle" /\ todo' = {} /\ current' = None /\ touched' = {}
    /\ UNCHANGED <<changes, executions, outside, renewable>>

\* The worker dies, or an exception that is not caught ends the operation.
Abort == pc # "idle" /\ Over /\ UNCHANGED <<hh, due>>

\* get_negotiations, for "reply" after get_resumes.
ListNegotiations ==
    /\ pc = "list" /\ task.op \in {"clear", "reply"}
    /\ \E published \in IF task.op = "reply" THEN SUBSET Alive ELSE {{}} :
          todo' = {[n |-> n, thread |-> hh[n], published |-> n \in published] : n \in Alive}
    /\ pc' = "items"
    /\ due' = [n \in Negotiations |->
                 IF task.op = "reply" /\ n \in Alive /\ ~hh[n].viewed THEN due[n] + 1 ELSE due[n]]
    /\ UNCHANGED <<current, executions, outside, hh, renewable, changes, touched>>

\* Plausible bug: the entry is tried again.
TryAgain(entry) == UNCHANGED todo

Pass(entry) == todo' = todo \ {entry}

ItemsDone ==
    /\ pc = "items" /\ todo = {}
    /\ pc' = "end"
    /\ UNCHANGED <<todo, current, executions, outside, hh, renewable, history>>

\* The report; then a cancellation is looked for, with everything done.
LastNotice == pc = "end" /\ Over /\ UNCHANGED <<hh, due>>

-----------------------------------------------------------------------------
(* clear                                                                   *)

\* timedelta.days: whole days of elapsed time, rounded down.
Age(thread) == (now - thread.updated) \div Day

\* Plausible bug: entries of exactly that age go too.
should_clear_early(thread) ==
    IF task.older_than \notin {None, 0} THEN Age(thread) >= task.older_than
                                        ELSE thread.state = "discard"

\* The age is that of the listed date when the entry is looked at.  0 is false.
should_clear(thread) ==
    IF task.older_than \notin {None, 0} THEN Age(thread) > task.older_than
                                        ELSE thread.state = "discard"

KeepNegotiation(entry) ==
    /\ pc = "items" /\ task.op = "clear" /\ ~should_clear(entry.thread)
    /\ Pass(entry)
    /\ UNCHANGED <<pc, current, executions, outside, hh, renewable, history>>

\* delete_negotiation: HH deletes, and answers so or with an error (a 5xx), an ApiError;
\* the loop goes on either way and only leaves the latter out of its report.
DeleteNegotiation(entry) ==
    /\ pc = "items" /\ task.op = "clear" /\ should_clear(entry.thread)
    /\ hh[entry.n] # None
    /\ hh' = [hh EXCEPT ![entry.n] = None]
    /\ Pass(entry)
    /\ UNCHANGED <<pc, current, executions, outside, renewable, history>>

\* HH deletes and the answer is lost: the exception ends the run.
DeleteAnswerLost(entry) ==
    /\ pc = "items" /\ task.op = "clear" /\ should_clear(entry.thread)
    /\ hh[entry.n] # None
    /\ hh' = [hh EXCEPT ![entry.n] = None]
    /\ Over /\ UNCHANGED due

\* HH refuses (ApiError), as it does when the negotiation is gone.
DeleteRefused(entry) ==
    /\ pc = "items" /\ task.op = "clear" /\ should_clear(entry.thread)
    /\ Pass(entry)
    /\ UNCHANGED <<pc, current, executions, outside, hh, renewable, history>>

-----------------------------------------------------------------------------
(* reply                                                                   *)

\* Plausible bug: an answer that was viewed is followed by another.
Answerable(entry) == hh[entry.n] # None

\* The employer wrote last, or had not viewed the negotiation when it was listed.
AwaitsReply(entry) == hh[entry.n].last = "employer" \/ ~entry.thread.viewed

Addressed(entry) == entry.published /\ entry.thread.state # "discard"

\* Not of a published resume, a discard, without messages, answered, or an ApiError.
LeaveAlone(entry) ==
    /\ pc = "items" /\ task.op = "reply"
    /\ Pass(entry)
    /\ UNCHANGED <<pc, current, executions, outside, hh, renewable, history>>

\* get_negotiation_messages: the last message as it is now.
ReadMessages(entry) ==
    /\ pc = "items" /\ task.op = "reply" /\ Addressed(entry)
    /\ hh[entry.n] # None /\ AwaitsReply(entry)
    /\ Pass(entry)
    /\ current' = [entry EXCEPT !.thread.last = hh[entry.n].last]
    /\ pc' = "post"
    /\ UNCHANGED <<executions, outside, hh, renewable, history>>

\* HH takes the message, a few seconds later.
Accepted(n) ==
    /\ hh[n] # None
    /\ \E b \in BOOLEAN :
          hh' = [hh EXCEPT ![n].last = "applicant", ![n].viewed = b, ![n].updated = now]
    /\ due' = [due EXCEPT ![n] = @ - 1]

NextEntry == pc' = "items" /\ current' = None

\* The message is taken, and that is answered, with an error (ApiError) or without.
PostReply ==
    /\ pc = "post"
    /\ Accepted(current.n)
    /\ NextEntry
    /\ UNCHANGED <<todo, executions, outside, renewable, changes, touched>>

\* HH takes it and the answer is lost: the exception ends the run.
ReplyAnswerLost == pc = "post" /\ Accepted(current.n) /\ Over

\* Plausible bug: the loop goes on before the refused entry is put aside.
PostRefusedAside ==
    /\ pc = "post"
    /\ pc' = "items" /\ UNCHANGED current
    /\ UNCHANGED <<todo, executions, outside, hh, renewable, history>>

PostRefused ==
    /\ pc = "post"
    /\ NextEntry
    /\ UNCHANGED <<todo, executions, outside, hh, renewable, history>>

-----------------------------------------------------------------------------
(* update                                                                  *)

ListResumes ==
    /\ pc = "list" /\ task.op = "update"
    /\ todo' = {[resume |-> r] : r \in renewable}
    /\ pc' = "items"
    /\ UNCHANGED <<current, executions, outside, hh, renewable, history>>

\* publish_resume; one that is refused is passed over.
PublishResume(entry) ==
    /\ pc = "items" /\ task.op = "update"
    /\ Pass(entry)
    /\ renewable' \in {renewable, renewable \ {entry.resume}}
    /\ UNCHANGED <<pc, current, executions, outside, hh, history>>

-----------------------------------------------------------------------------
RunStep ==
    \/ ListNegotiations \/ ListResumes \/ ItemsDone \/ LastNotice
    \/ \E entry \in todo :
          \/ KeepNegotiation(entry) \/ DeleteNegotiation(entry) \/ DeleteRefused(entry)
          \/ DeleteAnswerLost(entry) \/ LeaveAlone(entry) \/ ReadMessages(entry)
          \/ PublishResume(entry)
    \/ PostReply \/ ReplyAnswerLost \/ PostRefused

Next == World \/ Start \/ Abort \/ RunStep

Spec == Init /\ [][Next]_vars

\* Assumed, for the HH client has no timeout of its own (project_troubles.md:18):
\* every request ends.
FairSpec == Spec /\ WF_vars(RunStep)

-----------------------------------------------------------------------------
(* Properties.                                                             *)

\* Types; an entry is held exactly while a message to it is under way.
TypeOK ==
    /\ pc \in {"idle", "list", "items", "post", "end"}
    /\ task \in Tasks /\ cancel_requested \in BOOLEAN /\ executions \in 0..MaxExecutions
    /\ todo \subseteq Entries
    /\ current \in Listed \cup {None}
    /\ pc = "post" <=> current # None
    /\ now \in Times
    /\ hh \in [Negotiations -> Threads \cup {None}]
    /\ renewable \subseteq Resumes
    /\ changes \in 0..MaxChanges
    /\ touched \subseteq Negotiations
    /\ due \in [Negotiations -> Int]

\* An employer gets no more messages than they wrote, and one besides for every time
\* a list showed the negotiation as not viewed (negotiation.py:140), however often
\* the task is executed and whichever answers are lost.
RepliesMatchMessages ==
    \A n \in Negotiations : due[n] >= 0

\* What others delete leaves the run alone.
BotDeletes(n) == hh[n] # None /\ hh'[n] = None /\ run' # run

\* Not updated for longer than that many days.
LongerThan(n, days) == now - hh[n].updated > days * Day

\* A negotiation that is deleted was not updated for longer than the days asked for
\* (but see 0, below), or is a discard if discards were asked for, unless somebody
\* changed it after the list was read: the list may be stale, its entries are acted on
\* much later (negotiation.py:63).
ClearsWhatWasAsked ==
    [][\A n \in Negotiations :
         BotDeletes(n) /\ n \notin touched
         => /\ task.older_than = None => hh[n].state = "discard"
            /\ task.older_than \notin {None, 0} => LongerThan(n, task.older_than)]_vars

\* An execution ends if its requests do, whatever of them fail and whatever is written
\* meanwhile.
EveryExecutionEnds == pc # "idle" ~> pc = "idle"

-----------------------------------------------------------------------------
(* What the bot tells its user, and does not keep.                         *)

\* "Negotiations not updated for longer than the given time will be deleted"
\* (texts.py:195), whatever number is given.
DaysMeanAge ==
    [][\A n \in Negotiations :
         BotDeletes(n) /\ n \notin touched /\ task.older_than # None
         => LongerThan(n, task.older_than)]_vars

\* Messages go "to all chats with an unread answer of the employer" (texts.py:201,
\* negotiation.py:100): where one is posted the employer wrote last.
AnswersEmployers ==
    [][\A n \in Negotiations : due'[n] < due[n] => current.thread.last = "employer"]_vars

=============================================================================
