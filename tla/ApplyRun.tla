------------------------------ MODULE ApplyRun ------------------------------
(***************************************************************************)
(* The operation "apply" of one user: ApplyService.apply_similar           *)
(* (services/apply.py) under the checkpoints of HeavyOperationExecutor     *)
(* (services/heavy_executor.py).  It applies with every published resume   *)
(* to the similar vacancies HH lists for it, page by page.                 *)
(*                                                                         *)
(* A task is executed, and executed anew from the start when a worker dies *)
(* (TaskQueue models the queue); executions of a user follow one another.  *)
(* HH is external: what a page holds, and how a request ends, is open.     *)
(* One step runs from one request, or one checkpoint, to the next.         *)
(***************************************************************************)
EXTENDS Naturals, Sequences, FiniteSets

CONSTANTS
    Vacancies,
    MaxResumes,     \* bound on the published resumes
    Pages,          \* range(20): the pages read for a resume
    PageSize,       \* per_page
    Batch,          \* applications between two progress messages, 10
    MaxExecutions   \* bound on the executions

ASSUME ApplyAssumption ==
    /\ MaxResumes \in Nat /\ Pages \in Nat /\ PageSize \in Nat /\ MaxExecutions \in Nat
    /\ Batch \in Nat \ {0}

VARIABLES
    pc,                 \* where the execution is
    resumes,            \* how many published resumes it has left
    page,
    items,              \* what is left of the page, as HH listed it
    last_page,          \* page >= res.get("pages", 1) - 1
    total_applied,
    limit_reached,
    cancel_requested,   \* the task's column of that name
    executions,
    hh,                 \* what HH says of a vacancy to this user
    sent,               \* how often HH accepted the bot's application
    sent_after_cancel,  \* of those of the task, how many since its cancellation,
                        \* not counting those HH answered with an error all the same
    late_resumes        \* the executions and resumes that applied since then

locals == <<resumes, page, items, last_page, total_applied, limit_reached>>
task == <<cancel_requested, executions>>
late == <<sent_after_cancel, late_resumes>>
world == <<hh, sent, late>>
vars == <<pc, locals, task, world>>

\* "related" has relations; "unsuitable" is archived, answered elsewhere or excluded.
Statuses == {"open", "related", "unsuitable"}

Item(v) == [vacancy |-> v, status |-> hh[v]]

\* A page of the list: distinct vacancies, at most PageSize.
Listings ==
    UNION {{[i \in 1..n |-> Item(f[i])] :
               f \in {g \in [1..n -> Vacancies] : \A i, j \in 1..n : g[i] = g[j] => i = j}}
             : n \in 0..PageSize}

Init ==
    /\ pc = "idle"
    /\ resumes = 0 /\ page = 0 /\ items = <<>> /\ last_page = FALSE
    /\ total_applied = 0 /\ limit_reached = FALSE
    /\ cancel_requested = FALSE /\ executions = 0
    /\ hh \in [Vacancies -> Statuses]
    /\ sent = [v \in Vacancies |-> 0]
    /\ sent_after_cancel = 0 /\ late_resumes = {}

-----------------------------------------------------------------------------
(* Around the run                                                          *)

\* The message of the task is delivered, for the first time or again: resumes
\* and profile are read, everything counted starts from zero.
Start ==
    /\ pc = "idle"
    /\ executions < MaxExecutions
    /\ executions' = executions + 1
    /\ resumes' \in 0..MaxResumes
    /\ pc' = IF resumes' = 0 THEN "last_notice" ELSE "resume"
    /\ page' = 0 /\ items' = <<>> /\ last_page' = FALSE
    /\ total_applied' = 0 /\ limit_reached' = FALSE
    /\ UNCHANGED <<cancel_requested, world>>

\* The user sends /cancel_task.
RequestCancel ==
    /\ ~cancel_requested
    /\ cancel_requested' = TRUE
    /\ UNCHANGED <<pc, locals, executions, world>>

\* Once the execution is over the user may queue the next task.
NewTask ==
    /\ pc = "idle" /\ executions > 0
    /\ cancel_requested' = FALSE /\ sent_after_cancel' = 0 /\ late_resumes' = {}
    /\ UNCHANGED <<pc, locals, executions, hh, sent>>

\* The user, an employer or HH change what HH says of a vacancy; an application
\* is not taken back meanwhile.
WorldMoves ==
    \E v \in Vacancies, s \in Statuses :
       /\ hh[v] # "related" /\ hh[v] # s
       /\ hh' = [hh EXCEPT ![v] = s]
       /\ UNCHANGED <<pc, locals, task, sent, late>>

\* The worker dies, or a request raises what is no ApiError (a timeout, say).
Abort ==
    /\ pc # "idle"
    /\ pc' = "idle"
    /\ UNCHANGED <<locals, task, world>>

-----------------------------------------------------------------------------
(* The run                                                                 *)

\* make_progress: store the message, then look for a cancellation.
Checkpoint(next) == pc' = IF cancel_requested THEN "idle" ELSE next

\* The for loop over the resumes has another one.
NextResume ==
    /\ pc = "resume"
    /\ resumes > 0 /\ ~limit_reached
    /\ Checkpoint("page")
    /\ page' = 0
    /\ resumes' = resumes - 1
    /\ UNCHANGED <<items, last_page, total_applied, limit_reached, task, world>>

NoMoreResumes ==
    /\ pc = "resume"
    /\ resumes = 0 \/ limit_reached
    /\ pc' = "last_notice"
    /\ UNCHANGED <<locals, task, world>>

\* Plausible bug: the pages are read for as long as HH says there are more.
FetchAnyPage ==
    /\ pc = "page" /\ ~limit_reached
    /\ items' \in Listings
    /\ last_page' \in BOOLEAN
    /\ pc' = IF items' = <<>> THEN "resume" ELSE "vacancy"
    /\ UNCHANGED <<resumes, page, total_applied, limit_reached, task, world>>

\* GET similar_vacancies; no items end the resume.
FetchPage ==
    /\ pc = "page"
    /\ page < Pages /\ ~limit_reached
    /\ items' \in Listings
    /\ last_page' \in BOOLEAN
    /\ pc' = IF items' = <<>> THEN "resume" ELSE "vacancy"
    /\ UNCHANGED <<resumes, page, total_applied, limit_reached, task, world>>

\* GET similar_vacancies raises ApiError: a message, and the next resume.
FetchFails ==
    /\ pc = "page"
    /\ page < Pages /\ ~limit_reached
    /\ Checkpoint("resume")
    /\ UNCHANGED <<locals, task, world>>

NoMorePages ==
    /\ pc = "page"
    /\ page = Pages \/ limit_reached
    /\ pc' = "resume"
    /\ UNCHANGED <<locals, task, world>>

\* Plausible bug: the vacancy loop goes on after the limit.
MoreItemsAnyway == items # <<>>

MoreItems == items # <<>> /\ ~limit_reached

\* Plausible bug: relations are not looked at.
ApplicableAgain(item) == item.status # "unsuitable"

Applicable(item) == item.status = "open"

SkipVacancy ==
    /\ pc = "vacancy" /\ MoreItems
    /\ ~Applicable(Head(items))
    /\ items' = Tail(items)
    /\ UNCHANGED <<pc, resumes, page, last_page, total_applied, limit_reached, task, world>>

\* HH accepts an application of the bot.
Accept(v) ==
    /\ hh' = [hh EXCEPT ![v] = "related"]
    /\ sent' = [sent EXCEPT ![v] = @ + 1]
    /\ late_resumes' = IF cancel_requested THEN late_resumes \union {<<executions, resumes>>}
                       ELSE late_resumes

CountLate == sent_after_cancel' = IF cancel_requested THEN sent_after_cancel + 1
                                  ELSE sent_after_cancel

\* Plausible bug: one application too many between two progress messages.
ReportsLate(count) == count % (Batch + 1) = 0

Reports(count) == count % Batch = 0

\* create_negotiation succeeds; every Batch-th one is followed by a checkpoint.
CreateNegotiation ==
    /\ pc = "vacancy" /\ MoreItems
    /\ Applicable(Head(items))
    /\ Accept(Head(items).vacancy) /\ CountLate
    /\ items' = Tail(items)
    /\ total_applied' = total_applied + 1
    /\ pc' = IF Reports(total_applied + 1) THEN "progress" ELSE "vacancy"
    /\ UNCHANGED <<resumes, page, last_page, limit_reached, task>>

\* HH accepts, but its answer never arrives: the run ends with the exception.
AnswerLost ==
    /\ pc = "vacancy" /\ MoreItems
    /\ Applicable(Head(items))
    /\ Accept(Head(items).vacancy) /\ CountLate
    /\ pc' = "idle"
    /\ UNCHANGED <<locals, task>>

\* HH accepts and answers with an error all the same (a 5xx): create_negotiation
\* raises ApiError, and the application is not counted.
CreateUncounted ==
    /\ pc = "vacancy" /\ MoreItems
    /\ Applicable(Head(items))
    /\ Accept(Head(items).vacancy)
    /\ items' = Tail(items)
    /\ UNCHANGED <<pc, resumes, page, last_page, total_applied, limit_reached, task,
                   sent_after_cancel>>

\* create_negotiation raises another ApiError: the vacancy is passed over.
CreateRefused ==
    /\ pc = "vacancy" /\ MoreItems
    /\ Applicable(Head(items))
    /\ items' = Tail(items)
    /\ UNCHANGED <<pc, resumes, page, last_page, total_applied, limit_reached, task, world>>

\* create_negotiation raises LimitExceeded: a message, and all loops break.
LimitExceeded ==
    /\ pc = "vacancy" /\ MoreItems
    /\ Applicable(Head(items))
    /\ limit_reached' = TRUE
    /\ items' = Tail(items)
    /\ Checkpoint("vacancy")
    /\ UNCHANGED <<resumes, page, last_page, total_applied, task, world>>

ReportProgress ==
    /\ pc = "progress"
    /\ Checkpoint("vacancy")
    /\ UNCHANGED <<locals, task, world>>

\* Plausible bug: the same page is read again.
RereadPage ==
    /\ pc = "vacancy" /\ ~MoreItems
    /\ pc' = IF last_page THEN "resume" ELSE "page"
    /\ UNCHANGED <<locals, task, world>>

PageDone ==
    /\ pc = "vacancy" /\ ~MoreItems
    /\ IF last_page THEN pc' = "resume" /\ UNCHANGED page
                    ELSE pc' = "page" /\ page' = page + 1
    /\ UNCHANGED <<resumes, items, last_page, total_applied, limit_reached, task, world>>

\* The summary (or that there is nothing to apply with), the last checkpoint.
LastNotice ==
    /\ pc = "last_notice"
    /\ pc' = "idle"
    /\ UNCHANGED <<locals, task, world>>

-----------------------------------------------------------------------------
RunStep ==
    \/ NextResume \/ NoMoreResumes \/ FetchPage \/ FetchFails \/ NoMorePages
    \/ SkipVacancy \/ CreateNegotiation \/ AnswerLost \/ CreateUncounted
    \/ CreateRefused \/ LimitExceeded \/ ReportProgress \/ PageDone \/ LastNotice

Next == Start \/ RequestCancel \/ NewTask \/ WorldMoves \/ Abort \/ RunStep

Spec == Init /\ [][Next]_vars

\* Assumed, for the HH client has no timeout of its own (project_troubles.md:18):
\* every request ends, by its answer or by an exception.
FairSpec == Spec /\ WF_vars(RunStep)

-----------------------------------------------------------------------------
(* Properties.                                                             *)

\* Types; what the run works through are vacancies, and it reads no page too many.
TypeOK ==
    /\ pc \in {"idle", "resume", "page", "vacancy", "progress", "last_notice"}
    /\ resumes \in 0..MaxResumes
    /\ page \in 0..Pages
    /\ items \in Seq([vacancy : Vacancies, status : Statuses])
    /\ last_page \in BOOLEAN
    /\ total_applied \in Nat
    /\ limit_reached \in BOOLEAN
    /\ cancel_requested \in BOOLEAN
    /\ executions \in 0..MaxExecutions
    /\ hh \in [Vacancies -> Statuses]
    /\ sent \in [Vacancies -> Nat]
    /\ sent_after_cancel \in Nat
    /\ late_resumes \subseteq (1..MaxExecutions) \X (0..MaxResumes)

\* No vacancy gets two applications (apply.py:91), whatever pages overlap, with
\* several resumes, lost answers and executions repeated from the start.
NoDoubleApply == \A v \in Vacancies : sent[v] <= 1

\* A cancelled task sends at most one batch of applications more (apply.py:160)
\* beside those HH accepts with an error, which the loop does not count (:166), and
\* all of them, these too, with one resume of one execution: the redelivery of a
\* cancelled task and the next resume (:53) send nothing.
CancelLatencyBounded ==
    /\ sent_after_cancel <= Batch
    /\ \A a, b \in late_resumes : a = b

\* After LimitExceeded the execution applies to nothing more, in no page and with
\* no resume (apply.py:53, 66 and 87).
LimitStops == [][limit_reached /\ limit_reached' => sent' = sent]_vars

\* An execution ends if its requests do, however many resumes, pages and failures it
\* meets.
EveryExecutionEnds == pc # "idle" ~> pc = "idle"

=============================================================================
