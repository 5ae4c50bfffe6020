-------------------------- MODULE ApplyRun_proofs --------------------------
(***************************************************************************)
(* What ApplyRun keeps for every number of vacancies, resumes, pages and   *)
(* executions and every batch size.                                        *)
(***************************************************************************)
EXTENDS ApplyRun, SequenceTheorems, TLAPS

-----------------------------------------------------------------------------
(* Types                                                                   *)

\* A page HH lists is a sequence of distinct vacancies with their present status.
LEMMA ListingShape ==
  ASSUME hh \in [Vacancies -> Statuses], NEW s \in Listings
  PROVE  /\ s \in Seq([vacancy : Vacancies, status : Statuses])
         /\ \A i \in 1..Len(s) : s[i].status = hh[s[i].vacancy]
         /\ \A i, j \in 1..Len(s) : s[i].vacancy = s[j].vacancy => i = j
<1>1. PICK n \in 0..PageSize :
        s \in {[i \in 1..n |-> Item(f[i])] :
                 f \in {g \in [1..n -> Vacancies] : \A i, j \in 1..n : g[i] = g[j] => i = j}}
  BY DEF Listings
<1>2. PICK f \in [1..n -> Vacancies] :
        /\ \A i, j \in 1..n : f[i] = f[j] => i = j
        /\ s = [i \in 1..n |-> Item(f[i])]
  BY <1>1
<1>3. n \in Nat
  BY ApplyAssumption
<1>4. \A i \in 1..n : /\ s[i] = [vacancy |-> f[i], status |-> hh[f[i]]]
                      /\ s[i] \in [vacancy : Vacancies, status : Statuses]
  BY <1>2 DEF Item
<1>5. s \in Seq([vacancy : Vacancies, status : Statuses]) /\ Len(s) = n
  <2>1. DOMAIN s = 1..n /\ s = [i \in 1..n |-> s[i]]
    BY <1>2
  <2> DEFINE R == [vacancy : Vacancies, status : Statuses]
  <2>2. s \in [1..n -> R]
    BY <2>1, <1>4
  <2> HIDE DEF R
  <2>3. s \in Seq(R)
    BY <2>2, <1>3, SeqDef
  <2>4. Len(s) \in Nat /\ DOMAIN s = 1..Len(s)
    BY <2>3, LenProperties
  <2>5. Len(s) = n
    BY <2>1, <2>4, <1>3
  <2> QED
    BY <2>3, <2>5 DEF R
<1> QED
  BY <1>2, <1>4, <1>5

\* A page being worked through is one of the first Pages.
Reading == pc \in {"vacancy", "progress"} => page < Pages

Started == pc # "idle" => executions # 0

Typed == TypeOK /\ Reading /\ Started

\* An accepted application leaves the books of their types: only an execution that
\* has started applies.
LEMMA AcceptTypes ==
  ASSUME Typed, pc = "vacancy", NEW v \in Vacancies, Accept(v)
  PROVE  /\ hh' \in [Vacancies -> Statuses] /\ sent' \in [Vacancies -> Nat]
         /\ late_resumes' \subseteq (1..MaxExecutions) \X (0..MaxResumes)
<1>1. hh' \in [Vacancies -> Statuses] /\ sent' \in [Vacancies -> Nat]
  BY DEF Accept, Typed, TypeOK, Statuses
<1>2. <<executions, resumes>> \in (1..MaxExecutions) \X (0..MaxResumes)
  BY ApplyAssumption DEF Typed, TypeOK, Started
<1> QED
  BY <1>1, <1>2 DEF Accept, Typed, TypeOK

LEMMA TypeStep == ASSUME Typed, [Next]_vars PROVE Typed'
<1> USE ApplyAssumption DEF Typed, Reading, Started
<1>1. CASE Start
  <2>1. items' \in Seq([vacancy : Vacancies, status : Statuses])
    BY <1>1, EmptySeq DEF Start
  <2>2. UNCHANGED world /\ UNCHANGED cancel_requested
    BY <1>1 DEF Start
  <2>3. pc' \in {"resume", "last_notice"} /\ resumes' \in 0..MaxResumes
    BY <1>1 DEF Start
  <2>4. executions' \in 0..MaxExecutions /\ executions' # 0 /\ page' \in 0..Pages
    BY <1>1 DEF Start, TypeOK
  <2>5. last_page' = FALSE /\ total_applied' = 0 /\ limit_reached' = FALSE
    BY <1>1 DEF Start
  <2> QED
    BY <2>1, <2>2, <2>3, <2>4, <2>5 DEF TypeOK, world, late
<1>2. CASE RequestCancel
  BY <1>2 DEF RequestCancel, TypeOK, world, late, locals
<1>3. CASE NewTask
  BY <1>3 DEF NewTask, TypeOK, locals
<1>4. CASE WorldMoves
  BY <1>4 DEF WorldMoves, TypeOK, locals, task, late, Statuses
<1>5. CASE Abort
  BY <1>5 DEF Abort, TypeOK, locals, task, world, late
<1>6. CASE NextResume
  BY <1>6 DEF NextResume, Checkpoint, TypeOK, task, world, late
<1>7. CASE NoMoreResumes \/ FetchFails \/ NoMorePages \/ ReportProgress \/ LastNotice
  BY <1>7 DEF NoMoreResumes, FetchFails, NoMorePages, ReportProgress, LastNotice,
              Checkpoint, TypeOK, locals, task, world, late
<1>8. CASE FetchPage
  <2>1. items' \in Seq([vacancy : Vacancies, status : Statuses])
    BY <1>8, ListingShape DEF FetchPage, TypeOK
  <2> QED
    BY <1>8, <2>1 DEF FetchPage, TypeOK, task, world, late
<1>9. CASE items # <<>> /\ items' = Tail(items) /\ UNCHANGED <<resumes, page, last_page, task>>
           /\ (\/ SkipVacancy \/ CreateRefused \/ LimitExceeded \/ CreateNegotiation
               \/ CreateUncounted)
  <2>1. /\ items' \in Seq([vacancy : Vacancies, status : Statuses])
        /\ Head(items) \in [vacancy : Vacancies, status : Statuses]
    BY <1>9, HeadTailProperties DEF TypeOK
  <2>2. Head(items).vacancy \in Vacancies
    BY <2>1
  <2>3. CASE SkipVacancy \/ CreateRefused
    BY <1>9, <2>1, <2>3 DEF SkipVacancy, CreateRefused, TypeOK, task, world, late
  <2>4. CASE LimitExceeded
    BY <1>9, <2>1, <2>4 DEF LimitExceeded, Checkpoint, TypeOK, task, world, late
  <2>5. CASE CreateNegotiation \/ CreateUncounted
    <3>1. pc = "vacancy" /\ Accept(Head(items).vacancy) /\ UNCHANGED task
      BY <2>5 DEF CreateNegotiation, CreateUncounted
    <3>2. /\ hh' \in [Vacancies -> Statuses] /\ sent' \in [Vacancies -> Nat]
          /\ late_resumes' \subseteq (1..MaxExecutions) \X (0..MaxResumes)
      BY <2>2, <3>1, AcceptTypes
    <3>3. pc' \in {"vacancy", "progress"} /\ UNCHANGED <<last_page, limit_reached>>
      BY <2>5 DEF CreateNegotiation, CreateUncounted
    <3>4. total_applied' \in Nat /\ sent_after_cancel' \in Nat
      BY <2>5 DEF CreateNegotiation, CreateUncounted, CountLate, TypeOK
    <3> QED
      BY <1>9, <2>1, <3>1, <3>2, <3>3, <3>4
         DEF TypeOK, task
  <2> QED
    BY <1>9, <2>3, <2>4, <2>5
<1>10. CASE AnswerLost
  <2>1. Head(items) \in [vacancy : Vacancies, status : Statuses]
    BY <1>10, HeadTailProperties DEF AnswerLost, MoreItems, TypeOK
  <2>2. Accept(Head(items).vacancy) /\ Head(items).vacancy \in Vacancies
    BY <1>10, <2>1 DEF AnswerLost
  <2>3. /\ hh' \in [Vacancies -> Statuses] /\ sent' \in [Vacancies -> Nat]
        /\ late_resumes' \subseteq (1..MaxExecutions) \X (0..MaxResumes)
    BY <1>10, <2>2, AcceptTypes DEF AnswerLost
  <2> QED
    BY <1>10, <2>3 DEF AnswerLost, CountLate, TypeOK, locals, task
<1>11. CASE PageDone
  BY <1>11 DEF PageDone, TypeOK, task, world, late
<1>12. CASE UNCHANGED vars
  BY <1>12 DEF vars, locals, task, world, late, TypeOK
<1> QED
  BY <1>1, <1>2, <1>3, <1>4, <1>5, <1>6, <1>7, <1>8, <1>9, <1>10, <1>11, <1>12
     DEF Next, RunStep, SkipVacancy, CreateRefused, LimitExceeded, CreateNegotiation,
         CreateUncounted, MoreItems

LEMMA TypeInit == ASSUME Init PROVE Typed
<1>1. items \in Seq([vacancy : Vacancies, status : Statuses])
  BY EmptySeq DEF Init
<1>2. sent \in [Vacancies -> Nat] /\ hh \in [Vacancies -> Statuses]
  BY DEF Init
<1>3. pc = "idle" /\ resumes \in 0..MaxResumes /\ page \in 0..Pages /\ executions \in 0..MaxExecutions
  BY ApplyAssumption DEF Init
<1>4. /\ last_page = FALSE /\ total_applied = 0 /\ limit_reached = FALSE
      /\ cancel_requested = FALSE /\ sent_after_cancel = 0 /\ late_resumes = {}
  BY DEF Init
<1> QED
  BY <1>1, <1>2, <1>3, <1>4 DEF Typed, TypeOK, Reading, Started

\* Types hold always: in particular the run reads no page beyond the first Pages
\* (apply.py:65) and works only on vacancies HH listed.
THEOREM TypeCorrect == Spec => []TypeOK
<1>1. Init => Typed
  BY TypeInit
<1>2. Typed /\ [Next]_vars => Typed'
  BY TypeStep
<1>3. Typed => TypeOK
  BY DEF Typed
<1> QED
  BY <1>1, <1>2, <1>3, PTL DEF Spec

-----------------------------------------------------------------------------
(* One application per vacancy                                             *)

\* HH relates every vacancy the bot applied to.
Marked == \A v \in Vacancies : sent[v] # 0 => hh[v] = "related"

\* What is left of a page are distinct vacancies, those open not applied to.
Fresh ==
    pc \in {"vacancy", "progress"} =>
       /\ \A i \in 1..Len(items) :
             items[i].status = "open" => sent[items[i].vacancy] = 0
       /\ \A i, j \in 1..Len(items) : items[i].vacancy = items[j].vacancy => i = j

OnceInv == Typed /\ Marked /\ Fresh /\ NoDoubleApply

\* The first vacancy of a page.
LEMMA FirstItem ==
  ASSUME TypeOK, items # <<>>
  PROVE  /\ Head(items) = items[1] /\ 1 \in 1..Len(items)
         /\ items[1] \in [vacancy : Vacancies, status : Statuses]
<1> DEFINE R == [vacancy : Vacancies, status : Statuses]
<1>1. items \in Seq(R)
  BY DEF TypeOK
<1> HIDE DEF R
<1>2. Len(items) \in Nat \ {0} /\ items \in [1..Len(items) -> R]
  BY <1>1, EmptySeq, LenProperties
<1>3. Head(items) = items[1] /\ 1 \in 1..Len(items)
  BY <1>1, <1>2
<1> QED
  BY <1>2, <1>3 DEF R

\* Working off the first vacancy leaves a page of the same kind.
LEMMA PageTail ==
  ASSUME TypeOK, items # <<>>, items' = Tail(items)
  PROVE  /\ Len(items) \in Nat /\ Len(items') = Len(items) - 1
         /\ 1 \in 1..Len(items) /\ Head(items) = items[1]
         /\ items[1] \in [vacancy : Vacancies, status : Statuses]
         /\ \A i \in 1..Len(items') : i + 1 \in 1..Len(items) /\ items'[i] = items[i + 1]
<1> DEFINE R == [vacancy : Vacancies, status : Statuses]
<1>1. items \in Seq(R)
  BY DEF TypeOK
<1> HIDE DEF R
<1>2. Len(items) \in Nat \ {0} /\ items \in [1..Len(items) -> R]
  BY <1>1, EmptySeq, LenProperties
<1>3. Head(items) = items[1] /\ 1 \in 1..Len(items)
  BY <1>1, <1>2
<1>4. items[1] \in R
  BY <1>2, <1>3
<1>5. /\ Len(items') = Len(items) - 1
      /\ \A i \in 1..Len(items') : items'[i] = items[i + 1]
  BY <1>1, HeadTailProperties
<1>6. \A i \in 1..Len(items') : i + 1 \in 1..Len(items)
  BY <1>2, <1>5
<1> QED
  BY <1>2, <1>3, <1>4, <1>5, <1>6 DEF R

LEMMA OnceAccept ==
  ASSUME OnceInv, TypeOK', NEW v \in Vacancies, sent[v] = 0, Accept(v)
  PROVE  Marked' /\ NoDoubleApply'
BY DEF OnceInv, Typed, TypeOK, Marked, NoDoubleApply, Accept

LEMMA OnceStep == ASSUME OnceInv, [Next]_vars PROVE OnceInv'
<1>1. TypeOK /\ TypeOK' /\ Typed'
  BY TypeStep DEF OnceInv, Typed
<1>2. CASE UNCHANGED <<hh, sent, items>> /\ (pc' \in {"vacancy", "progress"} => pc \in {"vacancy", "progress"})
  BY <1>1, <1>2 DEF OnceInv, Marked, Fresh, NoDoubleApply
<1>3. CASE Start
  <2>1. UNCHANGED world /\ pc' \in {"resume", "last_notice"}
    BY <1>3 DEF Start
  <2> QED
    BY <1>1, <2>1 DEF OnceInv, Marked, Fresh, NoDoubleApply, world
<1>4. CASE WorldMoves
  <2>1. UNCHANGED <<pc, items, sent>>
    BY <1>4 DEF WorldMoves, locals
  <2>2. Marked'
    BY <1>1, <1>4, <2>1 DEF WorldMoves, OnceInv, Marked, TypeOK
  <2> QED
    BY <1>1, <2>1, <2>2 DEF OnceInv, Fresh, NoDoubleApply
<1>5. CASE FetchPage
  <2>1. UNCHANGED world /\ items' \in Listings
    BY <1>5 DEF FetchPage
  <2>2. /\ \A i \in 1..Len(items') : /\ items'[i].status = hh[items'[i].vacancy]
                                     /\ items'[i].vacancy \in Vacancies
        /\ \A i, j \in 1..Len(items') : items'[i].vacancy = items'[j].vacancy => i = j
    <3>1. /\ items' \in Seq([vacancy : Vacancies, status : Statuses])
          /\ \A i \in 1..Len(items') : items'[i].status = hh[items'[i].vacancy]
          /\ \A i, j \in 1..Len(items') : items'[i].vacancy = items'[j].vacancy => i = j
      BY <1>1, <2>1, ListingShape DEF TypeOK
    <3>2. \A i \in 1..Len(items') : items'[i] \in [vacancy : Vacancies, status : Statuses]
      BY <3>1, LenProperties
    <3> QED
      BY <3>1, <3>2
  <2> QED
    BY <1>1, <2>1, <2>2 DEF OnceInv, Marked, Fresh, NoDoubleApply, world
<1>6. CASE SkipVacancy \/ CreateRefused \/ LimitExceeded
  <2>1. pc = "vacancy" /\ items # <<>> /\ items' = Tail(items) /\ UNCHANGED world
    BY <1>6 DEF SkipVacancy, CreateRefused, LimitExceeded, MoreItems
  <2>2. \A i \in 1..Len(items') : i + 1 \in 1..Len(items) /\ items'[i] = items[i + 1]
    BY <1>1, <2>1, PageTail
  <2>3. Len(items) \in Nat /\ Len(items') \in Nat
    BY <1>1, <2>1, PageTail
  <2> QED
    BY <1>1, <2>1, <2>2, <2>3 DEF OnceInv, Marked, Fresh, NoDoubleApply, world
<1>7. CASE AnswerLost \/ CreateNegotiation \/ CreateUncounted
  <2>1. /\ pc = "vacancy" /\ items # <<>> /\ Head(items).status = "open"
        /\ Accept(Head(items).vacancy)
    BY <1>7 DEF AnswerLost, CreateNegotiation, CreateUncounted, MoreItems, Applicable
  <2>2. /\ Head(items) = items[1] /\ 1 \in 1..Len(items)
        /\ items[1] \in [vacancy : Vacancies, status : Statuses]
    BY <1>1, <2>1, FirstItem
  <2>3. items[1].vacancy \in Vacancies /\ sent[items[1].vacancy] = 0
    BY <2>1, <2>2 DEF OnceInv, Fresh
  <2>4. Marked' /\ NoDoubleApply'
    BY <1>1, <2>1, <2>2, <2>3, OnceAccept
  <2>5. CASE AnswerLost
    BY <1>1, <2>4, <2>5 DEF AnswerLost, OnceInv, Fresh
  <2>6. CASE CreateNegotiation \/ CreateUncounted
    <3>1. items' = Tail(items)
      BY <2>6 DEF CreateNegotiation, CreateUncounted
    <3>2. /\ Len(items) \in Nat /\ Len(items') \in Nat
          /\ \A i \in 1..Len(items') : i + 1 \in 1..Len(items) /\ items'[i] = items[i + 1]
      BY <1>1, <2>1, <3>1, PageTail
    <3>3. \A i \in 1..Len(items') :
             items'[i].vacancy # items[1].vacancy
      BY <2>1, <2>2, <3>2 DEF OnceInv, Fresh
    <3>4. \A w \in Vacancies : w # items[1].vacancy => sent'[w] = sent[w]
      BY <1>1, <2>1, <2>2 DEF Accept, TypeOK
    <3>5. \A i \in 1..Len(items') : items'[i].vacancy \in Vacancies
      <4>1. items' \in Seq([vacancy : Vacancies, status : Statuses])
        BY <1>1 DEF TypeOK
      <4>2. \A i \in 1..Len(items') : items'[i] \in [vacancy : Vacancies, status : Statuses]
        BY <4>1, LenProperties
      <4> QED
        BY <4>2
    <3>6. Fresh'
      <4>1. \A i \in 1..Len(items') :
               items'[i].status = "open" => sent'[items'[i].vacancy] = 0
        BY <2>1, <3>2, <3>3, <3>4, <3>5 DEF OnceInv, Fresh
      <4>2. \A i, j \in 1..Len(items') : items'[i].vacancy = items'[j].vacancy => i = j
        <5> TAKE i, j \in 1..Len(items')
        <5> HAVE items'[i].vacancy = items'[j].vacancy
        <5>1. items[i + 1].vacancy = items[j + 1].vacancy
          BY <3>2
        <5>2. i + 1 = j + 1
          BY <2>1, <3>2, <5>1 DEF OnceInv, Fresh
        <5> QED
          BY <3>2, <5>2
      <4> QED
        BY <4>1, <4>2 DEF Fresh
    <3> QED
      BY <1>1, <2>4, <3>6 DEF OnceInv
  <2> QED
    BY <1>7, <2>5, <2>6
<1>8. CASE RequestCancel \/ NewTask \/ Abort \/ UNCHANGED vars
  BY <1>2, <1>8 DEF RequestCancel, NewTask, Abort, vars, locals, world, late
<1>9. CASE NextResume \/ NoMoreResumes \/ FetchFails \/ NoMorePages
  BY <1>2, <1>9 DEF NextResume, NoMoreResumes, FetchFails, NoMorePages, Checkpoint, locals, world, late
<1>10. CASE ReportProgress \/ PageDone \/ LastNotice
  BY <1>2, <1>10 DEF ReportProgress, PageDone, LastNotice, Checkpoint, locals, world, late
<1> QED
  BY <1>3, <1>4, <1>5, <1>6, <1>7, <1>8, <1>9, <1>10 DEF Next, RunStep

\* No vacancy gets two applications, for any number of vacancies, resumes, pages
\* and repeated executions.
THEOREM AppliesOnce == Spec => []NoDoubleApply
<1>1. Init => OnceInv
  <2> SUFFICES ASSUME Init PROVE OnceInv
    OBVIOUS
  <2>1. Typed
    BY TypeInit
  <2>2. \A v \in Vacancies : sent[v] = 0
    BY DEF Init
  <2>3. pc = "idle"
    BY DEF Init
  <2> QED
    BY <2>1, <2>2, <2>3 DEF OnceInv, Marked, Fresh, NoDoubleApply
<1>2. OnceInv /\ [Next]_vars => OnceInv'
  BY OnceStep
<1>3. OnceInv => NoDoubleApply
  BY DEF OnceInv
<1> QED
  BY <1>1, <1>2, <1>3, PTL DEF Spec

-----------------------------------------------------------------------------
(* Cancellation and limit                                                  *)

\* One more application moves the count within its batch by one, or completes it.
LEMMA BatchStep ==
  ASSUME NEW t \in Nat
  PROVE  /\ t % Batch \in 0..(Batch - 1)
         /\ (t + 1) % Batch = 0 \/ (t + 1) % Batch = (t % Batch) + 1
<1> DEFINE q == t \div Batch
           r == t % Batch
           q1 == (t + 1) \div Batch
           r1 == (t + 1) % Batch
<1>1. Batch \in Nat /\ Batch > 0
  BY ApplyAssumption
<1>2. /\ q \in Int /\ r \in 0..(Batch - 1) /\ t = Batch * q + r
  BY <1>1
<1>3. /\ q1 \in Int /\ r1 \in 0..(Batch - 1) /\ t + 1 = Batch * q1 + r1
  BY <1>1
<1> HIDE DEF q, r, q1, r1
<1>4. Batch * q1 + r1 = Batch * q + r + 1
  BY <1>1, <1>2, <1>3
<1>5. q1 - q \in Int /\ Batch * (q1 - q) = r + 1 - r1
  BY <1>1, <1>2, <1>3, <1>4
<1>6. q1 - q <= 1
  <2>1. SUFFICES ASSUME q1 - q >= 2 PROVE FALSE
    BY <1>5
  <2>2. Batch * (q1 - q) >= Batch * 2
    BY <1>1, <1>5, <2>1
  <2> QED
    BY <1>1, <1>2, <1>3, <1>5, <2>2
<1>7. q1 - q >= 0
  <2>1. SUFFICES ASSUME q1 - q <= -1 PROVE FALSE
    BY <1>5
  <2>2. Batch * (q1 - q) <= Batch * (-1)
    BY <1>1, <1>5, <2>1
  <2> QED
    BY <1>1, <1>2, <1>3, <1>5, <2>2
<1>8. CASE q1 - q = 0
  BY <1>1, <1>2, <1>3, <1>5, <1>8 DEF r, r1
<1>9. CASE q1 - q = 1
  BY <1>1, <1>2, <1>3, <1>5, <1>9 DEF r, r1
<1> QED
  BY <1>5, <1>6, <1>7, <1>8, <1>9, <1>2 DEF r, r1

\* Since the cancellation the run has sent at most what its batch counts, all of it
\* with the resume at hand; between resumes and where the batch is full the next
\* checkpoint ends it.
LateInv ==
    /\ Typed
    /\ sent_after_cancel <= Batch
    /\ ~cancel_requested => sent_after_cancel = 0 /\ late_resumes = {}
    /\ pc \in {"page", "vacancy"} =>
          /\ sent_after_cancel <= total_applied % Batch
          /\ late_resumes \subseteq {<<executions, resumes>>}
    /\ \A a, b \in late_resumes : a = b

LEMMA LateStep == ASSUME LateInv, [Next]_vars PROVE LateInv'
<1>1. TypeOK /\ TypeOK' /\ Typed'
  BY TypeStep DEF LateInv, Typed
<1>2. /\ Batch \in Nat \ {0}
      /\ sent_after_cancel \in Nat /\ total_applied \in Nat /\ cancel_requested \in BOOLEAN
      /\ total_applied % Batch \in 0..(Batch - 1)
      /\ (total_applied + 1) % Batch = 0 \/ (total_applied + 1) % Batch = (total_applied % Batch) + 1
  BY <1>1, ApplyAssumption, BatchStep DEF TypeOK
<1>3. CASE /\ UNCHANGED <<late, cancel_requested, total_applied>>
           /\ pc' \in {"page", "vacancy"} /\ cancel_requested => UNCHANGED <<executions, resumes>>
           /\ pc' \in {"page", "vacancy"} => pc \in {"page", "vacancy"} \/ ~cancel_requested
  BY <1>1, <1>2, <1>3 DEF LateInv, late
<1>4. CASE Start
  <2>1. UNCHANGED <<late, cancel_requested>> /\ pc' \in {"resume", "last_notice"}
    BY <1>4 DEF Start, world
  <2> QED
    BY <1>1, <2>1 DEF LateInv, late
<1>5. CASE RequestCancel
  <2>1. /\ UNCHANGED <<pc, total_applied, resumes, executions, sent_after_cancel, late_resumes>>
        /\ cancel_requested' = TRUE
    BY <1>5 DEF RequestCancel, locals, world, late
  <2> QED
    BY <1>1, <1>2, <2>1 DEF LateInv
<1>6. CASE NewTask
  <2>1. pc' = "idle" /\ sent_after_cancel' = 0 /\ late_resumes' = {}
    BY <1>6 DEF NewTask
  <2> QED
    BY <1>1, <1>2, <2>1 DEF LateInv
<1>7. CASE AnswerLost \/ CreateNegotiation \/ CreateUncounted
  <2>1. /\ pc = "vacancy" /\ UNCHANGED <<cancel_requested, executions, resumes>>
        /\ late_resumes' = IF cancel_requested THEN late_resumes \union {<<executions, resumes>>}
                           ELSE late_resumes
        /\ CountLate \/ UNCHANGED <<pc, sent_after_cancel, total_applied>>
    BY <1>7 DEF AnswerLost, CreateNegotiation, CreateUncounted, Accept, task, locals
  <2>2. /\ sent_after_cancel <= total_applied % Batch
        /\ late_resumes \subseteq {<<executions, resumes>>}
    BY <2>1 DEF LateInv
  <2>3. sent_after_cancel' <= Batch /\ (~cancel_requested' => sent_after_cancel' = 0)
    BY <1>2, <2>1, <2>2 DEF LateInv, CountLate
  <2>4. /\ ~cancel_requested' => late_resumes' = {}
        /\ late_resumes' \subseteq {<<executions', resumes'>>}
        /\ \A a, b \in late_resumes' : a = b
    BY <1>2, <2>1, <2>2 DEF LateInv
  <2>5. CASE AnswerLost
    BY <1>1, <2>3, <2>4, <2>5 DEF AnswerLost, LateInv
  <2>6. CASE CreateNegotiation
    <3>1. /\ total_applied' = total_applied + 1 /\ CountLate
          /\ pc' = IF (total_applied + 1) % Batch = 0 THEN "progress" ELSE "vacancy"
      BY <2>6 DEF CreateNegotiation, Reports
    <3>2. pc' \in {"page", "vacancy"} => sent_after_cancel' <= total_applied' % Batch
      BY <1>2, <2>1, <2>2, <2>3, <3>1 DEF LateInv, CountLate
    <3> QED
      BY <1>1, <2>3, <2>4, <3>2 DEF LateInv
  <2>7. CASE CreateUncounted
    <3>1. UNCHANGED <<sent_after_cancel, total_applied>>
      BY <2>7 DEF CreateUncounted
    <3> QED
      BY <1>1, <2>2, <2>3, <2>4, <3>1 DEF LateInv
  <2> QED
    BY <1>7, <2>5, <2>6, <2>7
<1>8. CASE WorldMoves \/ Abort \/ UNCHANGED vars
  BY <1>3, <1>8 DEF WorldMoves, Abort, vars, locals, task, world, late
<1>9. CASE NextResume \/ NoMoreResumes \/ FetchPage \/ FetchFails \/ NoMorePages
  BY <1>3, <1>9 DEF NextResume, NoMoreResumes, FetchPage, FetchFails, NoMorePages, Checkpoint,
                    locals, task, world, late
<1>10. CASE SkipVacancy \/ CreateRefused \/ LimitExceeded \/ ReportProgress \/ PageDone \/ LastNotice
  BY <1>3, <1>10 DEF SkipVacancy, CreateRefused, LimitExceeded, ReportProgress, PageDone,
                     LastNotice, Checkpoint, locals, task, world, late
<1> QED
  BY <1>4, <1>5, <1>6, <1>7, <1>8, <1>9, <1>10 DEF Next, RunStep

\* A cancelled task sends at most Batch applications more beside those HH accepts with
\* an error, and all of them with one resume of one execution, whenever it is cancelled
\* and however often it is executed again.
THEOREM CancelBounded == Spec => []CancelLatencyBounded
<1>1. Init => LateInv
  <2> SUFFICES ASSUME Init PROVE LateInv
    OBVIOUS
  <2>1. pc = "idle" /\ sent_after_cancel = 0 /\ late_resumes = {} /\ Batch \in Nat
    BY ApplyAssumption DEF Init
  <2> QED
    BY TypeInit, <2>1 DEF LateInv
<1>2. LateInv /\ [Next]_vars => LateInv'
  BY LateStep
<1>3. LateInv => CancelLatencyBounded
  BY DEF LateInv, CancelLatencyBounded
<1> QED
  BY <1>1, <1>2, <1>3, PTL DEF Spec

\* Once the limit is reached an execution sends nothing more.
THEOREM StopsAtLimit == Spec => LimitStops
<1>1. [Next]_vars => [limit_reached /\ limit_reached' => sent' = sent]_vars
  <2> SUFFICES ASSUME Next PROVE limit_reached /\ limit_reached' => sent' = sent
    OBVIOUS
  <2>1. CASE CreateNegotiation \/ AnswerLost \/ CreateUncounted
    BY <2>1 DEF CreateNegotiation, AnswerLost, CreateUncounted, MoreItems
  <2>2. CASE UNCHANGED sent
    BY <2>2
  <2> QED
    BY <2>1, <2>2 DEF Next, RunStep, Start, RequestCancel, NewTask, WorldMoves, Abort, NextResume,
       NoMoreResumes, FetchPage, FetchFails, NoMorePages, SkipVacancy, CreateRefused,
       LimitExceeded, ReportProgress, PageDone, LastNotice, world
<1> QED
  BY <1>1, PTL DEF Spec, LimitStops
=============================================================================
