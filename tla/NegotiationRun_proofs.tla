----------------------- MODULE NegotiationRun_proofs -----------------------
(***************************************************************************)
(* What clearing and replying keep for every number of negotiations,       *)
(* changes by others and executions, and every threshold a user may type.  *)
(***************************************************************************)
EXTENDS NegotiationRun, TLAPS

\* Which entries the run works through, by its operation.
RunInv ==
    /\ pc \in {"idle", "list"} => todo = {}
    /\ pc = "post" => task.op = "reply"
    /\ task.op # "update" => todo \subseteq Listed
    /\ task.op = "update" => todo \subseteq [resume : Resumes]

Typed == TypeOK /\ RunInv

-----------------------------------------------------------------------------
(* Types                                                                   *)

LEMMA TypedInit == Init => Typed
<1> SUFFICES ASSUME Init PROVE Typed
  OBVIOUS
<1>1. due \in [Negotiations -> Int]
  BY DEF Init
<1>2. hh \in [Negotiations -> Threads \cup {None}]
  BY DEF Init
<1>3. /\ pc = "idle" /\ todo = {} /\ current = None
      /\ changes = 0 /\ executions = 0 /\ now = 0 /\ touched = {}
      /\ task \in Tasks /\ cancel_requested = FALSE /\ renewable = Resumes
  BY DEF Init
<1>4. now \in Times /\ changes \in 0..MaxChanges /\ executions \in 0..MaxExecutions
  BY <1>3, NegotiationAssumption DEF Times
<1>5. RunInv
  BY <1>3 DEF RunInv
<1>6. TypeOK
  BY <1>1, <1>2, <1>3, <1>4 DEF TypeOK
<1>. QED
  BY <1>5, <1>6 DEF Typed

\* What others do keeps the types.
LEMMA TypedWorld == ASSUME Typed, World PROVE Typed'
<1> USE NegotiationAssumption DEF Typed, RunInv, run, history
<1>1. ASSUME NEW n \in Negotiations, NEW thread \in Threads \cup {None}, Change(n, thread)
      PROVE  /\ changes' \in 0..MaxChanges /\ touched' \subseteq Negotiations
             /\ hh' \in [Negotiations -> Threads \cup {None}]
             /\ UNCHANGED <<run, task, cancel_requested, executions, now, renewable>>
  BY <1>1 DEF Change, TypeOK
<1>2. \A n \in Alive : n \in Negotiations /\ hh[n] \in Threads
  BY DEF Alive, TypeOK
<1>3. CASE \E n \in Alive : EmployerWrites(n)
  <2>1. PICK n \in Alive : EmployerWrites(n)
    BY <1>3
  <2>2. [hh[n] EXCEPT !.last = "employer", !.viewed = TRUE, !.updated = now] \in Threads
    BY <1>2 DEF Threads, TypeOK
  <2>3. due' \in [Negotiations -> Int]
    BY <2>1, <1>2 DEF EmployerWrites, TypeOK
  <2>. QED
    BY <2>1, <2>2, <2>3, <1>1, <1>2 DEF EmployerWrites, TypeOK
<1>4. CASE \E n \in Alive : OtherChange(n)
  <2>1. PICK n \in Alive : OtherChange(n)
    BY <1>4
  <2>2. PICK thread \in Threads \cup {None} : Change(n, thread)
    <3>1. CASE \E s \in {"open", "discard"} :
                  Change(n, [hh[n] EXCEPT !.state = s, !.updated = now])
      BY <3>1, <1>2 DEF Threads, TypeOK
    <3>2. CASE \E b \in BOOLEAN :
                  Change(n, [hh[n] EXCEPT !.last = "applicant", !.viewed = b, !.updated = now])
      BY <3>2, <1>2 DEF Threads, TypeOK
    <3>. QED
      BY <2>1, <3>1, <3>2 DEF OtherChange
  <2>. QED
    BY <2>1, <2>2, <1>1, <1>2 DEF OtherChange, TypeOK
<1>5. CASE \E n \in Alive : EmployerViews(n)
  <2>1. PICK n \in Alive : EmployerViews(n)
    BY <1>5
  <2>2. [hh[n] EXCEPT !.viewed = TRUE] \in Threads
    BY <1>2 DEF Threads
  <2>. QED
    BY <2>1, <2>2, <1>1, <1>2 DEF EmployerViews, TypeOK
<1>6. CASE (\E r \in Resumes : Renewal(r)) \/ RequestCancel
  BY <1>6 DEF Renewal, RequestCancel, TypeOK
<1>7. CASE Tick
  <2>1. now' \in Times
    BY <1>7 DEF Tick, TypeOK, Times
  <2>. QED
    BY <1>7, <2>1 DEF Tick, TypeOK
<1>. QED
  BY <1>3, <1>4, <1>5, <1>6, <1>7 DEF World

\* The end of an execution keeps the types, whatever HH is left with.
LEMMA TypedOver ==
  ASSUME Typed, Over, hh' \in [Negotiations -> Threads \cup {None}],
         due' \in [Negotiations -> Int]
  PROVE  Typed'
BY NegotiationAssumption DEF Typed, RunInv, TypeOK, Over, outside

\* The bot's message keeps the types.
LEMMA TypedAccepted ==
  ASSUME Typed, NEW n \in Negotiations, Accepted(n)
  PROVE  hh' \in [Negotiations -> Threads \cup {None}] /\ due' \in [Negotiations -> Int]
<1>1. hh[n] \in Threads /\ now \in Times
  BY DEF Typed, TypeOK, Accepted
<1>2. PICK b \in BOOLEAN :
        hh' = [hh EXCEPT ![n].last = "applicant", ![n].viewed = b, ![n].updated = now]
  BY DEF Accepted
<1>3. [[[hh[n] EXCEPT !.last = "applicant"] EXCEPT !.viewed = b] EXCEPT !.updated = now]
        \in Threads
  BY <1>1 DEF Threads
<1>4. hh' \in [Negotiations -> Threads \cup {None}]
  BY <1>2, <1>3 DEF Typed, TypeOK
<1>5. due' \in [Negotiations -> Int]
  BY DEF Typed, TypeOK, Accepted
<1>. QED
  BY <1>4, <1>5

LEMMA TypedStep == ASSUME Typed, [Next]_vars PROVE Typed'
<1> USE NegotiationAssumption DEF Typed
<1>1. CASE World
  BY <1>1, TypedWorld
<1>2. CASE Start
  BY <1>2 DEF Start, TypeOK, RunInv, outside, history
<1>3. CASE Abort \/ LastNotice
  BY <1>3, TypedOver DEF Abort, LastNotice, TypeOK
<1>4. CASE ListNegotiations
  <2>0. \A n \in Alive : n \in Negotiations /\ hh[n] \in Threads
    BY DEF Alive, TypeOK
  <2>1. todo' \subseteq Listed /\ task.op # "update"
    <3>1. PICK published : todo' = {[n |-> n, thread |-> hh[n], published |-> n \in published]
                                      : n \in Alive}
      BY <1>4 DEF ListNegotiations
    <3>2. \A n \in Alive : [n |-> n, thread |-> hh[n], published |-> n \in published] \in Listed
      BY <2>0 DEF Listed
    <3>. QED
      BY <1>4, <3>1, <3>2 DEF ListNegotiations
  <2>2. due' \in [Negotiations -> Int]
    BY <1>4 DEF ListNegotiations, TypeOK
  <2>3. todo' \subseteq Entries
    BY <2>1 DEF Entries
  <2>. QED
    BY <1>4, <2>1, <2>2, <2>3 DEF ListNegotiations, TypeOK, RunInv, outside
<1>5. CASE ListResumes
  <2>1. todo' \subseteq [resume : Resumes]
    BY <1>5 DEF ListResumes, TypeOK
  <2>. QED
    BY <1>5, <2>1 DEF ListResumes, TypeOK, RunInv, Entries, outside, history
<1>6. CASE ItemsDone
  BY <1>6 DEF ItemsDone, TypeOK, RunInv, outside, history
<1>7. ASSUME NEW entry \in todo,
             \/ KeepNegotiation(entry) \/ DeleteRefused(entry) \/ LeaveAlone(entry)
             \/ PublishResume(entry)
      PROVE  Typed'
  BY <1>7 DEF KeepNegotiation, DeleteRefused, LeaveAlone, PublishResume, Pass, TypeOK,
              RunInv, outside, history
<1>8. ASSUME NEW entry \in todo, DeleteNegotiation(entry) PROVE Typed'
  <2>1. entry \in Listed /\ entry.n \in Negotiations
    BY <1>8 DEF DeleteNegotiation, RunInv, Listed
  <2>2. hh' \in [Negotiations -> Threads \cup {None}]
    BY <1>8 DEF DeleteNegotiation, TypeOK
  <2>. QED
    BY <1>8, <2>1, <2>2 DEF DeleteNegotiation, Pass, TypeOK, RunInv, outside, history
<1>9. ASSUME NEW entry \in todo, DeleteAnswerLost(entry) PROVE Typed'
  <2>1. hh' \in [Negotiations -> Threads \cup {None}]
    BY <1>9 DEF DeleteAnswerLost, TypeOK
  <2>. QED
    BY <1>9, <2>1, TypedOver DEF DeleteAnswerLost, TypeOK
<1>10. ASSUME NEW entry \in todo, ReadMessages(entry) PROVE Typed'
  <2>1. entry \in Listed
    BY <1>10 DEF ReadMessages, RunInv
  <2>2. hh[entry.n] \in Threads
    BY <1>10, <2>1 DEF ReadMessages, Listed, TypeOK
  <2>3. current' \in Listed
    BY <1>10, <2>1, <2>2 DEF ReadMessages, Listed, Threads
  <2>. QED
    BY <1>10, <2>3 DEF ReadMessages, Pass, TypeOK, RunInv, outside, history
<1>11. CASE PostReply
  <2>1. current.n \in Negotiations
    BY <1>11 DEF PostReply, RunInv, TypeOK, Listed
  <2>. QED
    BY <1>11, <2>1, TypedAccepted DEF PostReply, NextEntry, TypeOK, RunInv, outside
<1>12. CASE ReplyAnswerLost
  <2>1. current.n \in Negotiations
    BY <1>12 DEF ReplyAnswerLost, RunInv, TypeOK, Listed
  <2>. QED
    BY <1>12, <2>1, TypedAccepted, TypedOver DEF ReplyAnswerLost
<1>13. CASE PostRefused
  BY <1>13 DEF PostRefused, NextEntry, TypeOK, RunInv, outside, history
<1>14. CASE UNCHANGED vars
  BY <1>14 DEF vars, run, history, TypeOK, RunInv
<1>. QED
  BY <1>1, <1>2, <1>3, <1>4, <1>5, <1>6, <1>7, <1>8, <1>9, <1>10, <1>11, <1>12, <1>13,
     <1>14 DEF Next, RunStep

\* Types, for every instance.
THEOREM TypeCorrect == Spec => []TypeOK
<1>1. Spec => []Typed
  BY TypedInit, TypedStep, PTL DEF Spec
<1>2. Typed => TypeOK
  BY DEF Typed
<1>. QED
  BY <1>1, <1>2, PTL


-----------------------------------------------------------------------------
(* Clearing                                                                *)

\* What is left of the list is as HH listed it, unless others changed it since.
Current ==
    task.op = "clear" =>
       \A entry \in todo :
          entry.n \in touched \/ hh[entry.n] = None \/ hh[entry.n] = entry.thread

LEMMA CurrentStep == ASSUME Typed, Current, [Next]_vars PROVE Current'
<1> SUFFICES ASSUME task'.op = "clear", NEW entry \in todo'
             PROVE  entry.n \in touched' \/ hh'[entry.n] = None \/ hh'[entry.n] = entry.thread
  BY DEF Current
<1>0. task' = task
  BY DEF Next, World, RunStep, vars, run, history, Change, EmployerWrites, OtherChange,
         EmployerViews, Renewal, Tick, RequestCancel, Start, Abort, Over, LastNotice, outside,
         ListNegotiations, ListResumes, ItemsDone, KeepNegotiation,
         DeleteNegotiation, DeleteRefused, DeleteAnswerLost, LeaveAlone, ReadMessages,
         PublishResume, PostReply, ReplyAnswerLost, PostRefused
<1>1. ASSUME NEW n \in Negotiations, NEW thread, Change(n, thread)
      PROVE  entry.n \in touched' \/ hh'[entry.n] = None \/ hh'[entry.n] = entry.thread
  <2>1. entry \in todo /\ entry.n \in Negotiations /\ pc \notin {"idle", "list"}
    BY <1>0, <1>1 DEF Change, run, Typed, RunInv, Listed
  <2>2. n \in touched' /\ touched \subseteq touched'
    BY <1>1, <2>1 DEF Change
  <2>3. n # entry.n => hh'[entry.n] = hh[entry.n]
    BY <1>1, <2>1 DEF Change, Typed, TypeOK
  <2>. QED
    BY <1>0, <2>1, <2>2, <2>3 DEF Current
<1>2. CASE \E n \in Alive : EmployerWrites(n) \/ OtherChange(n) \/ EmployerViews(n)
  BY <1>1, <1>2 DEF Alive, EmployerWrites, OtherChange, EmployerViews
<1>3. CASE (\E r \in Resumes : Renewal(r)) \/ Tick \/ RequestCancel \/ Start
           \/ ItemsDone
  BY <1>0, <1>3 DEF Renewal, Tick, RequestCancel, Start, ItemsDone,
                    run, history, Current
<1>4. CASE Over
  BY <1>4 DEF Over
<1>5. CASE ListNegotiations
  <2>1. entry.thread = hh[entry.n] /\ hh' = hh
    BY <1>5 DEF ListNegotiations
  <2>. QED
    BY <2>1
<1>6. ASSUME NEW e \in todo, KeepNegotiation(e) \/ DeleteRefused(e)
      PROVE  entry.n \in touched' \/ hh'[entry.n] = None \/ hh'[entry.n] = entry.thread
  BY <1>0, <1>6 DEF KeepNegotiation, DeleteRefused, Pass, history, Current
<1>7. ASSUME NEW e \in todo, DeleteNegotiation(e)
      PROVE  entry.n \in touched' \/ hh'[entry.n] = None \/ hh'[entry.n] = entry.thread
  <2>1. entry \in todo /\ entry.n \in Negotiations
    BY <1>0, <1>7 DEF DeleteNegotiation, Pass, Typed, RunInv, Listed
  <2>2. hh'[entry.n] = None \/ hh'[entry.n] = hh[entry.n]
    BY <1>7, <2>1 DEF DeleteNegotiation, Typed, TypeOK
  <2>. QED
    BY <1>0, <1>7, <2>1, <2>2 DEF DeleteNegotiation, history, Current
<1>8. CASE UNCHANGED vars
  BY <1>0, <1>8 DEF vars, run, history, Current
<1>. QED
  BY <1>0, <1>2, <1>3, <1>4, <1>5, <1>6, <1>7, <1>8 DEF Next, World, RunStep, Typed, RunInv, Abort,
     LastNotice, ListResumes, DeleteAnswerLost, LeaveAlone, ReadMessages, PublishResume, PostReply,
     ReplyAnswerLost, PostRefused

\* More whole days than k are more ticks than those of k days.
LEMMA WholeDays ==
  ASSUME NEW ticks \in Int, NEW k \in Int, ticks \div Day > k
  PROVE  ticks > k * Day
<1> DEFINE q == ticks \div Day
<1>1. Day \in Int /\ Day > 0 /\ q \in Int
  BY NegotiationAssumption
<1>2. ticks >= q * Day
  BY <1>1
<1>3. q * Day = k * Day + (q - k) * Day
  BY <1>1
<1>4. (q - k) * Day > 0
  BY <1>1
<1>. QED
  BY <1>1, <1>2, <1>3, <1>4

\* What the property says of a negotiation the bot deletes.
AskedFor(n) ==
    /\ task.older_than = None => hh[n].state = "discard"
    /\ task.older_than \notin {None, 0} => LongerThan(n, task.older_than)

\* An entry that is deleted is one the user asked to delete.
LEMMA ClearStep ==
  ASSUME Typed, Current, [Next]_vars, NEW n \in Negotiations, BotDeletes(n), n \notin touched
  PROVE  AskedFor(n)
<1> DEFINE Deletes(e) == DeleteNegotiation(e) \/ DeleteAnswerLost(e)
<1>1. PICK e \in todo : Deletes(e)
  <2>1. ~World
    BY DEF BotDeletes, World, Change, EmployerWrites, OtherChange, EmployerViews, Renewal, Tick,
           RequestCancel
  <2>2. hh' # hh
    BY DEF BotDeletes
  <2>3. ~PostReply /\ ~ReplyAnswerLost
    <3>1. SUFFICES ASSUME NEW m, Accepted(m) PROVE FALSE
      BY DEF PostReply, ReplyAnswerLost
    <3>2. PICK b \in BOOLEAN :
            hh' = [hh EXCEPT ![m].last = "applicant", ![m].viewed = b, ![m].updated = now]
      BY <3>1 DEF Accepted
    <3>3. hh'[n] # None
      <4>1. m = n => hh[n] \in Threads
        BY DEF BotDeletes, Typed, TypeOK
      <4>2. m = n => hh'[n] = [hh[n] EXCEPT !.last = "applicant", !.viewed = b, !.updated = now]
        BY <3>2 DEF Typed, TypeOK
      <4>3. m = n => hh'[n] \in Threads
        BY <4>1, <4>2 DEF Threads, Typed, TypeOK
      <4>4. m # n => hh'[n] = hh[n]
        BY <3>2 DEF Typed, TypeOK
      <4>. QED
        BY <4>3, <4>4, NegotiationAssumption DEF BotDeletes, Threads, Times
    <3>. QED
      BY <3>3 DEF BotDeletes
  <2>. QED
    BY <2>1, <2>2, <2>3 DEF Next, RunStep, vars, Start, Abort, LastNotice, ListNegotiations,
       ListResumes, ItemsDone, KeepNegotiation, DeleteRefused, LeaveAlone,
       ReadMessages, PublishResume, PostRefused
<1>2. e.n = n /\ task.op = "clear" /\ should_clear(e.thread)
  <2>1. e.n # n => hh'[n] = hh[n]
    BY <1>1 DEF DeleteNegotiation, DeleteAnswerLost, Typed, TypeOK
  <2>. QED
    BY <1>1, <2>1 DEF DeleteNegotiation, DeleteAnswerLost, BotDeletes
<1>3. e.thread = hh[n] /\ hh[n] \in Threads
  BY <1>2 DEF Current, BotDeletes, Typed, TypeOK
<1>4. now - hh[n].updated \in Int
  BY <1>3, NegotiationAssumption DEF Threads, Times, Typed, TypeOK
<1>5. task.older_than \in Int \cup {None}
  BY <1>2, NegotiationAssumption DEF Tasks, Typed, TypeOK
<1>6. ASSUME task.older_than \notin {None, 0} PROVE LongerThan(n, task.older_than)
  <2>1. (now - hh[n].updated) \div Day > task.older_than
    BY <1>2, <1>3, <1>6 DEF should_clear, Age
  <2>. QED
    BY <2>1, <1>4, <1>5, <1>6, WholeDays DEF LongerThan
<1>. QED
  BY <1>2, <1>3, <1>6 DEF should_clear, AskedFor

\* Nothing is deleted that was not asked for, unless others changed it since it was listed.
THEOREM ClearsAsked == Spec => ClearsWhatWasAsked
<1>1. Init => Current
  BY DEF Init, Current
<1>2. Typed /\ Current /\ [Next]_vars => Current'
  BY CurrentStep
<1>3. Typed /\ Current /\ [Next]_vars =>
        [\A n \in Negotiations : BotDeletes(n) /\ n \notin touched => AskedFor(n)]_vars
  BY ClearStep
<1>. QED
  BY TypedInit, TypedStep, <1>1, <1>2, <1>3, PTL DEF Spec, ClearsWhatWasAsked, AskedFor

-----------------------------------------------------------------------------
(* Replying                                                                *)

\* What the next message to n can be justified by: the employer wrote last, or had
\* when the messages were read; a listing that is still being worked through.
Wrote(n) ==
    \/ hh[n] # None /\ hh[n].last = "employer"
    \/ pc = "post" /\ current.n = n /\ current.thread.last = "employer"
Unread(n) ==
    /\ task.op = "reply"
    /\ \/ \E entry \in todo : entry.n = n /\ ~entry.thread.viewed
       \/ pc = "post" /\ current.n = n /\ ~current.thread.viewed

Owed(n) == (IF Wrote(n) THEN 1 ELSE 0) + (IF Unread(n) THEN 1 ELSE 0)

\* The list names a negotiation once, and not the one being answered.
Once ==
    task.op = "reply" =>
       /\ \A e, f \in todo : e.n = f.n => e = f
       /\ pc = "post" => \A e \in todo : e.n # current.n
       /\ pc = "post" => current.thread.last = "employer" \/ ~current.thread.viewed

OwedInv == Once /\ \A n \in Negotiations : due[n] >= Owed(n)

LEMMA OnceStep == ASSUME Typed, Once, [Next]_vars PROVE Once'
<1> SUFFICES ASSUME task.op = "reply" PROVE Once'
  BY DEF Once, Next, World, RunStep, vars, run, history, Change, EmployerWrites, OtherChange,
         EmployerViews, Renewal, Tick, RequestCancel, Start, Abort, Over, LastNotice, outside,
         ListNegotiations, ListResumes, ItemsDone, KeepNegotiation,
         DeleteNegotiation, DeleteRefused, DeleteAnswerLost, LeaveAlone, ReadMessages,
         PublishResume, PostReply, ReplyAnswerLost, PostRefused
<1>1. CASE World
  BY <1>1 DEF Once, World, Change, EmployerWrites, OtherChange, EmployerViews, Renewal,
              Tick, RequestCancel, run
<1>2. CASE Over
  BY <1>2 DEF Once, Over
<1>3. CASE Start \/ ListResumes \/ ItemsDone
           \/ PostRefused \/ PostReply \/ UNCHANGED vars
  BY <1>3 DEF Once, Start, ListResumes, ItemsDone, PostRefused, NextEntry,
              PostReply, vars, run
<1>4. CASE ListNegotiations
  <2>1. pc' # "post" /\ \A e, f \in todo' : e.n = f.n => e = f
    BY <1>4 DEF ListNegotiations
  <2>. QED
    BY <2>1 DEF Once
<1>5. ASSUME NEW e \in todo, LeaveAlone(e) PROVE Once'
  BY <1>5 DEF Once, LeaveAlone, Pass
<1>6. ASSUME NEW e \in todo, ReadMessages(e) PROVE Once'
  <2>1. e \in Listed
    BY DEF Typed, RunInv
  <2>2. current'.n = e.n /\ current'.thread.viewed = e.thread.viewed
        /\ current'.thread.last = hh[e.n].last
    BY <1>6, <2>1 DEF ReadMessages, Listed, Threads
  <2>. QED
    BY <1>6, <2>2 DEF Once, ReadMessages, Pass, AwaitsReply
<1>. QED
  BY <1>1, <1>2, <1>3, <1>4, <1>5, <1>6 DEF Next, RunStep, Abort, LastNotice, DeleteAnswerLost,
     ReplyAnswerLost, KeepNegotiation, DeleteRefused, DeleteNegotiation, PublishResume

\* Nothing new is owed when nothing new justifies a message.
LEMMA OwedLess ==
  ASSUME Typed, OwedInv, NEW n \in Negotiations, due'[n] = due[n],
         Wrote(n)' => Wrote(n), Unread(n)' => Unread(n)
  PROVE  due'[n] >= Owed(n)'
BY DEF OwedInv, Owed, Typed, TypeOK

LEMMA OwedStep == ASSUME Typed, OwedInv, [Next]_vars PROVE OwedInv'
<1> SUFFICES ASSUME NEW n \in Negotiations PROVE due'[n] >= Owed(n)'
  BY OnceStep DEF OwedInv
<1>0. due[n] \in Int /\ due[n] >= Owed(n) /\ Owed(n) \in 0..2
  BY DEF OwedInv, Owed, Typed, TypeOK
<1>1. ASSUME NEW m \in Alive, EmployerWrites(m) PROVE due'[n] >= Owed(n)'
  <2>1. Unread(n)' => Unread(n)
    BY <1>1 DEF EmployerWrites, Change, Unread, run
  <2>2. n = m => due'[n] = due[n] + 1
    BY <1>1 DEF EmployerWrites, Typed, TypeOK
  <2>3. n # m => due'[n] = due[n] /\ hh'[n] = hh[n]
    BY <1>1 DEF EmployerWrites, Change, Typed, TypeOK
  <2>4. n # m => (Wrote(n)' => Wrote(n))
    BY <1>1, <2>3 DEF EmployerWrites, Change, Wrote, run
  <2>5. CASE n = m
    BY <1>0, <2>1, <2>2, <2>5 DEF Owed
  <2>. QED
    BY <2>1, <2>3, <2>4, <2>5, OwedLess
<1>2. ASSUME NEW m \in Alive, OtherChange(m) \/ EmployerViews(m) PROVE due'[n] >= Owed(n)'
  <2>1. PICK thread : Change(m, thread) /\ (thread # None /\ thread.last = "employer"
                                            => hh[m].last = "employer")
    <3>1. hh[m] \in Threads
      BY <1>2 DEF Alive, Typed, TypeOK
    <3>2. CASE \E s \in {"open", "discard"} :
                  Change(m, [hh[m] EXCEPT !.state = s, !.updated = now])
      <4>1. PICK s \in {"open", "discard"} :
               Change(m, [hh[m] EXCEPT !.state = s, !.updated = now])
        BY <3>2
      <4>2. [hh[m] EXCEPT !.state = s, !.updated = now].last = hh[m].last
        BY <3>1 DEF Threads
      <4>. QED
        BY <4>1, <4>2
    <3>3. CASE \E b \in BOOLEAN :
                  Change(m, [hh[m] EXCEPT !.last = "applicant", !.viewed = b, !.updated = now])
      <4>1. PICK b \in BOOLEAN :
               Change(m, [hh[m] EXCEPT !.last = "applicant", !.viewed = b, !.updated = now])
        BY <3>3
      <4>2. [hh[m] EXCEPT !.last = "applicant", !.viewed = b, !.updated = now].last = "applicant"
        BY <3>1 DEF Threads
      <4>. QED
        BY <4>1, <4>2
    <3>4. CASE Change(m, None)
      BY <3>4
    <3>5. CASE EmployerViews(m)
      BY <3>1, <3>5 DEF EmployerViews, Threads
    <3>. QED
      BY <1>2, <3>2, <3>3, <3>4, <3>5 DEF OtherChange
  <2>2. Unread(n)' => Unread(n)
    BY <2>1 DEF Change, Unread, run
  <2>3. Wrote(n)' => Wrote(n)
    BY <2>1 DEF Change, Wrote, run, Alive, Typed, TypeOK
  <2>4. due' = due
    BY <1>2 DEF OtherChange, EmployerViews
  <2>. QED
    BY <2>2, <2>3, <2>4, OwedLess
<1>3. CASE (\E r \in Resumes : Renewal(r)) \/ Tick \/ RequestCancel \/ Start
           \/ ItemsDone \/ PostRefused \/ UNCHANGED vars
  <2>1. Wrote(n)' => Wrote(n)
    BY <1>3 DEF Renewal, Tick, RequestCancel, NextEntry, Start, ItemsDone,
                PostRefused, vars, run, history, Wrote
  <2>2. Unread(n)' => Unread(n)
    BY <1>3 DEF Renewal, Tick, RequestCancel, NextEntry, Start, ItemsDone,
                PostRefused, vars, run, history, outside, Unread
  <2>3. due' = due
    BY <1>3 DEF Renewal, Tick, RequestCancel, Start, ItemsDone,
                PostRefused, vars, history
  <2>. QED
    BY <2>1, <2>2, <2>3, OwedLess
<1>4. CASE Abort \/ LastNotice
  <2>1. due' = due /\ (Wrote(n)' => Wrote(n)) /\ ~Unread(n)'
    BY <1>4 DEF Abort, LastNotice, Over, Wrote, Unread
  <2>. QED
    BY <2>1, OwedLess
<1>5. CASE ListNegotiations
  <2>1. Wrote(n)' => Wrote(n)
    BY <1>5 DEF ListNegotiations, Wrote
  <2>2. Unread(n)' => task.op = "reply" /\ n \in Alive /\ ~hh[n].viewed
    BY <1>5 DEF ListNegotiations, Unread, outside
  <2>3. ~Unread(n)
    BY <1>5 DEF ListNegotiations, Unread, Typed, RunInv
  <2>4. due'[n] = IF task.op = "reply" /\ n \in Alive /\ ~hh[n].viewed
                  THEN due[n] + 1 ELSE due[n]
    BY <1>5 DEF ListNegotiations
  <2>. QED
    BY <1>0, <2>1, <2>2, <2>3, <2>4 DEF Owed
<1>6. ASSUME NEW e \in todo, KeepNegotiation(e) \/ DeleteRefused(e) \/ LeaveAlone(e)
                             \/ PublishResume(e)
      PROVE  due'[n] >= Owed(n)'
  <2>1. due' = due /\ (Wrote(n)' => Wrote(n)) /\ (Unread(n)' => Unread(n))
    BY <1>6 DEF KeepNegotiation, DeleteRefused, LeaveAlone, PublishResume, Pass, Wrote, Unread,
                outside, history
  <2>. QED
    BY <2>1, OwedLess
<1>7. CASE ListResumes
  <2>1. due' = due /\ (Wrote(n)' => Wrote(n)) /\ ~Unread(n)'
    BY <1>7 DEF ListResumes, Wrote, Unread, outside, history
  <2>. QED
    BY <2>1, OwedLess
<1>8. ASSUME NEW e \in todo, DeleteNegotiation(e) \/ DeleteAnswerLost(e)
      PROVE  due'[n] >= Owed(n)'
  <2>1. due' = due
    BY <1>8 DEF DeleteNegotiation, DeleteAnswerLost, history
  <2>2. hh'[n] = hh[n] \/ hh'[n] = None
    BY <1>8 DEF DeleteNegotiation, DeleteAnswerLost, Typed, TypeOK
  <2>3. (Wrote(n)' => Wrote(n)) /\ ~Unread(n)'
    BY <1>8, <2>2 DEF DeleteNegotiation, DeleteAnswerLost, Over, Wrote, Unread, outside
  <2>. QED
    BY <2>1, <2>3, OwedLess
<1>9. ASSUME NEW e \in todo, ReadMessages(e) PROVE due'[n] >= Owed(n)'
  <2>1. e \in Listed
    BY <1>9 DEF ReadMessages, Typed, RunInv
  <2>2. current'.n = e.n /\ current'.thread.viewed = e.thread.viewed
        /\ current'.thread.last = hh[e.n].last
    BY <1>9, <2>1 DEF ReadMessages, Listed, Threads
  <2>3. due' = due /\ (Wrote(n)' => Wrote(n)) /\ (Unread(n)' => Unread(n))
    BY <1>9, <2>2 DEF ReadMessages, Pass, Wrote, Unread, outside, history
  <2>. QED
    BY <2>3, OwedLess
<1>10. CASE PostReply \/ ReplyAnswerLost
  <2>1. pc = "post" /\ Accepted(current.n) /\ current \in Listed /\ task.op = "reply"
    BY <1>10 DEF PostReply, ReplyAnswerLost, Typed, TypeOK, RunInv
  <2>2. PICK b \in BOOLEAN : hh' = [hh EXCEPT ![current.n].last = "applicant",
                                ![current.n].viewed = b, ![current.n].updated = now]
    BY <2>1 DEF Accepted
  <2>3. CASE n = current.n
    <3>1. Owed(n) >= 1
      BY <2>1, <2>3 DEF Owed, Wrote, Unread, OwedInv, Once
    <3>2. due'[n] = due[n] - 1
      BY <2>1, <2>3 DEF Accepted, Typed, TypeOK
    <3>3. hh[n] \in Threads
      BY <2>1, <2>3 DEF Accepted, Typed, TypeOK
    <3>4. hh'[n] = [hh[n] EXCEPT !.last = "applicant", !.viewed = b, !.updated = now]
      BY <2>2, <2>3 DEF Typed, TypeOK
    <3>5. hh'[n].last = "applicant"
      BY <3>3, <3>4 DEF Threads
    <3>6. ~Wrote(n)'
      BY <1>10, <3>5 DEF PostReply, ReplyAnswerLost, NextEntry, Over, Wrote
    <3>7. ~Unread(n)'
      BY <1>10, <2>1, <2>3 DEF PostReply, ReplyAnswerLost, NextEntry, Over, Unread, OwedInv,
                                  Once, outside
    <3>. QED
      BY <1>0, <3>1, <3>2, <3>6, <3>7 DEF Owed
  <2>4. CASE n # current.n
    <3>1. due'[n] = due[n] /\ hh'[n] = hh[n]
      BY <2>1, <2>2, <2>4 DEF Accepted, Typed, TypeOK
    <3>2. (Wrote(n)' => Wrote(n)) /\ (Unread(n)' => Unread(n))
      BY <1>10, <3>1 DEF PostReply, ReplyAnswerLost, NextEntry, Over, Wrote, Unread, outside
    <3>. QED
      BY <3>1, <3>2, OwedLess
  <2>. QED
    BY <2>3, <2>4
<1>. QED
  BY <1>1, <1>2, <1>3, <1>4, <1>5, <1>6, <1>7, <1>8, <1>9, <1>10 DEF Next, World, RunStep

\* No negotiation gets more messages than its employer and the lists called for.
THEOREM RepliesBounded == Spec => []RepliesMatchMessages
<1>1. Init => OwedInv
  <2> SUFFICES ASSUME Init PROVE OwedInv
    OBVIOUS
  <2>1. Once
    BY DEF Init, Once
  <2>2. ASSUME NEW n \in Negotiations PROVE due[n] >= Owed(n)
    BY DEF Init, Owed, Wrote, Unread
  <2>. QED
    BY <2>1, <2>2 DEF OwedInv
<1>2. Typed /\ OwedInv => RepliesMatchMessages
  <2> SUFFICES ASSUME Typed, OwedInv, NEW n \in Negotiations PROVE due[n] >= 0
    BY DEF RepliesMatchMessages
  <2>. QED
    BY DEF OwedInv, Owed, Typed, TypeOK
<1>. QED
  BY TypedInit, TypedStep, OwedStep, <1>1, <1>2, PTL DEF Spec
=============================================================================
