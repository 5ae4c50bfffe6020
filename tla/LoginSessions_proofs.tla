------------------------ MODULE LoginSessions_proofs ------------------------
(***************************************************************************)
(* What TLAPS proves of LoginSessions, for any number of sessions and      *)
(* handlers.  Few of the actions touch the registry, the sessions or their *)
(* tasks, and they do it in seven ways (StepCases); the proofs are about   *)
(* these.  The invariant says how often a task has asked (Asked), that a   *)
(* waiting session holds nothing or an answer to its prompt (Fresh), that  *)
(* a registered session runs (NeverLockedOut) and, before the first        *)
(* cancellation, that a running session is registered (Registered).        *)
(***************************************************************************)
EXTENDS LoginSessions, TLAPS

Asked ==
    \A s \in Sessions :
       /\ run[s].pc \in {"unborn", "opening"} => run[s].asked = 0
       /\ run[s].pc \in {"captcha_sending", "captcha_wait", "captcha_done"}
          => run[s].asked <= 1
       /\ run[s].pc \in Sends => run[s].asked >= 1

Fresh ==
    \A s \in Sessions :
       run[s].pc \in Waits => session[s].value \in {None, run[s].asked}

Registered == Uncancelled => \A s \in Sessions : Alive(s) => registry = s

-----------------------------------------------------------------------------
(* The ways a step touches the registry, the sessions and their tasks      *)

Starts ==
    \E s \in Sessions, p \in BOOLEAN :
       /\ registry = None /\ run[s].pc = "unborn"
       /\ registry' = s
       /\ run' = [run EXCEPT ![s] = [@ EXCEPT !.pc = "opening", !.password = p]]
       /\ UNCHANGED session

Provides ==
    /\ registry # None
    /\ \E text \in {None} \cup Seen(registry) : ProvideInput(text)
    /\ UNCHANGED <<registry, run>>

Cancels == Cancel /\ UNCHANGED run

Asks ==
    \E s \in Sessions, pc \in Sends :
       /\ run[s].pc = IF pc = "captcha_sending" THEN "opening" ELSE "captcha_done"
       /\ Ask(s, pc)
       /\ UNCHANGED <<registry, session>>

Prompts ==
    \E s \in Sessions, pc \in Waits :
       /\ run[s].pc = IF pc = "captcha_wait" THEN "captcha_sending" ELSE "code_sending"
       /\ BeginWait(s, pc)
       /\ UNCHANGED registry

\* The states that a task is brought to neither by its start, a prompt nor its end.
Middle == RunStates \ (Waits \cup Sends \cup {"unborn", "opening", "done"})

Advances ==
    \E s \in Sessions, pc \in Middle :
       /\ Alive(s)
       /\ run[s].pc \in Waits => pc = "closing" \/ Answered(s)
       /\ pc = "captcha_done" => run[s].pc \in {"opening", "captcha_wait"}
       /\ Advance(s, pc)
       /\ UNCHANGED <<registry, session>>

Closes ==
    \E s \in Sessions :
       /\ run[s].pc = "closing"
       /\ Advance(s, "done")
       /\ registry' = None
       /\ UNCHANGED session

LEMMA StepCases ==
    ASSUME [Next]_vars
    PROVE  \/ Starts \/ Provides \/ Cancels \/ Asks \/ Prompts \/ Advances \/ Closes
           \/ UNCHANGED <<registry, session, run>>
<1>1. ASSUME NEW h \in Handlers, HandlerStep(h)
      PROVE  Starts \/ UNCHANGED <<registry, session, run>>
    <2>1. CASE OtpStarts(h)
        BY <2>1 DEF OtpStarts, StartLogin, Starts
    <2>2. CASE PasswordStarts(h)
        BY <2>2 DEF PasswordStarts, StartLogin, Starts
    <2> QED
        BY <1>1, <2>1, <2>2
        DEF HandlerStep, LoginCheck, LoginPrompt, PressButton, OtpProceeds, PasswordPrompt,
            PasswordReceived, HandlerFails, TokensReceived, TokensSaved, TokensChecked,
            TokensAnswered, TokensLogout, Logout, LogoutClears
<1>2. CASE ChatStep
    <2>1. CASE InputReceived
        BY <2>1 DEF InputReceived, Provides
    <2>2. CASE CancelWritten
        BY <2>2 DEF CancelWritten, Cancels
    <2> QED
        BY <1>2, <2>1, <2>2
        DEF ChatStep, UsernameReceived, LeaveDialogue, TokensPrompt
<1>3. ASSUME NEW s \in Sessions, RunStep(s)
      PROVE  Asks \/ Prompts \/ Advances \/ Closes
    <2>1. CASE AskCaptcha(s) \/ AskCode(s)
        BY <2>1 DEF AskCaptcha, AskCode, Asks, Sends
    <2>2. CASE PromptSent(s)
        BY <2>2 DEF PromptSent, Prompts, Waits, Sends
    <2>3. CASE Close(s)
        BY <2>3 DEF Close, Closes
    <2>4. CASE InputArrives(s)
        <3> DEFINE pc == IF ~Answered(s) THEN "closing"
                         ELSE IF run[s].pc = "captcha_wait" THEN "captcha_done" ELSE "confirming"
        <3>1. /\ pc \in Middle
              /\ pc = "closing" \/ Answered(s)
              /\ pc = "captcha_done" => run[s].pc = "captcha_wait"
            BY <2>4 DEF InputArrives, Middle, RunStates, Waits, Sends
        <3>2. Alive(s) /\ Advance(s, pc) /\ UNCHANGED <<registry, session>>
            BY <2>4 DEF InputArrives, Alive, Waits
        <3> QED
            BY <3>1, <3>2 DEF Advances
    <2>5. CASE NoCaptcha(s) \/ EnterPassword(s) \/ InputTimesOut(s) \/ Confirmed(s)
               \/ Authenticated(s) \/ SaveTokens(s) \/ OnSuccess(s) \/ RunFails(s)
        BY <2>5
        DEF NoCaptcha, EnterPassword, InputTimesOut, Confirmed, Authenticated, SaveTokens,
            OnSuccess, RunFails, Fallible, Advances, Alive, Middle, RunStates, Waits, Sends
    <2> QED
        BY <1>3, <2>1, <2>2, <2>3, <2>4, <2>5 DEF RunStep
<1>4. CASE UNCHANGED vars
    BY <1>4 DEF vars
<1> QED
    BY <1>1, <1>2, <1>3, <1>4 DEF Next

-----------------------------------------------------------------------------
(* Types                                                                   *)

LEMMA RunUpdates ==
    ASSUME NEW r \in Runs, NEW pc \in RunStates, NEW p \in BOOLEAN
    PROVE  /\ [r EXCEPT !.pc = pc] \in Runs
           /\ [r EXCEPT !.pc = pc, !.password = p] \in Runs
           /\ r.asked <= 1 => [r EXCEPT !.pc = pc, !.asked = r.asked + 1] \in Runs
<1>1. [r EXCEPT !.pc = pc] \in Runs
    BY DEF Runs
<1>2. [r EXCEPT !.pc = pc, !.password = p] \in Runs
    BY DEF Runs
<1>3. ASSUME r.asked <= 1
      PROVE  [r EXCEPT !.pc = pc, !.asked = r.asked + 1] \in Runs
    <2>1. r.asked + 1 \in 0..2
        BY <1>3 DEF Runs
    <2> QED
        BY <2>1 DEF Runs
<1> QED
    BY <1>1, <1>2, <1>3

LEMMA SessionUpdates ==
    ASSUME NEW a \in AuthSessions, NEW v \in {None} \cup (0..2)
    PROVE  /\ [a EXCEPT !.event = TRUE, !.value = v] \in AuthSessions
           /\ [a EXCEPT !.event = FALSE, !.value = None] \in AuthSessions
           /\ [a EXCEPT !.cancelled = TRUE, !.event = TRUE] \in AuthSessions
BY DEF AuthSessions

\* The part of the types that the six kinds of step can disturb.
Typed ==
    /\ registry \in Sessions \cup {None}
    /\ session \in [Sessions -> AuthSessions]
    /\ run \in [Sessions -> Runs]

LEMMA AdvanceTyped ==
    ASSUME Typed, NEW s \in Sessions, NEW pc \in RunStates, Advance(s, pc)
    PROVE  run' \in [Sessions -> Runs]
<1>1. [run[s] EXCEPT !.pc = pc] \in Runs
    BY RunUpdates DEF Typed
<1>2. run' = [run EXCEPT ![s] = [run[s] EXCEPT !.pc = pc]]
    BY DEF Advance
<1> QED
    BY <1>1, <1>2 DEF Typed

LEMMA TypedStep == Typed /\ Asked /\ [Next]_vars => Typed'
<1> SUFFICES ASSUME Typed, Asked, [Next]_vars PROVE Typed'
    OBVIOUS
<1>1. CASE Starts
    <2> PICK s \in Sessions, p \in BOOLEAN :
           /\ registry' = s
           /\ run' = [run EXCEPT ![s] = [@ EXCEPT !.pc = "opening", !.password = p]]
           /\ UNCHANGED session
        BY <1>1 DEF Starts
    <2> QED
        BY RunUpdates DEF Typed, RunStates
<1>2. CASE Provides
    <2>1. PICK text \in {None} \cup Seen(registry) : ProvideInput(text)
        BY <1>2 DEF Provides
    <2>2. registry \in Sessions
        BY <1>2 DEF Provides, Typed
    <2>3. run[registry].asked \in 0..2 /\ (run[registry].pc \in Sends => run[registry].asked >= 1)
        BY <2>2 DEF Typed, Runs, Asked
    <2>4. text \in {None} \cup (0..2)
        BY <2>1, <2>3 DEF Seen
    <2> QED
        BY <1>2, <2>1, <2>2, <2>4, SessionUpdates DEF Provides, ProvideInput, Typed
<1>3. CASE Cancels
    BY <1>3, SessionUpdates DEF Cancels, Cancel, Typed
<1>4. CASE Prompts
    <2>1. PICK s \in Sessions, pc \in Waits : BeginWait(s, pc) /\ UNCHANGED registry
        BY <1>4 DEF Prompts
    <2>2. [session[s] EXCEPT !.event = FALSE, !.value = None] \in AuthSessions
        BY SessionUpdates DEF Typed
    <2>3. run' \in [Sessions -> Runs]
        BY <2>1, AdvanceTyped DEF BeginWait, RunStates
    <2>4. session' \in [Sessions -> AuthSessions]
        BY <2>1, <2>2 DEF BeginWait, Typed
    <2> QED
        BY <2>1, <2>3, <2>4 DEF Typed
<1>8. CASE Asks
    <2>1. PICK s \in Sessions, pc \in Sends :
             /\ run[s].pc = IF pc = "captcha_sending" THEN "opening" ELSE "captcha_done"
             /\ Ask(s, pc)
             /\ UNCHANGED <<registry, session>>
        BY <1>8 DEF Asks
    <2>2. run[s].asked <= 1 /\ pc \in RunStates /\ run[s].asked \in 0..2
        BY <2>1 DEF Asked, RunStates, Typed, Runs
    <2>3. [run[s] EXCEPT !.pc = pc, !.asked = run[s].asked + 1] \in Runs
        BY <2>2, RunUpdates DEF Typed
    <2> QED
        BY <2>1, <2>3 DEF Ask, Typed
<1>5. CASE Advances
    BY <1>5, AdvanceTyped DEF Advances, Middle, Typed
<1>6. CASE Closes
    BY <1>6, AdvanceTyped DEF Closes, Typed, RunStates
<1>7. CASE UNCHANGED <<registry, session, run>>
    BY <1>7 DEF Typed
<1> QED
    BY <1>1, <1>2, <1>3, <1>4, <1>5, <1>6, <1>7, <1>8, StepCases

\* The rest of the types: the chat's state, the handlers and the token.
ChatTyped ==
    /\ fsm \in FsmStates
    /\ handler \in [Handlers -> HandlerStates]
    /\ token \in BOOLEAN

LEMMA ChatTypedStep == ChatTyped /\ [Next]_vars => ChatTyped'
<1> SUFFICES ASSUME ChatTyped, [Next]_vars PROVE ChatTyped'
    OBVIOUS
<1>1. ASSUME NEW h \in Handlers, HandlerStep(h)
      PROVE  ChatTyped'
    <2>1. handler' \in [Handlers -> HandlerStates]
        BY <1>1
        DEF ChatTyped, HandlerStates, HandlerStep, LoginCheck, LoginPrompt, PressButton,
            OtpProceeds, OtpStarts, PasswordPrompt, PasswordReceived, PasswordStarts,
            HandlerFails, TokensReceived, TokensSaved, TokensChecked,
            TokensAnswered, TokensLogout, Logout, LogoutClears
    <2>2. fsm' \in FsmStates
        BY <1>1
        DEF ChatTyped, FsmStates, HandlerStep, LoginCheck, LoginPrompt, PressButton,
            OtpProceeds, OtpStarts, PasswordPrompt, PasswordReceived, PasswordStarts,
            HandlerFails, TokensReceived, TokensSaved, TokensChecked,
            TokensAnswered, TokensLogout, Logout, LogoutClears
    <2>3. token' \in BOOLEAN
        BY <1>1
        DEF ChatTyped, HandlerStep, LoginCheck, LoginPrompt, PressButton,
            OtpProceeds, OtpStarts, PasswordPrompt, PasswordReceived, PasswordStarts,
            HandlerFails, TokensReceived, TokensSaved, TokensChecked,
            TokensAnswered, TokensLogout, Logout, LogoutClears
    <2> QED
        BY <2>1, <2>2, <2>3 DEF ChatTyped
<1>2. CASE ChatStep
    BY <1>2
    DEF ChatTyped, FsmStates, ChatStep, UsernameReceived, InputReceived, CancelWritten,
        LeaveDialogue, TokensPrompt
<1>3. ASSUME NEW s \in Sessions, RunStep(s)
      PROVE  ChatTyped'
    BY <1>3
    DEF ChatTyped, FsmStates, RunStep, AskCaptcha, NoCaptcha, AskCode, PromptSent, EnterPassword,
        InputArrives, InputTimesOut, Confirmed, Authenticated, SaveTokens, OnSuccess, RunFails, Close
<1>4. CASE UNCHANGED vars
    BY <1>4 DEF vars, ChatTyped
<1> QED
    BY <1>1, <1>2, <1>3, <1>4 DEF Next

LEMMA AskedStep == Typed /\ Asked /\ [Next]_vars => Asked'
<1> SUFFICES ASSUME Typed, Asked, [Next]_vars PROVE Asked'
    OBVIOUS
<1>1. CASE Starts
    BY <1>1 DEF Starts, Asked, Typed, Runs, Sends
<1>2. CASE Provides \/ Cancels \/ UNCHANGED <<registry, session, run>>
    BY <1>2 DEF Provides, Cancels, Asked
<1>3. CASE Asks
    <2>1. PICK s \in Sessions, pc \in Sends :
             /\ run[s].pc = IF pc = "captcha_sending" THEN "opening" ELSE "captcha_done"
             /\ run' = [run EXCEPT ![s] = [@ EXCEPT !.pc = pc, !.asked = run[s].asked + 1]]
        BY <1>3 DEF Asks, Ask
    <2>2. run'[s].pc = pc /\ run'[s].asked = run[s].asked + 1
        <3>1. run'[s] = [run[s] EXCEPT !.pc = pc, !.asked = run[s].asked + 1]
            BY <2>1 DEF Typed
        <3> QED
            BY <3>1 DEF Typed, Runs
    <2>3. \A t \in Sessions \ {s} : run'[t] = run[t]
        BY <2>1 DEF Typed
    <2>4. run[s].asked \in Nat /\ (pc = "captcha_sending" => run[s].asked = 0)
        BY <2>1 DEF Asked, Typed, Runs
    <2> QED
        BY <2>2, <2>3, <2>4 DEF Asked, Sends
<1>6. CASE Prompts
    <2>1. PICK s \in Sessions, pc \in Waits :
             /\ run[s].pc = IF pc = "captcha_wait" THEN "captcha_sending" ELSE "code_sending"
             /\ Advance(s, pc)
        BY <1>6 DEF Prompts, BeginWait
    <2>2. /\ run'[s].pc = pc /\ run'[s].asked = run[s].asked
          /\ \A t \in Sessions \ {s} : run'[t] = run[t]
        BY <2>1 DEF Advance, Typed, Runs
    <2>3. pc = "captcha_wait" => run[s].asked <= 1
        BY <2>1 DEF Asked
    <2> QED
        BY <2>2, <2>3 DEF Asked, Waits, Sends
<1>4. CASE Advances
    <2>1. PICK s \in Sessions, pc \in Middle :
             /\ pc = "captcha_done" => run[s].pc \in {"opening", "captcha_wait"}
             /\ Advance(s, pc)
        BY <1>4 DEF Advances
    <2>2. /\ run'[s].pc = pc /\ run'[s].asked = run[s].asked
          /\ \A t \in Sessions \ {s} : run'[t] = run[t]
        BY <2>1 DEF Advance, Typed, Runs
    <2>3. run[s].asked \in 0..2
        BY DEF Typed, Runs
    <2> QED
        BY <2>1, <2>2, <2>3 DEF Asked, Waits, Sends, Middle, RunStates
<1>5. CASE Closes
    BY <1>5 DEF Closes, Advance, Asked, Typed, Runs, Sends
<1> QED
    BY <1>1, <1>2, <1>3, <1>4, <1>5, <1>6, StepCases

LEMMA FreshStep == Typed /\ Fresh /\ [Next]_vars => Fresh'
<1> SUFFICES ASSUME Typed, Fresh, [Next]_vars PROVE Fresh'
    OBVIOUS
<1>1. CASE Starts
    BY <1>1 DEF Starts, Fresh, Typed, Runs, Waits
<1>2. CASE Provides
    <2>1. PICK text \in {None} \cup Seen(registry) : ProvideInput(text)
        BY <1>2 DEF Provides
    <2>2. registry \in Sessions
        BY <1>2 DEF Provides, Typed
    <2>3. /\ session'[registry].value = text
          /\ \A t \in Sessions \ {registry} : session'[t] = session[t]
        BY <2>1, <2>2 DEF ProvideInput, Typed, AuthSessions
    <2>4. run[registry].pc \in Waits => text \in {None, run[registry].asked}
        BY <2>1 DEF Seen, Waits, Sends
    <2> QED
        BY <1>2, <2>3, <2>4 DEF Provides, Fresh
<1>3. CASE Cancels
    <2>1. \A t \in Sessions : session'[t].value = session[t].value
        BY <1>3 DEF Cancels, Cancel, Typed, AuthSessions
    <2> QED
        BY <1>3, <2>1 DEF Cancels, Fresh
<1>4. CASE Prompts
    <2>1. PICK s \in Sessions, pc \in Waits : BeginWait(s, pc)
        BY <1>4 DEF Prompts
    <2>2. /\ session'[s].value = None
          /\ \A t \in Sessions \ {s} : session'[t] = session[t] /\ run'[t] = run[t]
        BY <2>1 DEF BeginWait, Advance, Typed, AuthSessions
    <2> QED
        BY <2>2 DEF Fresh
<1>5. CASE Advances
    BY <1>5 DEF Advances, Advance, Fresh, Typed, Runs, Middle
<1>8. CASE Asks
    BY <1>8 DEF Asks, Ask, Fresh, Typed, Runs, Waits, Sends
<1>6. CASE Closes
    BY <1>6 DEF Closes, Advance, Fresh, Typed, Runs, Waits
<1>7. CASE UNCHANGED <<registry, session, run>>
    BY <1>7 DEF Fresh
<1> QED
    BY <1>1, <1>2, <1>3, <1>4, <1>5, <1>6, <1>7, <1>8, StepCases

-----------------------------------------------------------------------------
(* Which sessions are registered                                           *)

LEMMA NeverLockedOutStep == Typed /\ NeverLockedOut /\ [Next]_vars => NeverLockedOut'
<1> SUFFICES ASSUME Typed, NeverLockedOut, [Next]_vars PROVE NeverLockedOut'
    OBVIOUS
<1>1. CASE Starts
    BY <1>1 DEF Starts, NeverLockedOut, Alive, Typed, Runs
<1>2. CASE Provides \/ Cancels \/ UNCHANGED <<registry, session, run>>
    BY <1>2 DEF Provides, Cancels, Cancel, NeverLockedOut, Alive
<1>3. CASE Asks \/ Prompts
    <2>1. PICK s \in Sessions, pc \in Waits \cup Sends :
             (Ask(s, pc) \/ Advance(s, pc)) /\ UNCHANGED registry
        BY <1>3 DEF Asks, Prompts, BeginWait
    <2>2. /\ run'[s].pc = pc
          /\ \A t \in Sessions \ {s} : run'[t] = run[t]
        BY <2>1 DEF Ask, Advance, Typed, Runs
    <2> QED
        BY <2>1, <2>2 DEF NeverLockedOut, Alive, Waits, Sends, Typed
<1>4. CASE Advances
    <2>1. PICK s \in Sessions, pc \in Middle :
             Advance(s, pc) /\ UNCHANGED registry
        BY <1>4 DEF Advances
    <2>2. /\ run'[s].pc = pc
          /\ \A t \in Sessions \ {s} : run'[t] = run[t]
        BY <2>1 DEF Advance, Typed, Runs
    <2> QED
        BY <2>1, <2>2 DEF NeverLockedOut, Alive, Middle, Typed
<1>5. CASE Closes
    BY <1>5 DEF Closes, NeverLockedOut
<1> QED
    BY <1>1, <1>2, <1>3, <1>4, <1>5, StepCases

\* Nothing takes a cancellation back.
LEMMA CancelledStays == ASSUME Typed, [Next]_vars, Uncancelled' PROVE Uncancelled
<1> SUFFICES ASSUME NEW t \in Sessions PROVE session[t].cancelled => session'[t].cancelled
    BY DEF Uncancelled
<1>1. CASE Starts
    BY <1>1 DEF Starts
<1>2. CASE Provides
    BY <1>2 DEF Provides, ProvideInput, Typed, AuthSessions
<1>3. CASE Cancels
    BY <1>3 DEF Cancels, Cancel, Typed, AuthSessions
<1>4. CASE Prompts
    BY <1>4 DEF Prompts, BeginWait, Typed, AuthSessions
<1>5. CASE Asks \/ Advances \/ Closes \/ UNCHANGED <<registry, session, run>>
    BY <1>5 DEF Asks, Advances, Closes
<1> QED
    BY <1>1, <1>2, <1>3, <1>4, <1>5, StepCases

LEMMA RegisteredStep == Typed /\ Registered /\ [Next]_vars => Registered'
<1> SUFFICES ASSUME Typed, Registered, [Next]_vars, Uncancelled'
             PROVE  \A s \in Sessions : Alive(s)' => registry' = s
    BY DEF Registered
<1> USE LoginAssumption
<1>0. \A s \in Sessions : Alive(s) => registry = s
    BY CancelledStays DEF Registered
<1>1. CASE Starts
    <2>1. PICK s \in Sessions, p \in BOOLEAN :
             /\ registry = None /\ registry' = s
             /\ run' = [run EXCEPT ![s] = [@ EXCEPT !.pc = "opening", !.password = p]]
             /\ UNCHANGED session
        BY <1>1 DEF Starts
    <2>2. \A t \in Sessions : ~Alive(t)
        BY <1>0, <2>1
    <2>3. \A t \in Sessions \ {s} : ~Alive(t)'
        BY <2>1, <2>2 DEF Alive, Typed
    <2> QED
        BY <1>0, <2>1, <2>3
<1>2. CASE Provides
    BY <1>0, <1>2 DEF Provides, Alive
<1>3. CASE Cancels
    <2>1. registry = None
        BY <1>3 DEF Cancels, Cancel, Typed, AuthSessions, Uncancelled
    <2>2. UNCHANGED <<registry, run>>
        BY <1>3, <2>1 DEF Cancels, Cancel
    <2> QED
        BY <1>0, <2>2 DEF Alive
<1>4. CASE Asks \/ Prompts
    <2>1. PICK s \in Sessions, pc \in Waits \cup Sends :
             Alive(s) /\ (Ask(s, pc) \/ Advance(s, pc)) /\ UNCHANGED registry
        BY <1>4 DEF Asks, Prompts, BeginWait, Alive
    <2>2. \A t \in Sessions \ {s} : run'[t] = run[t]
        BY <2>1 DEF Ask, Advance, Typed
    <2> QED
        BY <1>0, <2>1, <2>2 DEF Alive
<1>5. CASE Advances
    <2>1. PICK s \in Sessions, pc \in RunStates :
             Alive(s) /\ Advance(s, pc) /\ UNCHANGED <<registry, session>>
        BY <1>5 DEF Advances, Middle
    <2>2. \A t \in Sessions \ {s} : run'[t] = run[t]
        BY <2>1 DEF Advance, Typed
    <2> QED
        BY <1>0, <2>1, <2>2 DEF Alive
<1>6. CASE Closes
    <2>1. PICK s \in Sessions :
             run[s].pc = "closing" /\ Advance(s, "done") /\ UNCHANGED session
        BY <1>6 DEF Closes
    <2>2. run'[s].pc = "done" /\ \A t \in Sessions \ {s} : run'[t] = run[t]
        BY <2>1 DEF Advance, Typed, Runs
    <2>3. \A t \in Sessions \ {s} : ~Alive(t)
        BY <1>0, <2>1 DEF Alive
    <2>4. \A t \in Sessions : ~Alive(t)'
        BY <2>2, <2>3 DEF Alive
    <2> QED
        BY <1>0, <2>1, <2>4
<1>7. CASE UNCHANGED <<registry, session, run>>
    BY <1>0, <1>7 DEF Alive
<1> QED
    BY <1>1, <1>2, <1>3, <1>4, <1>5, <1>6, <1>7, StepCases

-----------------------------------------------------------------------------
(* Theorems                                                                *)

Inv == Typed /\ Asked /\ Fresh /\ NeverLockedOut /\ Registered

LEMMA InvInit == Init => Inv
BY LoginAssumption
DEF Init, Inv, Typed, Asked, Fresh, NeverLockedOut, Registered, Uncancelled, Alive, Runs, RunStates,
    AuthSessions, Waits, Sends

LEMMA InvStep == Inv /\ [Next]_vars => Inv'
BY TypedStep, AskedStep, FreshStep, NeverLockedOutStep, RegisteredStep DEF Inv

\* Every reachable state is well typed; no session asks its user more than twice.
THEOREM TypeCorrect == Spec => []TypeOK
<1>1. Init => ChatTyped
    BY DEF Init, ChatTyped, FsmStates, HandlerStates
<1>2. Inv /\ ChatTyped => TypeOK
    BY DEF Inv, Typed, ChatTyped, TypeOK
<1> QED
    BY InvInit, InvStep, ChatTypedStep, <1>1, <1>2, PTL DEF Spec

\* A user is never locked out of logging in by a session that has ended.
THEOREM NobodyLockedOut == Spec => []NeverLockedOut
<1>1. Inv => NeverLockedOut
    BY DEF Inv
<1> QED
    BY InvInit, InvStep, <1>1, PTL DEF Spec

\* Before the first cancellation no two logins run at a time, however often and
\* concurrently the user presses the buttons.
THEOREM OneLogin == Spec => []OneLoginUntilCancelled
<1>1. Inv => OneLoginUntilCancelled
    BY DEF Inv, Registered, OneLoginUntilCancelled
<1> QED
    BY InvInit, InvStep, <1>1, PTL DEF Spec

\* No input is ever typed at a prompt other than the one it was sent for.
THEOREM AnswersMatch == Spec => InputAnswersItsPrompt
<1> DEFINE Match == \A s \in Sessions :
          run[s].pc \in Waits /\ run'[s].pc \notin Waits \cup {"closing"}
          => session[s].value = run[s].asked
<1>1. Inv /\ [Next]_vars => [Match]_vars
    <2> SUFFICES ASSUME Inv, [Next]_vars, NEW s \in Sessions,
                        run[s].pc \in Waits, run'[s].pc \notin Waits \cup {"closing"}
                 PROVE  session[s].value = run[s].asked
        OBVIOUS
    <2>1. Answered(s)
        <3>1. CASE Starts \/ Provides \/ Cancels \/ UNCHANGED <<registry, session, run>>
            BY <3>1 DEF Starts, Provides, Cancels, Inv, Typed, Waits
        <3>2. CASE Asks \/ Prompts
            BY <3>2 DEF Asks, Ask, Prompts, BeginWait, Advance, Inv, Typed, Runs, Waits
        <3>3. CASE Advances
            BY <3>3 DEF Advances, Advance, Inv, Typed, Runs, Waits
        <3>4. CASE Closes
            BY <3>4 DEF Closes, Advance, Inv, Typed, Runs, Waits
        <3> QED
            BY <3>1, <3>2, <3>3, <3>4, StepCases
    <2> QED
        BY <2>1 DEF Inv, Fresh, Answered
<1> QED
    BY InvInit, InvStep, <1>1, PTL DEF Spec, InputAnswersItsPrompt

\* A login cancelled while it waits for the user goes no further.
THEOREM CancelStops == Spec => CancelStopsWaiting
<1> DEFINE Stops == \A s \in Sessions :
          run[s].pc \in Waits /\ session[s].cancelled
          => run'[s].pc \in {run[s].pc, "closing"}
<1>1. Inv /\ [Next]_vars => [Stops]_vars
    <2> SUFFICES ASSUME Inv, [Next]_vars, NEW s \in Sessions,
                        run[s].pc \in Waits, session[s].cancelled
                 PROVE  run'[s].pc \in {run[s].pc, "closing"}
        OBVIOUS
    <2>1. CASE Starts \/ Provides \/ Cancels \/ UNCHANGED <<registry, session, run>>
        BY <2>1 DEF Starts, Provides, Cancels, Inv, Typed, Waits
    <2>2. CASE Asks \/ Prompts
        BY <2>2 DEF Asks, Ask, Prompts, BeginWait, Advance, Inv, Typed, Runs, Waits
    <2>3. CASE Advances
        BY <2>3 DEF Advances, Advance, Answered, Inv, Typed, Runs, Waits
    <2>4. CASE Closes
        BY <2>4 DEF Closes, Advance, Inv, Typed, Runs, Waits
    <2> QED
        BY <2>1, <2>2, <2>3, <2>4, StepCases
<1> QED
    BY InvInit, InvStep, <1>1, PTL DEF Spec, CancelStopsWaiting

=============================================================================
