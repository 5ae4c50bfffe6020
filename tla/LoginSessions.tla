--------------------------- MODULE LoginSessions ---------------------------
(***************************************************************************)
(* Logging in to HH: AuthManager (auth_manager.py) and the handlers that   *)
(* drive it (handlers/auth.py, cancel_callback of handlers/start.py).      *)
(*                                                                         *)
(* Everything is keyed by the Telegram user, so the module is about one    *)
(* user: the FSM state of the chat, the handler coroutines of the user's   *)
(* updates (aiogram runs them concurrently), the _sessions entry and the   *)
(* _run_auth task of every session ever started.  One step runs from one   *)
(* suspension to the next; MemoryStorage never suspends.  A session waits  *)
(* at most twice, for a captcha and for a code, and its waits are counted  *)
(* so that an input can be told from one meant for an earlier prompt.      *)
(***************************************************************************)
EXTENDS Naturals, FiniteSets

CONSTANTS
    Sessions,       \* the _AuthSession objects, a bound on the logins
    Handlers,       \* concurrent update handlers of this user
    None

ASSUME LoginAssumption == None \notin Sessions \cup Nat

VARIABLES
    fsm,        \* the chat's FSM state
    handler,    \* what each handler coroutine does
    registry,   \* _sessions.get(user_id)
    session,    \* the _AuthSession objects
    run,        \* the _run_auth tasks
    token       \* is a token stored?

vars == <<fsm, handler, registry, session, run, token>>

FsmStates == {"none", "username", "password_choice", "password", "auth_in_progress",
              "tokens", "other_flow"}
HandlerStates == {"idle", "login_allowed", "otp_answering", "otp_editing",
                  "password_answering", "password_deleting", "tokens_saving",
                  "tokens_checking", "tokens_answering", "tokens_logout", "logout_clearing"}
Waits == {"captcha_wait", "code_wait"}
Sends == {"captcha_sending", "code_sending"}
RunStates == Waits \cup Sends
             \cup {"unborn", "opening", "captcha_done", "confirming", "authenticating",
                   "saving", "finishing", "closing", "done"}

AuthSessions == [event : BOOLEAN, value : {None} \cup (0..2), cancelled : BOOLEAN]
Runs == [pc : RunStates, password : BOOLEAN, asked : 0..2]

Alive(s) == run[s].pc \notin {"unborn", "done"}

Init ==
    /\ fsm = "none"
    /\ handler = [h \in Handlers |-> "idle"]
    /\ registry = None
    /\ session = [s \in Sessions |-> [event |-> FALSE, value |-> None, cancelled |-> FALSE]]
    /\ run = [s \in Sessions |-> [pc |-> "unborn", password |-> FALSE, asked |-> 0]]
    /\ token = FALSE

-----------------------------------------------------------------------------
(* AuthManager, as the handlers call it                                    *)

\* Plausible bug: a second session may be started beside the first.
StartLoginUnchecked(password) ==
    \E s \in Sessions :
       /\ run[s].pc = "unborn"
       /\ registry' = s
       /\ run' = [run EXCEPT ![s] = [@ EXCEPT !.pc = "opening", !.password = password]]

\* start_login; while a session is registered it only says so.
StartLogin(password) ==
    \/ registry # None /\ UNCHANGED <<registry, run>>
    \/ /\ registry = None
       /\ \E s \in Sessions :
             /\ run[s].pc = "unborn"
             /\ registry' = s
             /\ run' = [run EXCEPT ![s] = [@ EXCEPT !.pc = "opening", !.password = password]]

\* cancel: forget the session and wake it.
Cancel ==
    /\ registry' = None
    /\ session' = IF registry = None THEN session
                  ELSE [session EXCEPT ![registry] =
                          [@ EXCEPT !.cancelled = TRUE, !.event = TRUE]]

\* provide_input; the value is the prompt the message was written for, None a message
\* without text.
ProvideInput(text) ==
    session' = [session EXCEPT ![registry] = [@ EXCEPT !.event = TRUE, !.value = text]]

-----------------------------------------------------------------------------
(* Handlers: commands, messages and buttons                                *)

\* /login looks for a heavy task first; the refusal changes nothing.
LoginCheck(h) ==
    /\ handler[h] = "idle"
    /\ handler' = [handler EXCEPT ![h] = "login_allowed"]
    /\ UNCHANGED <<fsm, registry, session, run, token>>

LoginPrompt(h) ==
    /\ handler[h] = "login_allowed"
    /\ fsm' = "username"
    /\ handler' = [handler EXCEPT ![h] = "idle"]
    /\ UNCHANGED <<registry, session, run, token>>

UsernameReceived ==
    /\ fsm = "username"
    /\ fsm' = "password_choice"
    /\ UNCHANGED <<handler, registry, session, run, token>>

\* A button stays in the chat, over restarts of the bot too: it may be pressed in
\* any FSM state, and twice.
PressButton(h, pc) ==
    /\ handler[h] = "idle"
    /\ handler' = [handler EXCEPT ![h] = pc]
    /\ UNCHANGED <<fsm, registry, session, run, token>>

OtpProceeds(h) ==
    /\ handler[h] = "otp_answering"
    /\ fsm' = "auth_in_progress"
    /\ handler' = [handler EXCEPT ![h] = "otp_editing"]
    /\ UNCHANGED <<registry, session, run, token>>

OtpStarts(h) ==
    /\ handler[h] = "otp_editing"
    /\ StartLogin(FALSE)
    /\ handler' = [handler EXCEPT ![h] = "idle"]
    /\ UNCHANGED <<fsm, session, token>>

PasswordPrompt(h) ==
    /\ handler[h] = "password_answering"
    /\ fsm' = "password"
    /\ handler' = [handler EXCEPT ![h] = "idle"]
    /\ UNCHANGED <<registry, session, run, token>>

PasswordReceived(h) ==
    /\ handler[h] = "idle" /\ fsm = "password"
    /\ handler' = [handler EXCEPT ![h] = "password_deleting"]
    /\ UNCHANGED <<fsm, registry, session, run, token>>

\* An empty password is refused once the message is deleted.
PasswordStarts(h) ==
    /\ handler[h] = "password_deleting"
    /\ \/ fsm' = "auth_in_progress" /\ StartLogin(TRUE)
       \/ UNCHANGED <<fsm, registry, run>>
    /\ handler' = [handler EXCEPT ![h] = "idle"]
    /\ UNCHANGED <<session, token>>

\* Telegram refuses a call that the handler does not guard.
HandlerFails(h) ==
    /\ handler[h] \in {"otp_answering", "otp_editing", "password_answering"}
    /\ handler' = [handler EXCEPT ![h] = "idle"]
    /\ UNCHANGED <<fsm, registry, session, run, token>>

\* The prompts the user may have seen last: the one being sent may not be there yet.
Seen(s) ==
    {run[s].asked} \cup (IF run[s].pc \in Sends THEN {run[s].asked - 1} ELSE {})

\* Any other message during a login goes to the session; without one the chat
\* leaves the login.
InputReceived ==
    /\ fsm = "auth_in_progress"
    /\ IF registry # None
       THEN (\E text \in {None} \cup Seen(registry) : ProvideInput(text)) /\ UNCHANGED fsm
       ELSE fsm' = "none" /\ UNCHANGED session
    /\ UNCHANGED <<handler, registry, run, token>>

CancelWritten ==
    /\ fsm = "auth_in_progress"
    /\ Cancel
    /\ fsm' = "none"
    /\ UNCHANGED <<handler, run, token>>

\* The cancel button of every dialogue, /start and /apply only clear the FSM;
\* other dialogues set it.
LeaveDialogue ==
    /\ fsm' \in {"none", "other_flow"} \ {fsm}
    /\ UNCHANGED <<handler, registry, session, run, token>>

TokensPrompt ==
    /\ fsm' = "tokens"
    /\ UNCHANGED <<handler, registry, session, run, token>>

TokensReceived(h) ==
    /\ handler[h] = "idle" /\ fsm = "tokens"
    /\ handler' = [handler EXCEPT ![h] = "tokens_saving"]
    /\ UNCHANGED <<fsm, registry, session, run, token>>

TokensSaved(h) ==
    /\ handler[h] = "tokens_saving"
    /\ token' = TRUE
    /\ handler' = [handler EXCEPT ![h] = "tokens_checking"]
    /\ UNCHANGED <<fsm, registry, session, run>>

\* whoami succeeds and ends the dialogue, or fails.
TokensChecked(h) ==
    /\ handler[h] = "tokens_checking"
    /\ \/ fsm' = "none" /\ handler' = [handler EXCEPT ![h] = "tokens_answering"]
       \/ UNCHANGED fsm /\ handler' = [handler EXCEPT ![h] = "tokens_logout"]
    /\ UNCHANGED <<registry, session, run, token>>

\* The answer stands in the same try: when Telegram refuses it, the user is logged out.
TokensAnswered(h) ==
    /\ handler[h] = "tokens_answering"
    /\ handler' \in {[handler EXCEPT ![h] = pc] : pc \in {"idle", "tokens_logout"}}
    /\ UNCHANGED <<fsm, registry, session, run, token>>

TokensLogout(h) ==
    /\ handler[h] = "tokens_logout"
    /\ token' = FALSE
    /\ handler' = [handler EXCEPT ![h] = "idle"]
    /\ UNCHANGED <<fsm, registry, session, run>>

Logout(h) ==
    /\ handler[h] = "idle"
    /\ token' = FALSE
    /\ handler' = [handler EXCEPT ![h] = "logout_clearing"]
    /\ UNCHANGED <<fsm, registry, session, run>>

LogoutClears(h) ==
    /\ handler[h] = "logout_clearing"
    /\ fsm' = "none"
    /\ handler' = [handler EXCEPT ![h] = "idle"]
    /\ UNCHANGED <<registry, session, run, token>>

-----------------------------------------------------------------------------
(* _run_auth                                                               *)

Advance(s, pc) == run' = [run EXCEPT ![s].pc = pc]

\* The prompt is shown to the user while the session goes on to its wait.
Ask(s, pc) == run' = [run EXCEPT ![s] = [@ EXCEPT !.pc = pc, !.asked = run[s].asked + 1]]

\* Plausible bug: what the session was sent before the wait is kept.
BeginWaitKeepingInput(s, pc) == Advance(s, pc) /\ UNCHANGED session

\* _wait_for_input up to its suspension; event.clear() forgets a cancellation, and what
\* the user answered while the prompt was being sent.
BeginWait(s, pc) ==
    /\ Advance(s, pc)
    /\ session' = [session EXCEPT ![s] = [@ EXCEPT !.event = FALSE, !.value = None]]

\* Plausible bug: a waiting session does not look at the flag.
AnsweredIgnoringCancel(s) == session[s].value # None

\* What _wait_for_input returns is neither None nor empty.
Answered(s) == ~session[s].cancelled /\ session[s].value # None

\* Plausible bug: captchas are handled for as long as the page shows one.
AskEveryCaptcha(s) ==
    /\ run[s].pc \in {"opening", "captcha_done"}
    /\ Ask(s, "captcha_sending")
    /\ UNCHANGED <<fsm, handler, registry, session, token>>

\* The page is open and may show a captcha.
AskCaptcha(s) ==
    /\ run[s].pc = "opening"
    /\ Ask(s, "captcha_sending")
    /\ UNCHANGED <<fsm, handler, registry, session, token>>

NoCaptcha(s) ==
    /\ run[s].pc = "opening"
    /\ Advance(s, "captcha_done")
    /\ UNCHANGED <<fsm, handler, registry, session, token>>

AskCode(s) ==
    /\ run[s].pc = "captcha_done" /\ ~run[s].password
    /\ Ask(s, "code_sending")
    /\ UNCHANGED <<fsm, handler, registry, session, token>>

\* send_photo and send_text swallow their errors, so the wait begins in any case.
PromptSent(s) ==
    /\ run[s].pc \in Sends
    /\ BeginWait(s, IF run[s].pc = "captcha_sending" THEN "captcha_wait" ELSE "code_wait")
    /\ UNCHANGED <<fsm, handler, registry, token>>

EnterPassword(s) ==
    /\ run[s].pc = "captcha_done" /\ run[s].password
    /\ Advance(s, "confirming")
    /\ UNCHANGED <<fsm, handler, registry, session, token>>

InputArrives(s) ==
    /\ run[s].pc \in Waits
    /\ session[s].event
    /\ Advance(s, IF ~Answered(s) THEN "closing"
                  ELSE IF run[s].pc = "captcha_wait" THEN "captcha_done" ELSE "confirming")
    /\ UNCHANGED <<fsm, handler, registry, session, token>>

InputTimesOut(s) ==
    /\ run[s].pc \in Waits
    /\ Advance(s, "closing")
    /\ UNCHANGED <<fsm, handler, registry, session, token>>

\* The redirect gives a code within 30 seconds, and then HH a token for it.
Confirmed(s) ==
    /\ run[s].pc = "confirming"
    /\ Advance(s, "authenticating")
    /\ UNCHANGED <<fsm, handler, registry, session, token>>

Authenticated(s) ==
    /\ run[s].pc = "authenticating"
    /\ Advance(s, "saving")
    /\ UNCHANGED <<fsm, handler, registry, session, token>>

SaveTokens(s) ==
    /\ run[s].pc = "saving"
    /\ token' = TRUE
    /\ Advance(s, "finishing")
    /\ UNCHANGED <<fsm, handler, registry, session>>

\* Cookies are saved, on_success clears whatever dialogue the chat is in.
OnSuccess(s) ==
    /\ run[s].pc = "finishing"
    /\ fsm' = "none"
    /\ Advance(s, "closing")
    /\ UNCHANGED <<handler, registry, session, token>>

\* Where an exception can leave the task: the captcha's screenshot is taken in "opening".
Fallible == {"opening", "captcha_done", "confirming", "authenticating", "saving", "finishing"}

\* Plausible bug: an exception leaves the task before it unregisters.
FailsUnregistered(s) ==
    /\ run[s].pc \in Fallible
    /\ Advance(s, "done")
    /\ UNCHANGED <<fsm, handler, registry, session, token>>

\* The browser, HH or the storage fails, or Playwright is missing.
RunFails(s) ==
    /\ run[s].pc \in Fallible
    /\ Advance(s, "closing")
    /\ UNCHANGED <<fsm, handler, registry, session, token>>

\* The last finally: whichever session is registered goes.
Close(s) ==
    /\ run[s].pc = "closing"
    /\ Advance(s, "done")
    /\ registry' = None
    /\ UNCHANGED <<fsm, handler, session, token>>

-----------------------------------------------------------------------------
HandlerStep(h) ==
    \/ LoginCheck(h) \/ LoginPrompt(h)
    \/ PressButton(h, "otp_answering") \/ OtpProceeds(h) \/ OtpStarts(h)
    \/ PressButton(h, "password_answering") \/ PasswordPrompt(h)
    \/ PasswordReceived(h) \/ PasswordStarts(h) \/ HandlerFails(h)
    \/ TokensReceived(h) \/ TokensSaved(h) \/ TokensChecked(h)
    \/ TokensAnswered(h) \/ TokensLogout(h)
    \/ Logout(h) \/ LogoutClears(h)

ChatStep ==
    UsernameReceived \/ InputReceived \/ CancelWritten \/ LeaveDialogue \/ TokensPrompt

RunStep(s) ==
    \/ AskCaptcha(s) \/ NoCaptcha(s) \/ AskCode(s) \/ PromptSent(s) \/ EnterPassword(s)
    \/ InputArrives(s) \/ InputTimesOut(s) \/ Confirmed(s) \/ Authenticated(s)
    \/ SaveTokens(s) \/ OnSuccess(s) \/ RunFails(s) \/ Close(s)

Next == (\E h \in Handlers : HandlerStep(h)) \/ ChatStep \/ \E s \in Sessions : RunStep(s)

Spec == Init /\ [][Next]_vars

-----------------------------------------------------------------------------
(* Properties.                                                             *)

\* Types; a registered session exists, and no session waits more than twice.
TypeOK ==
    /\ fsm \in FsmStates
    /\ handler \in [Handlers -> HandlerStates]
    /\ registry \in Sessions \cup {None}
    /\ session \in [Sessions -> AuthSessions]
    /\ run \in [Sessions -> Runs]
    /\ token \in BOOLEAN

\* What a session types into the page was sent after its present prompt: a
\* captcha's answer or an early message is never taken for the code.
InputAnswersItsPrompt ==
    [][\A s \in Sessions :
          run[s].pc \in Waits /\ run'[s].pc \notin Waits \cup {"closing"}
          => session[s].value = run[s].asked]_vars

\* A session cancelled while it waits goes no further, even if the user's input
\* reached it just before.
CancelStopsWaiting ==
    [][\A s \in Sessions :
          run[s].pc \in Waits /\ session[s].cancelled
          => run'[s].pc \in {run[s].pc, "closing"}]_vars

\* The user is never locked out: whatever ends, a registered session is one whose
\* task still runs and will unregister it (auth_manager.py:81 refuses otherwise).
NeverLockedOut == registry # None => Alive(registry)

\* Until the user cancels a login for the first time, no two run at a time, however
\* often and concurrently the buttons are pressed (auth_manager.py:81).
Uncancelled == \A s \in Sessions : ~session[s].cancelled
OneLoginUntilCancelled ==
    Uncancelled => \A r, s \in Sessions : Alive(r) /\ Alive(s) => r = s

=============================================================================
