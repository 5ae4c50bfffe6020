---------------------------- MODULE ApplyWizard ----------------------------
(***************************************************************************)
(* The dialogues that launch heavy runs: the one of "apply"                *)
(* (handlers/apply.py), those of clearing and replying                     *)
(* (handlers/negotiations.py) and the update of resumes                    *)
(* (handlers/resumes.py).  One user, the chat's FSM state and data in      *)
(* MemoryStorage, and the handler coroutines of the user's updates.        *)
(*                                                                         *)
(* Buttons carry no data and no handler of theirs looks at the FSM state;  *)
(* Telegram lets every message that still shows a button be pressed, again *)
(* and while it is being edited.  So here a button may be pressed at any   *)
(* time after the first message with it, whatever the chat is doing.       *)
(*                                                                         *)
(* MemoryStorage never suspends a handler, Telegram's calls do: one step   *)
(* runs from one of them to the next.  Each of them may fail, and leaves   *)
(* the FSM as the handler had set it before.                               *)
(***************************************************************************)
EXTENDS Naturals

CONSTANTS
    Handlers,   \* concurrent update handlers of this user
    Searches,   \* search queries, "no query" among them
    Terms,      \* excluded terms: none, one of a single character, longer ones
    Letters,    \* templates of the letter, "no letter" among them
    None

ASSUME WizardAssumption ==
    /\ None \in Searches /\ None \in Terms /\ None \in Letters
    /\ Terms \subseteq {None, "short", "long"}
    /\ None \notin {"short", "long", "safe", "partial", "number"}

VARIABLES
    fsm,        \* the chat's state
    data,       \* the chat's data
    acked,      \* has a "yes" been pressed since terms or mode were chosen last?
    summary,    \* what the latest summary says
    chat,       \* the kinds of messages with buttons the user has got
    handler,    \* what each handler coroutine does
    launch      \* the heavy run the last step asked for, if any

dialogue == <<fsm, data, acked, summary>>
vars == <<dialogue, chat, handler, launch>>

States == {"none", "search", "excluded", "mode", "risk", "message", "confirm",
           "days", "reply", "other"}

Params == [search : Searches, excluded : Terms, mode : {None, "safe", "partial"},
           letter : Letters]
Empty == [search |-> None, excluded |-> None, mode |-> None, letter |-> None]

Buttons == [plain |-> {}, menu |-> {"default", "search"}, prompt |-> {}, mode |-> {"safe", "partial"},
            risk |-> {"yes", "back"}, summary |-> {"go"},
            clear |-> {"discards", "older"}, resumes |-> {"update"}]
Kinds == DOMAIN Buttons

\* What the user may type: commands of handlers/negotiations.py, "-", a number, a text.
\* Telegram sends no blank text; a message without text raises before anything changes.
Commands == {"clear", "reply", "refresh", "api"}
Texts == Commands \cup {"dash", "number", "text"}

Idle == [pc |-> "idle"]
Authenticating == [pc : {"authenticating"}, command : {"apply", "clear", "reply", "update"}]
Pressed == [pc : {"pressed"}, button : UNION {Buttons[k] : k \in Kinds}]
Writing == [pc : {"writing"}, kind : Kinds]

Launches ==
    [op : {"apply"}, button : {"default", "go"}, state : States, params : Params,
     summary : Params, acked : BOOLEAN]
    \cup [op : {"clear"}, days : {None, "number"}] \cup [op : {"reply"}, text : Texts]
    \cup [op : {"update"}]

Init ==
    /\ fsm = "none" /\ data = Empty /\ acked = FALSE /\ summary = Empty
    /\ chat = {}
    /\ handler = [h \in Handlers |-> Idle]
    /\ launch = None

-----------------------------------------------------------------------------
(* Telegram                                                                *)

Becomes(h, x) == handler' = [handler EXCEPT ![h] = x]
NoLaunch == launch' = None
Clear == fsm' = "none" /\ data' = Empty /\ acked' = FALSE /\ UNCHANGED summary

\* A handler's last call: message.answer or edit_text, with the keyboard of its kind.
Write(h, kind) == Becomes(h, [pc |-> "writing", kind |-> kind]) /\ UNCHANGED chat

Written(h) ==
    /\ handler[h].pc = "writing"
    /\ chat' = chat \cup ({handler[h].kind} \ {"plain", "prompt"})
    /\ Becomes(h, Idle)
    /\ UNCHANGED dialogue /\ NoLaunch

Press(h, button) ==
    /\ handler[h] = Idle
    /\ \E kind \in chat : button \in Buttons[kind]
    /\ Becomes(h, [pc |-> "pressed", button |-> button])
    /\ UNCHANGED <<dialogue, chat>> /\ NoLaunch

\* Telegram's call raises (or the user of the press is not authorized), and the handler
\* ends there.
CallFails(h) ==
    /\ handler[h].pc \in {"pressed", "writing"}
    /\ Becomes(h, Idle)
    /\ UNCHANGED <<dialogue, chat>> /\ NoLaunch

Answered(h, button) == handler[h] = [pc |-> "pressed", button |-> button]

-----------------------------------------------------------------------------
(* Routing                                                                 *)

\* The states whose handlers are registered before a command of negotiations.py and
\* take it for a text.
Before(command) ==
    CASE command = "clear" -> {"search", "excluded", "message"}
      [] command = "reply" -> {"search", "excluded", "message", "days"}
      [] OTHER             -> {"search", "excluded", "message", "days", "reply"}

\* The handler of the state gets the text.
Gets(h, state, text) ==
    /\ handler[h] = Idle
    /\ fsm = state
    /\ text \in Commands => state \in Before(text)

\* require_auth looks up the user's token first, which suspends the handler.
Command(h, command) ==
    /\ handler[h] = Idle
    /\ command \in Commands => fsm \notin Before(command)
    /\ Becomes(h, [pc |-> "authenticating", command |-> command])
    /\ UNCHANGED <<dialogue, chat>> /\ NoLaunch

Authenticated(h, command) == handler[h] = [pc |-> "authenticating", command |-> command]

\* There is no token.
NotAuthorized(h) ==
    /\ handler[h].pc = "authenticating"
    /\ Write(h, "plain")
    /\ UNCHANGED dialogue /\ NoLaunch

-----------------------------------------------------------------------------
(* handlers/apply.py                                                       *)

ApplyMenu(h) ==
    /\ Authenticated(h, "apply")
    /\ Clear
    /\ Write(h, "menu") /\ NoLaunch

Apply(button, params) == [op |-> "apply", button |-> button, state |-> fsm, params |-> params,
                          summary |-> summary, acked |-> acked]

ApplyDefault(h) ==
    /\ Answered(h, "default")
    /\ launch' = Apply("default", Empty)
    /\ Write(h, "plain") /\ UNCHANGED dialogue

ApplySearch(h) ==
    /\ Answered(h, "search")
    /\ fsm' = "search" /\ UNCHANGED <<data, acked, summary>>
    /\ Write(h, "prompt") /\ NoLaunch

\* Plausible bug: "-" is stored as it stands.
TypedDash(text, values) == IF text = "dash" THEN {text} ELSE values \ {None}

\* What a text stands for: "-" for nothing, any other, a command too, for itself.
Typed(text, values) == IF text = "dash" THEN {None} ELSE values \ {None}

SearchReceived(h, text) ==
    /\ Gets(h, "search", text)
    /\ \E search \in Typed(text, Searches) : data' = [data EXCEPT !.search = search]
    /\ fsm' = "excluded" /\ UNCHANGED <<acked, summary>>
    /\ Write(h, "prompt") /\ NoLaunch

ExcludedReceived(h, text) ==
    /\ Gets(h, "excluded", text)
    /\ \E excluded \in Typed(text, Terms) : data' = [data EXCEPT !.excluded = excluded]
    /\ acked' = FALSE
    /\ fsm' = "mode" /\ UNCHANGED summary
    /\ Write(h, "mode") /\ NoLaunch

\* _ask_message_template
AskMessageTemplate(h) == fsm' = "message" /\ Write(h, "prompt")

\* Plausible bug: the terms are checked before the new mode is stored.
RiskyBefore(mode) == data.mode = "partial" /\ data.excluded = "short"

\* Single characters in partial mode need a confirmation.
Risky(mode) == mode = "partial" /\ data.excluded = "short"

ModeSelected(h, mode) ==
    /\ Answered(h, mode)
    /\ data' = [data EXCEPT !.mode = mode]
    /\ acked' = FALSE
    /\ IF Risky(mode) THEN fsm' = "risk" /\ Write(h, "risk") ELSE AskMessageTemplate(h)
    /\ UNCHANGED summary /\ NoLaunch

RiskBack(h) ==
    /\ Answered(h, "back")
    /\ fsm' = "mode" /\ UNCHANGED <<data, acked, summary>>
    /\ Write(h, "mode") /\ NoLaunch

RiskYes(h) ==
    /\ Answered(h, "yes")
    /\ acked' = TRUE
    /\ AskMessageTemplate(h)
    /\ UNCHANGED <<data, summary>> /\ NoLaunch

\* Plausible bug: the summary is put together before the letter is stored.
MessageReceivedStale(h, text) ==
    /\ Gets(h, "message", text)
    /\ \E letter \in Typed(text, Letters) : data' = [data EXCEPT !.letter = letter]
    /\ summary' = data
    /\ fsm' = "confirm" /\ UNCHANGED acked
    /\ Write(h, "summary") /\ NoLaunch

MessageReceived(h, text) ==
    /\ Gets(h, "message", text)
    /\ \E letter \in Typed(text, Letters) : data' = [data EXCEPT !.letter = letter]
    /\ summary' = data'
    /\ fsm' = "confirm" /\ UNCHANGED acked
    /\ Write(h, "summary") /\ NoLaunch

\* The chat's data are taken, whatever they are by now, and cleared.
ApplyGo(h) ==
    /\ Answered(h, "go")
    /\ launch' = Apply("go", data)
    /\ Clear
    /\ Write(h, "plain")

-----------------------------------------------------------------------------
(* handlers/negotiations.py, handlers/resumes.py                           *)

ClearMenu(h) ==
    /\ Authenticated(h, "clear")
    /\ Write(h, "clear")
    /\ UNCHANGED dialogue /\ NoLaunch

ClearDiscards(h) ==
    /\ Answered(h, "discards")
    /\ launch' = [op |-> "clear", days |-> None]
    /\ Write(h, "plain") /\ UNCHANGED dialogue

ClearOlder(h) ==
    /\ Answered(h, "older")
    /\ fsm' = "days" /\ UNCHANGED <<data, acked, summary>>
    /\ Write(h, "prompt") /\ NoLaunch

\* What is not a number is answered and asked for no more: the state stays.
DaysReceived(h, text) ==
    /\ Gets(h, "days", text)
    /\ IF text = "number" THEN Clear /\ launch' = [op |-> "clear", days |-> "number"]
                          ELSE UNCHANGED dialogue /\ NoLaunch
    /\ Write(h, "plain")

\* cmd_reply leaves the data of the dialogue before it in place.
ReplyPrompt(h) ==
    /\ Authenticated(h, "reply")
    /\ fsm' = "reply" /\ UNCHANGED <<data, acked, summary>>
    /\ Write(h, "prompt") /\ NoLaunch

ReplyReceived(h, text) ==
    /\ Gets(h, "reply", text)
    /\ Clear
    /\ launch' = [op |-> "reply", text |-> text]
    /\ Write(h, "plain")

\* cmd_update_resumes, by command or by button.
UpdateResumes(h) ==
    /\ Authenticated(h, "update") \/ Answered(h, "update")
    /\ launch' = [op |-> "update"]
    /\ Write(h, "plain") /\ UNCHANGED dialogue

-----------------------------------------------------------------------------
(* The rest of the bot                                                     *)

\* The cancel button of a message that has one; those of a login do, too.
CancelButton(h) ==
    /\ handler[h] = Idle
    /\ Clear
    /\ Write(h, "plain") /\ NoLaunch

\* /start and the end of a login clear the chat, a login sets its state, other commands
\* leave it alone, /resumes with the button of its list; each sends a message.
OtherDialogue(h) ==
    /\ handler[h] = Idle
    /\ \/ Clear /\ Write(h, "plain")
       \/ fsm' = "other" /\ UNCHANGED <<data, acked, summary>> /\ Write(h, "plain")
       \/ UNCHANGED dialogue /\ \E kind \in {"plain", "resumes"} : Write(h, kind)
    /\ NoLaunch

\* The chats' states live in memory, the messages in Telegram.
Restart ==
    /\ Clear
    /\ handler' = [h \in Handlers |-> Idle]
    /\ UNCHANGED chat /\ NoLaunch

-----------------------------------------------------------------------------
TelegramStep(h) ==
    \/ \E kind \in Kinds : \E b \in Buttons[kind] : Press(h, b)
    \/ Written(h) \/ CallFails(h)

ButtonStep(h) ==
    \/ ApplyDefault(h) \/ ApplySearch(h) \/ (\E mode \in {"safe", "partial"} : ModeSelected(h, mode))
    \/ RiskBack(h) \/ RiskYes(h) \/ ApplyGo(h)
    \/ ClearDiscards(h) \/ ClearOlder(h) \/ UpdateResumes(h) \/ CancelButton(h)

CommandStep(h) ==
    \/ \E command \in {"apply", "clear", "reply", "update"} : Command(h, command)
    \/ NotAuthorized(h) \/ ApplyMenu(h) \/ ClearMenu(h) \/ ReplyPrompt(h) \/ OtherDialogue(h)

TextStep(h) ==
    \E text \in Texts :
        \/ SearchReceived(h, text) \/ ExcludedReceived(h, text) \/ MessageReceived(h, text)
        \/ DaysReceived(h, text) \/ ReplyReceived(h, text)

Next ==
    \/ \E h \in Handlers : TelegramStep(h) \/ ButtonStep(h) \/ CommandStep(h) \/ TextStep(h)
    \/ Restart

Spec == Init /\ [][Next]_vars

-----------------------------------------------------------------------------
(* Properties.                                                             *)

\* Types: what is stored, shown, pressed and launched.
TypeOK ==
    /\ fsm \in States
    /\ data \in Params /\ summary \in Params
    /\ acked \in BOOLEAN
    /\ chat \subseteq Kinds
    /\ handler \in [Handlers -> {Idle} \cup Authenticating \cup Pressed \cup Writing]
    /\ launch \in Launches \cup {None}

\* A run launched by confirming it where a summary waits for that.
Confirmed ==
    /\ launch # None /\ launch.op = "apply"
    /\ launch.button = "go" /\ launch.state = "confirm"

\* A run confirmed while a confirmation is waited for filters, searches and writes as
\* the latest summary says (apply.py:153), whatever old buttons were pressed on the way
\* and beside it: they either change nothing or leave that state.
ConfirmedAsShown ==
    Confirmed => launch.params = launch.summary

\* Such a run filters by a single character only after the user, since choosing terms
\* and mode last, confirmed the risk of that (apply.py:108).
RiskConfirmed ==
    Confirmed /\ launch.params.mode = "partial" /\ launch.params.excluded = "short"
    => launch.acked

=============================================================================
