------------------------- MODULE ApplyWizard_proofs -------------------------
(***************************************************************************)
(* What the dialogues keep for any number of concurrent handlers, any      *)
(* order of old and new presses, failed calls and restarts.                *)
(***************************************************************************)
EXTENDS ApplyWizard, TLAPS

-----------------------------------------------------------------------------
(* Types                                                                   *)

Doing == {Idle} \cup Authenticating \cup Pressed \cup Writing

LEMMA ButtonKinds ==
    /\ Kinds = {"plain", "menu", "prompt", "mode", "risk", "summary", "clear", "resumes"}
    /\ \A k \in Kinds : Buttons[k] \subseteq UNION {Buttons[l] : l \in Kinds}
  <1>1. Kinds = {"plain", "menu", "prompt", "mode", "risk", "summary", "clear", "resumes"}
    BY DEF Kinds, Buttons
  <1>2. \A k \in Kinds : Buttons[k] \subseteq UNION {Buttons[l] : l \in Kinds}
    OBVIOUS
  <1> QED
    BY <1>1, <1>2

LEMMA EmptyType == Empty \in Params
    BY WizardAssumption DEF Empty, Params

\* The parts of the type invariant.
Dialogue == fsm \in States /\ data \in Params /\ summary \in Params /\ acked \in BOOLEAN
Coroutines == chat \subseteq Kinds /\ handler \in [Handlers -> Doing]
Launched == launch \in Launches \cup {None}

LEMMA TypeParts ==
    /\ TypeOK <=> Dialogue /\ Coroutines /\ Launched
    /\ TypeOK' <=> Dialogue' /\ Coroutines' /\ Launched'
    BY DEF TypeOK, Dialogue, Coroutines, Launched, Doing

LEMMA ClearType == Dialogue /\ Clear => Dialogue'
    BY EmptyType DEF Clear, Dialogue, States

LEMMA WriteType ==
    ASSUME Coroutines, NEW h \in Handlers, NEW kind \in Kinds, Write(h, kind)
    PROVE  Coroutines'
    BY DEF Coroutines, Write, Becomes, Writing, Doing

LEMMA TypedType ==
    ASSUME NEW values, None \in values, NEW text
    PROVE  Typed(text, values) \subseteq values
    BY DEF Typed

LEMMA ApplyType ==
    ASSUME Dialogue, NEW p \in Params, NEW b \in {"default", "go"}
    PROVE  Apply(b, p) \in Launches
    BY DEF Dialogue, Apply, Launches

LEMMA LaunchType ==
    /\ \A days \in {None, "number"} : [op |-> "clear", days |-> days] \in Launches
    /\ \A text \in Texts : [op |-> "reply", text |-> text] \in Launches
    /\ [op |-> "update"] \in Launches
    BY DEF Launches

LEMMA TypeInit == Init => TypeOK
  <1> SUFFICES ASSUME Init PROVE TypeOK
    OBVIOUS
  <1>1. Dialogue
    BY EmptyType DEF Init, Dialogue, States
  <1>2. Coroutines /\ Launched
    BY DEF Init, Coroutines, Doing, Launched
  <1> QED
    BY <1>1, <1>2, TypeParts

LEMMA TypeTelegram ==
    ASSUME TypeOK, NEW h \in Handlers, TelegramStep(h)
    PROVE  TypeOK'
  <1>0. Dialogue /\ Coroutines
    BY TypeParts
  <1>1. UNCHANGED dialogue /\ launch' = None
    BY DEF TelegramStep, Press, Written, CallFails, NoLaunch
  <1>2. Dialogue' /\ Launched'
    BY <1>0, <1>1 DEF dialogue, Dialogue, Launched
  <1>3. CASE Written(h)
    <2>1. handler[h].kind \in Kinds
      BY <1>0, <1>3 DEF Written, Coroutines, Doing, Idle, Authenticating, Pressed, Writing
    <2> QED
      BY <1>0, <1>2, <1>3, <2>1, TypeParts DEF Written, Becomes, Coroutines, Doing
  <1>4. CASE CallFails(h)
    BY <1>0, <1>2, <1>4, TypeParts DEF CallFails, Becomes, Coroutines, Doing
  <1>5. ASSUME NEW kind \in Kinds, NEW b \in Buttons[kind], Press(h, b)
        PROVE  TypeOK'
    <2>1. [pc |-> "pressed", button |-> b] \in Doing
      BY ButtonKinds DEF Doing, Pressed
    <2> QED
      BY <1>0, <1>2, <1>5, <2>1, TypeParts DEF Press, Becomes, Coroutines
  <1> QED
    BY <1>3, <1>4, <1>5 DEF TelegramStep

LEMMA TypeButton ==
    ASSUME TypeOK, NEW h \in Handlers, ButtonStep(h)
    PROVE  TypeOK'
  <1>0. Dialogue /\ Coroutines
    BY TypeParts
  <1>1. \E kind \in Kinds : Write(h, kind)
    BY ButtonKinds DEF ButtonStep, ApplyDefault, ApplySearch, ModeSelected, RiskBack, RiskYes,
       ApplyGo, ClearDiscards, ClearOlder, UpdateResumes, CancelButton, AskMessageTemplate
  <1>2. Coroutines'
    BY <1>0, <1>1, WriteType
  <1>3. CASE ApplyGo(h)
    <2>1. Launched'
      BY <1>0, <1>3, ApplyType DEF ApplyGo, Launched, Dialogue
    <2> QED
      BY <1>0, <1>2, <1>3, <2>1, ClearType, TypeParts DEF ApplyGo
  <1>4. CASE CancelButton(h)
    BY <1>0, <1>2, <1>4, ClearType, TypeParts DEF CancelButton, NoLaunch, Launched
  <1>5. CASE ApplyDefault(h) \/ ClearDiscards(h) \/ UpdateResumes(h)
    <2>1. UNCHANGED dialogue
      BY <1>5 DEF ApplyDefault, ClearDiscards, UpdateResumes
    <2>2. Launched'
      BY <1>0, <1>5, ApplyType, LaunchType, EmptyType DEF ApplyDefault, ClearDiscards, UpdateResumes, Launched
    <2> QED
      BY <1>0, <1>2, <2>1, <2>2, TypeParts DEF dialogue, Dialogue
  <1>6. CASE ApplySearch(h) \/ RiskBack(h) \/ RiskYes(h) \/ ClearOlder(h)
    <2>1. fsm' \in States /\ acked' \in BOOLEAN /\ UNCHANGED <<data, summary>> /\ launch' = None
      BY <1>0, <1>6 DEF ApplySearch, RiskBack, RiskYes, ClearOlder, AskMessageTemplate, NoLaunch,
         States, Dialogue
    <2> QED
      BY <1>0, <1>2, <2>1, TypeParts DEF Dialogue, Launched
  <1>7. ASSUME NEW mode \in {"safe", "partial"}, ModeSelected(h, mode)
        PROVE  TypeOK'
    <2>1. fsm' \in States /\ acked' = FALSE /\ UNCHANGED summary /\ launch' = None
      BY <1>7 DEF ModeSelected, AskMessageTemplate, NoLaunch, States
    <2>2. data' \in Params
      BY <1>0, <1>7 DEF ModeSelected, Dialogue, Params
    <2> QED
      BY <1>0, <1>2, <2>1, <2>2, TypeParts DEF Dialogue, Launched
  <1> QED
    BY <1>3, <1>4, <1>5, <1>6, <1>7 DEF ButtonStep

LEMMA TypeCommand ==
    ASSUME TypeOK, NEW h \in Handlers, CommandStep(h)
    PROVE  TypeOK'
  <1>0. Dialogue /\ Coroutines
    BY TypeParts
  <1>1. launch' = None
    BY DEF CommandStep, Command, NotAuthorized, ApplyMenu, ClearMenu, ReplyPrompt, OtherDialogue,
       NoLaunch
  <1>2. Launched'
    BY <1>1 DEF Launched
  <1>3. Dialogue'
    <2>1. CASE Clear
      BY <1>0, <2>1, ClearType
    <2>2. CASE fsm' \in States /\ UNCHANGED <<data, acked, summary>>
      BY <1>0, <2>2 DEF Dialogue
    <2>3. CASE UNCHANGED dialogue
      BY <1>0, <2>3 DEF Dialogue, dialogue
    <2> QED
      BY <2>1, <2>2, <2>3 DEF CommandStep, Command, NotAuthorized, ApplyMenu, ClearMenu,
         ReplyPrompt, OtherDialogue, States
  <1>4. ASSUME NEW command \in {"apply", "clear", "reply", "update"}, Command(h, command)
        PROVE  Coroutines'
    <2>1. [pc |-> "authenticating", command |-> command] \in Doing
      BY DEF Doing, Authenticating
    <2> QED
      BY <1>0, <1>4, <2>1 DEF Command, Becomes, Coroutines
  <1>5. ASSUME NotAuthorized(h) \/ ApplyMenu(h) \/ ClearMenu(h) \/ ReplyPrompt(h) \/ OtherDialogue(h)
        PROVE  Coroutines'
    <2>1. \E kind \in Kinds : Write(h, kind)
      BY <1>5, ButtonKinds DEF NotAuthorized, ApplyMenu, ClearMenu, ReplyPrompt, OtherDialogue
    <2> QED
      BY <1>0, <2>1, WriteType
  <1> QED
    BY <1>2, <1>3, <1>4, <1>5, TypeParts DEF CommandStep

LEMMA TypeText ==
    ASSUME TypeOK, NEW h \in Handlers, TextStep(h)
    PROVE  TypeOK'
  <1>0. Dialogue /\ Coroutines
    BY TypeParts
  <1>1. PICK text \in Texts :
           \/ SearchReceived(h, text) \/ ExcludedReceived(h, text) \/ MessageReceived(h, text)
           \/ DaysReceived(h, text) \/ ReplyReceived(h, text)
    BY DEF TextStep
  <1>2. \E kind \in Kinds : Write(h, kind)
    BY <1>1, ButtonKinds DEF SearchReceived, ExcludedReceived, MessageReceived, DaysReceived,
       ReplyReceived
  <1>3. Coroutines'
    BY <1>0, <1>2, WriteType
  <1>4. CASE SearchReceived(h, text) \/ ExcludedReceived(h, text) \/ MessageReceived(h, text)
    <2>1. /\ Typed(text, Searches) \subseteq Searches /\ Typed(text, Terms) \subseteq Terms
          /\ Typed(text, Letters) \subseteq Letters
      BY WizardAssumption, TypedType
    <2>2. data' \in Params
      BY <1>0, <1>4, <2>1 DEF SearchReceived, ExcludedReceived, MessageReceived, Dialogue, Params
    <2>3. fsm' \in States /\ acked' \in BOOLEAN /\ summary' \in {summary, data'} /\ launch' = None
      BY <1>0, <1>4 DEF SearchReceived, ExcludedReceived, MessageReceived, NoLaunch, States, Dialogue
    <2> QED
      BY <1>0, <1>3, <2>2, <2>3, TypeParts DEF Dialogue, Launched
  <1>5. CASE DaysReceived(h, text) \/ ReplyReceived(h, text)
    <2>1. Clear \/ UNCHANGED dialogue
      BY <1>5 DEF DaysReceived, ReplyReceived
    <2>2. Dialogue'
      BY <1>0, <2>1, ClearType DEF Dialogue, dialogue
    <2>3. Launched'
      BY <1>5, LaunchType DEF DaysReceived, ReplyReceived, NoLaunch, Launched
    <2> QED
      BY <1>3, <2>2, <2>3, TypeParts
  <1> QED
    BY <1>1, <1>4, <1>5

LEMMA TypeNext == TypeOK /\ [Next]_vars => TypeOK'
  <1> SUFFICES ASSUME TypeOK, [Next]_vars PROVE TypeOK'
    OBVIOUS
  <1>1. CASE UNCHANGED vars
    BY <1>1 DEF vars, dialogue, TypeOK
  <1>2. CASE Restart
    <2>1. Dialogue /\ Coroutines
      BY TypeParts
    <2> QED
      BY <1>2, <2>1, ClearType, TypeParts DEF Restart, NoLaunch, Coroutines, Doing, Launched
  <1>3. ASSUME NEW h \in Handlers, TelegramStep(h) \/ ButtonStep(h) \/ CommandStep(h) \/ TextStep(h)
        PROVE  TypeOK'
    BY <1>3, TypeTelegram, TypeButton, TypeCommand, TypeText
  <1> QED
    BY <1>1, <1>2, <1>3 DEF Next

\* Types: the states of states.py, the buttons of keyboards.py, what is stored and
\* launched.
THEOREM TypeCorrect == Spec => []TypeOK
    BY TypeInit, TypeNext, PTL DEF Spec

-----------------------------------------------------------------------------
(* What a confirmed run is                                                 *)

\* While a confirmation is waited for the data are those of the latest summary; no way
\* leads there, or to the letter, past an unconfirmed risk.
Shown == fsm = "confirm" => data = summary
Safe == data.mode = "partial" /\ data.excluded = "short" => acked
Warned == fsm \in {"message", "confirm"} => Safe

ConfirmInv == TypeOK /\ Shown /\ Warned /\ ConfirmedAsShown /\ RiskConfirmed

\* What is no confirmed run satisfies both properties.
LEMMA NotConfirmed == ~Confirmed' => ConfirmedAsShown' /\ RiskConfirmed'
    BY DEF ConfirmedAsShown, RiskConfirmed

\* A step that leaves the dialogue alone, or the states in which it matters.
LEMMA Elsewhere ==
    ASSUME ConfirmInv,
           UNCHANGED dialogue \/ fsm' \notin {"message", "confirm"}
    PROVE  Shown' /\ Warned'
    BY DEF ConfirmInv, Shown, Warned, Safe, dialogue

LEMMA ConfirmButton ==
    ASSUME ConfirmInv, NEW h \in Handlers, ButtonStep(h)
    PROVE  Shown' /\ Warned' /\ ConfirmedAsShown' /\ RiskConfirmed'
  <1>1. CASE ApplyGo(h)
    <2>1. launch' = Apply("go", data) /\ fsm' = "none"
      BY <1>1 DEF ApplyGo, Clear
    <2>2. Shown' /\ Warned'
      BY <2>1, Elsewhere
    <2>3. ConfirmedAsShown'
      BY <2>1 DEF ConfirmedAsShown, Confirmed, Apply, ConfirmInv, Shown
    <2>4. RiskConfirmed'
      BY <2>1 DEF RiskConfirmed, Confirmed, Apply, ConfirmInv, Warned, Safe
    <2> QED
      BY <2>2, <2>3, <2>4
  <1>2. CASE ApplyDefault(h) \/ ClearDiscards(h) \/ UpdateResumes(h)
    <2>1. UNCHANGED dialogue
      BY <1>2 DEF ApplyDefault, ClearDiscards, UpdateResumes
    <2>2. ~Confirmed'
      BY <1>2 DEF ApplyDefault, ClearDiscards, UpdateResumes, Confirmed, Apply
    <2> QED
      BY <2>1, <2>2, Elsewhere, NotConfirmed
  <1>3. CASE ApplySearch(h) \/ RiskBack(h) \/ ClearOlder(h) \/ CancelButton(h)
    <2>1. fsm' \notin {"message", "confirm"} /\ launch' = None
      BY <1>3 DEF ApplySearch, RiskBack, ClearOlder, CancelButton, Clear, NoLaunch
    <2> QED
      BY <2>1, Elsewhere, NotConfirmed DEF Confirmed
  <1>4. CASE RiskYes(h)
    <2>1. fsm' = "message" /\ acked' /\ launch' = None
      BY <1>4 DEF RiskYes, AskMessageTemplate, NoLaunch
    <2> QED
      BY <2>1, NotConfirmed DEF Shown, Warned, Safe, Confirmed
  <1>5. ASSUME NEW mode \in {"safe", "partial"}, ModeSelected(h, mode)
        PROVE  Shown' /\ Warned' /\ ConfirmedAsShown' /\ RiskConfirmed'
    <2>1. data.excluded = data'.excluded /\ data'.mode = mode
      BY <1>5 DEF ModeSelected, ConfirmInv, TypeOK, Params
    <2>2. fsm' \in {"risk", "message"} /\ launch' = None
          /\ (fsm' = "message" => ~Risky(mode))
      BY <1>5 DEF ModeSelected, AskMessageTemplate, NoLaunch
    <2> QED
      BY <2>1, <2>2, NotConfirmed DEF Shown, Warned, Safe, Risky, Confirmed
  <1> QED
    BY <1>1, <1>2, <1>3, <1>4, <1>5 DEF ButtonStep

LEMMA ConfirmText ==
    ASSUME ConfirmInv, NEW h \in Handlers, TextStep(h)
    PROVE  Shown' /\ Warned' /\ ConfirmedAsShown' /\ RiskConfirmed'
  <1>1. PICK text \in Texts :
           \/ SearchReceived(h, text) \/ ExcludedReceived(h, text) \/ MessageReceived(h, text)
           \/ DaysReceived(h, text) \/ ReplyReceived(h, text)
    BY DEF TextStep
  <1>2. ~Confirmed'
    BY <1>1 DEF SearchReceived, ExcludedReceived, MessageReceived, DaysReceived, ReplyReceived,
       NoLaunch, Confirmed
  <1>3. CASE MessageReceived(h, text)
    <2>1. /\ fsm = "message" /\ fsm' = "confirm" /\ summary' = data' /\ UNCHANGED acked
          /\ data'.mode = data.mode /\ data'.excluded = data.excluded
      BY <1>3 DEF MessageReceived, Gets, ConfirmInv, TypeOK, Params
    <2> QED
      BY <1>2, <2>1, NotConfirmed DEF ConfirmInv, Shown, Warned, Safe
  <1>4. CASE ~MessageReceived(h, text)
    <2>1. UNCHANGED dialogue \/ fsm' \notin {"message", "confirm"}
      BY <1>1, <1>4 DEF SearchReceived, ExcludedReceived, DaysReceived, ReplyReceived, Clear
    <2> QED
      BY <1>2, <2>1, Elsewhere, NotConfirmed
  <1> QED
    BY <1>3, <1>4

LEMMA ConfirmNext == ConfirmInv /\ [Next]_vars => ConfirmInv'
  <1> SUFFICES ASSUME ConfirmInv, [Next]_vars PROVE ConfirmInv'
    OBVIOUS
  <1>1. TypeOK'
    BY TypeNext DEF ConfirmInv
  <1>2. CASE UNCHANGED vars
    <2>1. UNCHANGED dialogue /\ UNCHANGED launch
      BY <1>2 DEF vars
    <2>2. ConfirmedAsShown' /\ RiskConfirmed'
      BY <2>1 DEF ConfirmInv, ConfirmedAsShown, RiskConfirmed, Confirmed
    <2> QED
      BY <1>1, <2>1, <2>2, Elsewhere DEF ConfirmInv
  <1>3. CASE Restart
    BY <1>1, <1>3, Elsewhere, NotConfirmed DEF Restart, Clear, NoLaunch, Confirmed, ConfirmInv
  <1>4. ASSUME NEW h \in Handlers, TelegramStep(h) \/ CommandStep(h)
        PROVE  ConfirmInv'
    <2>1. UNCHANGED dialogue \/ fsm' \notin {"message", "confirm"}
      BY <1>4 DEF TelegramStep, Press, Written, CallFails, CommandStep, Command, NotAuthorized,
         ApplyMenu, ClearMenu, ReplyPrompt, OtherDialogue, Clear
    <2>2. ~Confirmed'
      BY <1>4 DEF TelegramStep, Press, Written, CallFails, CommandStep, Command, NotAuthorized,
         ApplyMenu, ClearMenu, ReplyPrompt, OtherDialogue, NoLaunch, Confirmed
    <2> QED
      BY <1>1, <2>1, <2>2, Elsewhere, NotConfirmed DEF ConfirmInv
  <1>5. ASSUME NEW h \in Handlers, ButtonStep(h) \/ TextStep(h)
        PROVE  ConfirmInv'
    BY <1>1, <1>5, ConfirmButton, ConfirmText DEF ConfirmInv
  <1> QED
    BY <1>2, <1>3, <1>4, <1>5 DEF Next

LEMMA ConfirmInit == Init => ConfirmInv
  <1> SUFFICES ASSUME Init PROVE ConfirmInv
    OBVIOUS
  <1>1. TypeOK /\ fsm = "none" /\ launch = None
    BY TypeInit DEF Init
  <1> QED
    BY <1>1 DEF ConfirmInv, Shown, Warned, ConfirmedAsShown, RiskConfirmed, Confirmed

\* A confirmed run is the one its latest summary describes, whatever old buttons are
\* pressed, calls fail and handlers overlap (apply.py:149, :178).
THEOREM LaunchesAsShown == Spec => []ConfirmedAsShown
  <1>1. ConfirmInv => ConfirmedAsShown
    BY DEF ConfirmInv
  <1> QED
    BY <1>1, ConfirmInit, ConfirmNext, PTL DEF Spec

\* For a confirmed run the risk of terms of one character has been confirmed, by whatever
\* way the dialogue came to its summary (apply.py:108).
THEOREM RiskIsConfirmed == Spec => []RiskConfirmed
  <1>1. ConfirmInv => RiskConfirmed
    BY DEF ConfirmInv
  <1> QED
    BY <1>1, ConfirmInit, ConfirmNext, PTL DEF Spec
=============================================================================
