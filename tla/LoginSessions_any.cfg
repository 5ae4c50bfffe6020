SPECIFICATION Spec
CONSTANTS
    None = None
    Sessions = {s1, s2}
    Handlers = {h1}
SYMMETRY Symmetry
INVARIANTS TypeOK NeverLockedOut OneLoginUntilCancelled
PROPERTIES InputAnswersItsPrompt CancelStopsWaiting
