SPECIFICATION Spec
CONSTANTS
    h1 = h1
    h2 = h2
    Handlers = {h1, h2}
    Searches = {None}
    Terms = {None, "short"}
    Letters = {None, "text"}
    None = None
SYMMETRY Symmetry
INVARIANTS TypeOK  RiskConfirmed
