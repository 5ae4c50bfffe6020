SPECIFICATION Spec
CONSTANTS
    h1 = h1
    h2 = h2
    Handlers = {h1, h2}
    Runs = {r1}
    Keys = {"token", "other"}
    Values = {v}
    Setups <- AllSetups
    None = None
INVARIANT OpenAfterStartup
