SPECIFICATION Spec
CONSTANTS
    a = a
    twin = twin
    other = other
    Members = {a, twin, other}
    Agent = a
    Handle <- MCHandle
    Handlers = {h1, h2}
    Overlap = TRUE
    MaxMutations = 3
INVARIANTS CurrentRevisionIsCurrentRoster
