SPECIFICATION Spec
CONSTANTS
    a = a
    twin = twin
    other = other
    Members = {a, twin, other}
    Agent = a
    Handle <- MCHandle
    Handlers = {h1}
    Overlap = FALSE
    MaxMutations = 5
INVARIANTS TypeOK ViewIsRosterOfRevision ViewMixesTwoRosters
PROPERTIES ViewNeverGoesBack
