CONSTANTS
    Files = {f1, f2}
    Calls = {c1, c2}
    None = None
    MaxChanges = 2
    MaxRuns = 2
SPECIFICATION GateSpec
SYMMETRY Symmetry
CHECK_DEADLOCK FALSE
INVARIANTS
    CompletionIsVerified
PROPERTIES
    UserEditsAreSeen
