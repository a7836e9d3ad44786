CONSTANTS
    TaskIds = {t1, t2, t3, t4}
    RunIds = {r1, r2, r3}
    ConfirmationIds = {}
    QuestionIds = {q1}
    Fingerprints = {}
    Profiles <- BothProfiles
    None = None
    Revisions = {1}
    Revisable = {}
    SparesRuns = TRUE
SPECIFICATION Spec
CHECK_DEADLOCK FALSE
INVARIANTS
    TypeOK
    WorkConserving
    EveryTaskHasItsPlace
    OnlyCancelWedges
PROPERTIES
    TerminalIsFinal
    OnlyMoveReorders
