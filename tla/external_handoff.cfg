CONSTANTS
    TaskIds = {t1, t2}
    RunIds = {r1, r2}
    ConfirmationIds = {}
    QuestionIds = {}
    Fingerprints = {}
    Profiles <- OneProfile
    None = None
    MaxAttempts = 1
SPECIFICATION Spec
CHECK_DEADLOCK FALSE
INVARIANT StartedTaskIsTakenUp
