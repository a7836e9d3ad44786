CONSTANTS
    TaskIds = {t1, t2}
    RunIds = {r1, r2}
    ConfirmationIds = {c1}
    QuestionIds = {q1}
    Fingerprints = {f1}
    Profiles <- OneProfile
    None = None
    MaxAttempts = 1
SPECIFICATION Spec
CHECK_DEADLOCK FALSE
INVARIANTS
    OneSessionAtWork
PROPERTIES
    NoToolAfterThePause
    LossesAreReleases
    PauseIsAnswered
