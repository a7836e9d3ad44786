CONSTANTS
    TaskIds = {t1, t2}
    RunIds = {r1, r2, r3, r4}
    ConfirmationIds = {c1}
    QuestionIds = {q1}
    Fingerprints = {f1}
    Profiles <- OneProfile
    None = None
    Revisions = {1, 2}
    Revisable = {1}
    SparesRuns = TRUE
SPECIFICATION FairSpec
CHECK_DEADLOCK FALSE
PROPERTIES
    QueueDrains
    SlotIsReleased
