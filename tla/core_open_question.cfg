CONSTANTS
    TaskIds = {t1, t2}
    RunIds = {r1, r2, r3}
    ConfirmationIds = {}
    QuestionIds = {q1}
    Fingerprints = {}
    Profiles <- OneProfile
    None = None
    Revisions = {1}
    Revisable = {}
    SparesRuns = TRUE
SPECIFICATION Spec
CHECK_DEADLOCK FALSE
INVARIANT OpenQuestionImpliesAwaiting
