CONSTANTS
    t1 = t1
    q1 = q1
    c1 = c1
    TaskIds = {t1, t2}
    RunIds = {r1, r2, r3}
    ConfirmationIds = {c1}
    QuestionIds = {q1}
    Fingerprints = {f1}
    Profiles <- OneProfile
    None = None
    CommandIds = {k1, k2, k3}
    Commands <- TaskCommands
    MaxLog = 7
SPECIFICATION Spec
CHECK_DEADLOCK FALSE
INVARIANTS
    TypeOK
    MemoryIsTheLog
    OnlyCancelBreaksBoot
    OneTaskPerSubmission
    RepliesAreDurable
PROPERTIES
    BootResumesNothing
    InterruptedIsFinal
