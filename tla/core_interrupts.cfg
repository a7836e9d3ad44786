CONSTANTS
    TaskIds = {t1, t2}
    RunIds = {r1, r2, r3, r4}
    ConfirmationIds = {c1, c2}
    QuestionIds = {q1}
    Fingerprints = {f1, f2}
    Profiles <- OneProfile
    None = None
    Revisions = {1, 2}
    Revisable = {1}
    SparesRuns = TRUE
SPECIFICATION Spec
CHECK_DEADLOCK FALSE
INVARIANTS
    OneRunAtItsRevision
    OneThingToUnblock
    ConflictStopsCoder
    OneLiveCardPerEffect
PROPERTIES
    CardsActAtTheirRevision
