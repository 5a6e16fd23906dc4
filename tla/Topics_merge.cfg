\* What a merge does to a rejection.
CONSTANTS
    Tags = {t1, t2}
    Docs = {d1, d2}
    Models = {m1}
    Runners = {k1}
    NoTag = NoTag
    ByKey <- MCByKey
    NoModel = NoModel
    NoDoc = NoDoc
    NoRunner = NoRunner
    MaxAttempts = 1
    MaxEdits = 0
    d1 = d1
    d2 = d2
    t1 = t1
    t2 = t2
    m1 = m1
SPECIFICATION PeopleSpec
CHECK_DEADLOCK FALSE
INVARIANTS
    RejectionSurvives
