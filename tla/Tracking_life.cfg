\* The life of a record up to its filing, two records of one series, and the
\* topics of the documents that are filed.
CONSTANTS
    A = A
    C = C
    ana = ana
    cora = cora
    sys = sys
    nobody = nobody
    r1 = r1
    r2 = r2
    Records = {r1, r2}
    Offices <- MCOffices
    Users <- MCUsers
    NoOffice = none
    NoUser <- nobody
    OfficeOf <- MCOfficeOf
    RoleOf <- MCRoleOf
    MaxBatch = 3
    MaxTimeline = 9
    Tags = {t1, t2}
    Docs = {d1, d2}
    Models = {m1}
    Runners = {k1, k2}
    NoTag = NoTag
    ByKey <- MCByKey
    NoModel = NoModel
    NoDoc = NoDoc
    NoRunner = NoRunner
    MaxAttempts = 2
    MaxEdits = 1
    d1 = d1
    d2 = d2
    t1 = t1
    t2 = t2
    m1 = m1
SPECIFICATION LifeSpec
CHECK_DEADLOCK FALSE
INVARIANTS
    RegisterHolds
    PagesAgree
    
PROPERTIES
    HumanTagsStay
    PeopleOverrideModels
    AnswersFitWhatWasRead
