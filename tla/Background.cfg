\* The reminders, the cleanup and the suggestions that must come, with one worker
\* and every start and kill of it.
CONSTANTS
    A = A
    B = B
    C = C
    ana = ana
    ben = ben
    cora = cora
    none = none
    nobody = nobody
    Records = {r1}
    Offices <- MCThreeOffices
    Users <- MCThreeUsers
    NoOffice <- none
    NoUser <- nobody
    OfficeOf <- MCThreeOfficeOf
    RoleOf <- MCThreeRoleOf
    Workers = {w1}
    MaxBatch = 2
    MaxTimeline = 5
    OneTab = t1
    OneFile = f1
    OneGroup = g1
    OneWorker = w1
    Drafts = {d1}
    Files = {f1}
    Tabs = {t1}
    Cleaners = {w1, w2}
    Groups = {g1}
    NoDraft = NoDraft
    NoFile = NoFile
    NoTab = NoTab
    NoWorker = NoWorker
    NoGroup = NoGroup
    Keep = 1
    MaxOpen = 1
    MaxFiles = 2
    Quota = 2
    MaxRevision = 2
    MaxVersions = 1
    MaxKills = 0
    Tags = {t1, t2}
    Docs = {d1, d2}
    Models = {m1}
    Runners = {k1}
    NoTag = NoTag
    ByKey <- MCByKey
    NoModel = NoModel
    NoDoc = NoDoc
    NoRunner = NoRunner
    MaxAttempts = 2
    MaxEdits = 1
    d1 = d1
    d2 = d2
    t1 = t1
    t2 = t2
    m1 = m1
SPECIFICATION BackgroundSpec
CHECK_DEADLOCK FALSE
PROPERTIES
    RemindersCome
    StagedObjectsGo
    SuggestionsSettle
