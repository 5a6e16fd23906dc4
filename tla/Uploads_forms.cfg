SPECIFICATION MCSpec
CONSTANTS
    OneTab = t1
    OneFile = f1
    OneGroup = g1
    OneWorker = w1
    Drafts = {d1}
    Files = {f1, f2}
    Tabs = {t1, t2}
    Cleaners = {w1}
    Groups = {g1, g2}
    NoDraft = NoDraft
    NoFile = NoFile
    NoTab = NoTab
    NoWorker = NoWorker
    NoGroup = NoGroup
    Keep = 1
    MaxOpen = 1
    MaxFiles = 2
    Quota = 2
    MaxRevision = 3
    MaxVersions = 2
    MaxKills = 1
INVARIANTS  SubmissionsHold
 
CHECK_DEADLOCK FALSE
