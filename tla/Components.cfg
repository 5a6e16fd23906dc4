\* External cases: one with a long clock, one with several people.
CONSTANTS
    A = A
    B = B
    x = x
    y = y
    ana = ana
    ben = ben
    sam = sam
    Inside = {A, B}
    Outside = {x, y}
    NoParty = NoParty
    Staff = {ana, ben, sam}
    StaffOffice <- MCStaffOffice
    StaffRole <- MCStaffRole
    MaxNow = 4
    MaxSteps = 3
    MaxTurns = 2
    NudgeAge = 1
    p = p
    q = q
    b1 = b1
    b2 = b2
    Browsers = {b1, b2}
    NoBrowser = NoBrowser
    Addresses = {p, q}
    NoAddress = NoAddress
    FirstAddress = p
    MaxPasswords = 2
    MaxChallenges = 3
    MaxResends = 2
    MaxEra = 3
    MaxAttempts = 2
    MissLimit = 2
    root = root
    dean = dean
    clerk = clerk
    People = {root, dean, clerk}
    Nobody = Nobody
    OwnRole <- MCRole
    Office <- MCOffice
    Capable = {"view_content", "edit_files"}
    MaxRevision = 2
SPECIFICATION ComponentsSpec
CHECK_DEADLOCK FALSE
INVARIANTS
    CaseHistoryHolds
    CaseViewsAgree
    EveryMomentChargedOnce
    ExternalNoticesAreTrue
    MailboxesWereReached
    CodesAreBounded
    RightsAgree
PROPERTIES
    OwnFactsStand
    NoChallengeOutlivesRecovery
    AdministrationHolds
