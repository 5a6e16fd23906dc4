\* One record: its custody services, the queues, and a chase job on two workers.
CONSTANTS
    A = A
    B = B
    C = C
    ana = ana
    ben = ben
    cora = cora
    sys = sys
    none = none
    nobody = nobody
    r1 = r1
    r2 = r2
    Records = {r1}
    Offices <- MCOffices
    Users <- MCUsers
    NoOffice <- none
    NoUser <- nobody
    OfficeOf <- MCOfficeOf
    RoleOf <- MCRoleOfUsers
    MaxBatch = 3
    MaxTimeline = 7
    Workers = {w1, w2}
SPECIFICATION MCSpec
SYMMETRY MCSymmetry
CHECK_DEADLOCK FALSE
INVARIANTS
    TypeOK
    CachesAgree
    ChainOfCustody
    QueuesAgree
    NoticesAreTrue
    OfficesAreTold
PROPERTIES
    HistoryIsAppendOnly
    ImplementsCustody
