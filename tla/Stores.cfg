\* Three connections and every mix of services without the findings; two tasks,
\* two full retries, one reviewer and two overlapping purges.
CONSTANTS
    Sessions = {s1, s2, s3}
    Users = {1, 2}
    Records = {1, 2}
    Offices = {1, 2}
    Documents = {1, 2}
    Tags = {1, 2}
    Entries = {1, 2}
    Services <- MCServices
    d1 = d1
    d2 = d2
    k1 = k1
    k2 = k2
    j1 = j1
    j2 = j2
    Docs = {d1, d2}
    StoredKeys = {k1, k2}
    FilesOf <- MCFilesOf
    Jobs = {j1, j2}
    Reviewers = {u1}
    Purgers = {w1, w2}
    NoDoc = NoDoc
    PurgeLimit = 1
    MaxGeneration = 2
SPECIFICATION MCSpec
SYMMETRY MCSymmetry
CHECK_DEADLOCK FALSE
INVARIANTS
    NoCircularWait
    DocumentsAreWhole
    StatusIsTrue
PROPERTIES
    TextIsKept
    DecidedOnWhatWasShown
