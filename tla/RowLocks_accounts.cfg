\* Transactions that lock an account after other rows, beside the work of that account.
CONSTANTS
    Sessions = {s1, s2}
    Users = {1, 2}
    Records = {1}
    Offices = {1}
    Documents = {}
    Tags = {}
    Entries = {}
    Services <- MCServices
SPECIFICATION LockSpec
INVARIANTS
    NoCircularWait
