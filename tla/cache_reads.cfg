\* Two calls of an employee and a manager, over a time in which an entry is stored, used,
\* overwritten and expires while the customer changes hands or is deleted.
SPECIFICATION Spec
CONSTANTS
    Calls = {c1, c2}
    Employees = {ann, max}
    Managers = {max}
    Customers = {k1}
    Deleted = Deleted
    Tools = {"list_follow_ups"}
    TTL <- ShortTTL
    Patience = 1
    MaxChanges = 1
    MaxNow = 4
SYMMETRY CallSymmetry
INVARIANTS
    BoundedStaleness
    RefreshNearlyFresh
    OwnDataOnly
