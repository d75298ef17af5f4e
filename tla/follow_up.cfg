SPECIFICATION Spec
CONSTANTS
    Requests = {r1, r2}
    Employees = {e1, e2, m1}
    FirstOwner = e1
    Managers = {m1}
    Sellers = {e1}
    Values = {"a", "b"}
    Says <- MCSays
    MinRecords = 1
    MaxRecords = 2
    MaxAsked = 1
    MaxExtra = 2
INVARIANTS EventIsKnown NewestWhenApart MovesAreAudited
PROPERTIES EveryEventSettles
CHECK_DEADLOCK FALSE
