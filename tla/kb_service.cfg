SPECIFICATION Spec
CONSTANTS
    Procs = {service}
    Service = service
    Domains = {playbook, product}
    Names = {seed}
    TopK = 1
    MaxDocs = 4
    MaxFaults = 2
INVARIANTS OnlyReadyIsFound IndexFollows FoundWithoutFaults
PROPERTIES ImplementsActive
CHECK_DEADLOCK FALSE
