SPECIFICATION Spec
CONSTANTS
    Procs = {service, seed}
    Service = service
    Domains = {playbook}
    Names = {faq}
    TopK = 1
    MaxDocs = 3
    MaxFaults = 0
PROPERTIES NoInterruption
CHECK_DEADLOCK FALSE
