\* One run: restarts, lost connections and requests while the worker appends.
SPECIFICATION Spec
CONSTANTS
    Hosts = {h1}
    Limit = 2
    MaxEvents = 4
    MaxEras = 2
    MaxBreaks = 1
INVARIANTS
    NumbersGrow
    InOrderOnce
    NothingSkipped
PROPERTIES
    StreamDelivers
