SPECIFICATION Spec
CONSTANTS
  Proposals = {p1}
  Customers = {c1}
  Keys = {k1}
  Values = {v1}
  None = None
  UnknownKeys = {}
  MaxFaults = 0
INVARIANT PendingIsRetryable
