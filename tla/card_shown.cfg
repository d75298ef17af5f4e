SPECIFICATION CardSpec
CONSTANTS
  Proposals = {p1}
  Customers = {c1}
  Keys = {k1}
  Values = {v1, v2}
  None = None
  UnknownKeys = {}
  MaxFaults = 0
INVARIANT ConfirmsWhatWasShown
