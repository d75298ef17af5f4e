\* One proposal with two known keys and one that the CRM does not know.
SPECIFICATION FairCardSpec
CONSTANTS
  Proposals = {p1}
  Customers = {c1}
  Keys = {k1, k2, k3}
  Values = {v1}
  None = None
  UnknownKeys = {k3}
  MaxFaults = 1
INVARIANTS ConfirmedIsWritten ShownIsWritten
PROPERTIES EndpointReturns ConsumedIsCarriedOut
