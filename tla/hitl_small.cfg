SPECIFICATION Spec
CONSTANTS
  Proposals = {p1, p2}
  Customers = {c1}
  Keys = {k1}
  Values = {v1}
  None = None
  UnknownKeys = {}
  MaxFaults = 1
SYMMETRY ProposalSymmetry
INVARIANTS SinglePending AppliedAtMostOnce
PROPERTIES FinalStatusesStick ImplementsHumanGate
