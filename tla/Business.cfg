SPECIFICATION Spec
CONSTANTS
  Stock = 2
  Opening = 2
  OpeningEscrow = 1
  Quantities = {1}
  Amounts = {1}
  Decisions <- MCDecisions
  Results = {"ACCEPTED"}
  MaxDonations = 2
  MaxOrders = 1
  MaxDeliveries = 1
  MaxClaims = 1
  Slots = {p, q}
  Keyed <- MCKeyed
  Bad = Bad
  NoFile = NoFile
  None = None
SYMMETRY Symmetry
INVARIANTS
  ServedIsDurable AnswersKept 
