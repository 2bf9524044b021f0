SPECIFICATION Spec
CONSTANTS
  QuoteIds = {q1, q2}
  ReservationIds = {r1, r2, r3}
  ContractIds = {c1, c2}
  EscrowIds = {e1, e2}
  BatchIds = {}
  AssignmentIds = {}
  PaymentIds = {}
  QuoteInputs <- ContractingOffers
  Buyers <- ContractingBuyers
  People = {}
  Tasks = {t1}
  Wallets = {w1, w2, w4}
  Nonces = {n1, n2, n3}
  TxHashes = {h1, h2}
  Quantities = {1, 2}
  Times = {0, 1}
  Values = {1, 2, 4}
  MaxWei = 4
  MaxVersion = 2
  None = None
  w1 = w1  w2 = w2  w3 = w3  w4 = w4  w5 = w5
  o1 = o1  o2 = o2  o3 = o3
SYMMETRY ContractingSymmetry
INVARIANTS
  StockIsBacked SignaturesBind
PROPERTIES
  FundedTermsFrozen
CHECK_DEADLOCK FALSE
