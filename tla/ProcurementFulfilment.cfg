SPECIFICATION Spec
CONSTANTS
  QuoteIds = {q1}
  ReservationIds = {r1}
  ContractIds = {c1}
  EscrowIds = {e1}
  BatchIds = {b1, b2, b3}
  AssignmentIds = {a1}
  PaymentIds = {m1, m2}
  QuoteInputs <- FulfilmentOffers
  Buyers <- ContractingBuyers
  People <- FulfilmentPeople
  Tasks = {t1}
  Wallets = {w1, w2, w3, w4, w5}
  Nonces = {n1}
  TxHashes = {h1, h2, h3}
  Quantities = {1, 2, 3}
  Times = {0, 1}
  Values = {2, 4, 6}
  MaxWei = 6
  MaxVersion = 1
  None = None
  w1 = w1  w2 = w2  w3 = w3  w4 = w4  w5 = w5
  o1 = o1  o2 = o2  o3 = o3
SYMMETRY FulfilmentSymmetry
INVARIANTS
  FulfilmentIsBacked TxHashesUsedOnce FinanceNeverAssesses PaymentsAreEarned
PROPERTIES
  SettlementIsFinal
CHECK_DEADLOCK FALSE
