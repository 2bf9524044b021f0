SPECIFICATION Spec
CONSTANTS
  DonationIds = {d1, d2}
  TaskIds = {t1, t2}
  ContractIds = {c1, c2}
  PaymentIds = {m1, m2}
  RefundIds = {f1}
  BatchIds = {b1, b2}
  Wallets = {donor, supplier}
  Payees = {supplier}
  Purposes = {food, water}
  AnyPurpose = AnyPurpose
  Projects = {flood}
  None = None
  Gifts <- SmallGifts
  TaskInputs <- SmallTasks
  Amounts = {1, 2}
  donor = donor  supplier = supplier
  food = food  water = water
  flood = flood
SYMMETRY Symmetry
INVARIANTS
  MoneyConserved SpentAsMeant
PROPERTIES
  OldestLockedFirst FlowSpec
CHECK_DEADLOCK FALSE
