SPECIFICATION Spec
CONSTANTS
  DonationIds = {d1, d2}
  TaskIds = {t1, t2, t3}
  RefundIds = {f1}
  Donors = {alice}
  Registrars = {r1}
  Nonces = {n1, n2}
  Purposes = {food, water}
  AnyPurpose = AnyPurpose
  Projects = {flood}
  None = None
  Offers <- SmallOffers
  TaskInputs <- SmallTasks
  Amounts = {1}
  MaxActiveTasks = 2
  MaxEpoch = 1
  MaxPermits = 2
  Backlog = 0
  alice = alice
  food = food  water = water
  flood = flood
SYMMETRY Symmetry
INVARIANTS
  BooksKept ProjectionFollows
PROPERTIES
  UrgentFirst PermitsStayDead
CHECK_DEADLOCK FALSE
