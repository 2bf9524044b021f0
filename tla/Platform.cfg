SPECIFICATION PlatformSpec
CONSTANTS
  sam = sam
  dee = dee
  ann = ann
  cas = cas
  rex = rex
  ws = ws
  wd = wd
  wa = wa
  wc = wc
  wr = wr
  wx = wx
  S = S
  B = B
  R = R
  QuoteIds = {q}
  ReservationIds = {r}
  ContractIds = {c}
  EscrowIds = {e}
  BatchIds = {b}
  AssignmentIds <- MCAssignmentIds
  PaymentIds = {}
  QuoteInputs <- MCQuoteInputs
  Buyers <- MCBuyers
  People <- MCPeople
  Tasks = {t}
  Wallets = {ws, wd, wa, wc, wr, wx}
  Nonces = {n}
  TxHashes = {h}
  Quantities = {1}
  Times = {0, 1}
  Values = {1}
  MaxWei = 4
  MaxVersion = 1
  None = None
  MaxFiles = 3
  MaxCommands = 11
  Offers <- MCOffers
  MaxInvitations = 2
  Staff <- MCStaff
  Users <- MCUsers
  HomeWallet <- MCHomeWallet
  Rebinds <- MCRebinds
  Leavers = {dee, ann}
  MaxUploads = 2
  Admin = Admin
INVARIANTS
  PostsExclusive
  EvidenceWithinQuota
  PayablesAttested
  
CHECK_DEADLOCK FALSE
