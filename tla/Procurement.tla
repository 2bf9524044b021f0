----------------------------- MODULE Procurement -----------------------------
(***************************************************************************)
(* The procurement domain of backend/procurement-domain.js: quotes,        *)
(* reservations, versioned contracts signed by two wallets, the escrow     *)
(* behind a contract, delivered batches, their acceptance and review, the  *)
(* payables derived from them and the payments that settle the payables.   *)
(*                                                                         *)
(* One action per command handler.  Every handler runs on a private copy   *)
(* of the state that replaces the old one only when the handler returns    *)
(* (execute), so a command that throws is no step, and a retry that finds  *)
(* its own earlier result (the same signature, escrow, payable or payment) *)
(* is a stuttering step.                                                   *)
(*                                                                         *)
(* Data the handlers only copy (resource ids, hashes, reasons, chain       *)
(* configuration, signature bytes) is left out.  A signature is the wallet *)
(* verifyTypedData recovers from it; a receipt is the fields of it that    *)
(* are compared with the contract.                                         *)
(***************************************************************************)
EXTENDS Sequences, Sums

CONSTANTS
  QuoteIds, ReservationIds, ContractIds, EscrowIds,
  BatchIds, AssignmentIds, PaymentIds,  \* business ids the callers choose
  QuoteInputs,   \* quotes a supplier may offer
  Buyers,        \* buying parties: [wallet, organizationId]
  People,        \* actors: [id, wallet, organizationId]
  Tasks, Wallets, Nonces, TxHashes,
  Quantities,    \* quantities a caller may ask for
  Times,         \* values of the caller-supplied clock and of deadlines
  Values,        \* wei values a receipt may carry
  MaxWei,        \* the largest amount a uint256 holds
  MaxVersion,    \* bound on the versions of one contract
  None           \* null

ASSUME NoneAssumption ==
  /\ None \notin EscrowIds \cup TxHashes \cup ContractIds
  /\ None \notin People \cup AssignmentIds
ASSUME NumbersAssumption ==
  /\ Quantities \subseteq Nat \ {0}
  /\ Times \subseteq Nat
  /\ Values \subseteq Nat
  /\ MaxWei \in Nat
  /\ MaxVersion \in Nat \ {0}

Sides == {"buyer", "supplier"}
PartyRecord == [wallet : Wallets, organizationId : {x.organizationId : x \in Buyers}
                                    \cup {x.supplier.organizationId : x \in QuoteInputs}]

ASSUME PartiesAssumption ==
  /\ Buyers \subseteq PartyRecord
  /\ \A x \in QuoteInputs :
       x \in [supplier : PartyRecord, unitPrice : Nat \ {0},
              available : Nat \ {0}, validUntil : Nat]

VARIABLES
  quotes,        \* quote id       -> quote, with the quantity still available
  reservations,  \* reservation id -> reservation
  contracts,     \* contract id    -> versions, signatures and status
  escrows,       \* escrow id      -> confirmed escrow
  batches,       \* batch id       -> delivery, acceptance, review
  payables,      \* batch id       -> payable ("payable:<batch>")
  payments       \* payment id     -> payment

vars == <<quotes, reservations, contracts, escrows, batches, payables, payments>>

-----------------------------------------------------------------------------
(* Helpers shared by the handlers *)

\* A collection with the entry of key k replaced or added.
Put(f, k, v) == [x \in DOMAIN f \cup {k} |-> IF x = k THEN v ELSE f[x]]

Version(c) == Len(contracts[c].versions)
Current(c) == contracts[c].versions[Version(c)]

Fresh(deadline, now) == deadline > now
SamePerson(p, q) == p.id = q.id \/ p.wallet = q.wallet
IsParty(p, side) == p.wallet = side.wallet \/ p.organizationId = side.organizationId

PayableWei(price, quantity) == price * quantity
ContractValue(terms) == PayableWei(terms.unitPrice, terms.quantity)

BatchesOf(c)  == {b \in DOMAIN batches : batches[b].contract = c}
PaymentsOf(c) == {m \in DOMAIN payments : payments[m].contract = c}
PayablesOf(c) == {b \in DOMAIN payables : payables[b].contract = c}

\* The sums the handlers compute with reduce().
Delivered(c)    == Total([b \in BatchesOf(c) |-> batches[b].delivered])
PayableUnits(c) == Total([b \in PayablesOf(c) |-> payables[b].accepted])
PayableTotal(c) == Total([b \in PayablesOf(c) |-> payables[b].amount])

NonceUsed(buyer, nonce) ==
  \E c \in DOMAIN contracts : \E v \in DOMAIN contracts[c].versions :
    /\ contracts[c].versions[v].buyer.wallet = buyer.wallet
    /\ contracts[c].versions[v].nonce = nonce

\* The conditions termsFor puts on a version built from reservation r ...
TermsAdmitted(r, nonce, expiresAt, now) ==
  LET res == reservations[r]
      quote == quotes[res.quote]
  IN  /\ Fresh(quote.validUntil, now)
      /\ Fresh(expiresAt, now)
      /\ expiresAt <= quote.validUntil
      /\ ~NonceUsed(res.buyer, nonce)
      /\ PayableWei(quote.unitPrice, res.quantity) <= MaxWei

\* ... and the version it returns.
TermsFor(r, nonce, expiresAt) ==
  LET res == reservations[r]
      quote == quotes[res.quote]
  IN  [reservation |-> r, task |-> res.task, quantity |-> res.quantity,
       unitPrice |-> quote.unitPrice, buyer |-> res.buyer,
       supplier |-> quote.supplier, nonce |-> nonce, expiresAt |-> expiresAt]

FulfilledContract(c) ==
  /\ contracts[c].status \in {"FUNDS_RESERVED", "IN_FULFILLMENT"}
  /\ contracts[c].escrow \in DOMAIN escrows
  /\ LET e == escrows[contracts[c].escrow]
     IN  /\ e.contract = c
         /\ e.version = Version(c)
         /\ e.value = ContractValue(Current(c))

\* Mutant: compares accounts but not wallets.
NotFinanceAccount(c, p) == \A m \in PaymentsOf(c) : payments[m].financeActor.id # p.id
NotFinanceParticipant(c, p) ==
  \A m \in PaymentsOf(c) : ~SamePerson(payments[m].financeActor, p)

IndependentReviewer(b, p) ==
  LET batch == batches[b]
      terms == Current(batch.contract)
  IN  /\ ~IsParty(p, terms.buyer)
      /\ ~IsParty(p, terms.supplier)
      /\ ~SamePerson(p, batch.deliveryActor)
      /\ ~SamePerson(p, batch.acceptance)
      /\ NotFinanceParticipant(batch.contract, p)

\* May payableFor return a payable for batch b: the existing one, or a new one
\* whose quantity and amount still fit in the contract?
PayableAdmitted(b) ==
  LET batch == batches[b]
      c == batch.contract
      terms == Current(c)
  IN  /\ batch.status \in {"ACCEPTED", "PARTIAL"}
      /\ batch.accepted > 0
      /\ b \notin DOMAIN payables =>
           /\ FulfilledContract(c)
           /\ batch.version = Version(c)
           /\ PayableUnits(c) + batch.accepted <= terms.quantity
           /\ PayableTotal(c) + PayableWei(terms.unitPrice, batch.accepted)
                <= ContractValue(terms)

NewPayable(b, units) ==
  LET terms == Current(batches[b].contract)
  IN  [contract |-> batches[b].contract, version |-> Version(batches[b].contract),
       accepted |-> units, amount |-> PayableWei(terms.unitPrice, units),
       to |-> terms.supplier.wallet, status |-> "PAYABLE"]

\* Mutant: bills again what is already billed.
PayableAfresh(b) == NewPayable(b, batches[b].accepted)
PayableFor(b) ==
  IF b \in DOMAIN payables THEN payables[b] ELSE NewPayable(b, batches[b].accepted)

TxHashUsed(h) ==
  \/ \E e \in DOMAIN escrows : escrows[e].txHash = h
  \/ \E m \in DOMAIN payments : payments[m].txHash = h

-----------------------------------------------------------------------------
(* Quotes, reservations and contracts *)

Init ==
  /\ quotes = <<>> /\ reservations = <<>> /\ contracts = <<>> /\ escrows = <<>>
  /\ batches = <<>> /\ payables = <<>> /\ payments = <<>>

\* `offered` is a history field: the quantity the quote was opened with.
AddQuote(q, input) ==
  /\ q \notin DOMAIN quotes
  /\ quotes' = Put(quotes, q,
       [supplier |-> input.supplier, unitPrice |-> input.unitPrice,
        available |-> input.available, validUntil |-> input.validUntil,
        offered |-> input.available])
  /\ UNCHANGED <<reservations, contracts, escrows, batches, payables, payments>>

Offered(q, quantity, buyer, now) ==
  /\ Fresh(quotes[q].validUntil, now)
  /\ quantity <= quotes[q].available
  /\ ~IsParty(buyer, quotes[q].supplier)

Reserve(r, q, task, quantity, buyer, now) ==
  /\ r \notin DOMAIN reservations
  /\ q \in DOMAIN quotes
  /\ Offered(q, quantity, buyer, now)
  /\ quotes' = [quotes EXCEPT ![q].available = @ - quantity]
  /\ reservations' = Put(reservations, r,
       [quote |-> q, task |-> task, quantity |-> quantity, buyer |-> buyer,
        status |-> "RESERVED", contract |-> None])
  /\ UNCHANGED <<contracts, escrows, batches, payables, payments>>

CreateContract(c, r, nonce, expiresAt, now) ==
  /\ c \notin DOMAIN contracts
  /\ r \in DOMAIN reservations
  /\ reservations[r].status = "RESERVED"
  /\ TermsAdmitted(r, nonce, expiresAt, now)
  /\ contracts' = Put(contracts, c,
       [versions |-> <<TermsFor(r, nonce, expiresAt)>>, status |-> "DRAFT",
        signatures |-> {}, signatureHistory |-> <<>>, escrow |-> None])
  /\ reservations' = [reservations EXCEPT ![r].status = "BOUND", ![r].contract = c]
  /\ UNCHANGED <<quotes, escrows, batches, payables, payments>>

\* May c move to a version built from reservation r?  Mutant: although
\* its escrow is confirmed.
FreeFor(c, r) == r = Current(c).reservation \/ reservations[r].status = "RESERVED"
SameDeal(c, r) ==
  /\ BatchesOf(c) = {}
  /\ reservations[r].buyer = Current(c).buyer
  /\ reservations[r].task = Current(c).task
RevisableAfterEscrow(c, r) == SameDeal(c, r) /\ FreeFor(c, r)
Revisable(c, r) == SameDeal(c, r) /\ FreeFor(c, r) /\ contracts[c].escrow = None

\* The quotes with the quantity of reservation r given back.  Mutant: it is not.
KeptFromStock(r) == quotes
Restocked(r) ==
  [quotes EXCEPT ![reservations[r].quote].available = @ + reservations[r].quantity]

\* Mutant: signatures carry over to the new version.
NewVersionStillSigned(contract, terms) ==
  [contract EXCEPT !.versions = Append(@, terms), !.status = "DRAFT"]
NewVersion(contract, terms) ==
  [contract EXCEPT !.versions = Append(@, terms), !.signatures = {}, !.status = "DRAFT"]

\* A new version either keeps the reservation of the last one or moves to a
\* free reservation of the same buyer and task, giving the old one's quantity
\* back to its quote.
ReviseContract(c, r, nonce, expiresAt, now) ==
  LET old == Current(c).reservation
  IN  /\ c \in DOMAIN contracts
      /\ r \in DOMAIN reservations
      /\ Revisable(c, r)
      /\ Version(c) < MaxVersion
      /\ TermsAdmitted(r, nonce, expiresAt, now)
      /\ IF r = old THEN UNCHANGED <<quotes, reservations>>
         ELSE /\ quotes' = Restocked(old)
              /\ reservations' = [reservations EXCEPT
                                    ![old].status = "RELEASED",
                                    ![r].status = "BOUND", ![r].contract = c]
      /\ contracts' = [contracts EXCEPT ![c] = NewVersion(@, TermsFor(r, nonce, expiresAt))]
      /\ UNCHANGED <<escrows, batches, payables, payments>>

\* A second signature of the same party is the idempotent retry or
\* PARTY_ALREADY_SIGNED; neither changes the state.
SignContract(c, version, side, signer, now) ==
  /\ c \in DOMAIN contracts
  /\ version = Version(c)
  /\ Fresh(Current(c).expiresAt, now)
  /\ signer = Current(c)[side].wallet
  /\ side \notin contracts[c].signatures
  /\ BatchesOf(c) = {}
  /\ LET signed == contracts[c].signatures \cup {side}
     IN  contracts' = [contracts EXCEPT
           ![c].signatures = signed,
           ![c].signatureHistory = Append(@, [version |-> version, side |-> side]),
           ![c].status = IF signed = Sides THEN "FUNDS_RESERVABLE"
                                           ELSE "PARTIALLY_SIGNED"]
  /\ UNCHANGED <<quotes, reservations, escrows, batches, payables, payments>>

\* Mutant: any value will do.
EscrowOfAnyValue(c, version, receipt) == receipt.contract = c /\ receipt.version = version
EscrowMatches(c, version, receipt) ==
  receipt = [contract |-> c, version |-> version, value |-> ContractValue(Current(c))]

RecordEscrowConfirmed(c, version, e, h, receipt) ==
  /\ c \in DOMAIN contracts
  /\ version = Version(c)
  /\ contracts[c].signatures = Sides
  /\ contracts[c].status \in {"FUNDS_RESERVABLE", "FUNDS_RESERVED", "IN_FULFILLMENT"}
  /\ EscrowMatches(c, version, receipt)
  /\ \A x \in DOMAIN escrows : escrows[x].contract # c
  /\ e \notin DOMAIN escrows
  /\ ~TxHashUsed(h)
  /\ escrows' = Put(escrows, e, [contract |-> c, version |-> version,
                                 value |-> receipt.value, txHash |-> h])
  /\ contracts' = [contracts EXCEPT ![c].escrow = e, ![c].status = "FUNDS_RESERVED"]
  /\ UNCHANGED <<quotes, reservations, batches, payables, payments>>

-----------------------------------------------------------------------------
(* Deliveries, their assessment and their payment *)

Ordered(c, quantity) == Delivered(c) + quantity <= Current(c).quantity

DeliverBatch(b, c, quantity, p) ==
  /\ b \notin DOMAIN batches
  /\ c \in DOMAIN contracts
  /\ FulfilledContract(c)
  /\ Ordered(c, quantity)
  /\ IsParty(p, Current(c).supplier)
  /\ batches' = Put(batches, b,
       [contract |-> c, version |-> Version(c), delivered |-> quantity,
        accepted |-> 0, deliveryActor |-> p, status |-> "DELIVERED",
        acceptance |-> None, assignments |-> <<>>, review |-> None])
  /\ contracts' = [contracts EXCEPT ![c].status = "IN_FULFILLMENT"]
  /\ UNCHANGED <<quotes, reservations, escrows, payables, payments>>

OutcomeMatches(outcome, accepted, delivered) ==
  CASE outcome = "ACCEPTED" -> accepted = delivered
    [] outcome = "PARTIAL"  -> accepted > 0 /\ accepted < delivered
    [] OTHER                -> accepted = 0

AcceptBatch(b, outcome, accepted, p) ==
  /\ b \in DOMAIN batches
  /\ batches[b].status = "DELIVERED"
  /\ LET terms == Current(batches[b].contract)
     IN  /\ p.wallet # terms.buyer.wallet
         /\ ~IsParty(p, terms.supplier)
  /\ ~SamePerson(p, batches[b].deliveryActor)
  /\ NotFinanceParticipant(batches[b].contract, p)
  /\ accepted <= batches[b].delivered
  /\ OutcomeMatches(outcome, accepted, batches[b].delivered)
  /\ batches' = [batches EXCEPT ![b].status = outcome, ![b].accepted = accepted,
                                ![b].acceptance = p]
  /\ UNCHANGED <<quotes, reservations, contracts, escrows, payables, payments>>

\* Mutant: any assessed batch can be reviewed.
Assessed(b) == batches[b].status # "DELIVERED"
UnderReview(b) == batches[b].status = "DISPUTED"

AssignReviewer(b, a, p) ==
  /\ b \in DOMAIN batches
  /\ UnderReview(b)
  /\ \A x \in DOMAIN batches : \A i \in DOMAIN batches[x].assignments :
       batches[x].assignments[i].id # a
  /\ IndependentReviewer(b, p)
  /\ batches' = [batches EXCEPT ![b].assignments = Append(@, [id |-> a, reviewer |-> p])]
  /\ UNCHANGED <<quotes, reservations, contracts, escrows, payables, payments>>

ReviewOutcome(accepted, delivered) ==
  CASE accepted = 0         -> "REJECTED"
    [] accepted = delivered -> "ACCEPTED"
    [] OTHER                -> "PARTIAL"

\* Only the last assignment counts; without any, only a command that names
\* none is taken.
ResolveDispute(b, accepted, p, a) ==
  /\ b \in DOMAIN batches
  /\ UnderReview(b)
  /\ IndependentReviewer(b, p)
  /\ LET assigned == batches[b].assignments
     IN  IF assigned = <<>> THEN a = None
         ELSE assigned[Len(assigned)] = [id |-> a, reviewer |-> p]
  /\ accepted <= batches[b].delivered
  /\ batches' = [batches EXCEPT
       ![b].status = ReviewOutcome(accepted, batches[b].delivered),
       ![b].accepted = accepted, ![b].review = p]
  /\ UNCHANGED <<quotes, reservations, contracts, escrows, payables, payments>>

DerivePayable(b) ==
  /\ b \in DOMAIN batches
  /\ PayableAdmitted(b)
  /\ payables' = Put(payables, b, PayableFor(b))
  /\ UNCHANGED <<quotes, reservations, contracts, escrows, batches, payments>>

MarkPaymentPending(b, m, p) ==
  LET c == batches[b].contract
      terms == Current(c)
      payable == PayableFor(b)
  IN  /\ b \in DOMAIN batches
      /\ FulfilledContract(c)
      /\ p.wallet # terms.buyer.wallet
      /\ ~IsParty(p, terms.supplier)
      /\ \A x \in BatchesOf(c) :
           /\ batches[x].acceptance # None => ~SamePerson(p, batches[x].acceptance)
           /\ batches[x].review # None => ~SamePerson(p, batches[x].review)
      /\ \A x \in DOMAIN payments : payments[x].batch # b
      /\ m \notin DOMAIN payments
      /\ PayableAdmitted(b)
      /\ payable.status = "PAYABLE"
      /\ payments' = Put(payments, m,
           [batch |-> b, contract |-> c, version |-> Version(c),
            escrow |-> contracts[c].escrow, to |-> payable.to,
            value |-> payable.amount, financeActor |-> p,
            status |-> "PAYMENT_PENDING", txHash |-> None])
      /\ payables' = Put(payables, b, [payable EXCEPT !.status = "PAYMENT_PENDING"])
      /\ UNCHANGED <<quotes, reservations, contracts, escrows, batches>>

\* Mutant: forgets the hashes of the escrows.
UnpaidHash(m, h) == \A x \in DOMAIN payments : x # m => payments[x].txHash # h
UnusedHash(m, h) ==
  /\ \A x \in DOMAIN payments : x # m => payments[x].txHash # h
  /\ \A e \in DOMAIN escrows : escrows[e].txHash # h

\* On a PAID payment the handler either recognises the same transaction again
\* or throws PAYMENT_ALREADY_PAID.
ConfirmPayment(m, h, receipt) ==
  /\ m \in DOMAIN payments
  /\ receipt = [to |-> payments[m].to, value |-> payments[m].value]
  /\ UnusedHash(m, h)
  /\ payments[m].status = "PAYMENT_PENDING"
  /\ payments' = [payments EXCEPT ![m].status = "PAID", ![m].txHash = h]
  /\ payables' = [payables EXCEPT ![payments[m].batch].status = "PAID"]
  /\ UNCHANGED <<quotes, reservations, contracts, escrows, batches>>

-----------------------------------------------------------------------------
Outcomes == {"ACCEPTED", "PARTIAL", "REJECTED", "DISPUTED"}

Contracting ==
  \/ \E q \in QuoteIds, input \in QuoteInputs : AddQuote(q, input)
  \/ \E r \in ReservationIds, q \in QuoteIds, task \in Tasks, n \in Quantities,
        buyer \in Buyers, now \in Times : Reserve(r, q, task, n, buyer, now)
  \/ \E c \in ContractIds, r \in ReservationIds, nonce \in Nonces, t, now \in Times :
        \/ CreateContract(c, r, nonce, t, now)
        \/ ReviseContract(c, r, nonce, t, now)
  \/ \E c \in ContractIds, v \in 1..MaxVersion, side \in Sides, w \in Wallets,
        now \in Times : SignContract(c, v, side, w, now)
  \/ \E c \in ContractIds, v \in 1..MaxVersion, e \in EscrowIds, h \in TxHashes :
        \E receipt \in [contract : ContractIds, version : 1..MaxVersion, value : Values] :
          RecordEscrowConfirmed(c, v, e, h, receipt)

Fulfilment ==
  \/ \E b \in BatchIds, c \in ContractIds, n \in Quantities, p \in People :
        DeliverBatch(b, c, n, p)
  \/ \E b \in BatchIds, n \in Quantities \cup {0}, p \in People :
        \/ \E outcome \in Outcomes : AcceptBatch(b, outcome, n, p)
        \/ \E a \in AssignmentIds \cup {None} : ResolveDispute(b, n, p, a)
  \/ \E b \in BatchIds, a \in AssignmentIds, p \in People : AssignReviewer(b, a, p)

Settlement ==
  \/ \E b \in BatchIds : DerivePayable(b)
  \/ \E b \in BatchIds, m \in PaymentIds, p \in People : MarkPaymentPending(b, m, p)
  \/ \E m \in PaymentIds, h \in TxHashes, receipt \in [to : Wallets, value : Values] :
        ConfirmPayment(m, h, receipt)

Next == Contracting \/ Fulfilment \/ Settlement
Spec == Init /\ [][Next]_vars
-----------------------------------------------------------------------------
(* Properties *)

Terms == [reservation : ReservationIds, task : Tasks, quantity : Quantities,
          unitPrice : Nat \ {0}, buyer : PartyRecord, supplier : PartyRecord,
          nonce : Nonces, expiresAt : Times]
ContractStatus == {"DRAFT", "PARTIALLY_SIGNED", "FUNDS_RESERVABLE",
                   "FUNDS_RESERVED", "IN_FULFILLMENT"}

QuoteRecord == [supplier : PartyRecord, unitPrice : Nat \ {0}, available : Nat,
                validUntil : Nat, offered : Nat]
ReservationRecord ==
  [quote : QuoteIds, task : Tasks, quantity : Quantities, buyer : PartyRecord,
   status : {"RESERVED", "BOUND", "RELEASED"}, contract : ContractIds \cup {None}]
ContractRecord ==
  [versions : Seq(Terms) \ {<<>>}, status : ContractStatus, signatures : SUBSET Sides,
   signatureHistory : Seq([version : Nat, side : Sides]), escrow : EscrowIds \cup {None}]
EscrowRecord == [contract : ContractIds, version : Nat \ {0}, value : Nat, txHash : TxHashes]
BatchRecord ==
  [contract : ContractIds, version : Nat \ {0}, delivered : Quantities, accepted : Nat,
   deliveryActor : People, status : Outcomes \cup {"DELIVERED"},
   acceptance : People \cup {None}, review : People \cup {None},
   assignments : Seq([id : AssignmentIds, reviewer : People])]
PayableRecord ==
  [contract : ContractIds, version : Nat \ {0}, accepted : Nat, amount : Nat,
   to : Wallets, status : {"PAYABLE", "PAYMENT_PENDING", "PAID"}]
PaymentRecord ==
  [batch : BatchIds, contract : ContractIds, version : Nat \ {0}, escrow : EscrowIds,
   to : Wallets, value : Nat, financeActor : People,
   status : {"PAYMENT_PENDING", "PAID"}, txHash : TxHashes \cup {None}]

Collection(f, ids, R) == DOMAIN f \subseteq ids /\ f \in [DOMAIN f -> R]

\* Every entry refers to entries that exist.
NoDanglingIds ==
  /\ \A r \in DOMAIN reservations : reservations[r].quote \in DOMAIN quotes
  /\ \A c \in DOMAIN contracts : \A v \in DOMAIN contracts[c].versions :
       contracts[c].versions[v].reservation \in DOMAIN reservations
  /\ \A e \in DOMAIN escrows : escrows[e].contract \in DOMAIN contracts
  /\ \A b \in DOMAIN batches : batches[b].contract \in DOMAIN contracts
  /\ \A b \in DOMAIN payables :
       b \in DOMAIN batches /\ payables[b].contract = batches[b].contract
  /\ \A m \in DOMAIN payments :
       /\ payments[m].batch \in DOMAIN payables
       /\ payments[m].contract = batches[payments[m].batch].contract

\* Every collection holds well-formed entries under ids of its own kind.
TypeOK ==
  /\ Collection(quotes, QuoteIds, QuoteRecord)
  /\ Collection(reservations, ReservationIds, ReservationRecord)
  /\ Collection(contracts, ContractIds, ContractRecord)
  /\ Collection(escrows, EscrowIds, EscrowRecord)
  /\ Collection(batches, BatchIds, BatchRecord)
  /\ Collection(payables, BatchIds, PayableRecord)
  /\ Collection(payments, PaymentIds, PaymentRecord)
  /\ NoDanglingIds

IsPrefix(s, t) == Len(s) <= Len(t) /\ \A i \in DOMAIN s : t[i] = s[i]

\* The quantities the live reservations of a quote hold.
Live(q) ==
  {r \in DOMAIN reservations : reservations[r].quote = q /\ reservations[r].status # "RELEASED"}
Pledged(q) == [r \in Live(q) |-> reservations[r].quantity]

\* A quote never promises more than it was opened with: what is still
\* available plus what live reservations hold is the quantity offered, across
\* reserve and the restocking of reviseContract.
StockConserved ==
  \A q \in DOMAIN quotes : quotes[q].available + Total(Pledged(q)) = quotes[q].offered

\* A reservation is BOUND exactly while it backs the current version of the
\* one contract it names: revisions neither strand a reservation nor let two
\* contracts share one.
ReservationsBackOneContract ==
  /\ \A c \in DOMAIN contracts :
       LET r == Current(c).reservation
       IN  /\ r \in DOMAIN reservations
           /\ reservations[r].status = "BOUND"
           /\ reservations[r].contract = c
  /\ \A r \in DOMAIN reservations : reservations[r].status = "BOUND" =>
       /\ reservations[r].contract \in DOMAIN contracts
       /\ Current(reservations[r].contract).reservation = r

\* What is promised from a quote exists, and once: addQuote, reserve and the
\* restocking of reviseContract keep both.
StockIsBacked == StockConserved /\ ReservationsBackOneContract

\* Goods and money move only behind a contract whose current version both
\* parties signed and whose full value is confirmed in an escrow of its own;
\* every batch, payable and payment belongs to that version.
FulfilmentIsBacked ==
  /\ \A c \in DOMAIN contracts :
       contracts[c].status \in {"FUNDS_RESERVED", "IN_FULFILLMENT"} =>
         /\ FulfilledContract(c)
         /\ contracts[c].signatures = Sides
  /\ \A b \in DOMAIN batches :
       /\ contracts[batches[b].contract].status = "IN_FULFILLMENT"
       /\ batches[b].version = Version(batches[b].contract)
  /\ \A m \in DOMAIN payments :
       /\ payments[m].escrow = contracts[payments[m].contract].escrow
       /\ payments[m].contract = batches[payments[m].batch].contract

\* The signatures in force are exactly the history entries of the current
\* version: a signature of an earlier version never carries over.
SignaturesAreOfCurrentVersion ==
  \A c \in DOMAIN contracts : \A side \in Sides :
    side \in contracts[c].signatures <=>
      \E i \in DOMAIN contracts[c].signatureHistory :
        contracts[c].signatureHistory[i] = [version |-> Version(c), side |-> side]

SameNonce(x, y) == x.buyer.wallet = y.buyer.wallet /\ x.nonce = y.nonce

\* A buyer wallet never signs two versions under one nonce, in one contract or
\* in two.
NoncesUsedOnce ==
  \A c, d \in DOMAIN contracts :
    \A v \in DOMAIN contracts[c].versions, w \in DOMAIN contracts[d].versions :
      SameNonce(contracts[c].versions[v], contracts[d].versions[w]) => c = d /\ v = w

\* A signature binds to one version of one contract: neither signContract,
\* reviseContract nor a nonce used before carries it over to other terms.
SignaturesBind == SignaturesAreOfCurrentVersion /\ NoncesUsedOnce

\* One chain transaction confirms one thing: no two escrows, no two payments,
\* and no escrow and payment share a transaction hash.
TxHashesUsedOnce ==
  /\ \A e, f \in DOMAIN escrows : escrows[e].txHash = escrows[f].txHash => e = f
  /\ \A m, n \in DOMAIN payments :
       payments[m].txHash = payments[n].txHash /\ payments[m].txHash # None => m = n
  /\ \A e \in DOMAIN escrows, m \in DOMAIN payments :
       escrows[e].txHash # payments[m].txHash

\* Whoever acted as finance on a contract accepted and reviewed none of its
\* batches, in whichever order the commands arrived and however many batches
\* lie between them.
FinanceNeverAssesses ==
  \A m \in DOMAIN payments, b \in DOMAIN batches :
    payments[m].contract = batches[b].contract =>
      /\ batches[b].acceptance # None
           => ~SamePerson(payments[m].financeActor, batches[b].acceptance)
      /\ batches[b].review # None
           => ~SamePerson(payments[m].financeActor, batches[b].review)

\* A payable states what was finally accepted: its batch can no longer change
\* and the amount is the contract price of the accepted units.
PayablesMatchAcceptance ==
  \A b \in DOMAIN payables :
    LET batch == batches[b]
        terms == Current(batch.contract)
    IN  /\ batch.status \in {"ACCEPTED", "PARTIAL"}
        /\ payables[b].contract = batch.contract
        /\ payables[b].accepted = batch.accepted
        /\ payables[b].amount = PayableWei(terms.unitPrice, batch.accepted)
        /\ payables[b].to = terms.supplier.wallet

\* Payables and payments advance together, and a batch is paid at most once:
\* a payable leaves PAYABLE exactly when a payment of its batch exists, whose
\* status, amount and payee it shares.
PaymentsMirrorPayables ==
  /\ \A m \in DOMAIN payments :
       LET payable == payables[payments[m].batch]
       IN  /\ payable.status = payments[m].status
           /\ payable.amount = payments[m].value
           /\ payable.to = payments[m].to
  /\ \A b \in DOMAIN payables : payables[b].status # "PAYABLE" =>
       \E m \in DOMAIN payments : payments[m].batch = b
  /\ \A m, n \in DOMAIN payments : payments[m].batch = payments[n].batch => m = n

\* What a contract pays out stays within what its escrow holds, and what is
\* delivered within what was ordered, whatever the split into batches.
PayoutsWithinEscrow ==
  \A c \in DOMAIN contracts :
    /\ Delivered(c) <= Current(c).quantity
    /\ PaymentsOf(c) # {} =>
         Total([m \in PaymentsOf(c) |-> payments[m].value])
           <= escrows[contracts[c].escrow].value

\* What is paid was delivered, accepted and covered, batch by batch and in sum,
\* whatever is derived, retried or disputed in between.
PaymentsAreEarned ==
  PayablesMatchAcceptance /\ PaymentsMirrorPayables /\ PayoutsWithinEscrow

\* What a step leaves of contract c: all of it once its escrow is confirmed.
TermsKept(c) ==
  /\ contracts[c].escrow # None =>
       /\ contracts'[c].versions = contracts[c].versions
       /\ contracts'[c].signatures = contracts[c].signatures
       /\ contracts'[c].escrow = contracts[c].escrow
       /\ contracts'[c].status \in {"FUNDS_RESERVED", "IN_FULFILLMENT"}
  /\ IsPrefix(contracts[c].versions, contracts'[c].versions)
  /\ IsPrefix(contracts[c].signatureHistory, contracts'[c].signatureHistory)

\* Once the escrow of a contract is confirmed nothing both parties signed can
\* change any more, and the signed history only ever grows.
FundedTermsFrozen == [][\A c \in DOMAIN contracts : TermsKept(c)]_vars

\* An assessment is made once and settles: a batch with a payable keeps its
\* quantities and assessors, and a PAID payment never changes again.
SettlementIsFinal ==
  [][/\ \A b \in DOMAIN payables : batches'[b] = batches[b]
     /\ \A m \in DOMAIN payments :
          payments[m].status = "PAID" => payments'[m] = payments[m]]_vars
=============================================================================
