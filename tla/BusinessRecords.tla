--------------------------- MODULE BusinessRecords ---------------------------
(***************************************************************************)
(* The business records of backend/server.js and what its POST handlers do *)
(* to them, as functions of the state.  Can(s, op) says that the handler's *)
(* checks pass, Effect(s, op) is the state its callback leaves; write()    *)
(* around the callback is BusinessServer's.                                *)
(*                                                                         *)
(* Records are numbered in the order of their creation.  An order's price  *)
(* per unit is 1.  Left out: callers' roles and organisations, receipt     *)
(* numbers (assertUniqueReference), fiat amounts, delivered and accepted   *)
(* quantities (nothing reads them again), certificates, traces, the audit  *)
(* list, and tasks with their responses and awards.  PENDING stands for    *)
(* QUEUED and BROADCAST of a chain transaction, REVERTED for REVERTED,     *)
(* TIMEOUT and MANUAL_REVIEW.  TASK_APPROVED and DELIVERY_ACCEPTED only    *)
(* carry a hash and are left out too.                                      *)
(***************************************************************************)
EXTENDS Sequences, TLC, Greedy

CONSTANTS
  Stock,         \* of the one item on the market
  Opening,       \* MON that arrived before, escrowed MON included
  OpeningEscrow, \* what the contract of the demo data has escrowed
  Quantities,    \* of orders and deliveries
  Amounts,       \* of donations, settlements and redemptions
  Decisions,     \* what a compliance review may decide
  Results,       \* what an acceptance may find
  MaxDonations, MaxOrders, MaxDeliveries, MaxClaims  \* bounds on records

Outcomes == {"APPROVED", "FROZEN", "COMPLIANCE_REVIEW", "COMPLIANCE_REJECTED"}
Findings == {"ACCEPTED", "REJECTED", "DISPUTED"}

ASSUME RecordsAssumption ==
  /\ Stock \in Nat /\ Opening \in Nat /\ OpeningEscrow \in 1..Opening
  /\ Quantities \subseteq Nat \ {0} /\ Amounts \subseteq Nat \ {0}
  /\ {MaxDonations, MaxOrders, MaxDeliveries, MaxClaims} \subseteq Nat
  /\ Decisions \subseteq Outcomes
  /\ Results \subseteq Findings

Order    == [status : {"PENDING_REVIEW", "APPROVED", "REJECTED"}, quantity : Nat, contract : Nat]
Contract == [status : {"PENDING_APPROVAL", "FUNDS_RESERVATION_PENDING", "FUNDS_RESERVED",
                       "IN_PROGRESS", "PENDING_SETTLEMENT", "SETTLEMENT_PENDING", "SETTLED"}
                      \cup Findings,
             amount : Nat, planned : Nat, debited : BOOLEAN, settlement : Nat]
Donation == [status : {"PAYMENT_PENDING", "PAYMENT_CONFIRMED", "MON_REVIEW_PENDING",
                       "MON_DEPOSIT_PENDING", "MON_DEPOSIT_CONFIRMED"} \cup Outcomes,
             intent : Nat, mon : Nat, available : Nat, escrowed : Nat, locked : Nat]
Delivery == [contract : Nat, planned : Nat, status : {"IN_PROGRESS"} \cup Findings]
Claim    == [contract : Nat, amount : Nat,
             status : {"REQUESTED", "MON_LOCK_PENDING", "MON_LOCKED", "MANUAL_REVIEW", "PAID",
                       "SETTLEMENT_CHAIN_PENDING", "SETTLED"}]
Tx       == [action : {"MON_DEPOSIT", "ESCROW_CREATED", "MON_LOCKED", "MON_SETTLED"},
             of : Nat, status : {"PENDING", "CONFIRMED", "REVERTED"}]
Records ==
  [stock : Nat, orders : Seq(Order), contracts : Seq(Contract), donations : Seq(Donation),
   deliveries : Seq(Delivery), claims : Seq(Claim), txs : Seq(Tx)]

SumOver(seq, Value(_)) == Total([i \in DOMAIN seq |-> Value(seq[i])])

\* emptyState: one donation, the contract it pays, a stocked market.
EmptyState ==
  [stock |-> Stock,
   orders |-> <<>>,
   contracts |-> <<[status |-> "IN_PROGRESS", amount |-> OpeningEscrow, planned |-> 0,
                    debited |-> TRUE, settlement |-> 0]>>,
   donations |-> <<[status |-> "MON_DEPOSIT_CONFIRMED", intent |-> 0, mon |-> Opening,
                    available |-> Opening - OpeningEscrow, escrowed |-> OpeningEscrow,
                    locked |-> 0]>>,
   deliveries |-> <<>>,
   claims |-> <<>>,      \* redemptions
   txs |-> <<>>]

----------------------------------------------------------------------------
\* chainTransactions

\* chain: a transaction waits to be sent.
Queue(s, action, id) == Append(s.txs, [action |-> action, of |-> id, status |-> "PENDING"])

Confirmed(s, action, id) == \E k \in DOMAIN s.txs :
  s.txs[k] = [action |-> action, of |-> id, status |-> "CONFIRMED"]

Available(s) == SumOver(s.donations, LAMBDA d : d.available)

\* Take an amount from what is available, newest donation first, into a pot.
Taken(s, amount) ==
  LET available == [d \in DOMAIN s.donations |-> s.donations[d].available]
  IN  Greedy(amount, available, Ranking(DOMAIN available, LAMBDA x, y : x > y))
TakenInto(s, amount, pot) ==
  LET share == Taken(s, amount)
  IN  [d \in DOMAIN s.donations |->
         IF d \notin DOMAIN share THEN s.donations[d]
         ELSE [s.donations[d] EXCEPT !.available = @ - share[d], ![pot] = @ + share[d]]]

\* MON_LOCKED is confirmed.  Mutant: the redemption counts as locked although
\* less than its amount was left.
LockedAsFarAsPossible(s, r) ==
  [s EXCEPT !.donations = TakenInto(s, s.claims[r].amount, "locked"),
            !.claims[r].status = "MON_LOCKED"]
LockConfirmed(s, r) ==
  [s EXCEPT !.donations = TakenInto(s, s.claims[r].amount, "locked"),
            !.claims[r].status = IF Available(s) >= s.claims[r].amount THEN "MON_LOCKED"
                                 ELSE "MANUAL_REVIEW"]

\* applyChainResult of a confirmed transaction, confirmed again included.
Applied(s, tx) ==
  CASE tx.action = "MON_DEPOSIT" ->
         [s EXCEPT !.donations[tx.of].status = "MON_DEPOSIT_CONFIRMED",
                   !.donations[tx.of].available = s.donations[tx.of].mon]
    [] tx.action = "ESCROW_CREATED" -> [s EXCEPT !.contracts[tx.of].status = "FUNDS_RESERVED"]
    [] tx.action = "MON_LOCKED" ->
         IF s.claims[tx.of].status = "MON_LOCK_PENDING" THEN LockConfirmed(s, tx.of) ELSE s
    [] tx.action = "MON_SETTLED" ->
         IF s.claims[tx.of].status = "SETTLEMENT_CHAIN_PENDING"
         THEN [s EXCEPT !.claims[tx.of].status = "SETTLED",
                        !.contracts[s.claims[tx.of].contract].status = "SETTLED"]
         ELSE s

Final == {"CONFIRMED", "REVERTED"}

\* advanceChain
CanAdvance(s, k, status) == s.txs[k].status \notin Final \/ s.txs[k].status = status
Advanced(s, k, status) ==
  LET t == [s EXCEPT !.txs[k].status = status]
  IN  IF status = "CONFIRMED" THEN Applied(t, t.txs[k]) ELSE t

----------------------------------------------------------------------------
\* Donations

Donated(s, intent) ==
  [s EXCEPT !.donations = Append(@,
     [status |-> IF intent = 0 THEN "PAYMENT_PENDING" ELSE "MON_REVIEW_PENDING",
      intent |-> intent, mon |-> 0, available |-> 0, escrowed |-> 0, locked |-> 0])]

Reviewable == {"PAYMENT_CONFIRMED", "MON_REVIEW_PENDING", "COMPLIANCE_REVIEW", "FROZEN"}

CanDeposit(s, d, amount) ==
  /\ s.donations[d].status = "APPROVED" /\ s.donations[d].mon = 0
  /\ s.donations[d].intent \in {0, amount}
Deposited(s, d, amount) ==
  [s EXCEPT !.donations[d].mon = amount, !.donations[d].status = "MON_DEPOSIT_PENDING",
            !.txs = Queue(s, "MON_DEPOSIT", d)]

----------------------------------------------------------------------------
\* The market

\* An order may be approved once, or the same answer be asked for again.
Approvable(s, o) == s.orders[o].status = "PENDING_REVIEW" /\ s.orders[o].quantity <= s.stock

\* An order that is approved gets its contract and its goods.
ApprovedAgain(s, o) ==
  [s EXCEPT !.stock = @ - s.orders[o].quantity,
            !.orders[o].status = "APPROVED", !.orders[o].contract = Len(s.contracts) + 1,
            !.contracts = Append(@, [status |-> "PENDING_APPROVAL",
                                     amount |-> s.orders[o].quantity,
                                     planned |-> s.orders[o].quantity,
                                     debited |-> FALSE, settlement |-> 0])]
OrderApproved(s, o) == IF s.orders[o].status = "APPROVED" THEN s ELSE ApprovedAgain(s, o)

----------------------------------------------------------------------------
\* Contracts, deliveries and settlements

Reserved(s) == SumOver(s.contracts, LAMBDA c :
  IF c.status \in {"PENDING_APPROVAL", "SETTLED", "CANCELLED"} THEN 0 ELSE c.amount)

CanApproveContract(s, c) ==
  /\ s.contracts[c].status = "PENDING_APPROVAL"
  /\ Reserved(s) + s.contracts[c].amount <= SumOver(s.donations, LAMBDA d : d.mon)
ContractApproved(s, c) ==
  [s EXCEPT !.contracts[c].status = "FUNDS_RESERVATION_PENDING",
            !.txs = Queue(s, "ESCROW_CREATED", c)]

CanConfirmEscrow(s, c) ==
  /\ Confirmed(s, "ESCROW_CREATED", c)
  /\ s.contracts[c].status \in {"FUNDS_RESERVATION_PENDING", "FUNDS_RESERVED"}
  /\ s.contracts[c].debited \/ Available(s) >= s.contracts[c].amount

EscrowConfirmed(s, c) ==
  IF s.contracts[c].debited THEN s
  ELSE [s EXCEPT !.donations = TakenInto(s, s.contracts[c].amount, "escrowed"),
                 !.contracts[c].status = "FUNDS_RESERVED", !.contracts[c].debited = TRUE]

PlannedFor(s, c) == SumOver(s.deliveries, LAMBDA b : IF b.contract = c THEN b.planned ELSE 0)
CanDeliver(s, c, planned) ==
  /\ s.contracts[c].status \in {"FUNDS_RESERVED", "IN_PROGRESS"}
  /\ PlannedFor(s, c) + planned <=
       IF s.contracts[c].planned = 0 THEN planned ELSE s.contracts[c].planned
Delivered(s, c, planned) ==
  [s EXCEPT !.deliveries = Append(@, [contract |-> c, planned |-> planned,
                                      status |-> "IN_PROGRESS"]),
            !.contracts[c].status = "IN_PROGRESS"]

\* accept, whatever became of the delivery before
Accepted(s, b, result) ==
  [s EXCEPT !.deliveries[b].status = result,
            !.contracts[s.deliveries[b].contract].status =
               IF result = "ACCEPTED" THEN "PENDING_SETTLEMENT" ELSE result]

CanSettle(s, c, amount) ==
  /\ s.contracts[c].status = "PENDING_SETTLEMENT" /\ s.contracts[c].settlement = 0
  /\ amount <= s.contracts[c].amount
Settled(s, c, amount) ==
  [s EXCEPT !.contracts[c].settlement = amount, !.contracts[c].status = "SETTLEMENT_PENDING"]

----------------------------------------------------------------------------
\* Redemptions: the settlement's own status never changes.

CanClaim(s, c, amount) == amount <= s.contracts[c].settlement
Claimed(s, c, amount) ==
  [s EXCEPT !.claims = Append(@, [contract |-> c, amount |-> amount, status |-> "REQUESTED"])]

CanApproveClaim(s, r) == s.claims[r].status = "REQUESTED" /\ Available(s) >= s.claims[r].amount
ClaimApproved(s, r) ==
  [s EXCEPT !.claims[r].status = "MON_LOCK_PENDING", !.txs = Queue(s, "MON_LOCKED", r)]

SettlementSent(s, r) ==
  [s EXCEPT !.claims[r].status = "SETTLEMENT_CHAIN_PENDING", !.txs = Queue(s, "MON_SETTLED", r)]

----------------------------------------------------------------------------
\* Requests

\* The requests that name records of these numbers.
RequestsFor(donations, orders, contracts, deliveries, claims, txs) ==
  [do : {"donate"}, intent : {0} \cup Amounts]
  \cup [do : {"confirmPayment"}, d : donations]
  \cup [do : {"review"}, d : donations, decision : Decisions]
  \cup [do : {"deposit"}, d : donations, amount : Amounts]
  \cup [do : {"order"}, quantity : Quantities]
  \cup [do : {"approveOrder", "rejectOrder"}, o : orders]
  \cup [do : {"approveContract", "confirmEscrow"}, c : contracts]
  \cup [do : {"deliver"}, c : contracts, quantity : Quantities]
  \cup [do : {"accept"}, b : deliveries, result : Results]
  \cup [do : {"settle", "claim"}, c : contracts, amount : Amounts]
  \cup [do : {"approveClaim", "payout", "settleClaim"}, r : claims]
  \cup [do : {"advance"}, tx : txs, status : Final]
  \cup [do : {"reset"}]

Ops(s) == RequestsFor(DOMAIN s.donations, DOMAIN s.orders, DOMAIN s.contracts,
                      DOMAIN s.deliveries, DOMAIN s.claims, DOMAIN s.txs)
Operations == RequestsFor(Nat, Nat, Nat, Nat, Nat, Nat)

Can(s, op) ==
  CASE op.do = "donate" -> Len(s.donations) < MaxDonations
    [] op.do = "confirmPayment" -> s.donations[op.d].status = "PAYMENT_PENDING"
    [] op.do = "review" -> s.donations[op.d].status \in Reviewable
    [] op.do = "deposit" -> CanDeposit(s, op.d, op.amount)
    [] op.do = "order" -> Len(s.orders) < MaxOrders /\ op.quantity <= s.stock
    [] op.do = "approveOrder" -> s.orders[op.o].status = "APPROVED" \/ Approvable(s, op.o)
    [] op.do = "rejectOrder" -> s.orders[op.o].status \in {"PENDING_REVIEW", "REJECTED"}
    [] op.do = "approveContract" -> CanApproveContract(s, op.c)
    [] op.do = "confirmEscrow" -> CanConfirmEscrow(s, op.c)
    [] op.do = "deliver" -> Len(s.deliveries) < MaxDeliveries /\ CanDeliver(s, op.c, op.quantity)
    [] op.do = "accept" -> TRUE
    [] op.do = "settle" -> CanSettle(s, op.c, op.amount)
    [] op.do = "claim" -> Len(s.claims) < MaxClaims /\ CanClaim(s, op.c, op.amount)
    [] op.do = "approveClaim" -> CanApproveClaim(s, op.r)
    [] op.do = "payout" -> s.claims[op.r].status \in {"MON_LOCKED", "PAID"}
    [] op.do = "settleClaim" -> s.claims[op.r].status = "PAID"
    [] op.do = "advance" -> CanAdvance(s, op.tx, op.status)
    [] op.do = "reset" -> TRUE

Effect(s, op) ==
  CASE op.do = "donate" -> Donated(s, op.intent)
    [] op.do = "confirmPayment" -> [s EXCEPT !.donations[op.d].status = "PAYMENT_CONFIRMED"]
    [] op.do = "review" -> [s EXCEPT !.donations[op.d].status = op.decision]
    [] op.do = "deposit" -> Deposited(s, op.d, op.amount)
    [] op.do = "order" -> [s EXCEPT !.orders = Append(@,
         [status |-> "PENDING_REVIEW", quantity |-> op.quantity, contract |-> 0])]
    [] op.do = "approveOrder" -> OrderApproved(s, op.o)
    [] op.do = "rejectOrder" -> [s EXCEPT !.orders[op.o].status = "REJECTED"]
    [] op.do = "approveContract" -> ContractApproved(s, op.c)
    [] op.do = "confirmEscrow" -> EscrowConfirmed(s, op.c)
    [] op.do = "deliver" -> Delivered(s, op.c, op.quantity)
    [] op.do = "accept" -> Accepted(s, op.b, op.result)
    [] op.do = "settle" -> Settled(s, op.c, op.amount)
    [] op.do = "claim" -> Claimed(s, op.c, op.amount)
    [] op.do = "approveClaim" -> ClaimApproved(s, op.r)
    [] op.do = "payout" -> [s EXCEPT !.claims[op.r].status = "PAID"]
    [] op.do = "settleClaim" -> SettlementSent(s, op.r)
    [] op.do = "advance" -> Advanced(s, op.tx, op.status)
    [] op.do = "reset" -> EmptyState

\* Goods are sold once: what orders took and what is left is the stock, and
\* every approved order has a contract of its own for its price.
GoodsSoldOnce(s) ==
  LET approved == {o \in DOMAIN s.orders : s.orders[o].status = "APPROVED"}
  IN  /\ s.stock + SumOver(s.orders, LAMBDA o : IF o.status = "APPROVED" THEN o.quantity ELSE 0)
           = Stock
      /\ s.stock >= 0
      /\ Len(s.contracts) = 1 + Cardinality(approved)
      /\ \A o \in approved : s.contracts[s.orders[o].contract].amount = s.orders[o].quantity
      /\ \A o, p \in approved : s.orders[o].contract = s.orders[p].contract => o = p

\* Claims on money are backed: the escrowed MON is that of the contracts debited,
\* and every redemption that is locked, paid or settled has its MON locked.
ClaimsBacked(s) ==
  /\ SumOver(s.donations, LAMBDA d : d.escrowed)
       = SumOver(s.contracts, LAMBDA c : IF c.debited THEN c.amount ELSE 0)
  /\ SumOver(s.donations, LAMBDA d : d.locked)
       >= SumOver(s.claims, LAMBDA r :
            IF r.status \in {"MON_LOCKED", "PAID", "SETTLEMENT_CHAIN_PENDING", "SETTLED"}
            THEN r.amount ELSE 0)
=============================================================================
