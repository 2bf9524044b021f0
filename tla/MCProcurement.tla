---------------------------- MODULE MCProcurement ----------------------------
(* Small instances of Procurement. *)
EXTENDS Procurement, TLC

CONSTANTS w1, w2, w3, w4, w5,   \* wallets
          o1, o2, o3            \* organizations

BuyerA == [wallet |-> w1, organizationId |-> o1]
SupplierA == [wallet |-> w2, organizationId |-> o2]
SupplierB == [wallet |-> w4, organizationId |-> o2]

Offer(supplier, price, available, validUntil) ==
  [supplier |-> supplier, unitPrice |-> price, available |-> available,
   validUntil |-> validUntil]

Person(id, wallet, organization) ==
  [id |-> id, wallet |-> wallet, organizationId |-> organization]

(* Contracting: two quotes that expire at different times, two contracts. *)
ContractingOffers == {Offer(SupplierA, 1, 2, 1), Offer(SupplierB, 2, 2, 1)}
ContractingBuyers == {BuyerA}
ContractingSymmetry ==
  Permutations(QuoteIds) \cup Permutations(ReservationIds) \cup Permutations(ContractIds)
    \cup Permutations(EscrowIds) \cup Permutations(TxHashes) \cup Permutations(Nonces)

(* Fulfilment: one offer; a courier, a clerk under two wallets, and an auditor
   who shares one of them. *)
FulfilmentOffers == {Offer(SupplierA, 2, 3, 2)}
FulfilmentPeople ==
  {Person("courier", w2, o2), Person("clerk", w3, o1),
   Person("clerk", w5, o3), Person("auditor", w5, o3)}
FulfilmentSymmetry ==
  Permutations(BatchIds) \cup Permutations(PaymentIds) \cup Permutations(TxHashes)
=============================================================================
