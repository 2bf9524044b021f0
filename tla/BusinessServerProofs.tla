------------------------ MODULE BusinessServerProofs ------------------------
(***************************************************************************)
(* Proofs about BusinessServer: what it serves is what is on disk, the     *)
(* answers it gave are kept, and goods and money are accounted for, for    *)
(* any number of records, requests under way, failed writes and crashes.   *)
(***************************************************************************)
EXTENDS BusinessServer, SumLemmas, SequenceTheorems

-----------------------------------------------------------------------------
(* Records in order *)

\* Records refer to records that exist, approved orders to contracts of the market.
ApprovedOrders(s) == {o \in DOMAIN s.orders : s.orders[o].status = "APPROVED"}
TxOK(s, tx) ==
  /\ tx.action = "MON_DEPOSIT" => tx.of \in DOMAIN s.donations
  /\ tx.action = "ESCROW_CREATED" => tx.of \in DOMAIN s.contracts
  /\ tx.action \in {"MON_LOCKED", "MON_SETTLED"} => tx.of \in DOMAIN s.claims
Linked(s) ==
  /\ \A o \in ApprovedOrders(s) : s.orders[o].contract \in 2..Len(s.contracts)
  /\ \A b \in DOMAIN s.deliveries : s.deliveries[b].contract \in DOMAIN s.contracts
  /\ \A r \in DOMAIN s.claims : s.claims[r].contract \in DOMAIN s.contracts
  /\ \A k \in DOMAIN s.txs : TxOK(s, s.txs[k])

InOrder(s) == s \in Records /\ Linked(s) /\ GoodsSoldOnce(s) /\ ClaimsBacked(s)

\* The columns that the sums of the records range over.
Held == {"MON_LOCKED", "PAID", "SETTLEMENT_CHAIN_PENDING", "SETTLED"}
Sold(s)     == [o \in DOMAIN s.orders |->
                  IF s.orders[o].status = "APPROVED" THEN s.orders[o].quantity ELSE 0]
Free(s)     == [d \in DOMAIN s.donations |-> s.donations[d].available]
Escrowed(s) == [d \in DOMAIN s.donations |-> s.donations[d].escrowed]
Locked(s)   == [d \in DOMAIN s.donations |-> s.donations[d].locked]
Debits(s)   == [c \in DOMAIN s.contracts |->
                  IF s.contracts[c].debited THEN s.contracts[c].amount ELSE 0]
Holds(s)    == [r \in DOMAIN s.claims |->
                  IF s.claims[r].status \in Held THEN s.claims[r].amount ELSE 0]

LEMMA AvailableIsTotal == ASSUME NEW s PROVE Available(s) = Total(Free(s))
  BY DEF Available, Free, SumOver

LEMMA ClaimsAreTotals ==
  ASSUME NEW s
  PROVE  ClaimsBacked(s) <=> /\ Total(Escrowed(s)) = Total(Debits(s))
                             /\ Total(Locked(s)) >= Total(Holds(s))
  BY DEF ClaimsBacked, SumOver, Escrowed, Debits, Locked, Holds, Held

LEMMA GoodsAreTotals ==
  ASSUME NEW s
  PROVE  GoodsSoldOnce(s) <=>
           /\ s.stock + Total(Sold(s)) = Stock
           /\ s.stock >= 0
           /\ Len(s.contracts) = 1 + Cardinality(ApprovedOrders(s))
           /\ \A o \in ApprovedOrders(s) :
                s.contracts[s.orders[o].contract].amount = s.orders[o].quantity
           /\ \A o, p \in ApprovedOrders(s) :
                s.orders[o].contract = s.orders[p].contract => o = p
  BY DEF GoodsSoldOnce, SumOver, Sold, ApprovedOrders

\* Sequences are numbered from 1, and there are finitely many of each record.
LEMMA SeqDomain ==
  ASSUME NEW R, NEW q \in Seq(R)
  PROVE  /\ Len(q) \in Nat /\ DOMAIN q = 1..Len(q) /\ IsFiniteSet(DOMAIN q)
         /\ \A i \in DOMAIN q : q[i] \in R
  BY FS_Interval

\* Each column can be summed.
LEMMA ColumnsType ==
  ASSUME NEW s \in Records
  PROVE  /\ Capacity(Sold(s)) /\ Capacity(Free(s)) /\ Capacity(Escrowed(s))
         /\ Capacity(Locked(s)) /\ Capacity(Debits(s)) /\ Capacity(Holds(s))
  <1>1. /\ s.orders \in Seq(Order) /\ s.donations \in Seq(Donation)
        /\ s.contracts \in Seq(Contract) /\ s.claims \in Seq(Claim)
    BY DEF Records
  <1>2. /\ IsFiniteSet(DOMAIN s.orders) /\ \A o \in DOMAIN s.orders : s.orders[o] \in Order
        /\ IsFiniteSet(DOMAIN s.donations)
        /\ \A d \in DOMAIN s.donations : s.donations[d] \in Donation
    BY <1>1, SeqDomain
  <1>3. /\ IsFiniteSet(DOMAIN s.contracts)
        /\ \A c \in DOMAIN s.contracts : s.contracts[c] \in Contract
        /\ IsFiniteSet(DOMAIN s.claims) /\ \A r \in DOMAIN s.claims : s.claims[r] \in Claim
    BY <1>1, SeqDomain
  <1>4. Capacity(Sold(s))
    BY <1>2 DEF Capacity, Sold, Order
  <1>5. Capacity(Free(s)) /\ Capacity(Escrowed(s)) /\ Capacity(Locked(s))
    BY <1>2 DEF Capacity, Free, Escrowed, Locked, Donation
  <1>6. Capacity(Debits(s))
    BY <1>3 DEF Capacity, Debits, Contract
  <1>7. Capacity(Holds(s))
    BY <1>3 DEF Capacity, Holds, Claim
  <1>8. QED
    BY <1>4, <1>5, <1>6, <1>7

LEMMA CapacitySummable ==
  ASSUME NEW f, Capacity(f) PROVE Summable(f) /\ Total(f) \in Nat
  BY TotalNat DEF Capacity

\* A column that only gets entries of 0 has the same total.
Extends(g, f) ==
  /\ DOMAIN f \subseteq DOMAIN g
  /\ \A x \in DOMAIN f : g[x] = f[x]
  /\ \A x \in DOMAIN g \ DOMAIN f : g[x] = 0
LEMMA ExtendsTotal ==
  ASSUME NEW f, NEW g, Capacity(f), Capacity(g), Extends(g, f)
  PROVE  Total(g) = Total(f)
  <1>1. f = [x \in DOMAIN f |-> g[x]]
    BY DEF Capacity, Extends
  <1>2. Summable(g)
    BY CapacitySummable
  <1>3. QED
    BY <1>1, <1>2, TotalSupport DEF Extends

-----------------------------------------------------------------------------
(* What leaves the books alone *)

\* No order is approved, and no approved one touched.
OrdersKept(s, t) ==
  /\ t.stock = s.stock
  /\ DOMAIN s.orders \subseteq DOMAIN t.orders
  /\ \A o \in DOMAIN t.orders :
       \/ o \in DOMAIN s.orders /\ t.orders[o] = s.orders[o]
       \/ /\ t.orders[o].status # "APPROVED"
          /\ o \in DOMAIN s.orders => s.orders[o].status # "APPROVED"
AmountsKept(s, t) ==
  /\ Len(t.contracts) = Len(s.contracts)
  /\ \A c \in DOMAIN s.contracts : t.contracts[c].amount = s.contracts[c].amount
ContractsKept(s, t) ==
  /\ AmountsKept(s, t)
  /\ \A c \in DOMAIN s.contracts : t.contracts[c].debited = s.contracts[c].debited
DonationsKept(s, t) ==
  /\ DOMAIN s.donations \subseteq DOMAIN t.donations
  /\ \A d \in DOMAIN s.donations : /\ t.donations[d].escrowed = s.donations[d].escrowed
                                   /\ t.donations[d].locked = s.donations[d].locked
  /\ \A d \in DOMAIN t.donations \ DOMAIN s.donations :
       t.donations[d].escrowed = 0 /\ t.donations[d].locked = 0
HoldsKept(s, t) ==
  /\ DOMAIN s.claims \subseteq DOMAIN t.claims
  /\ \A r \in DOMAIN s.claims :
       /\ t.claims[r].amount = s.claims[r].amount
       /\ t.claims[r].status \in Held <=> s.claims[r].status \in Held
  /\ \A r \in DOMAIN t.claims \ DOMAIN s.claims : t.claims[r].status \notin Held
\* Deliveries, redemptions and transactions refer to records that were there.
RefersTo(s, t) ==
  /\ \A b \in DOMAIN t.deliveries : t.deliveries[b].contract \in DOMAIN s.contracts
  /\ \A r \in DOMAIN t.claims : t.claims[r].contract \in DOMAIN s.contracts
  /\ \A k \in DOMAIN t.txs : TxOK(s, t.txs[k])

\* The goods, when contracts keep their amounts.
LEMMA GoodsKept ==
  ASSUME NEW s \in Records, NEW t \in Records, GoodsSoldOnce(s), Linked(s),
         OrdersKept(s, t), AmountsKept(s, t)
  PROVE  /\ GoodsSoldOnce(t)
         /\ \A o \in ApprovedOrders(t) : t.orders[o].contract \in 2..Len(t.contracts)
  <1>1. ApprovedOrders(t) = ApprovedOrders(s)
    BY DEF OrdersKept, ApprovedOrders
  <1>2. \A o \in ApprovedOrders(s) : t.orders[o] = s.orders[o]
    BY DEF OrdersKept, ApprovedOrders
  <1>3. Extends(Sold(t), Sold(s))
    BY DEF OrdersKept, Extends, Sold
  <1>4. Total(Sold(t)) = Total(Sold(s))
    BY <1>3, ColumnsType, ExtendsTotal
  <1>5. \A o \in ApprovedOrders(s) : s.orders[o].contract \in 2..Len(s.contracts)
    BY DEF Linked
  <1>6. s.contracts \in Seq(Contract) /\ DOMAIN s.contracts = 1..Len(s.contracts)
    BY SeqDomain DEF Records
  <1>7. \A o \in ApprovedOrders(t) :
          t.contracts[t.orders[o].contract].amount = t.orders[o].quantity
    BY <1>1, <1>2, <1>5, <1>6, GoodsAreTotals DEF AmountsKept
  <1>8. \A o, p \in ApprovedOrders(t) :
          t.orders[o].contract = t.orders[p].contract => o = p
    BY <1>1, <1>2, GoodsAreTotals
  <1>9. /\ t.stock + Total(Sold(t)) = Stock /\ t.stock >= 0
        /\ Len(t.contracts) = 1 + Cardinality(ApprovedOrders(t))
    BY <1>1, <1>4, GoodsAreTotals DEF OrdersKept, AmountsKept
  <1>10. GoodsSoldOnce(t)
    BY <1>7, <1>8, <1>9, GoodsAreTotals
  <1>11. QED
    BY <1>1, <1>2, <1>5, <1>10 DEF AmountsKept

\* Contracts may be added, as long as nothing was debited for them.
DebitsKept(s, t) ==
  /\ DOMAIN s.contracts \subseteq DOMAIN t.contracts
  /\ \A c \in DOMAIN s.contracts : /\ t.contracts[c].amount = s.contracts[c].amount
                                   /\ t.contracts[c].debited = s.contracts[c].debited
  /\ \A c \in DOMAIN t.contracts \ DOMAIN s.contracts : ~t.contracts[c].debited

\* The claims on money.
LEMMA ClaimsKept ==
  ASSUME NEW s \in Records, NEW t \in Records, ClaimsBacked(s),
         DebitsKept(s, t), DonationsKept(s, t), HoldsKept(s, t)
  PROVE  ClaimsBacked(t)
  <1>1. Extends(Escrowed(t), Escrowed(s)) /\ Extends(Locked(t), Locked(s))
    BY DEF Extends, Escrowed, Locked, DonationsKept
  <1>2. Extends(Debits(t), Debits(s))
    BY DEF Extends, Debits, DebitsKept
  <1>3. Extends(Holds(t), Holds(s))
    BY DEF Extends, Holds, HoldsKept
  <1>4. /\ Total(Escrowed(t)) = Total(Escrowed(s)) /\ Total(Locked(t)) = Total(Locked(s))
        /\ Total(Debits(t)) = Total(Debits(s)) /\ Total(Holds(t)) = Total(Holds(s))
    BY <1>1, <1>2, <1>3, ColumnsType, ExtendsTotal
  <1>5. QED
    BY <1>4, ClaimsAreTotals

LEMMA LinksKept ==
  ASSUME NEW s \in Records, NEW t \in Records, RefersTo(s, t),
         DOMAIN s.contracts \subseteq DOMAIN t.contracts,
         DOMAIN s.donations \subseteq DOMAIN t.donations,
         DOMAIN s.claims \subseteq DOMAIN t.claims,
         \A o \in ApprovedOrders(t) : t.orders[o].contract \in 2..Len(t.contracts)
  PROVE  Linked(t)
  BY DEF RefersTo, Linked, TxOK

\* All of it.
Kept(s, t) ==
  /\ OrdersKept(s, t) /\ ContractsKept(s, t) /\ DonationsKept(s, t) /\ HoldsKept(s, t)
  /\ RefersTo(s, t)
LEMMA KeptInOrder ==
  ASSUME NEW s, InOrder(s), NEW t \in Records, Kept(s, t) PROVE InOrder(t)
  <1>1. s \in Records /\ GoodsSoldOnce(s) /\ ClaimsBacked(s) /\ Linked(s)
    BY DEF InOrder
  <1>2. DOMAIN t.contracts = DOMAIN s.contracts
    BY <1>1, SeqDomain DEF Kept, ContractsKept, AmountsKept, Records
  <1>3. DebitsKept(s, t)
    BY <1>2 DEF DebitsKept, Kept, ContractsKept, AmountsKept
  <1>4. ClaimsBacked(t)
    BY <1>1, <1>3, ClaimsKept DEF Kept
  <1>5. /\ GoodsSoldOnce(t)
        /\ \A o \in ApprovedOrders(t) : t.orders[o].contract \in 2..Len(t.contracts)
    BY <1>1, GoodsKept DEF Kept, ContractsKept
  <1>6. Linked(t)
    BY <1>1, <1>2, <1>5, LinksKept DEF Kept, DonationsKept, HoldsKept
  <1>7. QED
    BY <1>4, <1>5, <1>6 DEF InOrder

-----------------------------------------------------------------------------
(* The handlers that leave the books alone *)

\* One entry of a sequence replaced.
LEMMA SeqPut ==
  ASSUME NEW R, NEW q \in Seq(R), NEW i \in DOMAIN q, NEW v \in R
  PROVE  /\ [q EXCEPT ![i] = v] \in Seq(R) /\ Len([q EXCEPT ![i] = v]) = Len(q)
         /\ DOMAIN [q EXCEPT ![i] = v] = DOMAIN q
         /\ \A k \in DOMAIN q : [q EXCEPT ![i] = v][k] = IF k = i THEN v ELSE q[k]
  OBVIOUS

\* One entry appended.
LEMMA SeqAdd ==
  ASSUME NEW R, NEW q \in Seq(R), NEW v \in R
  PROVE  /\ Append(q, v) \in Seq(R) /\ Len(Append(q, v)) = Len(q) + 1
         /\ DOMAIN Append(q, v) = DOMAIN q \cup {Len(q) + 1}
         /\ Len(q) + 1 \notin DOMAIN q
         /\ \A k \in DOMAIN q : Append(q, v)[k] = q[k]
         /\ Append(q, v)[Len(q) + 1] = v
  OBVIOUS

\* What a request may name.
LEMMA RecordsType ==
  ASSUME NEW s \in Records
  PROVE  /\ s.stock \in Nat /\ s.orders \in Seq(Order) /\ s.contracts \in Seq(Contract)
         /\ s.donations \in Seq(Donation) /\ s.deliveries \in Seq(Delivery)
         /\ s.claims \in Seq(Claim) /\ s.txs \in Seq(Tx)
         /\ \A o \in DOMAIN s.orders : s.orders[o] \in Order
         /\ \A c \in DOMAIN s.contracts : s.contracts[c] \in Contract
         /\ \A d \in DOMAIN s.donations : s.donations[d] \in Donation
         /\ \A b \in DOMAIN s.deliveries : s.deliveries[b] \in Delivery
         /\ \A r \in DOMAIN s.claims : s.claims[r] \in Claim
         /\ \A k \in DOMAIN s.txs : s.txs[k] \in Tx
  <1>1. /\ s.stock \in Nat /\ s.orders \in Seq(Order) /\ s.contracts \in Seq(Contract)
        /\ s.donations \in Seq(Donation) /\ s.deliveries \in Seq(Delivery)
        /\ s.claims \in Seq(Claim) /\ s.txs \in Seq(Tx)
    BY DEF Records
  <1>2. QED
    BY <1>1, SeqDomain

\* Donations change their status or what they have available.
LEMMA DonationsChange ==
  ASSUME NEW s, InOrder(s), NEW q \in Seq(Donation),
         DOMAIN s.donations \subseteq DOMAIN q,
         \A d \in DOMAIN q :
           IF d \in DOMAIN s.donations
           THEN q[d].escrowed = s.donations[d].escrowed /\ q[d].locked = s.donations[d].locked
           ELSE q[d].escrowed = 0 /\ q[d].locked = 0
  PROVE  InOrder([s EXCEPT !.donations = q])
  <1> DEFINE t == [s EXCEPT !.donations = q]
  <1>1. s \in Records /\ Linked(s)
    BY DEF InOrder
  <1>2. t \in Records /\ t.donations = q
    BY <1>1 DEF Records
  <1>3. /\ t.stock = s.stock /\ t.orders = s.orders /\ t.contracts = s.contracts
        /\ t.deliveries = s.deliveries /\ t.claims = s.claims /\ t.txs = s.txs
    BY <1>1 DEF Records
  <1> HIDE DEF t
  <1>4. DonationsKept(s, t)
    BY <1>1, <1>2, RecordsType, SeqDomain DEF DonationsKept
  <1>5. OrdersKept(s, t) /\ ContractsKept(s, t) /\ HoldsKept(s, t)
    BY <1>3 DEF OrdersKept, ContractsKept, AmountsKept, HoldsKept
  <1>6. RefersTo(s, t)
    BY <1>1, <1>2, <1>3 DEF RefersTo, Linked
  <1>7. QED
    BY <1>2, <1>4, <1>5, <1>6, KeptInOrder DEF Kept, t

\* Orders are placed and rejected.
LEMMA OrdersChange ==
  ASSUME NEW s, InOrder(s), NEW q \in Seq(Order),
         DOMAIN s.orders \subseteq DOMAIN q,
         \A o \in DOMAIN q :
           \/ o \in DOMAIN s.orders /\ q[o] = s.orders[o]
           \/ /\ q[o].status # "APPROVED"
              /\ o \in DOMAIN s.orders => s.orders[o].status # "APPROVED"
  PROVE  InOrder([s EXCEPT !.orders = q])
  <1> DEFINE t == [s EXCEPT !.orders = q]
  <1>1. s \in Records /\ Linked(s)
    BY DEF InOrder
  <1>2. t \in Records /\ t.orders = q
    BY <1>1 DEF Records
  <1>3. /\ t.stock = s.stock /\ t.contracts = s.contracts /\ t.donations = s.donations
        /\ t.deliveries = s.deliveries /\ t.claims = s.claims /\ t.txs = s.txs
    BY <1>1 DEF Records
  <1> HIDE DEF t
  <1>4. OrdersKept(s, t)
    BY <1>2, <1>3 DEF OrdersKept
  <1>5. ContractsKept(s, t) /\ DonationsKept(s, t) /\ HoldsKept(s, t)
    BY <1>3 DEF ContractsKept, AmountsKept, DonationsKept, HoldsKept
  <1>6. RefersTo(s, t)
    BY <1>1, <1>2, <1>3 DEF RefersTo, Linked
  <1>7. QED
    BY <1>2, <1>4, <1>5, <1>6, KeptInOrder DEF Kept, t

\* Contracts go through their stages.
LEMMA ContractsChange ==
  ASSUME NEW s, InOrder(s), NEW q \in Seq(Contract),
         Len(q) = Len(s.contracts),
         \A c \in DOMAIN q : /\ q[c].amount = s.contracts[c].amount
                             /\ q[c].debited = s.contracts[c].debited
  PROVE  InOrder([s EXCEPT !.contracts = q])
  <1> DEFINE t == [s EXCEPT !.contracts = q]
  <1>1. s \in Records /\ Linked(s)
    BY DEF InOrder
  <1>2. t \in Records /\ t.contracts = q
    BY <1>1 DEF Records
  <1>3. /\ t.stock = s.stock /\ t.orders = s.orders /\ t.donations = s.donations
        /\ t.deliveries = s.deliveries /\ t.claims = s.claims /\ t.txs = s.txs
    BY <1>1 DEF Records
  <1> HIDE DEF t
  <1>4. ContractsKept(s, t)
    BY <1>1, <1>2, RecordsType, SeqDomain DEF ContractsKept, AmountsKept
  <1>5. OrdersKept(s, t) /\ DonationsKept(s, t) /\ HoldsKept(s, t)
    BY <1>3 DEF OrdersKept, DonationsKept, HoldsKept
  <1>6. RefersTo(s, t)
    BY <1>1, <1>2, <1>3 DEF RefersTo, Linked
  <1>7. QED
    BY <1>2, <1>4, <1>5, <1>6, KeptInOrder DEF Kept, t

\* Goods are delivered and looked at.
LEMMA DeliveriesChange ==
  ASSUME NEW s, InOrder(s), NEW q \in Seq(Delivery),
         \A b \in DOMAIN q : q[b].contract \in DOMAIN s.contracts
  PROVE  InOrder([s EXCEPT !.deliveries = q])
  <1> DEFINE t == [s EXCEPT !.deliveries = q]
  <1>1. s \in Records /\ Linked(s)
    BY DEF InOrder
  <1>2. t \in Records /\ t.deliveries = q
    BY <1>1 DEF Records
  <1>3. /\ t.stock = s.stock /\ t.orders = s.orders /\ t.contracts = s.contracts
        /\ t.donations = s.donations /\ t.claims = s.claims /\ t.txs = s.txs
    BY <1>1 DEF Records
  <1> HIDE DEF t
  <1>4. OrdersKept(s, t) /\ ContractsKept(s, t) /\ DonationsKept(s, t) /\ HoldsKept(s, t)
    BY <1>3 DEF OrdersKept, ContractsKept, AmountsKept, DonationsKept, HoldsKept
  <1>5. RefersTo(s, t)
    BY <1>1, <1>2, <1>3 DEF RefersTo, Linked
  <1>6. QED
    BY <1>2, <1>4, <1>5, KeptInOrder DEF Kept, t

\* Redemptions are asked for and go on, short of being locked.
LEMMA ClaimsChange ==
  ASSUME NEW s, InOrder(s), NEW q \in Seq(Claim),
         DOMAIN s.claims \subseteq DOMAIN q,
         \A r \in DOMAIN q : q[r].contract \in DOMAIN s.contracts,
         \A r \in DOMAIN q :
           IF r \in DOMAIN s.claims
           THEN /\ q[r].amount = s.claims[r].amount
                /\ q[r].status \in Held <=> s.claims[r].status \in Held
           ELSE q[r].status \notin Held
  PROVE  InOrder([s EXCEPT !.claims = q])
  <1> DEFINE t == [s EXCEPT !.claims = q]
  <1>1. s \in Records /\ Linked(s)
    BY DEF InOrder
  <1>2. t \in Records /\ t.claims = q
    BY <1>1 DEF Records
  <1>3. /\ t.stock = s.stock /\ t.orders = s.orders /\ t.contracts = s.contracts
        /\ t.donations = s.donations /\ t.deliveries = s.deliveries /\ t.txs = s.txs
    BY <1>1 DEF Records
  <1> HIDE DEF t
  <1>4. HoldsKept(s, t)
    BY <1>1, <1>2, RecordsType, SeqDomain DEF HoldsKept
  <1>5. OrdersKept(s, t) /\ ContractsKept(s, t) /\ DonationsKept(s, t)
    BY <1>3 DEF OrdersKept, ContractsKept, AmountsKept, DonationsKept
  <1>6. RefersTo(s, t)
    BY <1>1, <1>2, <1>3 DEF RefersTo, Linked
  <1>7. QED
    BY <1>2, <1>4, <1>5, <1>6, KeptInOrder DEF Kept, t

\* Transactions are queued and answered.
LEMMA TxsChange ==
  ASSUME NEW s, InOrder(s), NEW q \in Seq(Tx),
         \A k \in DOMAIN q : TxOK(s, q[k])
  PROVE  InOrder([s EXCEPT !.txs = q])
  <1> DEFINE t == [s EXCEPT !.txs = q]
  <1>1. s \in Records /\ Linked(s)
    BY DEF InOrder
  <1>2. t \in Records /\ t.txs = q
    BY <1>1 DEF Records
  <1>3. /\ t.stock = s.stock /\ t.orders = s.orders /\ t.contracts = s.contracts
        /\ t.donations = s.donations /\ t.deliveries = s.deliveries /\ t.claims = s.claims
    BY <1>1 DEF Records
  <1> HIDE DEF t
  <1>4. OrdersKept(s, t) /\ ContractsKept(s, t) /\ DonationsKept(s, t) /\ HoldsKept(s, t)
    BY <1>3 DEF OrdersKept, ContractsKept, AmountsKept, DonationsKept, HoldsKept
  <1>5. RefersTo(s, t)
    BY <1>1, <1>2, <1>3 DEF RefersTo, Linked
  <1>6. QED
    BY <1>2, <1>4, <1>5, KeptInOrder DEF Kept, t

\* One record more or changed.

LEMMA DonationPut ==
  ASSUME NEW s, InOrder(s), NEW d \in DOMAIN s.donations, NEW v \in Donation,
         v.escrowed = s.donations[d].escrowed,
         v.locked = s.donations[d].locked
  PROVE  InOrder([s EXCEPT !.donations = [s.donations EXCEPT ![d] = v]])
  <1> DEFINE q == [s.donations EXCEPT ![d] = v]
  <1>1. s \in Records /\ Linked(s)
    BY DEF InOrder
  <1>2. /\ q \in Seq(Donation) /\ Len(q) = Len(s.donations) /\ DOMAIN q = DOMAIN s.donations
        /\ \A k \in DOMAIN q : q[k] = IF k = d THEN v ELSE s.donations[k]
    BY <1>1, RecordsType, SeqPut
  <1> HIDE DEF q
  <1>3. InOrder([s EXCEPT !.donations = q])
    BY <1>1, <1>2, DonationsChange DEF Linked
  <1>4. QED
    BY <1>3 DEF q

LEMMA DonationAdd ==
  ASSUME NEW s, InOrder(s), NEW v \in Donation,
         v.escrowed = 0,
         v.locked = 0
  PROVE  InOrder([s EXCEPT !.donations = Append(s.donations, v)])
  <1> DEFINE q == Append(s.donations, v)
  <1>1. s \in Records /\ Linked(s)
    BY DEF InOrder
  <1>2. /\ q \in Seq(Donation) /\ DOMAIN s.donations \subseteq DOMAIN q
        /\ \A k \in DOMAIN q : IF k \in DOMAIN s.donations THEN q[k] = s.donations[k] ELSE q[k] = v
    BY <1>1, RecordsType, SeqAdd
  <1> HIDE DEF q
  <1>3. InOrder([s EXCEPT !.donations = q])
    BY <1>1, <1>2, DonationsChange DEF Linked
  <1>4. QED
    BY <1>3 DEF q

LEMMA OrderPut ==
  ASSUME NEW s, InOrder(s), NEW o \in DOMAIN s.orders, NEW v \in Order,
         v.status # "APPROVED",
         s.orders[o].status # "APPROVED"
  PROVE  InOrder([s EXCEPT !.orders = [s.orders EXCEPT ![o] = v]])
  <1> DEFINE q == [s.orders EXCEPT ![o] = v]
  <1>1. s \in Records /\ Linked(s)
    BY DEF InOrder
  <1>2. /\ q \in Seq(Order) /\ Len(q) = Len(s.orders) /\ DOMAIN q = DOMAIN s.orders
        /\ \A k \in DOMAIN q : q[k] = IF k = o THEN v ELSE s.orders[k]
    BY <1>1, RecordsType, SeqPut
  <1> HIDE DEF q
  <1>3. InOrder([s EXCEPT !.orders = q])
    BY <1>1, <1>2, OrdersChange DEF Linked
  <1>4. QED
    BY <1>3 DEF q

LEMMA OrderAdd ==
  ASSUME NEW s, InOrder(s), NEW v \in Order,
         v.status # "APPROVED"
  PROVE  InOrder([s EXCEPT !.orders = Append(s.orders, v)])
  <1> DEFINE q == Append(s.orders, v)
  <1>1. s \in Records /\ Linked(s)
    BY DEF InOrder
  <1>2. /\ q \in Seq(Order) /\ DOMAIN s.orders \subseteq DOMAIN q
        /\ \A k \in DOMAIN q : IF k \in DOMAIN s.orders THEN q[k] = s.orders[k] ELSE q[k] = v
    BY <1>1, RecordsType, SeqAdd
  <1> HIDE DEF q
  <1>3. InOrder([s EXCEPT !.orders = q])
    BY <1>1, <1>2, OrdersChange DEF Linked
  <1>4. QED
    BY <1>3 DEF q

LEMMA ContractPut ==
  ASSUME NEW s, InOrder(s), NEW c \in DOMAIN s.contracts, NEW v \in Contract,
         v.amount = s.contracts[c].amount,
         v.debited = s.contracts[c].debited
  PROVE  InOrder([s EXCEPT !.contracts = [s.contracts EXCEPT ![c] = v]])
  <1> DEFINE q == [s.contracts EXCEPT ![c] = v]
  <1>1. s \in Records /\ Linked(s)
    BY DEF InOrder
  <1>2. /\ q \in Seq(Contract) /\ Len(q) = Len(s.contracts) /\ DOMAIN q = DOMAIN s.contracts
        /\ \A k \in DOMAIN q : q[k] = IF k = c THEN v ELSE s.contracts[k]
    BY <1>1, RecordsType, SeqPut
  <1> HIDE DEF q
  <1>3. InOrder([s EXCEPT !.contracts = q])
    BY <1>1, <1>2, ContractsChange DEF Linked
  <1>4. QED
    BY <1>3 DEF q

LEMMA DeliveryPut ==
  ASSUME NEW s, InOrder(s), NEW b \in DOMAIN s.deliveries, NEW v \in Delivery,
         v.contract = s.deliveries[b].contract
  PROVE  InOrder([s EXCEPT !.deliveries = [s.deliveries EXCEPT ![b] = v]])
  <1> DEFINE q == [s.deliveries EXCEPT ![b] = v]
  <1>1. s \in Records /\ Linked(s)
    BY DEF InOrder
  <1>2. /\ q \in Seq(Delivery) /\ Len(q) = Len(s.deliveries) /\ DOMAIN q = DOMAIN s.deliveries
        /\ \A k \in DOMAIN q : q[k] = IF k = b THEN v ELSE s.deliveries[k]
    BY <1>1, RecordsType, SeqPut
  <1> HIDE DEF q
  <1>3. InOrder([s EXCEPT !.deliveries = q])
    BY <1>1, <1>2, DeliveriesChange DEF Linked
  <1>4. QED
    BY <1>3 DEF q

LEMMA DeliveryAdd ==
  ASSUME NEW s, InOrder(s), NEW v \in Delivery,
         v.contract \in DOMAIN s.contracts
  PROVE  InOrder([s EXCEPT !.deliveries = Append(s.deliveries, v)])
  <1> DEFINE q == Append(s.deliveries, v)
  <1>1. s \in Records /\ Linked(s)
    BY DEF InOrder
  <1>2. /\ q \in Seq(Delivery) /\ DOMAIN s.deliveries \subseteq DOMAIN q
        /\ \A k \in DOMAIN q : IF k \in DOMAIN s.deliveries THEN q[k] = s.deliveries[k] ELSE q[k] = v
    BY <1>1, RecordsType, SeqAdd
  <1> HIDE DEF q
  <1>3. InOrder([s EXCEPT !.deliveries = q])
    BY <1>1, <1>2, DeliveriesChange DEF Linked
  <1>4. QED
    BY <1>3 DEF q

LEMMA ClaimPut ==
  ASSUME NEW s, InOrder(s), NEW r \in DOMAIN s.claims, NEW v \in Claim,
         v.amount = s.claims[r].amount,
         v.contract = s.claims[r].contract,
         v.status \in Held <=> s.claims[r].status \in Held
  PROVE  InOrder([s EXCEPT !.claims = [s.claims EXCEPT ![r] = v]])
  <1> DEFINE q == [s.claims EXCEPT ![r] = v]
  <1>1. s \in Records /\ Linked(s)
    BY DEF InOrder
  <1>2. /\ q \in Seq(Claim) /\ Len(q) = Len(s.claims) /\ DOMAIN q = DOMAIN s.claims
        /\ \A k \in DOMAIN q : q[k] = IF k = r THEN v ELSE s.claims[k]
    BY <1>1, RecordsType, SeqPut
  <1> HIDE DEF q
  <1>3. InOrder([s EXCEPT !.claims = q])
    BY <1>1, <1>2, ClaimsChange DEF Linked
  <1>4. QED
    BY <1>3 DEF q

LEMMA ClaimAdd ==
  ASSUME NEW s, InOrder(s), NEW v \in Claim,
         v.contract \in DOMAIN s.contracts,
         v.status \notin Held
  PROVE  InOrder([s EXCEPT !.claims = Append(s.claims, v)])
  <1> DEFINE q == Append(s.claims, v)
  <1>1. s \in Records /\ Linked(s)
    BY DEF InOrder
  <1>2. /\ q \in Seq(Claim) /\ DOMAIN s.claims \subseteq DOMAIN q
        /\ \A k \in DOMAIN q : IF k \in DOMAIN s.claims THEN q[k] = s.claims[k] ELSE q[k] = v
    BY <1>1, RecordsType, SeqAdd
  <1> HIDE DEF q
  <1>3. InOrder([s EXCEPT !.claims = q])
    BY <1>1, <1>2, ClaimsChange DEF Linked
  <1>4. QED
    BY <1>3 DEF q

LEMMA TxPut ==
  ASSUME NEW s, InOrder(s), NEW k \in DOMAIN s.txs, NEW v \in Tx,
         TxOK(s, v)
  PROVE  InOrder([s EXCEPT !.txs = [s.txs EXCEPT ![k] = v]])
  <1> DEFINE q == [s.txs EXCEPT ![k] = v]
  <1>1. s \in Records /\ Linked(s)
    BY DEF InOrder
  <1>2. /\ q \in Seq(Tx) /\ Len(q) = Len(s.txs) /\ DOMAIN q = DOMAIN s.txs
        /\ \A i \in DOMAIN q : q[i] = IF i = k THEN v ELSE s.txs[i]
    BY <1>1, RecordsType, SeqPut
  <1> HIDE DEF q
  <1>3. InOrder([s EXCEPT !.txs = q])
    BY <1>1, <1>2, TxsChange DEF Linked
  <1>4. QED
    BY <1>3 DEF q

LEMMA TxAdd ==
  ASSUME NEW s, InOrder(s), NEW v \in Tx,
         TxOK(s, v)
  PROVE  InOrder([s EXCEPT !.txs = Append(s.txs, v)])
  <1> DEFINE q == Append(s.txs, v)
  <1>1. s \in Records /\ Linked(s)
    BY DEF InOrder
  <1>2. /\ q \in Seq(Tx) /\ DOMAIN s.txs \subseteq DOMAIN q
        /\ \A k \in DOMAIN q : IF k \in DOMAIN s.txs THEN q[k] = s.txs[k] ELSE q[k] = v
    BY <1>1, RecordsType, SeqAdd
  <1> HIDE DEF q
  <1>3. InOrder([s EXCEPT !.txs = q])
    BY <1>1, <1>2, TxsChange DEF Linked
  <1>4. QED
    BY <1>3 DEF q

\* Donations are made, paid, reviewed and deposited.
LEMMA DonatedInOrder ==
  ASSUME NEW s, InOrder(s), NEW intent \in Nat PROVE InOrder(Donated(s, intent))
  <1> DEFINE first == IF intent = 0 THEN "PAYMENT_PENDING" ELSE "MON_REVIEW_PENDING"
             v == [status |-> first, intent |-> intent, mon |-> 0, available |-> 0,
                   escrowed |-> 0, locked |-> 0]
  <1>1. v \in Donation /\ v.escrowed = 0 /\ v.locked = 0
    <2>1. first \in {"PAYMENT_PENDING", "MON_REVIEW_PENDING"}
      OBVIOUS
    <2> HIDE DEF first
    <2>2. QED
      BY <2>1 DEF Donation
  <1>2. Donated(s, intent) = [s EXCEPT !.donations = Append(s.donations, v)]
    BY DEF Donated
  <1> HIDE DEF v
  <1>3. QED
    BY <1>1, <1>2, DonationAdd

LEMMA StatusInOrder ==
  ASSUME NEW s, InOrder(s), NEW d \in DOMAIN s.donations,
         NEW status, [s.donations[d] EXCEPT !.status = status] \in Donation
  PROVE  InOrder([s EXCEPT !.donations[d].status = status])
  <1> DEFINE v == [s.donations[d] EXCEPT !.status = status]
  <1>1. s.donations[d] \in Donation
    BY RecordsType DEF InOrder
  <1>2. v \in Donation /\ v.escrowed = s.donations[d].escrowed /\ v.locked = s.donations[d].locked
    BY <1>1 DEF Donation
  <1> HIDE DEF v
  <1>3. InOrder([s EXCEPT !.donations = [s.donations EXCEPT ![d] = v]])
    BY <1>2, DonationPut
  <1>4. QED
    BY <1>3 DEF v

LEMMA DepositedInOrder ==
  ASSUME NEW s, InOrder(s), NEW d \in DOMAIN s.donations, NEW amount \in Nat
  PROVE  InOrder(Deposited(s, d, amount))
  <1> DEFINE v == [s.donations[d] EXCEPT !.mon = amount, !.status = "MON_DEPOSIT_PENDING"]
             t == [s EXCEPT !.donations = [s.donations EXCEPT ![d] = v]]
             tx == [action |-> "MON_DEPOSIT", of |-> d, status |-> "PENDING"]
  <1>1. s \in Records /\ s.donations[d] \in Donation /\ d \in Nat
    BY RecordsType, SeqDomain DEF InOrder
  <1>2. v \in Donation /\ v.escrowed = s.donations[d].escrowed /\ v.locked = s.donations[d].locked
    BY <1>1 DEF Donation
  <1>3. tx \in Tx
    BY <1>1 DEF Tx
  <1>4. Deposited(s, d, amount) = [t EXCEPT !.txs = Append(t.txs, tx)]
    BY <1>1 DEF Deposited, Queue, Records
  <1>5. TxOK(t, tx)
    BY <1>1 DEF TxOK, Records
  <1> HIDE DEF v
  <1>6. InOrder(t)
    BY <1>2, DonationPut
  <1> HIDE DEF t, tx
  <1>7. QED
    BY <1>3, <1>4, <1>5, <1>6, TxAdd

\* Orders are placed and rejected.
LEMMA OrderedInOrder ==
  ASSUME NEW s, InOrder(s), NEW quantity \in Nat
  PROVE  InOrder([s EXCEPT !.orders = Append(s.orders,
           [status |-> "PENDING_REVIEW", quantity |-> quantity, contract |-> 0])])
  <1> DEFINE v == [status |-> "PENDING_REVIEW", quantity |-> quantity, contract |-> 0]
  <1>1. v \in Order /\ v.status # "APPROVED"
    BY DEF Order
  <1> HIDE DEF v
  <1>2. InOrder([s EXCEPT !.orders = Append(s.orders, v)])
    BY <1>1, OrderAdd
  <1>3. QED
    BY <1>2 DEF v

LEMMA RejectedInOrder ==
  ASSUME NEW s, InOrder(s), NEW o \in DOMAIN s.orders, s.orders[o].status # "APPROVED"
  PROVE  InOrder([s EXCEPT !.orders[o].status = "REJECTED"])
  <1> DEFINE v == [s.orders[o] EXCEPT !.status = "REJECTED"]
  <1>1. s.orders[o] \in Order
    BY RecordsType DEF InOrder
  <1>2. v \in Order /\ v.status # "APPROVED"
    BY <1>1 DEF Order
  <1> HIDE DEF v
  <1>3. InOrder([s EXCEPT !.orders = [s.orders EXCEPT ![o] = v]])
    BY <1>2, OrderPut
  <1>4. QED
    BY <1>3 DEF v

\* A contract changes its status or its settlement, and a transaction is queued.
LEMMA StageInOrder ==
  ASSUME NEW s, InOrder(s), NEW c \in DOMAIN s.contracts,
         NEW status, [s.contracts[c] EXCEPT !.status = status] \in Contract,
         NEW settlement \in Nat
  PROVE  /\ InOrder([s EXCEPT !.contracts[c].status = status])
         /\ InOrder([s EXCEPT !.contracts[c].settlement = settlement,
                              !.contracts[c].status = status])
  <1> DEFINE v == [s.contracts[c] EXCEPT !.status = status]
             w == [s.contracts[c] EXCEPT !.settlement = settlement, !.status = status]
  <1>1. s \in Records /\ s.contracts[c] \in Contract
    BY RecordsType DEF InOrder
  <1>2. v \in Contract /\ v.amount = s.contracts[c].amount /\ v.debited = s.contracts[c].debited
    BY <1>1 DEF Contract
  <1>3. w \in Contract /\ w.amount = s.contracts[c].amount /\ w.debited = s.contracts[c].debited
    BY <1>1 DEF Contract
  <1>4. [s EXCEPT !.contracts[c].settlement = settlement, !.contracts[c].status = status]
        = [s EXCEPT !.contracts = [s.contracts EXCEPT ![c] = w]]
    BY <1>1 DEF Records
  <1> HIDE DEF v, w
  <1>5. /\ InOrder([s EXCEPT !.contracts = [s.contracts EXCEPT ![c] = v]])
        /\ InOrder([s EXCEPT !.contracts = [s.contracts EXCEPT ![c] = w]])
    BY <1>2, <1>3, ContractPut
  <1>6. QED
    BY <1>4, <1>5 DEF v

LEMMA ContractApprovedInOrder ==
  ASSUME NEW s, InOrder(s), NEW c \in DOMAIN s.contracts
  PROVE  InOrder(ContractApproved(s, c))
  <1> DEFINE t == [s EXCEPT !.contracts[c].status = "FUNDS_RESERVATION_PENDING"]
             tx == [action |-> "ESCROW_CREATED", of |-> c, status |-> "PENDING"]
  <1>1. s \in Records /\ s.contracts[c] \in Contract /\ c \in Nat
    BY RecordsType, SeqDomain DEF InOrder
  <1>2. [s.contracts[c] EXCEPT !.status = "FUNDS_RESERVATION_PENDING"] \in Contract
    BY <1>1 DEF Contract
  <1>3. tx \in Tx
    BY <1>1 DEF Tx
  <1>4. ContractApproved(s, c) = [t EXCEPT !.txs = Append(t.txs, tx)]
    BY <1>1 DEF ContractApproved, Queue, Records
  <1>5. TxOK(t, tx)
    BY <1>1 DEF TxOK, Records
  <1>6. InOrder(t)
    BY <1>2, StageInOrder
  <1> HIDE DEF t, tx
  <1>7. QED
    BY <1>3, <1>4, <1>5, <1>6, TxAdd

\* Deliveries are sent and looked at.
LEMMA DeliveredInOrder ==
  ASSUME NEW s, InOrder(s), NEW c \in DOMAIN s.contracts, NEW planned \in Nat
  PROVE  InOrder(Delivered(s, c, planned))
  <1> DEFINE t == [s EXCEPT !.contracts[c].status = "IN_PROGRESS"]
             v == [contract |-> c, planned |-> planned, status |-> "IN_PROGRESS"]
  <1>1. s \in Records /\ s.contracts[c] \in Contract /\ c \in Nat
    BY RecordsType, SeqDomain DEF InOrder
  <1>2. [s.contracts[c] EXCEPT !.status = "IN_PROGRESS"] \in Contract
    BY <1>1 DEF Contract
  <1>3. v \in Delivery
    BY <1>1 DEF Delivery
  <1>4. Delivered(s, c, planned) = [t EXCEPT !.deliveries = Append(t.deliveries, v)]
    BY <1>1 DEF Delivered, Records
  <1>5. v.contract \in DOMAIN t.contracts
    BY <1>1 DEF Records
  <1>6. InOrder(t)
    BY <1>2, StageInOrder
  <1> HIDE DEF t, v
  <1>7. QED
    BY <1>3, <1>4, <1>5, <1>6, DeliveryAdd

LEMMA AcceptedInOrder ==
  ASSUME NEW s, InOrder(s), NEW b \in DOMAIN s.deliveries, NEW result \in Findings
  PROVE  InOrder(Accepted(s, b, result))
  <1> DEFINE v == [s.deliveries[b] EXCEPT !.status = result]
             t == [s EXCEPT !.deliveries = [s.deliveries EXCEPT ![b] = v]]
             c == s.deliveries[b].contract
             status == IF result = "ACCEPTED" THEN "PENDING_SETTLEMENT" ELSE result
  <1>1. /\ s \in Records /\ s.deliveries[b] \in Delivery /\ c \in DOMAIN s.contracts
        /\ s.contracts[c] \in Contract
    BY RecordsType DEF InOrder, Linked
  <1>2. v \in Delivery /\ v.contract = s.deliveries[b].contract
    BY <1>1 DEF Delivery
  <1>3. [s.contracts[c] EXCEPT !.status = status] \in Contract
    <2>1. status \in Findings \cup {"PENDING_SETTLEMENT"}
      OBVIOUS
    <2> HIDE DEF status, c
    <2>2. QED
      BY <1>1, <2>1 DEF Contract
  <1>4. Accepted(s, b, result) = [t EXCEPT !.contracts[c].status = status]
    BY <1>1 DEF Accepted, Records
  <1>5. t.contracts = s.contracts
    BY <1>1 DEF Records
  <1> HIDE DEF v
  <1>6. InOrder(t)
    BY <1>2, DeliveryPut
  <1> HIDE DEF t, c, status
  <1>7. InOrder([t EXCEPT !.contracts[c].status = status])
    BY <1>1, <1>3, <1>5, <1>6, StageInOrder
  <1>8. QED
    BY <1>4, <1>7

\* Redemptions are asked for, approved, paid and settled.
LEMMA ClaimedInOrder ==
  ASSUME NEW s, InOrder(s), NEW c \in DOMAIN s.contracts, NEW amount \in Nat
  PROVE  InOrder(Claimed(s, c, amount))
  <1> DEFINE v == [contract |-> c, amount |-> amount, status |-> "REQUESTED"]
  <1>1. c \in Nat
    BY RecordsType, SeqDomain DEF InOrder
  <1>2. v \in Claim /\ v.contract \in DOMAIN s.contracts /\ v.status \notin Held
    BY <1>1 DEF Claim, Held
  <1>3. Claimed(s, c, amount) = [s EXCEPT !.claims = Append(s.claims, v)]
    BY DEF Claimed
  <1> HIDE DEF v
  <1>4. QED
    BY <1>2, <1>3, ClaimAdd

LEMMA ClaimStage ==
  ASSUME NEW s, InOrder(s), NEW r \in DOMAIN s.claims,
         NEW status, [s.claims[r] EXCEPT !.status = status] \in Claim,
         status \in Held <=> s.claims[r].status \in Held
  PROVE  InOrder([s EXCEPT !.claims[r].status = status])
  <1> DEFINE v == [s.claims[r] EXCEPT !.status = status]
  <1>1. s.claims[r] \in Claim
    BY RecordsType DEF InOrder
  <1>2. /\ v \in Claim /\ v.amount = s.claims[r].amount /\ v.contract = s.claims[r].contract
        /\ v.status = status
    BY <1>1 DEF Claim
  <1> HIDE DEF v
  <1>3. InOrder([s EXCEPT !.claims = [s.claims EXCEPT ![r] = v]])
    BY <1>2, ClaimPut
  <1>4. QED
    BY <1>3 DEF v

LEMMA ClaimQueued ==
  ASSUME NEW s, InOrder(s), NEW r \in DOMAIN s.claims, NEW action \in {"MON_LOCKED", "MON_SETTLED"}
  PROVE  InOrder([s EXCEPT !.txs = Queue(s, action, r)])
  <1> DEFINE tx == [action |-> action, of |-> r, status |-> "PENDING"]
  <1>1. r \in Nat
    BY RecordsType, SeqDomain DEF InOrder
  <1>2. tx \in Tx /\ TxOK(s, tx)
    BY <1>1 DEF Tx, TxOK
  <1>3. Queue(s, action, r) = Append(s.txs, tx)
    BY DEF Queue
  <1> HIDE DEF tx
  <1>4. QED
    BY <1>2, <1>3, TxAdd

LEMMA ClaimApprovedInOrder ==
  ASSUME NEW s, InOrder(s), NEW r \in DOMAIN s.claims, s.claims[r].status = "REQUESTED"
  PROVE  InOrder(ClaimApproved(s, r))
  <1> DEFINE t == [s EXCEPT !.claims[r].status = "MON_LOCK_PENDING"]
  <1>1. s \in Records /\ s.claims[r] \in Claim
    BY RecordsType DEF InOrder
  <1>2. [s.claims[r] EXCEPT !.status = "MON_LOCK_PENDING"] \in Claim
    BY <1>1 DEF Claim
  <1>3. InOrder(t)
    BY <1>2, ClaimStage DEF Held
  <1>4. ClaimApproved(s, r) = [t EXCEPT !.txs = Queue(t, "MON_LOCKED", r)]
    BY <1>1 DEF ClaimApproved, Queue, Records
  <1>5. r \in DOMAIN t.claims
    BY <1>1 DEF Records
  <1> HIDE DEF t
  <1>6. QED
    BY <1>3, <1>4, <1>5, ClaimQueued

LEMMA SettlementSentInOrder ==
  ASSUME NEW s, InOrder(s), NEW r \in DOMAIN s.claims, s.claims[r].status = "PAID"
  PROVE  InOrder(SettlementSent(s, r))
  <1> DEFINE t == [s EXCEPT !.claims[r].status = "SETTLEMENT_CHAIN_PENDING"]
  <1>1. s \in Records /\ s.claims[r] \in Claim
    BY RecordsType DEF InOrder
  <1>2. [s.claims[r] EXCEPT !.status = "SETTLEMENT_CHAIN_PENDING"] \in Claim
    BY <1>1 DEF Claim
  <1>3. InOrder(t)
    BY <1>2, ClaimStage DEF Held
  <1>4. SettlementSent(s, r) = [t EXCEPT !.txs = Queue(t, "MON_SETTLED", r)]
    BY <1>1 DEF SettlementSent, Queue, Records
  <1>5. r \in DOMAIN t.claims
    BY <1>1 DEF Records
  <1> HIDE DEF t
  <1>6. QED
    BY <1>3, <1>4, <1>5, ClaimQueued

-----------------------------------------------------------------------------
(* The handlers that move goods and money *)

\* What is taken from the donations, newest first: as much as was asked for, if
\* that much is available.
LEMMA TakenType ==
  ASSUME NEW s \in Records, NEW amount \in Nat
  PROVE  LET share == Taken(s, amount)
         IN  /\ DOMAIN share \subseteq DOMAIN s.donations
             /\ \A d \in DOMAIN share : /\ share[d] \in Nat
                                        /\ share[d] <= s.donations[d].available
             /\ Summable(share) /\ Total(share) \in Nat
             /\ amount <= Available(s) => Total(share) = amount
  <1> DEFINE cap == Free(s)
             r == Ranking(DOMAIN cap, LAMBDA x, y : x > y)
             share == Taken(s, amount)
  <1>1. Capacity(cap) /\ DOMAIN cap = DOMAIN s.donations
    BY ColumnsType DEF Free
  <1>2. share = Greedy(amount, cap, r)
    BY DEF Taken, Free
  <1>3. LinearOrder(r, DOMAIN cap)
    <2>1. \A d \in DOMAIN cap : d \in Nat
      BY <1>1, SeqDomain, RecordsType
    <2>2. \A x, y : <<x, y>> \in r <=> x \in DOMAIN cap /\ y \in DOMAIN cap /\ x > y
      BY DEF Ranking
    <2> HIDE DEF r, cap
    <2>3. QED
      BY <2>1, <2>2 DEF LinearOrder, StrictOrder
  <1>4. \A d \in DOMAIN cap : cap[d] = s.donations[d].available
    BY DEF Free
  <1>5. Total(cap) = Available(s)
    BY AvailableIsTotal
  <1> HIDE DEF r, cap, share
  <1>6. DOMAIN share \subseteq DOMAIN cap
    BY <1>2 DEF Greedy
  <1>7. \A d \in DOMAIN share : share[d] \in Nat /\ share[d] <= cap[d]
    BY <1>1, <1>2, GreedyType
  <1>8. Summable(share) /\ Total(share) \in Nat
    BY <1>1, <1>2, <1>3, GreedyBound
  <1>9. amount <= Available(s) => Total(share) = amount
    BY <1>1, <1>2, <1>3, <1>5, GreedyTotal
  <1>10. QED
    BY <1>1, <1>4, <1>6, <1>7, <1>8, <1>9 DEF share

\* What goes into one pot comes from what was available; the other pot stays.
Into(pot, name, share, d) == IF pot = name /\ d \in DOMAIN share THEN share[d] ELSE 0
LEMMA TakenIntoType ==
  ASSUME NEW s \in Records, NEW amount \in Nat, NEW pot \in {"escrowed", "locked"}
  PROVE  LET q == TakenInto(s, amount, pot)
             share == Taken(s, amount)
         IN  /\ q \in Seq(Donation) /\ DOMAIN q = DOMAIN s.donations
             /\ \A d \in DOMAIN q :
                  /\ q[d].escrowed = s.donations[d].escrowed + Into(pot, "escrowed", share, d)
                  /\ q[d].locked = s.donations[d].locked + Into(pot, "locked", share, d)
  <1> DEFINE q == TakenInto(s, amount, pot)
  <1>0. PICK share : share = Taken(s, amount)
    OBVIOUS
  <1>1. /\ DOMAIN share \subseteq DOMAIN s.donations
        /\ \A d \in DOMAIN share : share[d] \in Nat /\ share[d] <= s.donations[d].available
    BY <1>0, TakenType
  <1>2. /\ DOMAIN q = DOMAIN s.donations
        /\ \A d \in DOMAIN q : q[d] = IF d \notin DOMAIN share THEN s.donations[d]
                                      ELSE [s.donations[d] EXCEPT !.available = @ - share[d],
                                                                  ![pot] = @ + share[d]]
    BY <1>0 DEF TakenInto
  <1> HIDE DEF q
  <1>3. ASSUME NEW d \in DOMAIN q
        PROVE  /\ q[d] \in Donation
               /\ q[d].escrowed = s.donations[d].escrowed + Into(pot, "escrowed", share, d)
               /\ q[d].locked = s.donations[d].locked + Into(pot, "locked", share, d)
    <2>1. PICK v \in Donation : v = s.donations[d]
      BY <1>2, RecordsType
    <2>2. CASE d \notin DOMAIN share
      <3>1. q[d] = v /\ v.escrowed \in Nat /\ v.locked \in Nat
        BY <1>2, <2>1, <2>2 DEF Donation
      <3>2. Into(pot, "escrowed", share, d) = 0 /\ Into(pot, "locked", share, d) = 0
        BY <2>2 DEF Into
      <3>3. QED
        BY <2>1, <3>1, <3>2
    <2>3. CASE d \in DOMAIN share
      <3>1. PICK x \in Nat : x = share[d] /\ x <= s.donations[d].available
        BY <1>1, <2>3
      <3>2. v = s.donations[d]
        BY <2>1
      <3>3. /\ v.available - x \in Nat /\ v.escrowed + x \in Nat /\ v.locked + x \in Nat
            /\ v.escrowed \in Nat /\ v.locked \in Nat
        BY <3>1, <3>2 DEF Donation
      <3>4. CASE pot = "escrowed"
        <4>1. q[d] = [v EXCEPT !.available = v.available - x, !.escrowed = v.escrowed + x]
          BY <1>2, <2>3, <3>1, <3>2, <3>4 DEF Donation
        <4>2. /\ q[d] \in Donation
              /\ q[d].escrowed = v.escrowed + x /\ q[d].locked = v.locked
          BY <3>3, <4>1 DEF Donation
        <4>3. Into(pot, "escrowed", share, d) = x /\ Into(pot, "locked", share, d) = 0
          BY <2>3, <3>1, <3>4 DEF Into
        <4>4. QED
          BY <3>2, <3>3, <4>2, <4>3
      <3>5. CASE pot = "locked"
        <4>1. q[d] = [v EXCEPT !.available = v.available - x, !.locked = v.locked + x]
          BY <1>2, <2>3, <3>1, <3>2, <3>5 DEF Donation
        <4>2. /\ q[d] \in Donation
              /\ q[d].locked = v.locked + x /\ q[d].escrowed = v.escrowed
          BY <3>3, <4>1 DEF Donation
        <4>3. Into(pot, "locked", share, d) = x /\ Into(pot, "escrowed", share, d) = 0
          BY <2>3, <3>1, <3>5 DEF Into
        <4>4. QED
          BY <3>2, <3>3, <4>2, <4>3
      <3>6. QED
        BY <3>4, <3>5
    <2>4. QED
      BY <2>2, <2>3
  <1>4. q \in Seq(Donation)
    <2>1. DOMAIN q = 1..Len(s.donations) /\ Len(s.donations) \in Nat
      BY <1>2, SeqDomain, RecordsType
    <2>2. q = [d \in 1..Len(s.donations) |-> q[d]]
      BY <2>1 DEF TakenInto, q
    <2>3. q \in [1..Len(s.donations) -> Donation]
      BY <1>3, <2>1, <2>2
    <2>4. QED
      BY <2>1, <2>3, SeqDef
  <1>5. QED
    BY <1>0, <1>2, <1>3, <1>4 DEF q

\* An order is approved: it gets its goods and a contract nobody else has.
LEMMA OrderApprovedInOrder ==
  ASSUME NEW s, InOrder(s), NEW o \in DOMAIN s.orders, Approvable(s, o)
  PROVE  InOrder(ApprovedAgain(s, o))
  <1> DEFINE n == Len(s.contracts) + 1
             v == [s.orders[o] EXCEPT !.status = "APPROVED", !.contract = n]
             c == [status |-> "PENDING_APPROVAL", amount |-> s.orders[o].quantity,
                   planned |-> s.orders[o].quantity, debited |-> FALSE, settlement |-> 0]
             orders == [s.orders EXCEPT ![o] = v]
             contracts == Append(s.contracts, c)
             t == [s EXCEPT !.stock = s.stock - s.orders[o].quantity, !.orders = orders,
                            !.contracts = contracts]
  <1>1. /\ s \in Records /\ Linked(s) /\ GoodsSoldOnce(s) /\ ClaimsBacked(s)
        /\ s.orders[o] \in Order /\ s.orders[o].status = "PENDING_REVIEW"
        /\ s.orders[o].quantity <= s.stock
    BY RecordsType DEF InOrder, Approvable
  <1>2. ApprovedAgain(s, o) = t
    BY <1>1 DEF ApprovedAgain, Records
  <1>3. /\ n \in Nat /\ n \notin DOMAIN s.contracts /\ n = Len(s.contracts) + 1
        /\ DOMAIN s.contracts = 1..Len(s.contracts) /\ Len(s.contracts) \in Nat
    BY <1>1, SeqDomain, RecordsType
  <1>4. PICK a \in Nat : a = s.orders[o].quantity
    BY <1>1 DEF Order
  <1>5. s.stock \in Nat /\ s.stock - a \in Nat
    BY <1>1, <1>4, RecordsType
  <1>6. v \in Order /\ v.status = "APPROVED" /\ v.contract = n /\ v.quantity = a
    BY <1>1, <1>3, <1>4 DEF Order
  <1>7. c \in Contract /\ c.amount = a /\ c.debited = FALSE
    BY <1>4 DEF Contract
  <1> HIDE DEF n, v, c
  <1>8. /\ orders \in Seq(Order) /\ DOMAIN orders = DOMAIN s.orders
        /\ \A p \in DOMAIN orders : orders[p] = IF p = o THEN v ELSE s.orders[p]
    BY <1>1, <1>6, RecordsType, SeqPut
  <1>9. /\ contracts \in Seq(Contract) /\ Len(contracts) = n
        /\ DOMAIN contracts = DOMAIN s.contracts \cup {n}
        /\ contracts[n] = c /\ \A k \in DOMAIN s.contracts : contracts[k] = s.contracts[k]
    BY <1>1, <1>3, <1>7, RecordsType, SeqAdd
  <1> HIDE DEF orders, contracts
  <1>10. t \in Records /\ t.orders = orders /\ t.contracts = contracts /\ t.stock = s.stock - a
    BY <1>1, <1>4, <1>5, <1>8, <1>9 DEF Records
  <1>11. /\ t.donations = s.donations /\ t.claims = s.claims /\ t.deliveries = s.deliveries
         /\ t.txs = s.txs
    BY <1>1 DEF Records
  <1> HIDE DEF t
  <1>12. o \notin ApprovedOrders(s) /\ ApprovedOrders(t) = ApprovedOrders(s) \cup {o}
    BY <1>1, <1>6, <1>8, <1>10 DEF ApprovedOrders
  <1>13. /\ s.stock + Total(Sold(s)) = Stock
         /\ Len(s.contracts) = 1 + Cardinality(ApprovedOrders(s))
         /\ \A p \in ApprovedOrders(s) :
              /\ s.contracts[s.orders[p].contract].amount = s.orders[p].quantity
              /\ s.orders[p].contract \in 2..Len(s.contracts)
         /\ \A p, r \in ApprovedOrders(s) :
              s.orders[p].contract = s.orders[r].contract => p = r
    BY <1>1, <1>3, GoodsAreTotals DEF Linked
  <1>14. /\ Cardinality(ApprovedOrders(s)) \in Nat
         /\ Cardinality(ApprovedOrders(t)) = Cardinality(ApprovedOrders(s)) + 1
    <2>1. IsFiniteSet(DOMAIN s.orders)
      BY <1>1, SeqDomain, RecordsType
    <2>2. IsFiniteSet(ApprovedOrders(s))
      BY <2>1, FS_Subset DEF ApprovedOrders
    <2>3. QED
      BY <1>12, <2>2, FS_AddElement, FS_CardinalityType
  <1>15. Total(Sold(t)) = Total(Sold(s)) + a
    <2>1. Sold(s)[o] = 0 /\ o \in DOMAIN Sold(s)
      BY <1>1 DEF Sold
    <2>2. Sold(t)[o] = a
      BY <1>6, <1>8, <1>10 DEF Sold
    <2>3. Sold(t) = [p \in DOMAIN Sold(s) |-> IF p = o THEN Sold(t)[o] ELSE Sold(s)[p]]
      BY <1>8, <1>10 DEF Sold
    <2>4. Summable(Sold(s)) /\ Total(Sold(s)) \in Nat
      BY <1>1, ColumnsType, CapacitySummable
    <2>5. Total(Sold(t)) = Total(Sold(s)) - Sold(s)[o] + Sold(t)[o]
      BY <2>1, <2>2, <2>3, <2>4, TotalUpdate
    <2>6. QED
      BY <2>1, <2>2, <2>4, <2>5
  <1>16. \A p \in ApprovedOrders(t) :
           \/ p = o /\ t.orders[p] = v
           \/ p \in ApprovedOrders(s) /\ t.orders[p] = s.orders[p]
    BY <1>1, <1>8, <1>10, <1>12 DEF ApprovedOrders
  <1>17. ASSUME NEW p \in ApprovedOrders(t)
         PROVE  t.contracts[t.orders[p].contract].amount = t.orders[p].quantity
    <2>1. CASE p = o /\ t.orders[p] = v
      BY <1>6, <1>7, <1>9, <1>10, <2>1
    <2>2. CASE p \in ApprovedOrders(s) /\ t.orders[p] = s.orders[p]
      BY <1>3, <1>9, <1>10, <1>13, <2>2
    <2>3. QED
      BY <1>16, <2>1, <2>2
  <1>18. ASSUME NEW p \in ApprovedOrders(t), NEW r \in ApprovedOrders(t),
                t.orders[p].contract = t.orders[r].contract
         PROVE  p = r
    <2>1. \A x \in ApprovedOrders(s) : s.orders[x].contract # n
      BY <1>3, <1>13
    <2>2. QED
      BY <1>6, <1>13, <1>18, <1>16, <2>1
  <1>19. GoodsSoldOnce(t)
    <2>1. Total(Sold(s)) \in Nat
      BY <1>1, ColumnsType, CapacitySummable
    <2>2. t.stock + Total(Sold(t)) = Stock /\ t.stock >= 0
      BY <1>5, <1>10, <1>13, <1>15, <2>1
    <2>3. Len(t.contracts) = 1 + Cardinality(ApprovedOrders(t))
      BY <1>3, <1>9, <1>10, <1>13, <1>14
    <2>4. QED
      BY <1>17, <1>18, <2>2, <2>3, GoodsAreTotals
  <1>20. DebitsKept(s, t) /\ DonationsKept(s, t) /\ HoldsKept(s, t)
    BY <1>7, <1>9, <1>10, <1>11 DEF DebitsKept, DonationsKept, HoldsKept
  <1>21. ClaimsBacked(t)
    BY <1>1, <1>10, <1>20, ClaimsKept
  <1>22. Linked(t)
    <2>1. \A p \in ApprovedOrders(t) : t.orders[p].contract \in 2..Len(t.contracts)
      <3>1. n \in 2..n
        BY <1>3, <1>13, <1>14
      <3>2. 2..Len(s.contracts) \subseteq 2..n
        BY <1>3
      <3>3. QED
        BY <1>6, <1>9, <1>10, <1>13, <1>16, <3>1, <3>2
    <2>2. RefersTo(s, t)
      BY <1>1, <1>11 DEF RefersTo, Linked
    <2>3. DOMAIN s.contracts \subseteq DOMAIN t.contracts
      BY <1>9, <1>10
    <2>4. QED
      BY <1>1, <1>10, <1>11, <2>1, <2>2, <2>3, LinksKept
  <1>23. QED
    BY <1>2, <1>10, <1>19, <1>21, <1>22 DEF InOrder

\* What goes into a pot adds up to what was taken.
LEMMA TakenTotals ==
  ASSUME NEW s \in Records, NEW t \in Records, NEW amount \in Nat,
         NEW pot \in {"escrowed", "locked"}, t.donations = TakenInto(s, amount, pot)
  PROVE  \E n \in Nat :
           /\ amount <= Available(s) => n = amount
           /\ Total(Escrowed(t)) = Total(Escrowed(s)) + IF pot = "escrowed" THEN n ELSE 0
           /\ Total(Locked(t)) = Total(Locked(s)) + IF pot = "locked" THEN n ELSE 0
  <1>1. PICK share : share = Taken(s, amount)
    OBVIOUS
  <1>2. /\ DOMAIN share \subseteq DOMAIN s.donations /\ Summable(share)
        /\ Total(share) \in Nat
        /\ amount <= Available(s) => Total(share) = amount
    BY <1>1, TakenType
  <1>3. /\ DOMAIN t.donations = DOMAIN s.donations
        /\ \A d \in DOMAIN t.donations :
             /\ t.donations[d].escrowed =
                  s.donations[d].escrowed + Into(pot, "escrowed", share, d)
             /\ t.donations[d].locked = s.donations[d].locked + Into(pot, "locked", share, d)
    BY <1>1, TakenIntoType
  <1>4. /\ Summable(Escrowed(s)) /\ Total(Escrowed(s)) \in Nat
        /\ Summable(Escrowed(t)) /\ Total(Escrowed(t)) \in Nat
        /\ Summable(Locked(s)) /\ Total(Locked(s)) \in Nat
        /\ Summable(Locked(t)) /\ Total(Locked(t)) \in Nat
    BY ColumnsType, CapacitySummable
  <1>5. /\ DOMAIN Escrowed(t) = DOMAIN s.donations /\ DOMAIN Escrowed(s) = DOMAIN s.donations
        /\ DOMAIN Locked(t) = DOMAIN s.donations /\ DOMAIN Locked(s) = DOMAIN s.donations
        /\ \A d \in DOMAIN s.donations :
             /\ Escrowed(t)[d] = Escrowed(s)[d] + Into(pot, "escrowed", share, d)
             /\ Locked(t)[d] = Locked(s)[d] + Into(pot, "locked", share, d)
    BY <1>3 DEF Escrowed, Locked
  <1>6. CASE pot = "escrowed"
    <2>1. \A d \in DOMAIN s.donations :
            Escrowed(t)[d] = Escrowed(s)[d] + IF d \in DOMAIN share THEN share[d] ELSE 0
      BY <1>5, <1>6 DEF Into
    <2>2. Total(Escrowed(t)) = Total(Escrowed(s)) + Total(share)
      BY <1>2, <1>4, <1>5, <2>1, TotalSplit
    <2>3. Locked(t) = Locked(s)
      <3>1. \A d \in DOMAIN s.donations : Locked(t)[d] = Locked(s)[d] /\ Locked(s)[d] \in Int
        BY <1>4, <1>5, <1>6 DEF Into, Summable
      <3>2. QED
        BY <1>5, <3>1 DEF Locked
    <2>4. PICK n \in Nat : n = Total(share)
      BY <1>2
    <2>5. /\ amount <= Available(s) => n = amount
          /\ Total(Escrowed(t)) = Total(Escrowed(s)) + IF pot = "escrowed" THEN n ELSE 0
          /\ Total(Locked(t)) = Total(Locked(s)) + IF pot = "locked" THEN n ELSE 0
      BY <1>2, <1>4, <1>6, <2>2, <2>3, <2>4
    <2>6. QED
      BY <2>5
  <1>7. CASE pot = "locked"
    <2>1. \A d \in DOMAIN s.donations :
            Locked(t)[d] = Locked(s)[d] + IF d \in DOMAIN share THEN share[d] ELSE 0
      BY <1>5, <1>7 DEF Into
    <2>2. Total(Locked(t)) = Total(Locked(s)) + Total(share)
      BY <1>2, <1>4, <1>5, <2>1, TotalSplit
    <2>3. Escrowed(t) = Escrowed(s)
      <3>1. \A d \in DOMAIN s.donations :
              Escrowed(t)[d] = Escrowed(s)[d] /\ Escrowed(s)[d] \in Int
        BY <1>4, <1>5, <1>7 DEF Into, Summable
      <3>2. QED
        BY <1>5, <3>1 DEF Escrowed
    <2>4. PICK n \in Nat : n = Total(share)
      BY <1>2
    <2>5. /\ amount <= Available(s) => n = amount
          /\ Total(Escrowed(t)) = Total(Escrowed(s)) + IF pot = "escrowed" THEN n ELSE 0
          /\ Total(Locked(t)) = Total(Locked(s)) + IF pot = "locked" THEN n ELSE 0
      BY <1>2, <1>4, <1>7, <2>2, <2>3, <2>4
    <2>6. QED
      BY <2>5
  <1>8. QED
    BY <1>6, <1>7

\* An escrow is confirmed: once, and for its whole amount.
LEMMA EscrowConfirmedInOrder ==
  ASSUME NEW s, InOrder(s), NEW c \in DOMAIN s.contracts, CanConfirmEscrow(s, c)
  PROVE  InOrder(EscrowConfirmed(s, c))
  <1> DEFINE q == TakenInto(s, s.contracts[c].amount, "escrowed")
             w == [s.contracts[c] EXCEPT !.status = "FUNDS_RESERVED", !.debited = TRUE]
             k == [s.contracts EXCEPT ![c] = w]
             t == [s EXCEPT !.donations = q, !.contracts = k]
  <1>1. /\ s \in Records /\ Linked(s) /\ GoodsSoldOnce(s) /\ ClaimsBacked(s)
        /\ s.contracts[c] \in Contract
    BY RecordsType DEF InOrder
  <1>2. CASE s.contracts[c].debited
    BY <1>2 DEF EscrowConfirmed
  <1>3. CASE ~s.contracts[c].debited
    <2>1. EscrowConfirmed(s, c) = t
      BY <1>1, <1>3 DEF EscrowConfirmed, Records
    <2>2. PICK a \in Nat : a = s.contracts[c].amount /\ a <= Available(s)
      BY <1>1, <1>3 DEF CanConfirmEscrow, Contract
    <2>3. w \in Contract /\ w.amount = a /\ w.debited
      BY <1>1, <2>2 DEF Contract
    <2>4. q \in Seq(Donation) /\ DOMAIN q = DOMAIN s.donations
      BY <1>1, <2>2, TakenIntoType
    <2> HIDE DEF w
    <2>5. /\ k \in Seq(Contract) /\ Len(k) = Len(s.contracts) /\ DOMAIN k = DOMAIN s.contracts
          /\ \A x \in DOMAIN k : k[x] = IF x = c THEN w ELSE s.contracts[x]
      BY <1>1, <2>3, RecordsType, SeqPut
    <2>6. t \in Records /\ t.donations = q /\ t.contracts = k
      <3> HIDE DEF q, k
      <3>1. QED
        BY <1>1, <2>4, <2>5 DEF Records
    <2>7. /\ t.stock = s.stock /\ t.orders = s.orders /\ t.claims = s.claims
          /\ t.deliveries = s.deliveries /\ t.txs = s.txs
      BY <1>1 DEF Records
    <2>8. t.donations = TakenInto(s, a, "escrowed")
      BY <2>2, <2>6
    <2> HIDE DEF q, k, t
    <2>9. Total(Escrowed(t)) = Total(Escrowed(s)) + a /\ Total(Locked(t)) = Total(Locked(s))
      <3>1. PICK n \in Nat :
              /\ a <= Available(s) => n = a
              /\ Total(Escrowed(t)) = Total(Escrowed(s)) + n
              /\ Total(Locked(t)) = Total(Locked(s)) + 0
        BY <1>1, <2>6, <2>8, TakenTotals
      <3>2. Total(Locked(s)) \in Nat
        BY <1>1, ColumnsType, CapacitySummable
      <3>3. QED
        BY <2>2, <3>1, <3>2
    <2>10. Total(Debits(t)) = Total(Debits(s)) + a
      <3>1. Debits(s)[c] = 0 /\ c \in DOMAIN Debits(s) /\ Debits(t)[c] = a
        BY <1>3, <2>3, <2>5, <2>6 DEF Debits
      <3>2. Debits(t) = [x \in DOMAIN Debits(s) |-> IF x = c THEN Debits(t)[c] ELSE Debits(s)[x]]
        BY <2>5, <2>6 DEF Debits
      <3>3. Summable(Debits(s)) /\ Total(Debits(s)) \in Nat
        BY <1>1, ColumnsType, CapacitySummable
      <3>4. Total(Debits(t)) = Total(Debits(s)) - Debits(s)[c] + Debits(t)[c]
        BY <3>1, <3>2, <3>3, TotalUpdate
      <3>5. QED
        BY <3>1, <3>3, <3>4
    <2>11. Holds(t) = Holds(s)
      BY <2>7 DEF Holds
    <2>12. ClaimsBacked(t)
      BY <1>1, <2>9, <2>10, <2>11, ClaimsAreTotals
    <2>13. OrdersKept(s, t) /\ AmountsKept(s, t)
      BY <2>2, <2>3, <2>5, <2>6, <2>7 DEF OrdersKept, AmountsKept
    <2>14. /\ GoodsSoldOnce(t)
           /\ \A o \in ApprovedOrders(t) : t.orders[o].contract \in 2..Len(t.contracts)
      BY <1>1, <2>6, <2>13, GoodsKept
    <2>15. RefersTo(s, t)
      BY <1>1, <2>7 DEF RefersTo, Linked
    <2>16. Linked(t)
      BY <1>1, <2>4, <2>5, <2>6, <2>7, <2>14, <2>15, LinksKept
    <2>17. QED
      BY <2>1, <2>6, <2>12, <2>14, <2>16 DEF InOrder
  <1>4. QED
    BY <1>2, <1>3

\* MON is locked for a redemption: it counts as locked only in full.
LEMMA LockConfirmedInOrder ==
  ASSUME NEW s, InOrder(s), NEW r \in DOMAIN s.claims, s.claims[r].status = "MON_LOCK_PENDING"
  PROVE  InOrder(LockConfirmed(s, r))
  <1> DEFINE status == IF Available(s) >= s.claims[r].amount THEN "MON_LOCKED" ELSE "MANUAL_REVIEW"
             q == TakenInto(s, s.claims[r].amount, "locked")
             w == [s.claims[r] EXCEPT !.status = status]
             k == [s.claims EXCEPT ![r] = w]
             t == [s EXCEPT !.donations = q, !.claims = k]
  <1>1. /\ s \in Records /\ Linked(s) /\ GoodsSoldOnce(s) /\ ClaimsBacked(s)
        /\ s.claims[r] \in Claim
    BY RecordsType DEF InOrder
  <1>2. LockConfirmed(s, r) = t
    BY <1>1 DEF LockConfirmed, Records
  <1>3. PICK a \in Nat : a = s.claims[r].amount
    BY <1>1 DEF Claim
  <1>4. /\ status \in {"MON_LOCKED", "MANUAL_REVIEW"}
        /\ status = "MON_LOCKED" => a <= Available(s)
    BY <1>3, <1>1, AvailableIsTotal, ColumnsType, CapacitySummable
  <1> HIDE DEF status
  <1>5. w \in Claim /\ w.amount = a /\ w.contract = s.claims[r].contract /\ w.status = status
    BY <1>1, <1>3, <1>4 DEF Claim
  <1> HIDE DEF w
  <1>6. q \in Seq(Donation) /\ DOMAIN q = DOMAIN s.donations
    BY <1>1, <1>3, TakenIntoType
  <1>7. /\ k \in Seq(Claim) /\ DOMAIN k = DOMAIN s.claims
        /\ \A x \in DOMAIN k : k[x] = IF x = r THEN w ELSE s.claims[x]
    BY <1>1, <1>5, RecordsType, SeqPut
  <1>8. t \in Records /\ t.donations = q /\ t.claims = k
    <2> HIDE DEF q, k
    <2>1. QED
      BY <1>1, <1>6, <1>7 DEF Records
  <1>9. /\ t.stock = s.stock /\ t.orders = s.orders /\ t.contracts = s.contracts
        /\ t.deliveries = s.deliveries /\ t.txs = s.txs
    BY <1>1 DEF Records
  <1>10. t.donations = TakenInto(s, a, "locked")
    BY <1>3, <1>8
  <1> HIDE DEF q, k, t
  <1>11. PICK n \in Nat : /\ a <= Available(s) => n = a
                          /\ Total(Escrowed(t)) = Total(Escrowed(s)) + 0
                          /\ Total(Locked(t)) = Total(Locked(s)) + n
    BY <1>1, <1>8, <1>10, TakenTotals
  <1>12. /\ Total(Escrowed(s)) \in Nat /\ Total(Locked(s)) \in Nat
         /\ Summable(Holds(s)) /\ Total(Holds(s)) \in Nat
    BY <1>1, ColumnsType, CapacitySummable
  <1>13. PICK held \in Nat : /\ held = IF status = "MON_LOCKED" THEN a ELSE 0
                             /\ Total(Holds(t)) = Total(Holds(s)) + held
    <2>1. PICK held \in Nat : held = IF status = "MON_LOCKED" THEN a ELSE 0
      OBVIOUS
    <2>2. Holds(s)[r] = 0 /\ r \in DOMAIN Holds(s)
      BY DEF Holds, Held
    <2>3. Holds(t)[r] = held
      BY <1>4, <1>5, <1>7, <1>8, <2>1 DEF Holds, Held
    <2>4. Holds(t) = [x \in DOMAIN Holds(s) |-> IF x = r THEN Holds(t)[r] ELSE Holds(s)[x]]
      BY <1>7, <1>8 DEF Holds
    <2>5. Total(Holds(t)) = Total(Holds(s)) - Holds(s)[r] + Holds(t)[r]
      BY <1>12, <2>2, <2>3, <2>4, TotalUpdate
    <2>6. QED
      BY <1>12, <2>1, <2>2, <2>3, <2>5
  <1>14. Debits(t) = Debits(s)
    BY <1>9 DEF Debits
  <1>15. held <= n
    BY <1>4, <1>11, <1>13
  <1>16. ClaimsBacked(t)
    BY <1>1, <1>11, <1>12, <1>13, <1>14, <1>15, ClaimsAreTotals
  <1>17. OrdersKept(s, t) /\ AmountsKept(s, t)
    BY <1>9 DEF OrdersKept, AmountsKept
  <1>18. /\ GoodsSoldOnce(t)
         /\ \A o \in ApprovedOrders(t) : t.orders[o].contract \in 2..Len(t.contracts)
    BY <1>1, <1>8, <1>17, GoodsKept
  <1>19. RefersTo(s, t)
    BY <1>1, <1>5, <1>7, <1>8, <1>9 DEF RefersTo, Linked
  <1>20. Linked(t)
    BY <1>1, <1>6, <1>7, <1>8, <1>9, <1>18, <1>19, LinksKept
  <1>21. QED
    BY <1>2, <1>8, <1>16, <1>18, <1>20 DEF InOrder

\* What a confirmed transaction does, also when it is confirmed again.
LEMMA AppliedInOrder ==
  ASSUME NEW s, InOrder(s), NEW tx \in Tx, TxOK(s, tx)
  PROVE  InOrder(Applied(s, tx))
  <1>1. s \in Records /\ Linked(s)
    BY DEF InOrder
  <1>2. CASE tx.action = "MON_DEPOSIT"
    <2> DEFINE d == tx.of
               v == [s.donations[d] EXCEPT !.status = "MON_DEPOSIT_CONFIRMED",
                                           !.available = s.donations[d].mon]
    <2>1. d \in DOMAIN s.donations /\ s.donations[d] \in Donation
      BY <1>1, <1>2, RecordsType DEF TxOK
    <2>2. /\ v \in Donation /\ v.escrowed = s.donations[d].escrowed
          /\ v.locked = s.donations[d].locked
      BY <2>1 DEF Donation
    <2>3. Applied(s, tx) = [s EXCEPT !.donations = [s.donations EXCEPT ![d] = v]]
      BY <1>1, <1>2, <2>1 DEF Applied, Records
    <2> HIDE DEF v, d
    <2>4. QED
      BY <2>1, <2>2, <2>3, DonationPut
  <1>3. CASE tx.action = "ESCROW_CREATED"
    <2>1. tx.of \in DOMAIN s.contracts /\ s.contracts[tx.of] \in Contract
      BY <1>1, <1>3, RecordsType DEF TxOK
    <2>2. [s.contracts[tx.of] EXCEPT !.status = "FUNDS_RESERVED"] \in Contract
      BY <2>1 DEF Contract
    <2>3. Applied(s, tx) = [s EXCEPT !.contracts[tx.of].status = "FUNDS_RESERVED"]
      BY <1>3 DEF Applied
    <2>4. InOrder([s EXCEPT !.contracts[tx.of].status = "FUNDS_RESERVED"])
      BY <2>1, <2>2, StageInOrder
    <2>5. QED
      BY <2>3, <2>4
  <1>4. CASE tx.action = "MON_LOCKED"
    <2>1. tx.of \in DOMAIN s.claims
      BY <1>4 DEF TxOK
    <2>2. Applied(s, tx) = IF s.claims[tx.of].status = "MON_LOCK_PENDING"
                           THEN LockConfirmed(s, tx.of) ELSE s
      BY <1>4 DEF Applied
    <2>3. QED
      BY <2>1, <2>2, LockConfirmedInOrder
  <1>5. CASE tx.action = "MON_SETTLED"
    <2> DEFINE r == tx.of
               c == s.claims[r].contract
               t == [s EXCEPT !.claims[r].status = "SETTLED"]
    <2>1. /\ r \in DOMAIN s.claims /\ s.claims[r] \in Claim
          /\ c \in DOMAIN s.contracts /\ s.contracts[c] \in Contract
      BY <1>1, <1>5, RecordsType DEF TxOK, Linked
    <2>2. CASE s.claims[r].status = "SETTLEMENT_CHAIN_PENDING"
      <3>1. Applied(s, tx) = [t EXCEPT !.contracts[c].status = "SETTLED"]
        BY <1>1, <1>5, <2>1, <2>2 DEF Applied, Records
      <3>2. [s.claims[r] EXCEPT !.status = "SETTLED"] \in Claim
        BY <2>1 DEF Claim
      <3>3. InOrder(t)
        BY <2>1, <2>2, <3>2, ClaimStage DEF Held
      <3>4. t.contracts = s.contracts
        BY <1>1 DEF Records
      <3>5. [s.contracts[c] EXCEPT !.status = "SETTLED"] \in Contract
        BY <2>1 DEF Contract
      <3> HIDE DEF t, c
      <3>6. InOrder([t EXCEPT !.contracts[c].status = "SETTLED"])
        BY <2>1, <3>3, <3>4, <3>5, StageInOrder
      <3>7. QED
        BY <3>1, <3>6
    <2>3. CASE s.claims[r].status # "SETTLEMENT_CHAIN_PENDING"
      BY <1>5, <2>3 DEF Applied
    <2>4. QED
      BY <2>2, <2>3
  <1>6. QED
    BY <1>2, <1>3, <1>4, <1>5 DEF Tx

LEMMA AdvancedInOrder ==
  ASSUME NEW s, InOrder(s), NEW k \in DOMAIN s.txs, NEW status \in Final
  PROVE  InOrder(Advanced(s, k, status))
  <1> DEFINE tx == [s.txs[k] EXCEPT !.status = status]
             t == [s EXCEPT !.txs = [s.txs EXCEPT ![k] = tx]]
  <1>1. s \in Records /\ s.txs[k] \in Tx /\ TxOK(s, s.txs[k])
    BY RecordsType DEF InOrder, Linked
  <1>2. tx \in Tx /\ TxOK(s, tx)
    BY <1>1 DEF Tx, TxOK, Final
  <1>3. InOrder(t)
    <2> HIDE DEF tx
    <2>1. QED
      BY <1>2, TxPut
  <1>4. t.txs[k] = tx /\ TxOK(t, tx)
    BY <1>1, <1>2 DEF TxOK, Records
  <1>5. Advanced(s, k, status) = IF status = "CONFIRMED" THEN Applied(t, t.txs[k]) ELSE t
    BY DEF Advanced
  <1> HIDE DEF t, tx
  <1>6. QED
    BY <1>2, <1>3, <1>4, <1>5, AppliedInOrder

\* What the server starts with.
LEMMA TotalOne ==
  ASSUME NEW f, NEW x, DOMAIN f = {x}, f = [y \in {x} |-> f[y]], f[x] \in Int
  PROVE  Total(f) = f[x]
  <1>1. Summable(f)
    BY FS_Singleton DEF Summable
  <1>2. Total(f) = f[x] + Total(Drop(f, x))
    BY <1>1, TotalDrop
  <1>3. Total(Drop(f, x)) = 0
    BY TotalEmpty DEF Drop
  <1>4. QED
    BY <1>2, <1>3

LEMMA EmptyInOrder == InOrder(EmptyState)
  <1> DEFINE c == [status |-> "IN_PROGRESS", amount |-> OpeningEscrow, planned |-> 0,
                   debited |-> TRUE, settlement |-> 0]
             d == [status |-> "MON_DEPOSIT_CONFIRMED", intent |-> 0, mon |-> Opening,
                   available |-> Opening - OpeningEscrow, escrowed |-> OpeningEscrow,
                   locked |-> 0]
             s == EmptyState
  <1>1. /\ s.stock = Stock /\ s.orders = <<>> /\ s.contracts = <<c>> /\ s.donations = <<d>>
        /\ s.deliveries = <<>> /\ s.claims = <<>> /\ s.txs = <<>>
    BY DEF EmptyState
  <1>2. c \in Contract /\ c.debited /\ c.amount = OpeningEscrow
    BY RecordsAssumption DEF Contract
  <1>3. d \in Donation /\ d.escrowed = OpeningEscrow /\ d.locked = 0
    BY RecordsAssumption DEF Donation
  <1> HIDE DEF c, d
  <1>4. s \in Records
    BY <1>1, <1>2, <1>3, RecordsAssumption DEF Records, EmptyState, c, d
  <1>5. /\ DOMAIN s.orders = {} /\ DOMAIN s.deliveries = {} /\ DOMAIN s.claims = {}
        /\ DOMAIN s.txs = {} /\ DOMAIN s.contracts = {1} /\ DOMAIN s.donations = {1}
        /\ s.contracts[1] = c /\ s.donations[1] = d /\ Len(s.contracts) = 1
    BY <1>1
  <1> HIDE DEF s
  <1>6. ApprovedOrders(s) = {} /\ Total(Sold(s)) = 0 /\ Total(Holds(s)) = 0
    BY <1>5, TotalEmpty DEF ApprovedOrders, Sold, Holds
  <1>7. GoodsSoldOnce(s)
    <2>1. Stock \in Nat
      BY RecordsAssumption
    <2>2. Cardinality(ApprovedOrders(s)) = 0
      BY <1>6, FS_EmptySet
    <2>3. s.stock + Total(Sold(s)) = Stock /\ s.stock >= 0
      BY <1>1, <1>6, <2>1
    <2>4. Len(s.contracts) = 1 + Cardinality(ApprovedOrders(s))
      BY <1>5, <2>2
    <2>5. \A o \in ApprovedOrders(s) : FALSE
      BY <1>6
    <2>6. QED
      BY <2>3, <2>4, <2>5, GoodsAreTotals
  <1>8. Total(Escrowed(s)) = OpeningEscrow
    <2>1. /\ DOMAIN Escrowed(s) = {1} /\ Escrowed(s)[1] = OpeningEscrow
          /\ Escrowed(s) = [y \in {1} |-> Escrowed(s)[y]]
      BY <1>3, <1>5 DEF Escrowed
    <2>2. QED
      BY <2>1, TotalOne, RecordsAssumption
  <1>9. Total(Debits(s)) = OpeningEscrow
    <2>1. /\ DOMAIN Debits(s) = {1} /\ Debits(s)[1] = OpeningEscrow
          /\ Debits(s) = [y \in {1} |-> Debits(s)[y]]
      BY <1>2, <1>5 DEF Debits
    <2>2. QED
      BY <2>1, TotalOne, RecordsAssumption
  <1>10. Total(Locked(s)) = 0
    <2>1. /\ DOMAIN Locked(s) = {1} /\ Locked(s)[1] = 0
          /\ Locked(s) = [y \in {1} |-> Locked(s)[y]]
      BY <1>3, <1>5 DEF Locked
    <2>2. QED
      BY <2>1, TotalOne
  <1>11. ClaimsBacked(s)
    BY <1>6, <1>8, <1>9, <1>10, ClaimsAreTotals
  <1>12. Linked(s)
    BY <1>5, <1>6 DEF Linked
  <1>13. QED
    BY <1>4, <1>7, <1>11, <1>12 DEF InOrder, s

-----------------------------------------------------------------------------
(* Every request *)

\* What a request names is there.
LEMMA OpsType ==
  ASSUME NEW s \in Records, NEW op \in Ops(s)
  PROVE  /\ op.do = "donate" => op.intent \in Nat
         /\ op.do \in {"confirmPayment", "review", "deposit"} => op.d \in DOMAIN s.donations
         /\ op.do = "review" => op.decision \in Outcomes
         /\ op.do \in {"deposit", "settle", "claim"} => op.amount \in Nat
         /\ op.do \in {"order", "deliver"} => op.quantity \in Nat
         /\ op.do \in {"approveOrder", "rejectOrder"} => op.o \in DOMAIN s.orders
         /\ op.do \in {"approveContract", "confirmEscrow", "deliver", "settle", "claim"} =>
              op.c \in DOMAIN s.contracts
         /\ op.do = "accept" => op.b \in DOMAIN s.deliveries /\ op.result \in Findings
         /\ op.do \in {"approveClaim", "payout", "settleClaim"} => op.r \in DOMAIN s.claims
         /\ op.do = "advance" => op.tx \in DOMAIN s.txs /\ op.status \in Final
         /\ op.do \in {"donate", "confirmPayment", "review", "deposit", "order", "approveOrder",
                       "rejectOrder", "approveContract", "confirmEscrow", "deliver", "accept",
                       "settle", "claim", "approveClaim", "payout", "settleClaim", "advance",
                       "reset"}
  <1> DEFINE D == DOMAIN s.donations
             O == DOMAIN s.orders
             C == DOMAIN s.contracts
             B == DOMAIN s.deliveries
             R == DOMAIN s.claims
             T == DOMAIN s.txs
             money == op \in [do : {"donate"}, intent : {0} \cup Amounts]
                        \cup [do : {"confirmPayment"}, d : D]
                        \cup [do : {"review"}, d : D, decision : Decisions]
                        \cup [do : {"deposit"}, d : D, amount : Amounts]
             orders == op \in [do : {"order"}, quantity : Quantities]
                         \cup [do : {"approveOrder", "rejectOrder"}, o : O]
             goods == op \in [do : {"deliver"}, c : C, quantity : Quantities]
                        \cup [do : {"accept"}, b : B, result : Results]
             claims == op \in [do : {"approveContract", "confirmEscrow"}, c : C]
                         \cup [do : {"settle", "claim"}, c : C, amount : Amounts]
                         \cup [do : {"approveClaim", "payout", "settleClaim"}, r : R]
             others == op \in [do : {"advance"}, tx : T, status : Final] \cup [do : {"reset"}]
  <1>1. money \/ orders \/ goods \/ claims \/ others
    BY DEF Ops, RequestsFor
  <1>2. /\ Amounts \subseteq Nat /\ Quantities \subseteq Nat /\ Decisions \subseteq Outcomes
        /\ Results \subseteq Findings
    BY RecordsAssumption
  <1>3. CASE money
    <2>1. \/ op.do = "donate" /\ op.intent \in Nat
          \/ op.do = "confirmPayment" /\ op.d \in D
          \/ op.do = "review" /\ op.d \in D /\ op.decision \in Outcomes
          \/ op.do = "deposit" /\ op.d \in D /\ op.amount \in Nat
      <3>1. CASE op \in [do : {"donate"}, intent : {0} \cup Amounts]
        <4>1. op.do = "donate" /\ op.intent \in {0} \cup Amounts
          BY <3>1
        <4>2. {0} \cup Amounts \subseteq Nat
          BY <1>2
        <4>3. op.intent \in Nat
          BY <4>1, <4>2
        <4>4. QED
          BY <4>1, <4>3
      <3>2. CASE op \in [do : {"confirmPayment"}, d : D]
        BY <3>2
      <3>3. CASE op \in [do : {"review"}, d : D, decision : Decisions]
        BY <1>2, <3>3
      <3>4. CASE op \in [do : {"deposit"}, d : D, amount : Amounts]
        BY <1>2, <3>4
      <3>5. QED
        BY <1>3, <3>1, <3>2, <3>3, <3>4
    <2>2. QED
      BY <2>1
  <1>4. CASE orders
    BY <1>2, <1>4
  <1>5. CASE goods
    <2>1. \/ op.do = "deliver" /\ op.c \in C /\ op.quantity \in Nat
          \/ op.do = "accept" /\ op.b \in B /\ op.result \in Findings
      BY <1>2, <1>5
    <2>2. QED
      BY <2>1
  <1>6. CASE claims
    BY <1>2, <1>6
  <1>7. CASE others
    BY <1>7
  <1>8. QED
    BY <1>1, <1>3, <1>4, <1>5, <1>6, <1>7

\* A request that its handler lets through leaves the records in order.
LEMMA EffectInOrder ==
  ASSUME NEW s, InOrder(s), NEW op \in Ops(s), Can(s, op)
  PROVE  InOrder(Effect(s, op))
  <1>1. s \in Records
    BY DEF InOrder
  <1>2. CASE op.do = "donate"
    <2>1. op.intent \in Nat /\ Effect(s, op) = Donated(s, op.intent)
      BY <1>1, <1>2, OpsType DEF Effect
    <2>2. QED
      BY <2>1, DonatedInOrder
  <1>3. CASE op.do = "confirmPayment"
    <2>1. /\ op.d \in DOMAIN s.donations
          /\ Effect(s, op) = [s EXCEPT !.donations[op.d].status = "PAYMENT_CONFIRMED"]
      BY <1>1, <1>3, OpsType DEF Effect
    <2>2. [s.donations[op.d] EXCEPT !.status = "PAYMENT_CONFIRMED"] \in Donation
      BY <1>1, <2>1, RecordsType DEF Donation
    <2>3. InOrder([s EXCEPT !.donations[op.d].status = "PAYMENT_CONFIRMED"])
      BY <2>1, <2>2, StatusInOrder
    <2>4. QED
      BY <2>1, <2>3
  <1>4. CASE op.do = "review"
    <2>1. /\ op.d \in DOMAIN s.donations /\ op.decision \in Outcomes
          /\ Effect(s, op) = [s EXCEPT !.donations[op.d].status = op.decision]
      BY <1>1, <1>4, OpsType DEF Effect
    <2>2. [s.donations[op.d] EXCEPT !.status = op.decision] \in Donation
      BY <1>1, <2>1, RecordsType DEF Donation
    <2>3. InOrder([s EXCEPT !.donations[op.d].status = op.decision])
      BY <2>1, <2>2, StatusInOrder
    <2>4. QED
      BY <2>1, <2>3
  <1>5. CASE op.do = "deposit"
    <2>1. /\ op.d \in DOMAIN s.donations /\ op.amount \in Nat
          /\ Effect(s, op) = Deposited(s, op.d, op.amount)
      BY <1>1, <1>5, OpsType DEF Effect
    <2>2. QED
      BY <2>1, DepositedInOrder
  <1>6. CASE op.do = "order"
    <2>1. /\ op.quantity \in Nat
          /\ Effect(s, op) = [s EXCEPT !.orders = Append(s.orders,
               [status |-> "PENDING_REVIEW", quantity |-> op.quantity, contract |-> 0])]
      BY <1>1, <1>6, OpsType DEF Effect
    <2>2. QED
      BY <2>1, OrderedInOrder
  <1>7. CASE op.do = "approveOrder"
    <2>1. /\ op.o \in DOMAIN s.orders
          /\ s.orders[op.o].status = "APPROVED" \/ Approvable(s, op.o)
          /\ Effect(s, op) = OrderApproved(s, op.o)
      BY <1>1, <1>7, OpsType DEF Effect, Can
    <2>2. QED
      BY <2>1, OrderApprovedInOrder DEF OrderApproved
  <1>8. CASE op.do = "rejectOrder"
    <2>1. /\ op.o \in DOMAIN s.orders /\ s.orders[op.o].status # "APPROVED"
          /\ Effect(s, op) = [s EXCEPT !.orders[op.o].status = "REJECTED"]
      BY <1>1, <1>8, OpsType DEF Effect, Can
    <2>2. QED
      BY <2>1, RejectedInOrder
  <1>9. CASE op.do = "approveContract"
    <2>1. op.c \in DOMAIN s.contracts /\ Effect(s, op) = ContractApproved(s, op.c)
      BY <1>1, <1>9, OpsType DEF Effect
    <2>2. QED
      BY <2>1, ContractApprovedInOrder
  <1>10. CASE op.do = "confirmEscrow"
    <2>1. /\ op.c \in DOMAIN s.contracts /\ CanConfirmEscrow(s, op.c)
          /\ Effect(s, op) = EscrowConfirmed(s, op.c)
      BY <1>1, <1>10, OpsType DEF Effect, Can
    <2>2. QED
      BY <2>1, EscrowConfirmedInOrder
  <1>11. CASE op.do = "deliver"
    <2>1. /\ op.c \in DOMAIN s.contracts /\ op.quantity \in Nat
          /\ Effect(s, op) = Delivered(s, op.c, op.quantity)
      BY <1>1, <1>11, OpsType DEF Effect
    <2>2. QED
      BY <2>1, DeliveredInOrder
  <1>12. CASE op.do = "accept"
    <2>1. /\ op.b \in DOMAIN s.deliveries /\ op.result \in Findings
          /\ Effect(s, op) = Accepted(s, op.b, op.result)
      BY <1>1, <1>12, OpsType DEF Effect
    <2>2. QED
      BY <2>1, AcceptedInOrder
  <1>13. CASE op.do = "settle"
    <2>1. /\ op.c \in DOMAIN s.contracts /\ op.amount \in Nat
          /\ Effect(s, op) = [s EXCEPT !.contracts[op.c].settlement = op.amount,
                                      !.contracts[op.c].status = "SETTLEMENT_PENDING"]
      BY <1>1, <1>13, OpsType DEF Effect, Settled
    <2>2. [s.contracts[op.c] EXCEPT !.status = "SETTLEMENT_PENDING"] \in Contract
      BY <1>1, <2>1, RecordsType DEF Contract
    <2>3. InOrder([s EXCEPT !.contracts[op.c].settlement = op.amount,
                            !.contracts[op.c].status = "SETTLEMENT_PENDING"])
      BY <2>1, <2>2, StageInOrder
    <2>4. QED
      BY <2>1, <2>3
  <1>14. CASE op.do = "claim"
    <2>1. /\ op.c \in DOMAIN s.contracts /\ op.amount \in Nat
          /\ Effect(s, op) = Claimed(s, op.c, op.amount)
      BY <1>1, <1>14, OpsType DEF Effect
    <2>2. QED
      BY <2>1, ClaimedInOrder
  <1>15. CASE op.do = "approveClaim"
    <2>1. /\ op.r \in DOMAIN s.claims /\ s.claims[op.r].status = "REQUESTED"
          /\ Effect(s, op) = ClaimApproved(s, op.r)
      BY <1>1, <1>15, OpsType DEF Effect, Can, CanApproveClaim
    <2>2. QED
      BY <2>1, ClaimApprovedInOrder
  <1>16. CASE op.do = "payout"
    <2>1. /\ op.r \in DOMAIN s.claims /\ s.claims[op.r].status \in {"MON_LOCKED", "PAID"}
          /\ Effect(s, op) = [s EXCEPT !.claims[op.r].status = "PAID"]
      BY <1>1, <1>16, OpsType DEF Effect, Can
    <2>2. [s.claims[op.r] EXCEPT !.status = "PAID"] \in Claim
      BY <1>1, <2>1, RecordsType DEF Claim
    <2>3. InOrder([s EXCEPT !.claims[op.r].status = "PAID"])
      BY <2>1, <2>2, ClaimStage DEF Held
    <2>4. QED
      BY <2>1, <2>3
  <1>17. CASE op.do = "settleClaim"
    <2>1. /\ op.r \in DOMAIN s.claims /\ s.claims[op.r].status = "PAID"
          /\ Effect(s, op) = SettlementSent(s, op.r)
      BY <1>1, <1>17, OpsType DEF Effect, Can
    <2>2. QED
      BY <2>1, SettlementSentInOrder
  <1>18. CASE op.do = "advance"
    <2>1. /\ op.tx \in DOMAIN s.txs /\ op.status \in Final
          /\ Effect(s, op) = Advanced(s, op.tx, op.status)
      BY <1>1, <1>18, OpsType DEF Effect
    <2>2. QED
      BY <2>1, AdvancedInOrder
  <1>19. CASE op.do = "reset"
    BY <1>19, EmptyInOrder DEF Effect
  <1>20. QED
    BY <1>1, <1>2, <1>3, <1>4, <1>5, <1>6, <1>7, <1>8, <1>9, <1>10, <1>11, <1>12, <1>13,
       <1>14, <1>15, <1>16, <1>17, <1>18, <1>19, OpsType

-----------------------------------------------------------------------------
(* The server around the handlers *)

Saved == Loaded(Initial)
SavedInOrder == Saved \in States /\ InOrder(Saved.rec)

\* A request that still has the version its records were looked up in would
\* find them as they were.
Request == [op : Operations \cup {Bad}, keyed : BOOLEAN, current : BOOLEAN, live : BOOLEAN]
RequestOK(w, rec) ==
  /\ w \in Request
  /\ w.keyed => w.op # Bad
  /\ w.current => w.live /\ (w.op # Bad => w.op \in Ops(rec) /\ Can(rec, w.op))
WaitingInOrder ==
  \A p \in Slots : waiting[p] # None => running /\ RequestOK(waiting[p], state.rec)

ServerInv == SavedInOrder /\ WaitingInOrder /\ ServedIsDurable /\ AnswersKept

\* Operations name records by their numbers.
LEMMA OpsAreOperations == ASSUME NEW s \in Records PROVE Ops(s) \subseteq Operations
  <1>1. /\ DOMAIN s.donations \subseteq Nat /\ DOMAIN s.orders \subseteq Nat
        /\ DOMAIN s.contracts \subseteq Nat /\ DOMAIN s.deliveries \subseteq Nat
        /\ DOMAIN s.claims \subseteq Nat /\ DOMAIN s.txs \subseteq Nat
    BY SeqDomain, RecordsType
  <1>2. QED
    BY <1>1 DEF Ops, Operations, RequestsFor

LEMMA InitialInOrder ==
  /\ Initial \in States /\ InOrder(Initial.rec)
  /\ Initial.key.of = None /\ Initial.key.runs = 0
  <1>1. InOrder(EmptyState)
    BY EmptyInOrder
  <1>2. EmptyState \in Records
    BY <1>1 DEF InOrder
  <1>3. QED
    BY <1>1, <1>2 DEF Initial, States

\* What the callback of an admitted request leaves.
LEMMA ExecutedInOrder ==
  ASSUME ServerInv, NEW p \in Slots, Admitted(p), waiting[p].op # Bad
  PROVE  /\ Executed(p) \in States /\ InOrder(Executed(p).rec) /\ Executed(p) # NoFile
         /\ Executed(p).key.runs = IF Executed(p).key.of = None THEN 0 ELSE 1
         /\ IF waiting[p].keyed THEN /\ state.key.of = None
                                     /\ Executed(p).key.of = waiting[p].op
            ELSE IF waiting[p].op.do = "reset" THEN Executed(p).key.of = None
            ELSE Executed(p).key.of = state.key.of
  <1> DEFINE w == waiting[p]
             key == IF w.op.do = "reset" THEN Initial.key ELSE state.key
  <1>1. /\ state = Saved /\ state \in States /\ InOrder(state.rec)
        /\ state.key.runs = IF state.key.of = None THEN 0 ELSE 1
    BY DEF Admitted, ServerInv, ServedIsDurable, SavedInOrder, AnswersKept, Saved
  <1>2. /\ w \in Request /\ w.live /\ w.op \in Ops(state.rec) /\ Can(state.rec, w.op)
        /\ w.keyed => state.key.of = None
    BY DEF Admitted, HasAnswer, ServerInv, WaitingInOrder, RequestOK
  <1>3. InOrder(Effect(state.rec, w.op))
    BY <1>1, <1>2, EffectInOrder
  <1>4. w.op \in Operations /\ w.op # None
    BY <1>1, <1>2, OpsAreOperations, ServerAssumption DEF InOrder
  <1>5. /\ key \in [of : Operations \cup {None}, runs : Nat]
        /\ key.runs = IF key.of = None THEN 0 ELSE 1
        /\ key.of = IF w.op.do = "reset" THEN None ELSE state.key.of
    BY <1>1, InitialInOrder DEF States
  <1>6. PICK e : e = Effect(state.rec, w.op)
    OBVIOUS
  <1>7. Executed(p) = [rec |-> e,
                       key |-> IF ~w.keyed THEN key ELSE [of |-> w.op, runs |-> key.runs + 1]]
    BY <1>2, <1>6 DEF Executed
  <1>8. e \in Records /\ InOrder(e)
    BY <1>3, <1>6 DEF InOrder
  <1> HIDE DEF key, w
  <1>9. CASE w.keyed
    <2>1. key.of = None
      BY <1>2, <1>5, <1>9
    <2>2. PICK k : k = [of |-> w.op, runs |-> 1]
      OBVIOUS
    <2>3. Executed(p) = [rec |-> e, key |-> k]
      BY <1>5, <1>7, <1>9, <2>1, <2>2
    <2>4. Executed(p) \in States
      BY <1>4, <1>8, <2>2, <2>3 DEF States
    <2>5. QED
      BY <1>2, <1>4, <1>8, <1>9, <2>2, <2>3, <2>4, ServerAssumption DEF w
  <1>10. CASE ~w.keyed
    <2>1. Executed(p) = [rec |-> e, key |-> key]
      BY <1>7, <1>10
    <2>2. Executed(p) \in States
      BY <1>5, <1>8, <2>1 DEF States
    <2>3. QED
      BY <1>5, <1>8, <1>10, <2>1, <2>2, ServerAssumption DEF w
  <1>11. QED
    BY <1>9, <1>10

LEMMA InitInOrder == Init => ServerInv
  BY InitialInOrder, ServerAssumption
  DEF Init, StoreInit, ServerInv, SavedInOrder, Saved, Loaded, WaitingInOrder, ServedIsDurable,
      AnswersKept

\* Once the version has moved, nothing is asked of what the waiting requests
\* looked up.
LEMMA OutdatedInOrder ==
  ASSUME ServerInv, NEW p \in Slots, NEW replaced \in BOOLEAN, NEW q \in Slots, NEW rec,
         Outdate(p, replaced)[q] # None
  PROVE  running /\ RequestOK(Outdate(p, replaced)[q], rec)
  <1> DEFINE w == waiting[q]
             v == Outdate(p, replaced)[q]
  <1>1. /\ w # None /\ w.keyed
        /\ v = [w EXCEPT !.current = FALSE, !.live = @ /\ ~replaced]
    BY DEF Outdate
  <1>2. running /\ w \in Request /\ (w.keyed => w.op # Bad)
    BY <1>1 DEF ServerInv, WaitingInOrder, RequestOK
  <1>3. v \in Request /\ v.keyed = w.keyed /\ v.op = w.op /\ ~v.current
    BY <1>1, <1>2 DEF Request
  <1>4. QED
    BY <1>1, <1>2, <1>3 DEF RequestOK

\* A request that only leaves.
LEMMA LeaveInOrder ==
  ASSUME ServerInv, NEW p \in Slots, waiting' = Leave(p), UNCHANGED <<state, running>>
  PROVE  WaitingInOrder'
  <1>1. \A q \in Slots : waiting'[q] # None => waiting'[q] = waiting[q]
    BY DEF Leave, ServerInv
  <1>2. QED
    BY <1>1 DEF ServerInv, WaitingInOrder

\* The file is as it was, or what a callback has left.
LEMMA SavedKept ==
  ASSUME ServerInv, UNCHANGED file
  PROVE  SavedInOrder' /\ Saved' = Saved
  BY DEF ServerInv, SavedInOrder, Saved, Loaded, Initial

LEMMA SavedMoved ==
  ASSUME ServerInv, NEW p \in Slots, Admitted(p), waiting[p].op # Bad, file' = Executed(p)
  PROVE  SavedInOrder' /\ Saved' = Executed(p)
  <1>1. PICK e : e = Executed(p)
    OBVIOUS
  <1>2. e \in States /\ InOrder(e.rec) /\ e # NoFile
    BY <1>1, ExecutedInOrder
  <1>3. Saved' = e
    BY <1>1, <1>2 DEF Saved, Loaded
  <1>4. QED
    BY <1>1, <1>2, <1>3 DEF SavedInOrder

\* What was answered before is nothing, or what the state has under the key.
LEMMA SavedState ==
  ASSUME ServerInv, running
  PROVE  /\ state = Saved /\ state \in States
         /\ state.key.runs = IF state.key.of = None THEN 0 ELSE 1
         /\ answered # None => state.key.of = answered
  BY DEF ServerInv, ServedIsDurable, SavedInOrder, AnswersKept, Saved

LEMMA ArriveInOrder ==
  ASSUME ServerInv, NEW p \in Slots, Arrive(p)
  PROVE  ServerInv'
  <1>1. PICK op \in {o \in Ops(state.rec) : Can(state.rec, o)} \cup {Bad}, keyed \in BOOLEAN :
          /\ keyed => op # Bad /\ op.do \in Keyed
          /\ waiting' = [waiting EXCEPT ![p] =
                          [op |-> op, keyed |-> keyed, current |-> TRUE, live |-> TRUE]]
    BY DEF Arrive
  <1>2. running /\ state.rec \in Records
    BY SavedState DEF Arrive, States
  <1>3. op \in Operations \cup {Bad}
    BY <1>1, <1>2, OpsAreOperations
  <1>4. PICK w : w = [op |-> op, keyed |-> keyed, current |-> TRUE, live |-> TRUE]
    OBVIOUS
  <1>5. RequestOK(w, state.rec)
    BY <1>1, <1>3, <1>4 DEF RequestOK, Request
  <1>6. \A q \in Slots : waiting'[q] # None => waiting'[q] = waiting[q] \/ waiting'[q] = w
    BY <1>1, <1>4
  <1>7. WaitingInOrder'
    BY <1>2, <1>5, <1>6 DEF Arrive, ServerInv, WaitingInOrder
  <1>8. SavedInOrder' /\ Saved' = Saved
    BY SavedKept DEF Arrive
  <1>9. QED
    BY <1>7, <1>8 DEF Arrive, ServerInv, ServedIsDurable, AnswersKept, Saved

LEMMA ReplayInOrder ==
  ASSUME ServerInv, NEW p \in Slots, Replay(p)
  PROVE  ServerInv'
  <1>1. WaitingInOrder'
    BY LeaveInOrder DEF Replay
  <1>2. SavedInOrder' /\ Saved' = Saved
    BY SavedKept DEF Replay
  <1>3. answered' # None => Saved.key.of = answered'
    BY SavedState DEF Replay
  <1>4. QED
    BY <1>1, <1>2, <1>3 DEF Replay, ServerInv, ServedIsDurable, AnswersKept, Saved

LEMMA TurnAwayInOrder ==
  ASSUME ServerInv, NEW p \in Slots, TurnAway(p)
  PROVE  ServerInv'
  <1>1. WaitingInOrder'
    BY LeaveInOrder DEF TurnAway
  <1>2. SavedInOrder' /\ Saved' = Saved
    BY SavedKept DEF TurnAway
  <1>3. QED
    BY <1>1, <1>2 DEF TurnAway, ServerInv, ServedIsDurable, AnswersKept, Saved

\* What is undone leaves memory, and the file, as they were.
LEMMA UndoneInOrder ==
  ASSUME ServerInv, NEW p \in Slots, waiting' = OutdateUndone(p),
         UNCHANGED <<file, state, running, answered>>
  PROVE  ServerInv'
  <1>1. \A q \in Slots : waiting'[q] # None => running /\ RequestOK(waiting'[q], state'.rec)
    BY OutdatedInOrder DEF OutdateUndone
  <1>2. WaitingInOrder'
    BY <1>1 DEF WaitingInOrder
  <1>3. SavedInOrder' /\ Saved' = Saved
    BY SavedKept
  <1>4. QED
    BY <1>2, <1>3 DEF ServerInv, ServedIsDurable, AnswersKept, Saved

LEMMA SucceedInOrder ==
  ASSUME ServerInv, NEW p \in Slots, Succeed(p)
  PROVE  ServerInv'
  <1>1. Admitted(p) /\ waiting[p].op # Bad /\ running /\ running' = running
    BY DEF Succeed, Admitted
  <1>2. SavedInOrder' /\ Saved' = Executed(p) /\ state' = Saved'
    BY <1>1, SavedMoved DEF Succeed, Commit
  <1>3. \A q \in Slots : waiting'[q] # None => running /\ RequestOK(waiting'[q], state'.rec)
    <2>1. PICK replaced \in BOOLEAN : waiting' = Outdate(p, replaced)
      BY DEF Succeed
    <2>2. QED
      BY <2>1, OutdatedInOrder
  <1>4. WaitingInOrder'
    BY <1>1, <1>3 DEF WaitingInOrder
  <1>5. AnswersKept'
    <2>1. Saved'.key.runs = IF Saved'.key.of = None THEN 0 ELSE 1
      BY <1>1, <1>2, ExecutedInOrder
    <2>2. answered' # None => Saved'.key.of = answered'
      BY <1>1, <1>2, ExecutedInOrder, SavedState DEF Succeed
    <2>3. QED
      BY <2>1, <2>2 DEF AnswersKept, Saved
  <1>6. QED
    BY <1>2, <1>4, <1>5 DEF ServerInv, ServedIsDurable, Saved

\* A process that is gone holds nothing.
LEMMA DownInOrder ==
  ASSUME Down, SavedInOrder', AnswersKept'
  PROVE  ServerInv'
  BY DEF Down, ServerInv, WaitingInOrder, ServedIsDurable

LEMMA DieWritingInOrder ==
  ASSUME ServerInv, NEW p \in Slots, DieWriting(p)
  PROVE  ServerInv'
  <1>1. Admitted(p) /\ waiting[p].op # Bad /\ running /\ Down
    BY DEF DieWriting, Admitted
  <1>2. CASE file' = file
    <2>1. SavedInOrder' /\ Saved' = Saved /\ answered' = answered
      BY <1>2, SavedKept DEF DieWriting
    <2>2. AnswersKept'
      BY <2>1 DEF ServerInv, AnswersKept, Saved
    <2>3. QED
      BY <1>1, <2>1, <2>2, DownInOrder
  <1>3. CASE file' # file
    <2>1. SavedInOrder' /\ Saved' = Executed(p)
      BY <1>1, <1>3, SavedMoved DEF DieWriting, DieInCommit, Commit
    <2>2. Saved'.key.runs = IF Saved'.key.of = None THEN 0 ELSE 1
      BY <1>1, <2>1, ExecutedInOrder
    <2>3. answered' # None => answered' = answered /\ waiting[p].op.do # "reset"
      BY <1>3 DEF DieWriting
    <2>4. answered' # None => Saved'.key.of = answered'
      BY <1>1, <2>1, <2>3, ExecutedInOrder, SavedState
    <2>5. AnswersKept'
      BY <2>2, <2>4 DEF AnswersKept, Saved
    <2>6. QED
      BY <1>1, <2>1, <2>5, DownInOrder
  <1>4. QED
    BY <1>2, <1>3

\* Every step.
LEMMA NextInOrder == ServerInv /\ [Next]_vars => ServerInv'
  <1> SUFFICES ASSUME ServerInv, [Next]_vars PROVE ServerInv'
    OBVIOUS
  <1>1. ASSUME NEW p \in Slots, Arrive(p) PROVE ServerInv'
    BY <1>1, ArriveInOrder
  <1>2. ASSUME NEW p \in Slots, Replay(p) PROVE ServerInv'
    BY <1>2, ReplayInOrder
  <1>3. ASSUME NEW p \in Slots, TurnAway(p) PROVE ServerInv'
    BY <1>3, TurnAwayInOrder
  <1>4. ASSUME NEW p \in Slots, Refuse(p) PROVE ServerInv'
    BY <1>4, UndoneInOrder DEF Refuse
  <1>5. ASSUME NEW p \in Slots, Succeed(p) PROVE ServerInv'
    BY <1>5, SucceedInOrder
  <1>6. ASSUME NEW p \in Slots, FailToSave(p) PROVE ServerInv'
    BY <1>6, UndoneInOrder DEF FailToSave, FailCommit, RolledBack
  <1>7. ASSUME NEW p \in Slots, DieWriting(p) PROVE ServerInv'
    BY <1>7, DieWritingInOrder
  <1>8. CASE Die
    <2>1. Down /\ SavedInOrder' /\ Saved' = Saved /\ answered' = answered
      BY <1>8, SavedKept DEF Die
    <2>2. AnswersKept'
      BY <2>1 DEF ServerInv, AnswersKept, Saved
    <2>3. QED
      BY <2>1, <2>2, DownInOrder
  <1>9. CASE Restart
    <2>1. SavedInOrder' /\ Saved' = Saved /\ state' = Saved /\ running' /\ waiting' = waiting
      BY <1>9, SavedKept DEF Restart, Saved
    <2>2. \A q \in Slots : waiting[q] = None
      BY <1>9 DEF Restart, ServerInv, WaitingInOrder
    <2>3. WaitingInOrder'
      BY <2>1, <2>2 DEF WaitingInOrder
    <2>4. QED
      BY <1>9, <2>1, <2>3 DEF Restart, ServerInv, ServedIsDurable, AnswersKept, Saved
  <1>10. CASE Repair
    <2>1. SavedInOrder' /\ Saved' = Saved
      BY <1>10, SavedKept DEF Repair, Recover
    <2>2. WaitingInOrder'
      BY <1>10 DEF Repair, ServerInv, WaitingInOrder
    <2>3. QED
      BY <1>10, <2>1, <2>2 DEF Repair, ServerInv, ServedIsDurable, AnswersKept, Saved
  <1>11. CASE UNCHANGED vars
    <2>1. SavedInOrder' /\ Saved' = Saved
      BY <1>11, SavedKept DEF vars
    <2>2. WaitingInOrder'
      BY <1>11 DEF vars, ServerInv, WaitingInOrder
    <2>3. QED
      BY <1>11, <2>1, <2>2 DEF vars, ServerInv, ServedIsDurable, AnswersKept, Saved
  <1>12. QED
    BY <1>1, <1>2, <1>3, <1>4, <1>5, <1>6, <1>7, <1>8, <1>9, <1>10, <1>11 DEF Next

LEMMA AlwaysInOrder == Spec => []ServerInv
  <1>1. QED
    BY InitInOrder, NextInOrder, PTL DEF Spec

\* Whatever write() of backend/server.js refused, undid or was interrupted in,
\* the state it serves is the one the next start would load from the file.
THEOREM ServedAlwaysDurable == Spec => []ServedIsDurable
  <1>1. ServerInv => ServedIsDurable
    BY DEF ServerInv
  <1>2. QED
    BY <1>1, AlwaysInOrder, PTL

\* An operation that a client was told has succeeded under its Idempotency-Key
\* is in the file, and took effect once: no retry, crash, failed commit or
\* request that waited for its body makes write() run its callback twice, or
\* run it on records that a rollback has replaced.
THEOREM AnswersAlwaysKept == Spec => []AnswersKept
  <1>1. ServerInv => AnswersKept
    BY DEF ServerInv
  <1>2. QED
    BY <1>1, AlwaysInOrder, PTL

\* In every file the handlers leave, what orders took and what is left on the
\* market is the stock, every approved order has a contract of its own for its
\* price, the escrowed MON is that of the contracts debited, and the locked MON
\* covers every redemption that is locked, paid or settled.
THEOREM GoodsAndMoneyAlwaysBacked == Spec => []GoodsAndMoneyBacked
  <1>1. ServerInv => GoodsAndMoneyBacked
    BY DEF ServerInv, SavedInOrder, InOrder, GoodsAndMoneyBacked, Saved
  <1>2. QED
    BY <1>1, AlwaysInOrder, PTL
=============================================================================
