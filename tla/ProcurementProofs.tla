-------------------------- MODULE ProcurementProofs --------------------------
(***************************************************************************)
(* Proofs about Procurement, for every value of its constants: its types   *)
(* and roles, then what a deal holds together: the versions of a contract  *)
(* and their signatures, the stock behind a quote, and the payments a      *)
(* contract makes.  Then about Platform: it runs the procurement domain by *)
(* its own rules, its posts are exclusive, its evidence stays within the   *)
(* quota and stands behind every payable, and reviewers are independent,   *)
(* for any number of accounts, posts, contracts and files.                 *)
(***************************************************************************)
EXTENDS Platform, SumLemmas, TLAPS

-----------------------------------------------------------------------------
(* Lemmas about the helpers *)

\* Put changes one key: a well-typed entry keeps the collection well typed.
LEMMA PutCollection ==
  ASSUME NEW f, NEW ids, NEW R, Collection(f, ids, R), NEW k \in ids, NEW v \in R
  PROVE  /\ Collection(Put(f, k, v), ids, R)
         /\ DOMAIN Put(f, k, v) = DOMAIN f \cup {k}
         /\ \A x \in DOMAIN f : x # k => Put(f, k, v)[x] = f[x]
         /\ Put(f, k, v)[k] = v
  BY DEF Put, Collection

\* So does EXCEPT.
LEMMA ExceptCollection ==
  ASSUME NEW f, NEW ids, NEW R, Collection(f, ids, R), NEW k, NEW v \in R
  PROVE  /\ Collection([f EXCEPT ![k] = v], ids, R)
         /\ DOMAIN [f EXCEPT ![k] = v] = DOMAIN f
         /\ \A x \in DOMAIN f : [f EXCEPT ![k] = v][x] = IF x = k THEN v ELSE f[x]
  BY DEF Collection

\* What an appended sequence holds.
LEMMA AppendLookup ==
  ASSUME NEW S, NEW s \in Seq(S), NEW x \in S
  PROVE  /\ Append(s, x) \in Seq(S) \ {<<>>}
         /\ Len(Append(s, x)) = Len(s) + 1
         /\ \A i \in DOMAIN Append(s, x) :
              \/ i \in DOMAIN s /\ Append(s, x)[i] = s[i]
              \/ i = Len(s) + 1 /\ Append(s, x)[i] = x
  OBVIOUS

\* The current terms of a contract.
LEMMA CurrentType ==
  ASSUME TypeOK, NEW c \in DOMAIN contracts
  PROVE  /\ Version(c) \in Nat \ {0}
         /\ Version(c) \in DOMAIN contracts[c].versions
         /\ Current(c) \in Terms
         /\ Current(c).reservation \in DOMAIN reservations
  <1> DEFINE vs == contracts[c].versions
  <1>1. vs \in Seq(Terms) /\ vs # <<>>
    BY DEF TypeOK, Collection, ContractRecord
  <1> HIDE DEF vs
  <1>2. Len(vs) \in Nat /\ Len(vs) # 0 /\ DOMAIN vs = 1..Len(vs)
    BY <1>1
  <1>3. vs[Len(vs)] \in Terms
    BY <1>1, <1>2
  <1>4. QED
    BY <1>2, <1>3 DEF vs, Version, Current, TypeOK, NoDanglingIds

\* The terms a contract takes from a reservation are well-formed.
LEMMA TermsForType ==
  ASSUME TypeOK, NEW r \in DOMAIN reservations, NEW n \in Nonces, NEW t \in Times
  PROVE  TermsFor(r, n, t) \in Terms
  BY DEF TypeOK, NoDanglingIds, Collection, QuoteRecord, ReservationRecord, TermsFor, Terms

-----------------------------------------------------------------------------
(* TypeOK is inductive *)

\* A revision adds a version of well-formed terms and clears the signatures.
LEMMA ReviseType ==
  ASSUME TypeOK, NEW c \in ContractIds, NEW r \in ReservationIds, NEW n \in Nonces,
         NEW t \in Times, NEW now \in Times, ReviseContract(c, r, n, t, now)
  PROVE  TypeOK'
  <1> DEFINE old == Current(c).reservation
             new == TermsFor(r, n, t)
             vs  == contracts[c].versions
  <1>1. c \in DOMAIN contracts /\ r \in DOMAIN reservations
    BY DEF ReviseContract, Revisable, SameDeal, FreeFor, Restocked, NewVersion
  <1>2. new \in Terms /\ new.reservation \in DOMAIN reservations
    BY <1>1, TermsForType DEF TypeOK, TermsFor
  <1>3. old \in DOMAIN reservations
    BY <1>1, CurrentType
  <1> HIDE DEF old, new
  <1>4. Collection(quotes, QuoteIds, QuoteRecord)' /\ DOMAIN quotes' = DOMAIN quotes
    <2>1. CASE r = old
      BY <2>1 DEF ReviseContract, Revisable, SameDeal, FreeFor, Restocked, NewVersion,
                  TypeOK, old
    <2>2. CASE r # old
      <3>1. reservations[old].quantity \in Nat /\ reservations[old].quote \in DOMAIN quotes
        BY <1>3, NumbersAssumption DEF TypeOK, NoDanglingIds, Collection, ReservationRecord
      <3>2. quotes' = [quotes EXCEPT ![reservations[old].quote].available =
                         @ + reservations[old].quantity]
        BY <2>2 DEF ReviseContract, Revisable, SameDeal, FreeFor, Restocked, NewVersion,
                    old
      <3>3. QED
        BY <3>1, <3>2 DEF TypeOK, Collection, QuoteRecord
    <2>3. QED
      BY <2>1, <2>2
  <1>5. /\ Collection(reservations, ReservationIds, ReservationRecord)'
        /\ DOMAIN reservations' = DOMAIN reservations
        /\ \A x \in DOMAIN reservations : reservations'[x].quote = reservations[x].quote
    BY <1>1, <1>3 DEF ReviseContract, Revisable, SameDeal, FreeFor, Restocked, NewVersion,
                      TypeOK, Collection, ReservationRecord
  <1>6. vs \in Seq(Terms)
    BY <1>1 DEF TypeOK, Collection, ContractRecord
  <1>7. contracts' = [contracts EXCEPT ![c] = [contracts[c] EXCEPT
                        !.versions = Append(vs, new), !.signatures = {}, !.status = "DRAFT"]]
    BY DEF ReviseContract, Revisable, SameDeal, FreeFor, Restocked, NewVersion,
           new
  <1> HIDE DEF vs
  <1>8. [contracts[c] EXCEPT !.versions = Append(vs, new), !.signatures = {},
                             !.status = "DRAFT"] \in ContractRecord
    BY <1>1, <1>2, <1>6, AppendLookup DEF TypeOK, Collection, ContractRecord, ContractStatus
  <1>9. Collection(contracts, ContractIds, ContractRecord)' /\ DOMAIN contracts' = DOMAIN contracts
    BY <1>7, <1>8, ExceptCollection DEF TypeOK
  <1>10. NoDanglingIds'
    <2>1. \A x \in DOMAIN contracts' : \A v \in DOMAIN contracts'[x].versions :
            contracts'[x].versions[v].reservation \in DOMAIN reservations'
      <3> SUFFICES ASSUME NEW x \in DOMAIN contracts, NEW v \in DOMAIN contracts'[x].versions
                   PROVE  contracts'[x].versions[v].reservation \in DOMAIN reservations
        BY <1>5, <1>9
      <3>1. CASE x = c
        <4>1. contracts'[x].versions = Append(vs, new)
          BY <3>1, <1>1, <1>7 DEF TypeOK, Collection, ContractRecord
        <4>2. QED
          BY <3>1, <4>1, <1>1, <1>2, <1>6, AppendLookup DEF TypeOK, NoDanglingIds, vs
      <3>2. CASE x # c
        BY <3>2, <1>7 DEF TypeOK, NoDanglingIds, Collection
      <3>3. QED
        BY <3>1, <3>2
    <2>2. QED
      BY <2>1, <1>4, <1>5, <1>9
         DEF ReviseContract, Revisable, SameDeal, FreeFor, Restocked, NewVersion,
             TypeOK, NoDanglingIds
  <1>11. QED
    BY <1>4, <1>5, <1>9, <1>10
       DEF ReviseContract, Revisable, SameDeal, FreeFor, Restocked, NewVersion,
           TypeOK

\* A quote keeps the record types.
LEMMA AddQuoteType ==
  ASSUME TypeOK, NEW q \in QuoteIds, NEW input \in QuoteInputs, AddQuote(q, input)
  PROVE  TypeOK'
  <1> DEFINE rec == [supplier |-> input.supplier, unitPrice |-> input.unitPrice,
                     available |-> input.available, validUntil |-> input.validUntil,
                     offered |-> input.available]
  <1>1. rec \in QuoteRecord
    BY PartiesAssumption DEF QuoteRecord
  <1>2. quotes' = Put(quotes, q, rec)
    BY DEF AddQuote
  <1> HIDE DEF rec
  <1>3. Collection(quotes, QuoteIds, QuoteRecord)' /\ DOMAIN quotes \subseteq DOMAIN quotes'
    BY <1>1, <1>2 DEF Put, Collection, TypeOK
  <1>4. QED
    BY <1>3 DEF AddQuote, TypeOK, NoDanglingIds

\* A reservation keeps the record types.
LEMMA ReserveType ==
  ASSUME TypeOK, NEW r \in ReservationIds, NEW q \in QuoteIds, NEW task \in Tasks,
         NEW n \in Quantities, NEW buyer \in Buyers, NEW now \in Times,
         Reserve(r, q, task, n, buyer, now)
  PROVE  TypeOK'
  <1>1. /\ Collection(quotes, QuoteIds, QuoteRecord)'
        /\ DOMAIN quotes' = DOMAIN quotes
    BY NumbersAssumption DEF Reserve, Offered, TypeOK, Collection, QuoteRecord
  <1>2. [quote |-> q, task |-> task, quantity |-> n, buyer |-> buyer,
         status |-> "RESERVED", contract |-> None] \in ReservationRecord
    BY PartiesAssumption DEF ReservationRecord
  <1>3. /\ Collection(reservations, ReservationIds, ReservationRecord)'
        /\ DOMAIN reservations' = DOMAIN reservations \cup {r}
        /\ \A x \in DOMAIN reservations' :
             reservations'[x].quote = IF x = r THEN q ELSE reservations[x].quote
    BY <1>2, PutCollection DEF Reserve, Offered, TypeOK
  <1>4. QED
    BY <1>1, <1>3 DEF Reserve, Offered, TypeOK, NoDanglingIds

\* A new contract keeps the record types.
LEMMA CreateType ==
  ASSUME TypeOK, NEW c \in ContractIds, NEW r \in ReservationIds, NEW n \in Nonces,
         NEW t \in Times, NEW now \in Times, CreateContract(c, r, n, t, now)
  PROVE  TypeOK'
  <1> DEFINE new == TermsFor(r, n, t)
             rec == [versions |-> <<new>>, status |-> "DRAFT", signatures |-> {},
                     signatureHistory |-> <<>>, escrow |-> None]
  <1>1. r \in DOMAIN reservations
    BY DEF CreateContract
  <1>2. new \in Terms /\ new.reservation = r
    BY <1>1, TermsForType DEF TermsFor
  <1>3. contracts' = Put(contracts, c, rec)
    BY DEF CreateContract
  <1> HIDE DEF new
  <1>4. rec \in ContractRecord /\ rec.versions = <<new>>
    BY <1>2 DEF ContractRecord, ContractStatus
  <1> HIDE DEF rec
  <1>5. /\ Collection(contracts, ContractIds, ContractRecord)'
        /\ DOMAIN contracts' = DOMAIN contracts \cup {c}
        /\ \A x \in DOMAIN contracts : x # c => contracts'[x] = contracts[x]
        /\ contracts'[c] = rec
    BY <1>3, <1>4, PutCollection DEF TypeOK
  <1>6. /\ Collection(reservations, ReservationIds, ReservationRecord)'
        /\ DOMAIN reservations' = DOMAIN reservations
        /\ \A x \in DOMAIN reservations : reservations'[x].quote = reservations[x].quote
    BY <1>1 DEF CreateContract, TypeOK, Collection, ReservationRecord
  <1>7. \A x \in DOMAIN contracts' : \A v \in DOMAIN contracts'[x].versions :
          contracts'[x].versions[v].reservation \in DOMAIN reservations'
    <2>1. \A v \in DOMAIN rec.versions : rec.versions[v].reservation = r
      BY <1>2, <1>4
    <2>2. QED
      BY <2>1, <1>1, <1>5, <1>6 DEF TypeOK, NoDanglingIds
  <1>8. NoDanglingIds'
    BY <1>5, <1>6, <1>7 DEF CreateContract, TypeOK, NoDanglingIds
  <1>9. QED
    BY <1>5, <1>6, <1>8 DEF CreateContract, TypeOK

\* A signature keeps the record types.
LEMMA SignType ==
  ASSUME TypeOK, NEW c \in ContractIds, NEW v \in 1..MaxVersion, NEW side \in Sides,
         NEW w \in Wallets, NEW now \in Times, SignContract(c, v, side, w, now)
  PROVE  TypeOK'
  <1> DEFINE entry == [version |-> v, side |-> side]
             hs == contracts[c].signatureHistory
             signed == contracts[c].signatures \cup {side}
             rec == [contracts[c] EXCEPT !.signatures = signed,
                       !.signatureHistory = Append(hs, entry),
                       !.status = IF signed = Sides THEN "FUNDS_RESERVABLE"
                                                    ELSE "PARTIALLY_SIGNED"]
  <1>1. c \in DOMAIN contracts /\ contracts[c] \in ContractRecord
    BY DEF SignContract, TypeOK, Collection
  <1>2. contracts' = [contracts EXCEPT ![c] = rec]
    BY DEF SignContract
  <1>3. Append(hs, entry) \in Seq([version : Nat, side : Sides])
    <2>1. hs \in Seq([version : Nat, side : Sides]) /\ entry \in [version : Nat, side : Sides]
      BY <1>1, NumbersAssumption DEF ContractRecord
    <2>2. QED
      BY <2>1, AppendLookup
  <1>4. rec \in ContractRecord /\ rec.versions = contracts[c].versions
    <2> HIDE DEF hs, entry
    <2>1. signed \in SUBSET Sides
      BY <1>1 DEF ContractRecord
    <2> HIDE DEF signed
    <2>2. QED
      BY <1>1, <1>3, <2>1 DEF ContractRecord, ContractStatus
  <1> HIDE DEF rec
  <1>5. /\ Collection(contracts, ContractIds, ContractRecord)'
        /\ DOMAIN contracts' = DOMAIN contracts
        /\ \A x \in DOMAIN contracts : contracts'[x].versions = contracts[x].versions
    BY <1>2, <1>4, ExceptCollection DEF TypeOK
  <1>6. QED
    BY <1>5 DEF SignContract, TypeOK, NoDanglingIds

\* A confirmed escrow keeps the record types.
LEMMA EscrowType ==
  ASSUME TypeOK, NEW c \in ContractIds, NEW v \in 1..MaxVersion, NEW e \in EscrowIds,
         NEW h \in TxHashes,
         NEW receipt \in [contract : ContractIds, version : 1..MaxVersion, value : Values],
         RecordEscrowConfirmed(c, v, e, h, receipt)
  PROVE  TypeOK'
  <1> DEFINE rec == [contract |-> c, version |-> v, value |-> receipt.value, txHash |-> h]
             con == [contracts[c] EXCEPT !.escrow = e, !.status = "FUNDS_RESERVED"]
  <1>1. c \in DOMAIN contracts /\ contracts[c] \in ContractRecord
    BY DEF RecordEscrowConfirmed, EscrowMatches, TypeOK, Collection
  <1>2. rec \in EscrowRecord /\ rec.contract = c
    <2>1. v \in Nat \ {0}
      BY NumbersAssumption
    <2>2. receipt.value \in Nat
      <3>1. receipt.value \in Values
        OBVIOUS
      <3>2. QED
        BY <3>1, NumbersAssumption
    <2>3. QED
      BY <2>1, <2>2 DEF EscrowRecord
  <1>3. con \in ContractRecord /\ con.versions = contracts[c].versions
    BY <1>1 DEF ContractRecord, ContractStatus
  <1>4. escrows' = Put(escrows, e, rec) /\ contracts' = [contracts EXCEPT ![c] = con]
    BY DEF RecordEscrowConfirmed, EscrowMatches
  <1> HIDE DEF rec, con
  <1>5. /\ Collection(escrows, EscrowIds, EscrowRecord)'
        /\ \A x \in DOMAIN escrows' : x = e \/ x \in DOMAIN escrows
        /\ \A x \in DOMAIN escrows : x # e => escrows'[x] = escrows[x]
        /\ escrows'[e] = rec
    BY <1>2, <1>4 DEF Put, Collection, TypeOK
  <1>6. /\ Collection(contracts, ContractIds, ContractRecord)'
        /\ DOMAIN contracts' = DOMAIN contracts
        /\ \A x \in DOMAIN contracts : contracts'[x].versions = contracts[x].versions
    BY <1>3, <1>4, ExceptCollection DEF TypeOK
  <1>7. QED
    BY <1>1, <1>2, <1>5, <1>6 DEF RecordEscrowConfirmed, EscrowMatches, TypeOK, NoDanglingIds

\* A delivery keeps the record types.
LEMMA DeliverType ==
  ASSUME TypeOK, NEW b \in BatchIds, NEW c \in ContractIds, NEW n \in Quantities,
         NEW p \in People, DeliverBatch(b, c, n, p)
  PROVE  TypeOK'
  <1> DEFINE rec == [contract |-> c, version |-> Version(c), delivered |-> n,
                     accepted |-> 0, deliveryActor |-> p, status |-> "DELIVERED",
                     acceptance |-> None, assignments |-> <<>>, review |-> None]
             con == [contracts[c] EXCEPT !.status = "IN_FULFILLMENT"]
  <1>1. c \in DOMAIN contracts /\ contracts[c] \in ContractRecord
    BY DEF DeliverBatch, Ordered, TypeOK, Collection
  <1>2. rec \in BatchRecord /\ rec.contract = c
    BY <1>1, CurrentType DEF BatchRecord
  <1>3. con \in ContractRecord /\ con.versions = contracts[c].versions
    BY <1>1 DEF ContractRecord, ContractStatus
  <1>4. /\ b \notin DOMAIN batches
        /\ batches' = Put(batches, b, rec)
        /\ contracts' = [contracts EXCEPT ![c] = con]
    BY DEF DeliverBatch, Ordered
  <1> HIDE DEF rec, con
  <1>5. /\ Collection(batches, BatchIds, BatchRecord)'
        /\ DOMAIN batches' = DOMAIN batches \cup {b}
        /\ \A x \in DOMAIN batches : batches'[x] = batches[x]
        /\ batches'[b] = rec
    BY <1>2, <1>4 DEF Put, Collection, TypeOK
  <1>6. /\ Collection(contracts, ContractIds, ContractRecord)'
        /\ DOMAIN contracts' = DOMAIN contracts
        /\ \A x \in DOMAIN contracts : contracts'[x].versions = contracts[x].versions
    BY <1>3, <1>4, ExceptCollection DEF TypeOK
  <1>7. QED
    BY <1>1, <1>2, <1>5, <1>6 DEF DeliverBatch, Ordered, TypeOK, NoDanglingIds

\* The three commands that only change fields of one batch.
LEMMA AssessmentType ==
  ASSUME TypeOK, NEW b \in DOMAIN batches, NEW rec \in BatchRecord,
         rec.contract = batches[b].contract, batches' = [batches EXCEPT ![b] = rec],
         UNCHANGED <<quotes, reservations, contracts, escrows, payables, payments>>
  PROVE  TypeOK'
  <1>1. /\ Collection(batches, BatchIds, BatchRecord)'
        /\ DOMAIN batches' = DOMAIN batches
        /\ \A x \in DOMAIN batches : batches'[x].contract = batches[x].contract
    BY ExceptCollection DEF TypeOK
  <1>2. QED
    BY <1>1 DEF TypeOK, NoDanglingIds

\* An acceptance keeps the record types.
LEMMA AcceptType ==
  ASSUME TypeOK, NEW b \in BatchIds, NEW outcome \in Outcomes,
         NEW n \in Quantities \cup {0}, NEW p \in People, AcceptBatch(b, outcome, n, p)
  PROVE  TypeOK'
  <1> DEFINE rec == [batches[b] EXCEPT !.status = outcome, !.accepted = n, !.acceptance = p]
  <1>1. b \in DOMAIN batches /\ batches[b] \in BatchRecord
    BY DEF AcceptBatch, TypeOK, Collection
  <1>2. rec \in BatchRecord /\ rec.contract = batches[b].contract
    <2>1. n \in Nat
      BY NumbersAssumption
    <2>2. QED
      BY <1>1, <2>1 DEF BatchRecord
  <1>3. batches' = [batches EXCEPT ![b] = rec]
    BY DEF AcceptBatch
  <1>4. QED
    BY <1>1, <1>2, <1>3, AssessmentType DEF AcceptBatch

\* Assigning a reviewer keeps the record types.
LEMMA AssignType ==
  ASSUME TypeOK, NEW b \in BatchIds, NEW a \in AssignmentIds, NEW p \in People,
         AssignReviewer(b, a, p)
  PROVE  TypeOK'
  <1> DEFINE entry == [id |-> a, reviewer |-> p]
             assigned == batches[b].assignments
             rec == [batches[b] EXCEPT !.assignments = Append(assigned, entry)]
  <1>1. b \in DOMAIN batches /\ batches[b] \in BatchRecord
    BY DEF AssignReviewer, UnderReview, TypeOK, Collection
  <1>2. Append(assigned, entry) \in Seq([id : AssignmentIds, reviewer : People])
    <2>1. /\ assigned \in Seq([id : AssignmentIds, reviewer : People])
          /\ entry \in [id : AssignmentIds, reviewer : People]
      BY <1>1 DEF BatchRecord
    <2>2. QED
      BY <2>1, AppendLookup
  <1>3. batches' = [batches EXCEPT ![b] = rec]
    BY DEF AssignReviewer, UnderReview
  <1> HIDE DEF entry, assigned
  <1>4. rec \in BatchRecord /\ rec.contract = batches[b].contract
    BY <1>1, <1>2 DEF BatchRecord
  <1>5. QED
    BY <1>1, <1>3, <1>4, AssessmentType DEF AssignReviewer, UnderReview

\* A resolution keeps the record types.
LEMMA ResolveType ==
  ASSUME TypeOK, NEW b \in BatchIds, NEW n \in Quantities \cup {0}, NEW p \in People,
         NEW a \in AssignmentIds \cup {None}, ResolveDispute(b, n, p, a)
  PROVE  TypeOK'
  <1> DEFINE status == ReviewOutcome(n, batches[b].delivered)
             rec == [batches[b] EXCEPT !.status = status, !.accepted = n, !.review = p]
  <1>1. b \in DOMAIN batches /\ batches[b] \in BatchRecord
    BY DEF ResolveDispute, UnderReview, TypeOK, Collection
  <1>2. status \in Outcomes /\ n \in Nat
    BY <1>1, NumbersAssumption DEF Outcomes, ReviewOutcome
  <1>3. batches' = [batches EXCEPT ![b] = rec]
    BY DEF ResolveDispute, UnderReview
  <1> HIDE DEF status
  <1>4. rec \in BatchRecord /\ rec.contract = batches[b].contract
    BY <1>1, <1>2 DEF BatchRecord
  <1>5. QED
    BY <1>1, <1>3, <1>4, AssessmentType DEF ResolveDispute, UnderReview

\* What a payable says when it is derived.
LEMMA PayableForType ==
  ASSUME TypeOK, NEW b \in DOMAIN batches
  PROVE  /\ PayableFor(b) \in PayableRecord
         /\ PayableFor(b).contract = batches[b].contract
  <1>1. CASE b \in DOMAIN payables
    BY <1>1 DEF PayableFor, NewPayable, TypeOK, Collection, NoDanglingIds
  <1>2. CASE b \notin DOMAIN payables
    <2> DEFINE c == batches[b].contract
               terms == Current(c)
    <2>1. c \in DOMAIN contracts /\ c \in ContractIds
          /\ batches[b].accepted \in Nat
      BY DEF TypeOK, Collection, NoDanglingIds, BatchRecord
    <2>2. terms \in Terms /\ Version(c) \in Nat \ {0}
      BY <2>1, CurrentType
    <2> HIDE DEF terms
    <2>3. PayableWei(terms.unitPrice, batches[b].accepted) \in Nat
      <3>1. terms.unitPrice \in Nat
        BY <2>2 DEF Terms
      <3>2. QED
        BY <3>1, <2>1 DEF PayableWei
    <2>4. terms.supplier.wallet \in Wallets
      BY <2>2 DEF Terms, PartyRecord
    <2>5. QED
      BY <1>2, <2>1, <2>2, <2>3, <2>4 DEF PayableFor, NewPayable, PayableRecord, terms
  <1>3. QED
    BY <1>1, <1>2

\* A payable keeps the record types.
LEMMA DeriveType ==
  ASSUME TypeOK, NEW b \in BatchIds, DerivePayable(b)
  PROVE  TypeOK'
  <1> DEFINE rec == PayableFor(b)
  <1>1. b \in DOMAIN batches
    BY DEF DerivePayable
  <1>2. rec \in PayableRecord /\ rec.contract = batches[b].contract
    BY <1>1, PayableForType
  <1>3. payables' = Put(payables, b, rec)
    BY DEF DerivePayable
  <1> HIDE DEF rec
  <1>4. /\ Collection(payables, BatchIds, PayableRecord)'
        /\ DOMAIN payables' = DOMAIN payables \cup {b}
        /\ \A x \in DOMAIN payables' :
             payables'[x] = IF x = b THEN rec ELSE payables[x]
    BY <1>2, <1>3 DEF Put, Collection, TypeOK
  <1>5. QED
    BY <1>1, <1>2, <1>4 DEF DerivePayable, TypeOK, NoDanglingIds

\* A pending payment keeps the record types.
LEMMA PendingType ==
  ASSUME TypeOK, NEW b \in BatchIds, NEW m \in PaymentIds, NEW p \in People,
         MarkPaymentPending(b, m, p)
  PROVE  TypeOK'
  <1> DEFINE c == batches[b].contract
             payable == PayableFor(b)
             owed == [payable EXCEPT !.status = "PAYMENT_PENDING"]
             rec == [batch |-> b, contract |-> c, version |-> Version(c),
                     escrow |-> contracts[c].escrow, to |-> payable.to,
                     value |-> payable.amount, financeActor |-> p,
                     status |-> "PAYMENT_PENDING", txHash |-> None]
  <1>1. /\ b \in DOMAIN batches
        /\ contracts[c].escrow \in DOMAIN escrows
        /\ m \notin DOMAIN payments
    BY DEF MarkPaymentPending, FulfilledContract
  <1>2. c \in DOMAIN contracts /\ c \in ContractIds
    BY <1>1 DEF TypeOK, NoDanglingIds, Collection
  <1>3. payable \in PayableRecord /\ payable.contract = c
    BY <1>1, PayableForType
  <1>4. /\ payables' = Put(payables, b, owed)
        /\ payments' = Put(payments, m, rec)
    BY DEF MarkPaymentPending
  <1> HIDE DEF payable
  <1>5. owed \in PayableRecord /\ owed.contract = c
    BY <1>3 DEF PayableRecord
  <1>6. rec \in PaymentRecord /\ rec.batch = b /\ rec.contract = c
    <2>1. contracts[c].escrow \in EscrowIds
      BY <1>1 DEF TypeOK, Collection
    <2>2. Version(c) \in Nat \ {0}
      BY <1>2, CurrentType
    <2>3. QED
      BY <1>2, <1>3, <2>1, <2>2 DEF PayableRecord, PaymentRecord
  <1> HIDE DEF owed, rec
  <1>7. /\ Collection(payables, BatchIds, PayableRecord)'
        /\ DOMAIN payables' = DOMAIN payables \cup {b}
        /\ \A x \in DOMAIN payables' :
             payables'[x] = IF x = b THEN owed ELSE payables[x]
    BY <1>4, <1>5 DEF Put, Collection, TypeOK
  <1>8. /\ Collection(payments, PaymentIds, PaymentRecord)'
        /\ DOMAIN payments' = DOMAIN payments \cup {m}
        /\ \A x \in DOMAIN payments' :
             payments'[x] = IF x = m THEN rec ELSE payments[x]
    BY <1>4, <1>6 DEF Put, Collection, TypeOK
  <1>9. QED
    BY <1>1, <1>5, <1>6, <1>7, <1>8 DEF MarkPaymentPending, TypeOK, NoDanglingIds

\* A confirmed payment keeps the record types.
LEMMA ConfirmType ==
  ASSUME TypeOK, NEW m \in PaymentIds, NEW h \in TxHashes,
         NEW receipt \in [to : Wallets, value : Values], ConfirmPayment(m, h, receipt)
  PROVE  TypeOK'
  <1> DEFINE b == payments[m].batch
             owed == [payables[b] EXCEPT !.status = "PAID"]
             rec == [payments[m] EXCEPT !.status = "PAID", !.txHash = h]
  <1>1. m \in DOMAIN payments /\ b \in DOMAIN payables
    BY DEF ConfirmPayment, UnusedHash, TypeOK, NoDanglingIds
  <1>2. owed \in PayableRecord /\ owed.contract = payables[b].contract
    BY <1>1 DEF TypeOK, Collection, PayableRecord
  <1>3. /\ rec \in PaymentRecord
        /\ rec.contract = payments[m].contract
        /\ rec.batch = b
    BY <1>1 DEF TypeOK, Collection, PaymentRecord
  <1>4. /\ payables' = [payables EXCEPT ![b] = owed]
        /\ payments' = [payments EXCEPT ![m] = rec]
    BY DEF ConfirmPayment, UnusedHash
  <1> HIDE DEF owed, rec
  <1>5. /\ Collection(payables, BatchIds, PayableRecord)'
        /\ DOMAIN payables' = DOMAIN payables
        /\ \A x \in DOMAIN payables : payables'[x].contract = payables[x].contract
    BY <1>2, <1>4 DEF Collection, TypeOK
  <1>6. /\ Collection(payments, PaymentIds, PaymentRecord)'
        /\ DOMAIN payments' = DOMAIN payments
        /\ \A x \in DOMAIN payments : /\ payments'[x].batch = payments[x].batch
                                      /\ payments'[x].contract = payments[x].contract
    BY <1>3, <1>4 DEF Collection, TypeOK
  <1>7. QED
    BY <1>5, <1>6 DEF ConfirmPayment, UnusedHash, TypeOK, NoDanglingIds

\* The empty domain has the record types.
LEMMA InitType == Init => TypeOK
  BY DEF Init, TypeOK, Collection, NoDanglingIds

\* Every command keeps the record types.
LEMMA NextType == TypeOK /\ [Next]_vars => TypeOK'
  <1> SUFFICES ASSUME TypeOK, [Next]_vars PROVE TypeOK'
    OBVIOUS
  <1>1. CASE Contracting
    BY <1>1, AddQuoteType, ReserveType, CreateType, ReviseType, SignType, EscrowType
    DEF Contracting
  <1>2. CASE Fulfilment
    BY <1>2, DeliverType, AcceptType, AssignType, ResolveType DEF Fulfilment
  <1>3. CASE Settlement
    BY <1>3, DeriveType, PendingType, ConfirmType DEF Settlement
  <1>4. CASE UNCHANGED vars
    BY <1>4 DEF vars, TypeOK, Collection, NoDanglingIds
  <1>5. QED
    BY <1>1, <1>2, <1>3, <1>4 DEF Next

\* Every reachable state is well formed and without dangling references
\* (procurement-domain.js: every handler finds the entries it names).
THEOREM TypeCorrect == Spec => []TypeOK
  BY InitType, NextType, PTL DEF Spec

-----------------------------------------------------------------------------
(* Separation of duties *)

\* Nothing before the first delivery touches batches, payables or payments.
LEMMA ContractingFrame == Contracting => UNCHANGED <<batches, payables, payments>>
  <1>1. ASSUME NEW q, NEW input, AddQuote(q, input)
        PROVE  UNCHANGED <<batches, payables, payments>>
    BY <1>1 DEF AddQuote
  <1>2. ASSUME NEW r, NEW q, NEW task, NEW n, NEW buyer, NEW now,
               Reserve(r, q, task, n, buyer, now)
        PROVE  UNCHANGED <<batches, payables, payments>>
    BY <1>2 DEF Reserve, Offered
  <1>3. ASSUME NEW c, NEW r, NEW n, NEW t, NEW now, CreateContract(c, r, n, t, now)
        PROVE  UNCHANGED <<batches, payables, payments>>
    BY <1>3 DEF CreateContract
  <1>4. ASSUME NEW c, NEW r, NEW n, NEW t, NEW now, ReviseContract(c, r, n, t, now)
        PROVE  UNCHANGED <<batches, payables, payments>>
    BY <1>4 DEF ReviseContract, Revisable, SameDeal, FreeFor, Restocked, NewVersion
  <1>5. ASSUME NEW c, NEW v, NEW side, NEW w, NEW now, SignContract(c, v, side, w, now)
        PROVE  UNCHANGED <<batches, payables, payments>>
    BY <1>5 DEF SignContract
  <1>6. ASSUME NEW c, NEW v, NEW e, NEW h, NEW receipt,
               RecordEscrowConfirmed(c, v, e, h, receipt)
        PROVE  UNCHANGED <<batches, payables, payments>>
    BY <1>6 DEF RecordEscrowConfirmed, EscrowMatches
  <1>7. QED
    BY <1>1, <1>2, <1>3, <1>4, <1>5, <1>6 DEF Contracting

\* The guards of acceptBatch, resolveDispute and markPaymentPending look in
\* opposite directions, so the property is inductive with TypeOK alone.
LEMMA FinanceNext ==
  TypeOK /\ FinanceNeverAssesses /\ [Next]_vars => FinanceNeverAssesses'
  <1> SUFFICES ASSUME TypeOK, FinanceNeverAssesses, [Next]_vars,
                      NEW m \in DOMAIN payments', NEW b \in DOMAIN batches',
                      payments'[m].contract = batches'[b].contract
               PROVE  /\ batches'[b].acceptance # None
                           => ~SamePerson(payments'[m].financeActor, batches'[b].acceptance)
                      /\ batches'[b].review # None
                           => ~SamePerson(payments'[m].financeActor, batches'[b].review)
    BY DEF FinanceNeverAssesses
  <1> DEFINE Goal == /\ batches'[b].acceptance # None
                           => ~SamePerson(payments'[m].financeActor, batches'[b].acceptance)
                     /\ batches'[b].review # None
                           => ~SamePerson(payments'[m].financeActor, batches'[b].review)
  <1> USE DEF FinanceNeverAssesses
  <1>1. CASE UNCHANGED <<batches, payments>>
    BY <1>1
  <1>2. ASSUME NEW x \in BatchIds, NEW c \in ContractIds, NEW n \in Quantities,
               NEW p \in People, DeliverBatch(x, c, n, p)
        PROVE  Goal
    <2>1. /\ payments' = payments
          /\ b # x => b \in DOMAIN batches /\ batches'[b] = batches[b]
          /\ b = x => batches'[b].acceptance = None /\ batches'[b].review = None
      BY <1>2 DEF DeliverBatch, Ordered, Put
    <2>2. QED
      BY <2>1
  <1>3. ASSUME NEW x \in BatchIds, NEW outcome \in Outcomes,
               NEW n \in Quantities \cup {0}, NEW p \in People, AcceptBatch(x, outcome, n, p)
        PROVE  Goal
    <2>1. /\ payments' = payments /\ DOMAIN batches' = DOMAIN batches
          /\ x \in DOMAIN batches
          /\ NotFinanceParticipant(batches[x].contract, p)
          /\ batches'[b].contract = batches[b].contract
          /\ batches'[b].review = batches[b].review
          /\ batches'[b].acceptance = IF b = x THEN p ELSE batches[b].acceptance
      BY <1>3 DEF AcceptBatch, TypeOK, Collection, BatchRecord
    <2>2. b = x => ~SamePerson(payments[m].financeActor, p)
      BY <2>1 DEF NotFinanceParticipant, PaymentsOf
    <2>3. QED
      BY <2>1, <2>2
  <1>4. ASSUME NEW x \in BatchIds, NEW n \in Quantities \cup {0}, NEW p \in People,
               NEW a \in AssignmentIds \cup {None}, ResolveDispute(x, n, p, a)
        PROVE  Goal
    <2>1. /\ payments' = payments /\ DOMAIN batches' = DOMAIN batches
          /\ x \in DOMAIN batches
          /\ NotFinanceParticipant(batches[x].contract, p)
          /\ batches'[b].contract = batches[b].contract
          /\ batches'[b].acceptance = batches[b].acceptance
          /\ batches'[b].review = IF b = x THEN p ELSE batches[b].review
      BY <1>4 DEF ResolveDispute, UnderReview, IndependentReviewer, TypeOK, Collection, BatchRecord
    <2>2. b = x => ~SamePerson(payments[m].financeActor, p)
      BY <2>1 DEF NotFinanceParticipant, PaymentsOf
    <2>3. QED
      BY <2>1, <2>2
  <1>5. ASSUME NEW x \in BatchIds, NEW a \in AssignmentIds, NEW p \in People,
               AssignReviewer(x, a, p)
        PROVE  Goal
    <2>1. /\ payments' = payments /\ DOMAIN batches' = DOMAIN batches
          /\ batches'[b].contract = batches[b].contract
          /\ batches'[b].acceptance = batches[b].acceptance
          /\ batches'[b].review = batches[b].review
      BY <1>5 DEF AssignReviewer, UnderReview, TypeOK, Collection, BatchRecord
    <2>2. QED
      BY <2>1
  <1>6. ASSUME NEW x \in BatchIds, NEW k \in PaymentIds, NEW p \in People,
               MarkPaymentPending(x, k, p)
        PROVE  Goal
    <2>1. /\ batches' = batches
          /\ m # k => m \in DOMAIN payments /\ payments'[m] = payments[m]
          /\ m = k => /\ payments'[m].financeActor = p
                      /\ payments'[m].contract = batches[x].contract
      BY <1>6 DEF MarkPaymentPending, Put
    <2>2. ASSUME m = k PROVE Goal
      <3>1. b \in BatchesOf(batches[x].contract)
        BY <2>1, <2>2 DEF BatchesOf
      <3>2. /\ batches[b].acceptance # None => ~SamePerson(p, batches[b].acceptance)
            /\ batches[b].review # None => ~SamePerson(p, batches[b].review)
        BY <1>6, <3>1 DEF MarkPaymentPending
      <3>3. QED
        BY <2>1, <2>2, <3>2
    <2>3. QED
      BY <2>1, <2>2
  <1>7. ASSUME NEW k \in PaymentIds, NEW h \in TxHashes,
               NEW receipt \in [to : Wallets, value : Values], ConfirmPayment(k, h, receipt)
        PROVE  Goal
    <2>1. /\ batches' = batches /\ DOMAIN payments' = DOMAIN payments
          /\ payments'[m].contract = payments[m].contract
          /\ payments'[m].financeActor = payments[m].financeActor
      BY <1>7 DEF ConfirmPayment, UnusedHash, TypeOK, Collection, PaymentRecord
    <2>2. QED
      BY <2>1
  <1>8. CASE Contracting
    BY <1>8, <1>1, ContractingFrame
  <1>9. CASE Fulfilment
    BY <1>9, <1>2, <1>3, <1>4, <1>5 DEF Fulfilment
  <1>10. CASE Settlement
    <2>1. ASSUME NEW x \in BatchIds, DerivePayable(x) PROVE Goal
      BY <2>1, <1>1 DEF DerivePayable
    <2>2. QED
      BY <1>10, <2>1, <1>6, <1>7 DEF Settlement
  <1>11. CASE UNCHANGED vars
    BY <1>11, <1>1 DEF vars
  <1>12. QED
    BY <1>8, <1>9, <1>10, <1>11 DEF Next

\* On no contract is the person who pays also one who accepted or reviewed,
\* for any number of batches, payments and people (disallowFinanceParticipant
\* and the check of markPaymentPending).
THEOREM FinanceSeparated == Spec => []FinanceNeverAssesses
  <1>1. Init => FinanceNeverAssesses
    BY DEF Init, FinanceNeverAssesses
  <1>2. QED
    BY <1>1, FinanceNext, TypeCorrect, PTL DEF Spec

-----------------------------------------------------------------------------
(* Transaction hashes *)

\* Deliveries and assessments leave the money records alone.
LEMMA FulfilmentFrame == Fulfilment => UNCHANGED <<escrows, payables, payments>>
  <1>1. ASSUME NEW b, NEW c, NEW n, NEW p, DeliverBatch(b, c, n, p)
        PROVE  UNCHANGED <<escrows, payables, payments>>
    BY <1>1 DEF DeliverBatch, Ordered
  <1>2. ASSUME NEW b, NEW outcome, NEW n, NEW p, AcceptBatch(b, outcome, n, p)
        PROVE  UNCHANGED <<escrows, payables, payments>>
    BY <1>2 DEF AcceptBatch
  <1>3. ASSUME NEW b, NEW n, NEW p, NEW a, ResolveDispute(b, n, p, a)
        PROVE  UNCHANGED <<escrows, payables, payments>>
    BY <1>3 DEF ResolveDispute, UnderReview
  <1>4. ASSUME NEW b, NEW a, NEW p, AssignReviewer(b, a, p)
        PROVE  UNCHANGED <<escrows, payables, payments>>
    BY <1>4 DEF AssignReviewer, UnderReview
  <1>5. QED
    BY <1>1, <1>2, <1>3, <1>4 DEF Fulfilment

\* Every command keeps a transaction from counting twice.
LEMMA TxHashNext ==
  TypeOK /\ TxHashesUsedOnce /\ [Next]_vars => TxHashesUsedOnce'
  <1> SUFFICES ASSUME TypeOK, TxHashesUsedOnce, [Next]_vars PROVE TxHashesUsedOnce'
    OBVIOUS
  <1> USE DEF TxHashesUsedOnce
  <1>1. CASE UNCHANGED <<escrows, payments>>
    BY <1>1
  <1>2. ASSUME NEW c \in ContractIds, NEW v \in 1..MaxVersion, NEW e \in EscrowIds,
               NEW h \in TxHashes,
               NEW receipt \in [contract : ContractIds, version : 1..MaxVersion, value : Values],
               RecordEscrowConfirmed(c, v, e, h, receipt)
        PROVE  TxHashesUsedOnce'
    <2>1. /\ payments' = payments /\ ~TxHashUsed(h)
          /\ DOMAIN escrows' = DOMAIN escrows \cup {e} /\ e \notin DOMAIN escrows
          /\ \A x \in DOMAIN escrows : escrows'[x] = escrows[x]
          /\ escrows'[e].txHash = h
      BY <1>2 DEF RecordEscrowConfirmed, EscrowMatches, Put
    <2>2. QED
      BY <2>1 DEF TxHashUsed
  <1>3. ASSUME NEW b \in BatchIds, NEW m \in PaymentIds, NEW p \in People,
               MarkPaymentPending(b, m, p)
        PROVE  TxHashesUsedOnce'
    <2>1. /\ escrows' = escrows
          /\ DOMAIN payments' = DOMAIN payments \cup {m} /\ m \notin DOMAIN payments
          /\ \A x \in DOMAIN payments : payments'[x] = payments[x]
          /\ payments'[m].txHash = None
      BY <1>3 DEF MarkPaymentPending, Put
    <2>2. \A e \in DOMAIN escrows : escrows[e].txHash # None
      BY NoneAssumption DEF TypeOK, Collection, EscrowRecord
    <2>3. QED
      BY <2>1, <2>2
  <1>4. ASSUME NEW m \in PaymentIds, NEW h \in TxHashes,
               NEW receipt \in [to : Wallets, value : Values], ConfirmPayment(m, h, receipt)
        PROVE  TxHashesUsedOnce'
    <2>1. /\ escrows' = escrows /\ DOMAIN payments' = DOMAIN payments
          /\ \A x \in DOMAIN payments :
               payments'[x].txHash = IF x = m THEN h ELSE payments[x].txHash
      BY <1>4 DEF ConfirmPayment, UnusedHash, TypeOK, Collection, PaymentRecord
    <2>2. /\ \A x \in DOMAIN payments : x # m => payments[x].txHash # h
          /\ \A e \in DOMAIN escrows : escrows[e].txHash # h
      BY <1>4 DEF ConfirmPayment, UnusedHash
    <2>3. QED
      BY <2>1, <2>2
  <1>5. CASE Contracting
    <2>1. ASSUME NEW q, NEW input, AddQuote(q, input) PROVE UNCHANGED <<escrows, payments>>
      BY <2>1 DEF AddQuote
    <2>2. ASSUME NEW r, NEW q, NEW task, NEW n, NEW buyer, NEW now,
                 Reserve(r, q, task, n, buyer, now)
          PROVE  UNCHANGED <<escrows, payments>>
      BY <2>2 DEF Reserve, Offered
    <2>3. ASSUME NEW c, NEW r, NEW n, NEW t, NEW now, CreateContract(c, r, n, t, now)
          PROVE  UNCHANGED <<escrows, payments>>
      BY <2>3 DEF CreateContract
    <2>4. ASSUME NEW c, NEW r, NEW n, NEW t, NEW now, ReviseContract(c, r, n, t, now)
          PROVE  UNCHANGED <<escrows, payments>>
      BY <2>4 DEF ReviseContract, Revisable, SameDeal, FreeFor, Restocked, NewVersion
    <2>5. ASSUME NEW c, NEW v, NEW side, NEW w, NEW now, SignContract(c, v, side, w, now)
          PROVE  UNCHANGED <<escrows, payments>>
      BY <2>5 DEF SignContract
    <2>6. QED
      BY <1>5, <1>1, <1>2, <2>1, <2>2, <2>3, <2>4, <2>5 DEF Contracting
  <1>6. CASE Fulfilment
    BY <1>6, <1>1, FulfilmentFrame
  <1>7. CASE Settlement
    <2>1. ASSUME NEW x \in BatchIds, DerivePayable(x) PROVE UNCHANGED <<escrows, payments>>
      BY <2>1 DEF DerivePayable
    <2>2. QED
      BY <1>7, <2>1, <1>1, <1>3, <1>4 DEF Settlement
  <1>8. CASE UNCHANGED vars
    BY <1>8, <1>1 DEF vars
  <1>9. QED
    BY <1>5, <1>6, <1>7, <1>8 DEF Next

\* No transaction hash confirms two things (TX_HASH_REUSED in
\* recordEscrowConfirmed and confirmPayment), for any number of contracts.
THEOREM TxHashesUnique == Spec => []TxHashesUsedOnce
  <1>1. Init => TxHashesUsedOnce
    BY DEF Init, TxHashesUsedOnce
  <1>2. QED
    BY <1>1, TxHashNext, TypeCorrect, PTL DEF Spec

-----------------------------------------------------------------------------
(* Fulfilment only behind signatures and escrow *)

\* A contract the step neither signs nor revises keeps its backing as long as
\* its escrow stays where it is.
LEMMA BackingKept ==
  ASSUME NEW c, c \in DOMAIN contracts, c \in DOMAIN contracts', FulfilledContract(c),
         contracts'[c].versions = contracts[c].versions,
         contracts'[c].escrow = contracts[c].escrow,
         contracts'[c].status \in {"FUNDS_RESERVED", "IN_FULFILLMENT"},
         contracts[c].escrow \in DOMAIN escrows',
         escrows'[contracts[c].escrow] = escrows[contracts[c].escrow]
  PROVE  FulfilledContract(c)'
  BY DEF FulfilledContract, Version, Current, ContractValue, PayableWei

\* The parts of FulfilmentIsBacked.
ContractBacked(c) ==
  contracts[c].status \in {"FUNDS_RESERVED", "IN_FULFILLMENT"} =>
    /\ FulfilledContract(c)
    /\ contracts[c].signatures = Sides
BatchBacked(b) ==
  /\ contracts[batches[b].contract].status = "IN_FULFILLMENT"
  /\ batches[b].version = Version(batches[b].contract)
PaymentBacked(m) ==
  /\ payments[m].escrow = contracts[payments[m].contract].escrow
  /\ payments[m].contract = batches[payments[m].batch].contract

\* The backing of fulfilment by contract, batch and payment.
LEMMA BackedParts ==
  FulfilmentIsBacked <=> /\ \A c \in DOMAIN contracts : ContractBacked(c)
                         /\ \A b \in DOMAIN batches : BatchBacked(b)
                         /\ \A m \in DOMAIN payments : PaymentBacked(m)
  BY DEF FulfilmentIsBacked, ContractBacked, BatchBacked, PaymentBacked

\* A step on a contract without batches that leaves it outside fulfilment, or
\* with a confirmed escrow, disturbs nothing else.
LEMMA ContractStepBacked ==
  ASSUME TypeOK, FulfilmentIsBacked, NEW c \in ContractIds,
         DOMAIN contracts' = DOMAIN contracts \cup {c},
         \A x \in DOMAIN contracts : x # c => contracts'[x] = contracts[x],
         \A b \in DOMAIN batches : batches[b].contract # c,
         DOMAIN escrows \subseteq DOMAIN escrows',
         \A x \in DOMAIN escrows : escrows'[x] = escrows[x],
         UNCHANGED <<batches, payables, payments>>,
         ContractBacked(c)'
  PROVE  FulfilmentIsBacked'
  <1>1. ASSUME NEW x \in DOMAIN contracts' PROVE ContractBacked(x)'
    <2>1. CASE x = c
      BY <2>1
    <2>2. CASE x # c
      <3>1. x \in DOMAIN contracts /\ contracts'[x] = contracts[x]
        BY <2>2
      <3>2. ContractBacked(x)
        BY <3>1, BackedParts
      <3>3. contracts[x].status \in {"FUNDS_RESERVED", "IN_FULFILLMENT"} =>
              FulfilledContract(x)'
        BY <3>1, <3>2, BackingKept DEF ContractBacked, FulfilledContract
      <3>4. QED
        BY <3>1, <3>2, <3>3 DEF ContractBacked
    <2>3. QED
      BY <2>1, <2>2
  <1>2. ASSUME NEW b \in DOMAIN batches' PROVE BatchBacked(b)'
    <2>1. /\ b \in DOMAIN batches /\ batches'[b] = batches[b]
          /\ batches[b].contract \in DOMAIN contracts
          /\ contracts'[batches[b].contract] = contracts[batches[b].contract]
      BY DEF TypeOK, NoDanglingIds
    <2>2. BatchBacked(b)
      BY <2>1, BackedParts
    <2>3. QED
      BY <2>1, <2>2 DEF BatchBacked, Version
  <1>3. ASSUME NEW m \in DOMAIN payments' PROVE PaymentBacked(m)'
    <2>1. /\ m \in DOMAIN payments /\ payments'[m] = payments[m] /\ batches' = batches
          /\ payments[m].contract \in DOMAIN contracts
          /\ payments[m].contract # c
      BY DEF TypeOK, NoDanglingIds
    <2>2. PaymentBacked(m)
      BY <2>1, BackedParts
    <2>3. QED
      BY <2>1, <2>2 DEF PaymentBacked
  <1>4. QED
    BY <1>1, <1>2, <1>3 DEF FulfilmentIsBacked, ContractBacked, BatchBacked, PaymentBacked

\* A new contract keeps fulfilment backed.
LEMMA CreateBacked ==
  ASSUME TypeOK, FulfilmentIsBacked, NEW c \in ContractIds, NEW r, NEW n, NEW t, NEW now,
         CreateContract(c, r, n, t, now)
  PROVE  FulfilmentIsBacked'
  <1>1. /\ c \notin DOMAIN contracts
        /\ DOMAIN contracts' = DOMAIN contracts \cup {c}
        /\ \A x \in DOMAIN contracts : x # c => contracts'[x] = contracts[x]
        /\ contracts'[c].status = "DRAFT"
        /\ UNCHANGED <<escrows, batches, payables, payments>>
    BY DEF CreateContract, Put
  <1>2. \A b \in DOMAIN batches : batches[b].contract # c
    BY <1>1 DEF TypeOK, NoDanglingIds
  <1>3. ContractBacked(c)'
    BY <1>1 DEF ContractBacked
  <1>4. QED
    BY <1>1, <1>2, <1>3, ContractStepBacked

\* A revision keeps fulfilment backed.
LEMMA ReviseBacked ==
  ASSUME TypeOK, FulfilmentIsBacked, NEW c \in ContractIds, NEW r, NEW n, NEW t, NEW now,
         ReviseContract(c, r, n, t, now)
  PROVE  FulfilmentIsBacked'
  <1>1. /\ c \in DOMAIN contracts
        /\ BatchesOf(c) = {}
        /\ UNCHANGED <<escrows, batches, payables, payments>>
    BY DEF ReviseContract, Revisable, SameDeal, FreeFor, Restocked, NewVersion
  <1>2. /\ DOMAIN contracts' = DOMAIN contracts
        /\ \A x \in DOMAIN contracts : x # c => contracts'[x] = contracts[x]
        /\ contracts'[c].status = "DRAFT"
    <2>1. contracts' = [contracts EXCEPT ![c] = NewVersion(@, TermsFor(r, n, t))]
      BY DEF ReviseContract
    <2>2. contracts[c] \in ContractRecord
      BY <1>1 DEF TypeOK, Collection
    <2>3. QED
      BY <1>1, <2>1, <2>2 DEF NewVersion, ContractRecord
  <1>3. \A b \in DOMAIN batches : batches[b].contract # c
    BY <1>1 DEF BatchesOf
  <1>4. ContractBacked(c)'
    BY <1>2 DEF ContractBacked
  <1>5. QED
    BY <1>1, <1>2, <1>3, <1>4, ContractStepBacked

\* A signature keeps fulfilment backed.
LEMMA SignBacked ==
  ASSUME TypeOK, FulfilmentIsBacked, NEW c \in ContractIds, NEW v, NEW side, NEW w, NEW now,
         SignContract(c, v, side, w, now)
  PROVE  FulfilmentIsBacked'
  <1>1. /\ c \in DOMAIN contracts
        /\ BatchesOf(c) = {}
        /\ UNCHANGED <<escrows, batches, payables, payments>>
    BY DEF SignContract
  <1>2. /\ DOMAIN contracts' = DOMAIN contracts
        /\ \A x \in DOMAIN contracts : x # c => contracts'[x] = contracts[x]
        /\ contracts'[c].status \in {"FUNDS_RESERVABLE", "PARTIALLY_SIGNED"}
    BY <1>1 DEF SignContract, TypeOK, Collection, ContractRecord
  <1>3. \A b \in DOMAIN batches : batches[b].contract # c
    BY <1>1 DEF BatchesOf
  <1>4. ContractBacked(c)'
    BY <1>2 DEF ContractBacked
  <1>5. QED
    BY <1>1, <1>2, <1>3, <1>4, ContractStepBacked

\* Before its escrow is confirmed a contract has no batch, and the receipt
\* states exactly the contract's value.
LEMMA EscrowBacked ==
  ASSUME TypeOK, FulfilmentIsBacked, NEW c \in ContractIds, NEW v, NEW e \in EscrowIds,
         NEW h, NEW receipt, RecordEscrowConfirmed(c, v, e, h, receipt)
  PROVE  FulfilmentIsBacked'
  <1>1. /\ c \in DOMAIN contracts /\ v = Version(c)
        /\ contracts[c].signatures = Sides
        /\ receipt.value = ContractValue(Current(c))
        /\ \A x \in DOMAIN escrows : escrows[x].contract # c
        /\ e \notin DOMAIN escrows
        /\ UNCHANGED <<batches, payables, payments>>
    BY DEF RecordEscrowConfirmed, EscrowMatches
  <1>2. /\ DOMAIN contracts' = DOMAIN contracts
        /\ \A x \in DOMAIN contracts : x # c => contracts'[x] = contracts[x]
        /\ contracts'[c].escrow = e
        /\ contracts'[c].status = "FUNDS_RESERVED"
        /\ contracts'[c].versions = contracts[c].versions
        /\ contracts'[c].signatures = contracts[c].signatures
    BY <1>1 DEF RecordEscrowConfirmed, EscrowMatches, TypeOK, Collection, ContractRecord
  <1>3. /\ DOMAIN escrows' = DOMAIN escrows \cup {e}
        /\ \A x \in DOMAIN escrows : escrows'[x] = escrows[x]
        /\ escrows'[e].contract = c
        /\ escrows'[e].version = v
        /\ escrows'[e].value = receipt.value
    BY <1>1 DEF RecordEscrowConfirmed, EscrowMatches, Put
  <1>4. ~FulfilledContract(c)
    BY <1>1 DEF FulfilledContract
  <1>5. \A b \in DOMAIN batches : batches[b].contract # c
    BY <1>1, <1>4 DEF FulfilmentIsBacked
  <1>6. ContractBacked(c)'
    BY <1>1, <1>2, <1>3 DEF ContractBacked, FulfilledContract, Version, Current,
                            ContractValue, PayableWei
  <1>7. QED
    BY <1>1, <1>2, <1>3, <1>5, <1>6, ContractStepBacked

\* A delivery keeps fulfilment backed.
LEMMA DeliverBacked ==
  ASSUME TypeOK, FulfilmentIsBacked, NEW b \in BatchIds, NEW c \in ContractIds, NEW n, NEW p,
         DeliverBatch(b, c, n, p)
  PROVE  FulfilmentIsBacked'
  <1>1. /\ c \in DOMAIN contracts /\ FulfilledContract(c)
        /\ b \notin DOMAIN batches
        /\ UNCHANGED <<escrows, payables, payments>>
    BY DEF DeliverBatch, Ordered
  <1>2. /\ DOMAIN contracts' = DOMAIN contracts
        /\ \A x \in DOMAIN contracts :
             /\ contracts'[x].versions = contracts[x].versions
             /\ contracts'[x].escrow = contracts[x].escrow
             /\ contracts'[x].signatures = contracts[x].signatures
             /\ contracts'[x].status = IF x = c THEN "IN_FULFILLMENT" ELSE contracts[x].status
    BY <1>1 DEF DeliverBatch, Ordered, TypeOK, Collection, ContractRecord
  <1>3. /\ DOMAIN batches' = DOMAIN batches \cup {b}
        /\ \A x \in DOMAIN batches : batches'[x] = batches[x]
        /\ batches'[b].contract = c
        /\ batches'[b].version = Version(c)
    BY <1>1 DEF DeliverBatch, Ordered, Put
  <1>4. contracts[c].status \in {"FUNDS_RESERVED", "IN_FULFILLMENT"}
    BY <1>1 DEF FulfilledContract
  <1>5. ASSUME NEW x \in DOMAIN contracts' PROVE ContractBacked(x)'
    <2>1. x \in DOMAIN contracts /\ ContractBacked(x)
      BY <1>2, BackedParts
    <2>2. contracts'[x].status \in {"FUNDS_RESERVED", "IN_FULFILLMENT"} =>
            /\ contracts[x].status \in {"FUNDS_RESERVED", "IN_FULFILLMENT"}
            /\ FulfilledContract(x)
      BY <1>2, <1>4, <2>1 DEF ContractBacked
    <2>3. contracts'[x].status \in {"FUNDS_RESERVED", "IN_FULFILLMENT"} => FulfilledContract(x)'
      BY <1>1, <1>2, <2>1, <2>2, BackingKept DEF FulfilledContract
    <2>4. QED
      BY <1>2, <2>1, <2>2, <2>3 DEF ContractBacked
  <1>6. ASSUME NEW x \in DOMAIN batches' PROVE BatchBacked(x)'
    <2>1. CASE x = b
      BY <1>1, <1>2, <1>3, <2>1 DEF BatchBacked, Version
    <2>2. CASE x # b
      <3>1. /\ x \in DOMAIN batches /\ BatchBacked(x) /\ batches'[x] = batches[x]
            /\ batches[x].contract \in DOMAIN contracts
        BY <1>3, <2>2, BackedParts DEF TypeOK, NoDanglingIds
      <3>2. QED
        BY <1>2, <3>1 DEF BatchBacked, Version
    <2>3. QED
      BY <2>1, <2>2
  <1>7. ASSUME NEW m \in DOMAIN payments' PROVE PaymentBacked(m)'
    <2>1. /\ m \in DOMAIN payments /\ payments' = payments /\ PaymentBacked(m)
          /\ payments[m].batch \in DOMAIN batches
          /\ payments[m].contract \in DOMAIN contracts
      BY <1>1, BackedParts DEF TypeOK, NoDanglingIds
    <2>2. QED
      BY <1>2, <1>3, <2>1 DEF PaymentBacked
  <1>8. QED
    BY <1>5, <1>6, <1>7 DEF FulfilmentIsBacked, ContractBacked, BatchBacked, PaymentBacked

\* The three assessment commands leave a batch's contract and version alone.
LEMMA AssessmentBacked ==
  ASSUME TypeOK, FulfilmentIsBacked,
         UNCHANGED <<contracts, escrows, payables, payments>>,
         DOMAIN batches' = DOMAIN batches,
         \A b \in DOMAIN batches : /\ batches'[b].contract = batches[b].contract
                                   /\ batches'[b].version = batches[b].version
  PROVE  FulfilmentIsBacked'
  <1>1. \A c \in DOMAIN contracts' : ContractBacked(c)'
    BY BackedParts DEF ContractBacked, FulfilledContract, Version, Current, ContractValue,
                       PayableWei
  <1>2. \A b \in DOMAIN batches' : BatchBacked(b)'
    BY BackedParts DEF BatchBacked, Version
  <1>3. \A m \in DOMAIN payments' : PaymentBacked(m)'
    BY BackedParts DEF PaymentBacked, TypeOK, NoDanglingIds
  <1>4. QED
    BY <1>1, <1>2, <1>3 DEF FulfilmentIsBacked, ContractBacked, BatchBacked, PaymentBacked

\* A settlement step adds at most one payment, drawn on its contract's escrow.
LEMMA SettlementBacked ==
  ASSUME TypeOK, FulfilmentIsBacked, UNCHANGED <<contracts, escrows, batches>>,
         \A m \in DOMAIN payments' :
           \/ /\ m \in DOMAIN payments
              /\ payments'[m].escrow = payments[m].escrow
              /\ payments'[m].contract = payments[m].contract
              /\ payments'[m].batch = payments[m].batch
           \/ PaymentBacked(m)'
  PROVE  FulfilmentIsBacked'
  <1>1. \A c \in DOMAIN contracts' : ContractBacked(c)'
    BY BackedParts DEF ContractBacked, FulfilledContract, Version, Current, ContractValue,
                       PayableWei
  <1>2. \A b \in DOMAIN batches' : BatchBacked(b)'
    BY BackedParts DEF BatchBacked, Version
  <1>3. \A m \in DOMAIN payments' : PaymentBacked(m)'
    BY BackedParts DEF PaymentBacked
  <1>4. QED
    BY <1>1, <1>2, <1>3 DEF FulfilmentIsBacked, ContractBacked, BatchBacked, PaymentBacked

\* Every command keeps fulfilment backed.
LEMMA BackedNext ==
  TypeOK /\ FulfilmentIsBacked /\ [Next]_vars => FulfilmentIsBacked'
  <1> SUFFICES ASSUME TypeOK, FulfilmentIsBacked, [Next]_vars PROVE FulfilmentIsBacked'
    OBVIOUS
  <1>1. CASE UNCHANGED <<contracts, escrows, batches, payments>>
    BY <1>1, SettlementBacked
  <1>2. CASE Contracting
    <2>1. ASSUME NEW q, NEW input, AddQuote(q, input)
          PROVE  UNCHANGED <<contracts, escrows, batches, payments>>
      BY <2>1 DEF AddQuote
    <2>2. ASSUME NEW r, NEW q, NEW task, NEW n, NEW buyer, NEW now,
                 Reserve(r, q, task, n, buyer, now)
          PROVE  UNCHANGED <<contracts, escrows, batches, payments>>
      BY <2>2 DEF Reserve, Offered
    <2>3. QED
      BY <1>1, <1>2, <2>1, <2>2, CreateBacked, ReviseBacked, SignBacked, EscrowBacked
         DEF Contracting
  <1>3. CASE Fulfilment
    <2>1. ASSUME NEW b, NEW outcome, NEW n, NEW p, AcceptBatch(b, outcome, n, p)
          PROVE  FulfilmentIsBacked'
      BY <2>1, AssessmentBacked DEF AcceptBatch, TypeOK, Collection, BatchRecord
    <2>2. ASSUME NEW b, NEW n, NEW p, NEW a, ResolveDispute(b, n, p, a)
          PROVE  FulfilmentIsBacked'
      BY <2>2, AssessmentBacked DEF ResolveDispute, UnderReview, TypeOK, Collection, BatchRecord
    <2>3. ASSUME NEW b, NEW a, NEW p, AssignReviewer(b, a, p)
          PROVE  FulfilmentIsBacked'
      BY <2>3, AssessmentBacked DEF AssignReviewer, UnderReview, TypeOK, Collection, BatchRecord
    <2>4. QED
      BY <1>3, <2>1, <2>2, <2>3, DeliverBacked DEF Fulfilment
  <1>4. CASE Settlement
    <2>1. ASSUME NEW b, DerivePayable(b)
          PROVE  UNCHANGED <<contracts, escrows, batches, payments>>
      BY <2>1 DEF DerivePayable
    <2>2. ASSUME NEW b, NEW m, NEW p, MarkPaymentPending(b, m, p)
          PROVE  FulfilmentIsBacked'
      <3>1. /\ UNCHANGED <<contracts, escrows, batches>>
            /\ \A x \in DOMAIN payments' :
                 \/ x \in DOMAIN payments /\ payments'[x] = payments[x]
                 \/ /\ payments'[x].batch = b
                    /\ payments'[x].contract = batches[b].contract
                    /\ payments'[x].escrow = contracts[batches[b].contract].escrow
        BY <2>2 DEF MarkPaymentPending, Put
      <3>2. QED
        BY <3>1, SettlementBacked DEF PaymentBacked
    <2>3. ASSUME NEW m, NEW h, NEW receipt, ConfirmPayment(m, h, receipt)
          PROVE  FulfilmentIsBacked'
      BY <2>3, SettlementBacked DEF ConfirmPayment, UnusedHash, TypeOK, Collection, PaymentRecord
    <2>4. QED
      BY <1>1, <1>4, <2>1, <2>2, <2>3 DEF Settlement
  <1>5. CASE UNCHANGED vars
    BY <1>1, <1>5 DEF vars
  <1>6. QED
    BY <1>2, <1>3, <1>4, <1>5 DEF Next

\* Whatever the sequence of commands, a batch or a payment exists only behind
\* the contract version both parties signed and whose full value its own escrow
\* confirmed (fulfilledContract, recordEscrowConfirmed).
THEOREM FulfilmentBacked == Spec => []FulfilmentIsBacked
  <1>1. Init => FulfilmentIsBacked
    BY DEF Init, FulfilmentIsBacked
  <1>2. QED
    BY <1>1, BackedNext, TypeCorrect, PTL DEF Spec

-----------------------------------------------------------------------------
(* What a command does to the contracts *)

\* Versions, signatures and escrows stay; fulfilment may begin.
ContractsStay ==
  /\ DOMAIN contracts' = DOMAIN contracts
  /\ \A c \in DOMAIN contracts :
       /\ contracts'[c].versions = contracts[c].versions
       /\ contracts'[c].signatures = contracts[c].signatures
       /\ contracts'[c].signatureHistory = contracts[c].signatureHistory
       /\ contracts'[c].escrow = contracts[c].escrow
       /\ \/ contracts'[c].status = contracts[c].status
          \/ FulfilledContract(c) /\ contracts'[c].status = "IN_FULFILLMENT"

OthersStay(c) ==
  /\ DOMAIN contracts' = DOMAIN contracts \cup {c}
  /\ \A d \in DOMAIN contracts : d # c => contracts'[d] = contracts[d]

\* The first version x of a new contract c ...
Created(c, x) ==
  /\ c \notin DOMAIN contracts /\ OthersStay(c)
  /\ x \in Terms /\ ~NonceUsed(x.buyer, x.nonce)
  /\ contracts'[c].versions = <<x>> /\ contracts'[c].signatures = {}
  /\ contracts'[c].signatureHistory = <<>> /\ contracts'[c].escrow = None

\* ... and a further one.
Revised(c, x) ==
  /\ c \in DOMAIN contracts /\ OthersStay(c) /\ BatchesOf(c) = {}
  /\ x \in Terms /\ ~NonceUsed(x.buyer, x.nonce) /\ contracts[c].escrow = None
  /\ contracts'[c].versions = Append(contracts[c].versions, x) /\ contracts'[c].signatures = {}
  /\ contracts'[c].signatureHistory = contracts[c].signatureHistory
  /\ contracts'[c].escrow = None

Signed(c, side) ==
  /\ c \in DOMAIN contracts /\ OthersStay(c) /\ BatchesOf(c) = {} /\ side \in Sides
  /\ side \notin contracts[c].signatures
  /\ contracts'[c].signatures = contracts[c].signatures \cup {side}
  /\ contracts'[c].signatureHistory =
       Append(contracts[c].signatureHistory, [version |-> Version(c), side |-> side])
  /\ contracts'[c].versions = contracts[c].versions
  /\ contracts'[c].escrow = contracts[c].escrow

Funded(c) ==
  /\ c \in DOMAIN contracts /\ OthersStay(c)
  /\ \A x \in DOMAIN escrows : escrows[x].contract # c
  /\ contracts'[c].versions = contracts[c].versions
  /\ contracts'[c].signatures = contracts[c].signatures
  /\ contracts'[c].signatureHistory = contracts[c].signatureHistory
  /\ contracts'[c].status = "FUNDS_RESERVED"

\* A new contract starts at one version and no signature.
LEMMA CreateEffect ==
  ASSUME TypeOK, NEW c \in ContractIds, NEW r \in ReservationIds, NEW n \in Nonces,
         NEW t \in Times, NEW now \in Times, CreateContract(c, r, n, t, now)
  PROVE  Created(c, TermsFor(r, n, t))
  <1> DEFINE x == TermsFor(r, n, t)
             rec == [versions |-> <<x>>, status |-> "DRAFT", signatures |-> {},
                     signatureHistory |-> <<>>, escrow |-> None]
  <1>1. r \in DOMAIN reservations /\ c \notin DOMAIN contracts /\ contracts' = Put(contracts, c, rec)
    BY DEF CreateContract
  <1>2. x \in Terms
    BY <1>1, TermsForType
  <1>3. ~NonceUsed(x.buyer, x.nonce)
    BY DEF CreateContract, TermsAdmitted, TermsFor
  <1> HIDE DEF x
  <1>4. /\ rec.versions = <<x>> /\ rec.signatures = {} /\ rec.signatureHistory = <<>>
        /\ rec.escrow = None
    OBVIOUS
  <1> HIDE DEF rec
  <1>5. contracts'[c] = rec /\ OthersStay(c)
    BY <1>1 DEF Put, OthersStay
  <1>6. QED
    BY <1>1, <1>2, <1>3, <1>4, <1>5 DEF Created, x

\* A revision adds a version and drops the signatures.
LEMMA ReviseEffect ==
  ASSUME TypeOK, NEW c \in ContractIds, NEW r \in ReservationIds, NEW n \in Nonces,
         NEW t \in Times, NEW now \in Times, ReviseContract(c, r, n, t, now)
  PROVE  Revised(c, TermsFor(r, n, t))
  <1> DEFINE x == TermsFor(r, n, t)
             rec == NewVersion(contracts[c], x)
  <1>1. /\ r \in DOMAIN reservations /\ c \in DOMAIN contracts
        /\ BatchesOf(c) = {} /\ contracts[c].escrow = None
        /\ contracts' = [contracts EXCEPT ![c] = rec]
    BY DEF ReviseContract, Revisable, SameDeal
  <1>2. x \in Terms /\ contracts[c] \in ContractRecord
    BY <1>1, TermsForType DEF TypeOK, Collection
  <1>3. ~NonceUsed(x.buyer, x.nonce)
    BY DEF ReviseContract, TermsAdmitted, TermsFor
  <1> HIDE DEF x
  <1>4. /\ rec.versions = Append(contracts[c].versions, x) /\ rec.signatures = {}
        /\ rec.signatureHistory = contracts[c].signatureHistory /\ rec.escrow = None
    BY <1>1, <1>2 DEF NewVersion, ContractRecord
  <1> HIDE DEF rec
  <1>5. contracts'[c] = rec /\ OthersStay(c)
    BY <1>1 DEF OthersStay
  <1>6. QED
    BY <1>1, <1>2, <1>3, <1>4, <1>5 DEF Revised, x

\* A signature is for the current version.
LEMMA SignEffect ==
  ASSUME TypeOK, NEW c \in ContractIds, NEW v, NEW side \in Sides, NEW w, NEW now,
         SignContract(c, v, side, w, now)
  PROVE  Signed(c, side)
  <1> DEFINE signed == contracts[c].signatures \cup {side}
             rec == [contracts[c] EXCEPT !.signatures = signed,
                       !.signatureHistory = Append(@, [version |-> v, side |-> side]),
                       !.status = IF signed = Sides THEN "FUNDS_RESERVABLE"
                                                    ELSE "PARTIALLY_SIGNED"]
  <1>1. /\ c \in DOMAIN contracts /\ v = Version(c) /\ BatchesOf(c) = {}
        /\ side \notin contracts[c].signatures /\ contracts[c] \in ContractRecord
        /\ contracts' = [contracts EXCEPT ![c] = rec]
    BY DEF SignContract, TypeOK, Collection
  <1>2. /\ rec.versions = contracts[c].versions /\ rec.signatures = signed
        /\ rec.signatureHistory = Append(contracts[c].signatureHistory, [version |-> v, side |-> side])
        /\ rec.escrow = contracts[c].escrow
    BY <1>1 DEF ContractRecord
  <1> HIDE DEF rec
  <1>3. contracts'[c] = rec /\ OthersStay(c)
    BY <1>1 DEF OthersStay
  <1>4. QED
    BY <1>1, <1>2, <1>3 DEF Signed

\* A confirmed escrow funds the current version.
LEMMA EscrowEffect ==
  ASSUME TypeOK, NEW c \in ContractIds, NEW v, NEW e, NEW h, NEW receipt,
         RecordEscrowConfirmed(c, v, e, h, receipt)
  PROVE  Funded(c)
  <1> DEFINE rec == [contracts[c] EXCEPT !.escrow = e, !.status = "FUNDS_RESERVED"]
  <1>1. /\ c \in DOMAIN contracts /\ contracts[c] \in ContractRecord
        /\ \A x \in DOMAIN escrows : escrows[x].contract # c
        /\ contracts' = [contracts EXCEPT ![c] = rec]
    BY DEF RecordEscrowConfirmed, TypeOK, Collection
  <1>2. /\ rec.versions = contracts[c].versions /\ rec.signatures = contracts[c].signatures
        /\ rec.signatureHistory = contracts[c].signatureHistory /\ rec.status = "FUNDS_RESERVED"
    BY <1>1 DEF ContractRecord
  <1> HIDE DEF rec
  <1>3. contracts'[c] = rec /\ OthersStay(c)
    BY <1>1 DEF OthersStay
  <1>4. QED
    BY <1>1, <1>2, <1>3 DEF Funded

\* A delivery leaves the terms of every contract alone.
LEMMA DeliverEffect ==
  ASSUME TypeOK, NEW b, NEW c, NEW n, NEW p, DeliverBatch(b, c, n, p)
  PROVE  ContractsStay
  BY DEF DeliverBatch, ContractsStay, TypeOK, Collection, ContractRecord

\* Everything a command does to contracts.
LEMMA ContractsEffect ==
  ASSUME TypeOK, Next
  PROVE  \/ ContractsStay
         \/ \E c, x : Created(c, x) \/ Revised(c, x)
         \/ \E c, side : Signed(c, side)
         \/ \E c : Funded(c)
  <1>1. CASE UNCHANGED contracts
    BY <1>1 DEF ContractsStay
  <1>2. CASE Contracting
    <2>1. ASSUME NEW q, NEW input, AddQuote(q, input) PROVE UNCHANGED contracts
      BY <2>1 DEF AddQuote
    <2>2. ASSUME NEW r, NEW q, NEW task, NEW n, NEW buyer, NEW now,
                 Reserve(r, q, task, n, buyer, now)
          PROVE  UNCHANGED contracts
      BY <2>2 DEF Reserve
    <2>3. QED
      BY <1>1, <1>2, <2>1, <2>2, CreateEffect, ReviseEffect, SignEffect, EscrowEffect DEF Contracting
  <1>3. CASE Fulfilment
    <2>1. ASSUME NEW b, NEW outcome, NEW n, NEW p, AcceptBatch(b, outcome, n, p)
          PROVE  UNCHANGED contracts
      BY <2>1 DEF AcceptBatch
    <2>2. ASSUME NEW b, NEW n, NEW p, NEW a, ResolveDispute(b, n, p, a) PROVE UNCHANGED contracts
      BY <2>2 DEF ResolveDispute
    <2>3. ASSUME NEW b, NEW a, NEW p, AssignReviewer(b, a, p) PROVE UNCHANGED contracts
      BY <2>3 DEF AssignReviewer
    <2>4. QED
      BY <1>1, <1>3, <2>1, <2>2, <2>3, DeliverEffect DEF Fulfilment
  <1>4. CASE Settlement
    <2>1. ASSUME NEW b, DerivePayable(b) PROVE UNCHANGED contracts
      BY <2>1 DEF DerivePayable
    <2>2. ASSUME NEW b, NEW m, NEW p, MarkPaymentPending(b, m, p) PROVE UNCHANGED contracts
      BY <2>2 DEF MarkPaymentPending
    <2>3. ASSUME NEW m, NEW h, NEW receipt, ConfirmPayment(m, h, receipt) PROVE UNCHANGED contracts
      BY <2>3 DEF ConfirmPayment
    <2>4. QED
      BY <1>1, <1>4, <2>1, <2>2, <2>3 DEF Settlement
  <1>5. QED
    BY <1>2, <1>3, <1>4 DEF Next

-----------------------------------------------------------------------------
(* Signatures *)

\* The signatures of c, and that none in its history is of a later version.
SignedInOrder(c) ==
  /\ \A side \in Sides :
       side \in contracts[c].signatures <=>
         \E i \in DOMAIN contracts[c].signatureHistory :
           contracts[c].signatureHistory[i] = [version |-> Version(c), side |-> side]
  /\ \A i \in DOMAIN contracts[c].signatureHistory :
       contracts[c].signatureHistory[i].version <= Version(c)
AllSigned == \A c \in DOMAIN contracts : SignedInOrder(c)

\* The elements of a sequence.
LEMMA SeqElements == ASSUME NEW S, NEW s \in Seq(S) PROVE \A i \in DOMAIN s : s[i] \in S
  OBVIOUS

\* Untouched signatures stay in order.
LEMMA SignedStays ==
  ASSUME NEW c, SignedInOrder(c), contracts'[c].versions = contracts[c].versions,
         contracts'[c].signatures = contracts[c].signatures,
         contracts'[c].signatureHistory = contracts[c].signatureHistory
  PROVE  SignedInOrder(c)'
  BY DEF SignedInOrder, Version

\* Every command keeps signatures in order.
LEMMA SignedNext == TypeOK /\ AllSigned /\ [Next]_vars => AllSigned'
  <1> SUFFICES ASSUME TypeOK, AllSigned, [Next]_vars PROVE AllSigned'
    OBVIOUS
  <1> USE DEF AllSigned
  <1>1. CASE ContractsStay
    BY <1>1, SignedStays DEF ContractsStay
  <1>2. ASSUME NEW c, NEW x, Created(c, x) PROVE AllSigned'
    <2>1. SignedInOrder(c)'
      BY <1>2 DEF Created, SignedInOrder
    <2>2. QED
      BY <1>2, <2>1, SignedStays DEF Created, OthersStay
  <1>3. ASSUME NEW c, NEW x, Revised(c, x) PROVE AllSigned'
    <2>1. /\ contracts[c].versions \in Seq(Terms) /\ Version(c) \in Nat
          /\ contracts[c].signatureHistory \in Seq([version : Nat, side : Sides])
      BY <1>3, CurrentType DEF Revised, TypeOK, Collection, ContractRecord
    <2>2. Version(c)' = Version(c) + 1
      BY <1>3, <2>1 DEF Revised, Version
    <2>3. \A i \in DOMAIN contracts[c].signatureHistory :
            /\ contracts[c].signatureHistory[i].version \in Nat
            /\ contracts[c].signatureHistory[i].version <= Version(c)
      <3> DEFINE h == contracts[c].signatureHistory
      <3>1. h \in Seq([version : Nat, side : Sides])
        BY <2>1
      <3> HIDE DEF h
      <3>2. \A i \in DOMAIN h : h[i] \in [version : Nat, side : Sides]
        BY <3>1, SeqElements
      <3>3. \A i \in DOMAIN h : h[i].version <= Version(c)
        BY <1>3 DEF Revised, SignedInOrder, h
      <3>4. QED
        BY <3>2, <3>3 DEF h
    <2>4. SignedInOrder(c)'
      BY <1>3, <2>1, <2>2, <2>3 DEF Revised, SignedInOrder
    <2>5. QED
      BY <1>3, <2>4, SignedStays DEF Revised, OthersStay
  <1>4. ASSUME NEW c, NEW side, Signed(c, side) PROVE AllSigned'
    <2> DEFINE h == contracts[c].signatureHistory
               entry == [version |-> Version(c), side |-> side]
    <2>1. h \in Seq([version : Nat, side : Sides]) /\ Version(c) \in Nat /\ side \in Sides
      BY <1>4, CurrentType DEF Signed, TypeOK, Collection, ContractRecord
    <2>2. Version(c)' = Version(c)
      BY <1>4 DEF Signed, Version
    <2>3. entry.version = Version(c) /\ entry.side = side /\ entry \in [version : Nat, side : Sides]
      BY <2>1
    <2> HIDE DEF entry
    <2>4. /\ contracts'[c].signatureHistory = Append(h, entry)
          /\ DOMAIN Append(h, entry) = DOMAIN h \cup {Len(h) + 1}
          /\ Append(h, entry)[Len(h) + 1] = entry
          /\ \A i \in DOMAIN h : Append(h, entry)[i] = h[i]
      BY <1>4, <2>1, <2>3 DEF Signed, entry
    <2>5. ASSUME NEW other \in Sides
          PROVE  other \in contracts'[c].signatures <=>
                   \E i \in DOMAIN contracts'[c].signatureHistory :
                     contracts'[c].signatureHistory[i] = [version |-> Version(c), side |-> other]
      <3>1. other \in contracts[c].signatures <=>
              \E i \in DOMAIN h : h[i] = [version |-> Version(c), side |-> other]
        BY <1>4 DEF Signed, SignedInOrder
      <3>2. other \in contracts'[c].signatures <=> other \in contracts[c].signatures \/ other = side
        BY <1>4 DEF Signed
      <3>3. entry = [version |-> Version(c), side |-> other] <=> other = side
        BY DEF entry
      <3>4. QED
        BY <2>4, <3>1, <3>2, <3>3
    <2>6. \A i \in DOMAIN contracts'[c].signatureHistory :
            contracts'[c].signatureHistory[i].version <= Version(c)
      BY <1>4, <2>1, <2>3, <2>4 DEF Signed, SignedInOrder
    <2>7. SignedInOrder(c)'
      BY <2>2, <2>5, <2>6 DEF SignedInOrder
    <2>8. QED
      BY <1>4, <2>7, SignedStays DEF Signed, OthersStay
  <1>5. ASSUME NEW c, Funded(c) PROVE AllSigned'
    BY <1>5, SignedStays DEF Funded, OthersStay
  <1>6. CASE UNCHANGED vars
    BY <1>6, SignedStays DEF vars
  <1>7. QED
    BY <1>1, <1>2, <1>3, <1>4, <1>5, <1>6, ContractsEffect

\* Version n of c is x, the others were there before.
Extended(c, x, n) ==
  /\ OthersStay(c) /\ ~NonceUsed(x.buyer, x.nonce)
  /\ \A v \in DOMAIN contracts'[c].versions :
       \/ v = n /\ contracts'[c].versions[v] = x
       \/ /\ c \in DOMAIN contracts /\ v \in DOMAIN contracts[c].versions
          /\ contracts'[c].versions[v] = contracts[c].versions[v]

\* One nonce of a wallet, one version.
LEMMA NoncesNext == TypeOK /\ NoncesUsedOnce /\ [Next]_vars => NoncesUsedOnce'
  <1> SUFFICES ASSUME TypeOK, NoncesUsedOnce, [Next]_vars PROVE NoncesUsedOnce'
    OBVIOUS
  <1>1. CASE \A c \in DOMAIN contracts' :
               c \in DOMAIN contracts /\ contracts'[c].versions = contracts[c].versions
    BY <1>1 DEF NoncesUsedOnce
  <1>2. ASSUME NEW c, NEW x, NEW n, Extended(c, x, n) PROVE NoncesUsedOnce'
    <2>1. ASSUME NEW d \in DOMAIN contracts', NEW v \in DOMAIN contracts'[d].versions
          PROVE  \/ d = c /\ v = n /\ contracts'[d].versions[v] = x
                 \/ /\ d \in DOMAIN contracts /\ v \in DOMAIN contracts[d].versions
                    /\ contracts'[d].versions[v] = contracts[d].versions[v]
                    /\ ~(contracts[d].versions[v].buyer.wallet = x.buyer.wallet
                           /\ contracts[d].versions[v].nonce = x.nonce)
      BY <1>2 DEF Extended, OthersStay, NonceUsed
    <2>2. QED
      BY <2>1 DEF NoncesUsedOnce, SameNonce
  <1>3. ASSUME NEW c, NEW x, Created(c, x) PROVE NoncesUsedOnce'
    <2>1. Extended(c, x, 1)
      BY <1>3 DEF Created, Extended
    <2>2. QED
      BY <1>2, <2>1
  <1>4. ASSUME NEW c, NEW x, Revised(c, x) PROVE NoncesUsedOnce'
    <2>1. contracts[c].versions \in Seq(Terms) /\ x \in Terms
      BY <1>4 DEF Revised, TypeOK, Collection, ContractRecord
    <2>2. Extended(c, x, Len(contracts[c].versions) + 1)
      BY <1>4, <2>1, AppendLookup DEF Revised, Extended
    <2>3. QED
      BY <1>2, <2>2
  <1>5. ASSUME NEW c, NEW side, Signed(c, side) PROVE NoncesUsedOnce'
    BY <1>1, <1>5 DEF Signed, OthersStay
  <1>6. ASSUME NEW c, Funded(c) PROVE NoncesUsedOnce'
    BY <1>1, <1>6 DEF Funded, OthersStay
  <1>7. CASE ContractsStay \/ UNCHANGED vars
    BY <1>1, <1>7 DEF ContractsStay, vars
  <1>8. QED
    BY <1>3, <1>4, <1>5, <1>6, <1>7, ContractsEffect

\* A signature binds to one version of one contract (signContract,
\* reviseContract, assertNonceUnused), for any number of revisions.
THEOREM SignaturesAlwaysBind == Spec => []SignaturesBind
  <1>1. Init => AllSigned /\ NoncesUsedOnce
    BY DEF Init, AllSigned, NoncesUsedOnce
  <1>2. AllSigned /\ NoncesUsedOnce => SignaturesBind
    BY DEF AllSigned, SignedInOrder, SignaturesBind, SignaturesAreOfCurrentVersion
  <1>3. QED
    BY <1>1, <1>2, SignedNext, NoncesNext, TypeCorrect, PTL DEF Spec

-----------------------------------------------------------------------------
(* Terms behind a confirmed escrow *)

\* A contract names an escrow only when its money is there.
EscrowsFunded ==
  \A c \in DOMAIN contracts :
    contracts[c].escrow # None => contracts[c].status \in {"FUNDS_RESERVED", "IN_FULFILLMENT"}

\* Such a contract is neither signed nor funded again.
LEMMA FundedOnce ==
  ASSUME FulfilmentIsBacked, EscrowsFunded, NEW c \in DOMAIN contracts, contracts[c].escrow # None
  PROVE  ~Funded(c) /\ (\A side : ~Signed(c, side)) /\ \A x : ~Revised(c, x)
  <1>1. FulfilledContract(c) /\ contracts[c].signatures = Sides
    BY DEF EscrowsFunded, FulfilmentIsBacked
  <1>2. QED
    BY <1>1 DEF FulfilledContract, Funded, Signed, Revised

\* Every command keeps escrows on signed terms.
LEMMA FundedNext ==
  TypeOK /\ FulfilmentIsBacked /\ EscrowsFunded /\ [Next]_vars => EscrowsFunded'
  <1> SUFFICES ASSUME TypeOK, FulfilmentIsBacked, EscrowsFunded, [Next]_vars,
                      NEW d \in DOMAIN contracts', contracts'[d].escrow # None
               PROVE  contracts'[d].status \in {"FUNDS_RESERVED", "IN_FULFILLMENT"}
    BY DEF EscrowsFunded
  <1>1. CASE d \in DOMAIN contracts /\ contracts'[d].escrow = contracts[d].escrow
             /\ contracts'[d].status \in {contracts[d].status, "IN_FULFILLMENT"}
    BY <1>1 DEF EscrowsFunded
  <1>2. CASE ContractsStay \/ UNCHANGED vars
    BY <1>1, <1>2 DEF ContractsStay, vars
  <1>3. ASSUME NEW c, NEW x, Created(c, x) \/ Revised(c, x)
        PROVE  contracts'[d].status \in {"FUNDS_RESERVED", "IN_FULFILLMENT"}
    BY <1>1, <1>3 DEF Created, Revised, OthersStay
  <1>4. ASSUME NEW c, NEW side, Signed(c, side)
        PROVE  contracts'[d].status \in {"FUNDS_RESERVED", "IN_FULFILLMENT"}
    BY <1>1, <1>4, FundedOnce DEF Signed, OthersStay
  <1>5. ASSUME NEW c, Funded(c)
        PROVE  contracts'[d].status \in {"FUNDS_RESERVED", "IN_FULFILLMENT"}
    BY <1>1, <1>5 DEF Funded, OthersStay
  <1>6. QED
    BY <1>2, <1>3, <1>4, <1>5, ContractsEffect

\* Nothing both parties signed changes once the escrow is confirmed, and what
\* was signed before is kept.
THEOREM FundedTermsAlwaysFrozen == Spec => FundedTermsFrozen
  <1>1. Init => EscrowsFunded
    BY DEF Init, EscrowsFunded
  <1>2. TypeOK /\ FulfilmentIsBacked /\ EscrowsFunded /\ [Next]_vars
          => [\A c \in DOMAIN contracts : TermsKept(c)]_vars
    <2> SUFFICES ASSUME TypeOK, FulfilmentIsBacked, EscrowsFunded, Next, NEW c \in DOMAIN contracts
                 PROVE  TermsKept(c)
      OBVIOUS
    <2>1. /\ contracts[c].versions \in Seq(Terms)
          /\ contracts[c].signatureHistory \in Seq([version : Nat, side : Sides])
      BY DEF TypeOK, Collection, ContractRecord
    <2>2. CASE /\ contracts'[c].versions = contracts[c].versions
               /\ contracts'[c].signatures = contracts[c].signatures
               /\ contracts'[c].escrow = contracts[c].escrow
               /\ contracts'[c].status \in {contracts[c].status, "IN_FULFILLMENT"}
               /\ contracts'[c].signatureHistory = contracts[c].signatureHistory
      BY <2>1, <2>2 DEF TermsKept, IsPrefix, EscrowsFunded
    <2>3. CASE ContractsStay
      BY <2>2, <2>3 DEF ContractsStay
    <2>4. ASSUME NEW d, NEW x, Created(d, x) PROVE TermsKept(c)
      BY <2>2, <2>4 DEF Created, OthersStay
    <2>5. ASSUME NEW d, NEW x, Revised(d, x) PROVE TermsKept(c)
      <3>1. CASE d # c
        BY <2>2, <2>5, <3>1 DEF Revised, OthersStay
      <3>2. CASE d = c
        <4>1. IsPrefix(contracts[c].versions, contracts'[c].versions)
          BY <2>1, <2>5, <3>2 DEF Revised, IsPrefix
        <4>2. IsPrefix(contracts[c].signatureHistory, contracts'[c].signatureHistory)
          BY <2>1, <2>5, <3>2 DEF Revised, IsPrefix
        <4>3. QED
          BY <2>5, <3>2, <4>1, <4>2 DEF Revised, TermsKept
      <3>3. QED
        BY <3>1, <3>2
    <2>6. ASSUME NEW d, NEW side, Signed(d, side) PROVE TermsKept(c)
      <3>1. CASE d # c
        BY <2>2, <2>6, <3>1 DEF Signed, OthersStay
      <3>2. CASE d = c
        <4>1. contracts[c].escrow = None
          BY <2>6, <3>2, FundedOnce
        <4>2. IsPrefix(contracts[c].signatureHistory, contracts'[c].signatureHistory)
          <5> DEFINE entry == [version |-> Version(c), side |-> side]
          <5>1. entry \in [version : Nat, side : Sides]
            BY <2>6, CurrentType DEF Signed
          <5>2. contracts'[c].signatureHistory = Append(contracts[c].signatureHistory, entry)
            BY <2>6, <3>2 DEF Signed
          <5> HIDE DEF entry
          <5>3. QED
            BY <2>1, <5>1, <5>2 DEF IsPrefix
        <4>3. IsPrefix(contracts[c].versions, contracts'[c].versions)
          BY <2>1, <2>6, <3>2 DEF Signed, IsPrefix
        <4>4. QED
          BY <4>1, <4>2, <4>3 DEF TermsKept
      <3>3. QED
        BY <3>1, <3>2
    <2>7. ASSUME NEW d, Funded(d) PROVE TermsKept(c)
      <3>1. CASE d # c
        BY <2>2, <2>7, <3>1 DEF Funded, OthersStay
      <3>2. CASE d = c
        BY <2>1, <2>7, <3>2, FundedOnce DEF Funded, TermsKept, IsPrefix
      <3>3. QED
        BY <3>1, <3>2
    <2>8. QED
      BY <2>3, <2>4, <2>5, <2>6, <2>7, ContractsEffect
  <1>3. QED
    BY <1>1, <1>2, FundedNext, TypeCorrect, FulfilmentBacked, PTL DEF Spec, FundedTermsFrozen

-----------------------------------------------------------------------------
(* Finitely many entries *)

FinitelyMany ==
  /\ IsFiniteSet(DOMAIN reservations) /\ IsFiniteSet(DOMAIN batches)
  /\ IsFiniteSet(DOMAIN payables) /\ IsFiniteSet(DOMAIN payments)

\* A command adds at most one entry to a collection.
LEMMA PutFinite ==
  ASSUME NEW f, NEW k, NEW v, IsFiniteSet(DOMAIN f)
  PROVE  IsFiniteSet(DOMAIN Put(f, k, v))
  BY FS_AddElement DEF Put

\* Every command keeps the collections finite.
LEMMA FiniteNext == TypeOK /\ FinitelyMany /\ [Next]_vars => FinitelyMany'
  <1> SUFFICES ASSUME TypeOK, FinitelyMany, [Next]_vars PROVE FinitelyMany'
    OBVIOUS
  <1> USE DEF FinitelyMany
  <1>1. CASE UNCHANGED <<reservations, batches, payables, payments>>
    BY <1>1
  <1>2. CASE Contracting
    <2>0. UNCHANGED <<batches, payables, payments>>
      BY <1>2, ContractingFrame
    <2>1. ASSUME NEW r, NEW q, NEW task, NEW n, NEW buyer, NEW now,
                 Reserve(r, q, task, n, buyer, now)
          PROVE  IsFiniteSet(DOMAIN reservations')
      BY <2>1, PutFinite DEF Reserve
    <2>2. ASSUME NEW c, NEW r, NEW n, NEW t, NEW now,
                 CreateContract(c, r, n, t, now) \/ ReviseContract(c, r, n, t, now)
          PROVE  DOMAIN reservations' = DOMAIN reservations
      BY <2>2 DEF CreateContract, ReviseContract, TypeOK, Collection
    <2>3. ASSUME NEW q, NEW input, AddQuote(q, input) PROVE UNCHANGED reservations
      BY <2>3 DEF AddQuote
    <2>4. ASSUME NEW c, NEW v, NEW side, NEW w, NEW now, SignContract(c, v, side, w, now)
          PROVE  UNCHANGED reservations
      BY <2>4 DEF SignContract
    <2>5. ASSUME NEW c, NEW v, NEW e, NEW h, NEW receipt, RecordEscrowConfirmed(c, v, e, h, receipt)
          PROVE  UNCHANGED reservations
      BY <2>5 DEF RecordEscrowConfirmed
    <2>6. IsFiniteSet(DOMAIN reservations')
      BY <1>2, <2>1, <2>2, <2>3, <2>4, <2>5 DEF Contracting
    <2>7. QED
      BY <2>0, <2>6
  <1>3. CASE Fulfilment
    <2>1. UNCHANGED <<reservations, payables, payments>>
      <3>1. ASSUME NEW b, NEW c, NEW n, NEW p, DeliverBatch(b, c, n, p) PROVE UNCHANGED reservations
        BY <3>1 DEF DeliverBatch
      <3>2. ASSUME NEW b, NEW outcome, NEW n, NEW p, AcceptBatch(b, outcome, n, p)
            PROVE  UNCHANGED reservations
        BY <3>2 DEF AcceptBatch
      <3>3. ASSUME NEW b, NEW n, NEW p, NEW a, ResolveDispute(b, n, p, a) PROVE UNCHANGED reservations
        BY <3>3 DEF ResolveDispute
      <3>4. ASSUME NEW b, NEW a, NEW p, AssignReviewer(b, a, p) PROVE UNCHANGED reservations
        BY <3>4 DEF AssignReviewer
      <3>5. QED
        BY <1>3, <3>1, <3>2, <3>3, <3>4, FulfilmentFrame DEF Fulfilment
    <2>2. ASSUME NEW b, NEW c, NEW n, NEW p, DeliverBatch(b, c, n, p)
          PROVE  IsFiniteSet(DOMAIN batches')
      BY <2>2, PutFinite DEF DeliverBatch
    <2>3. ASSUME NEW b, NEW outcome, NEW n, NEW p, AcceptBatch(b, outcome, n, p)
          PROVE  DOMAIN batches' = DOMAIN batches
      BY <2>3 DEF AcceptBatch
    <2>4. ASSUME NEW b, NEW n, NEW p, NEW a, ResolveDispute(b, n, p, a)
          PROVE  DOMAIN batches' = DOMAIN batches
      BY <2>4 DEF ResolveDispute
    <2>5. ASSUME NEW b, NEW a, NEW p, AssignReviewer(b, a, p) PROVE DOMAIN batches' = DOMAIN batches
      BY <2>5 DEF AssignReviewer
    <2>6. IsFiniteSet(DOMAIN batches')
      BY <1>3, <2>2, <2>3, <2>4, <2>5 DEF Fulfilment
    <2>7. QED
      BY <2>1, <2>6
  <1>4. CASE Settlement
    <2>1. ASSUME NEW b, DerivePayable(b) PROVE FinitelyMany'
      BY <2>1, PutFinite DEF DerivePayable
    <2>2. ASSUME NEW b, NEW m, NEW p, MarkPaymentPending(b, m, p) PROVE FinitelyMany'
      BY <2>2, PutFinite DEF MarkPaymentPending
    <2>3. ASSUME NEW m, NEW h, NEW receipt, ConfirmPayment(m, h, receipt) PROVE FinitelyMany'
      BY <2>3 DEF ConfirmPayment
    <2>4. QED
      BY <1>4, <2>1, <2>2, <2>3 DEF Settlement
  <1>5. CASE UNCHANGED vars
    BY <1>1, <1>5 DEF vars
  <1>6. QED
    BY <1>2, <1>3, <1>4, <1>5 DEF Next

-----------------------------------------------------------------------------
(* Stock *)

\* What a reservation holds of quote q.
HoldOf(q, r) ==
  IF r \in DOMAIN reservations /\ reservations[r].quote = q /\ reservations[r].status # "RELEASED"
  THEN reservations[r].quantity ELSE 0

\* What the live reservations hold of a quote adds up.
LEMMA PledgedSummable ==
  ASSUME TypeOK, FinitelyMany, NEW q
  PROVE  Summable(Pledged(q)) /\ \A r : Entry(Pledged(q), r) = HoldOf(q, r) /\ HoldOf(q, r) \in Nat
  <1>1. IsFiniteSet(Live(q))
    BY FS_Subset DEF Live, FinitelyMany
  <1>2. \A r \in DOMAIN reservations : reservations[r].quantity \in Nat
    BY NumbersAssumption DEF TypeOK, Collection, ReservationRecord
  <1>3. Pledged(q) \in [Live(q) -> Nat] /\ DOMAIN Pledged(q) = Live(q)
    BY <1>2 DEF Pledged, Live
  <1>4. Summable(Pledged(q))
    BY <1>1, <1>3, TotalNat
  <1>5. QED
    BY <1>2, <1>4 DEF Entry, HoldOf, Pledged, Live

\* Only reservation k changes what it holds.
HoldsStay(k) ==
  /\ DOMAIN reservations \subseteq DOMAIN reservations'
  /\ \A r \in DOMAIN reservations' : r # k =>
       /\ r \in DOMAIN reservations
       /\ reservations'[r].quote = reservations[r].quote
       /\ reservations'[r].quantity = reservations[r].quantity
       /\ reservations'[r].status # "RELEASED" <=> reservations[r].status # "RELEASED"

\* When one reservation changes, the pledged total changes by what it holds.
LEMMA PledgedChange ==
  ASSUME TypeOK, TypeOK', FinitelyMany, FinitelyMany', NEW k, HoldsStay(k), NEW q
  PROVE  /\ Total(Pledged(q))' = Total(Pledged(q)) - HoldOf(q, k) + HoldOf(q, k)'
         /\ Total(Pledged(q)) \in Int /\ HoldOf(q, k) \in Nat /\ HoldOf(q, k)' \in Nat
  <1>1. Summable(Pledged(q)) /\ Entry(Pledged(q), k) = HoldOf(q, k) /\ HoldOf(q, k) \in Nat
    BY PledgedSummable
  <1>2. (Summable(Pledged(q)) /\ \A r : Entry(Pledged(q), r) = HoldOf(q, r) /\ HoldOf(q, r) \in Nat)'
    BY PledgedSummable, PTL
  <1>3. Summable(Pledged(q)') /\ Entry(Pledged(q)', k) = HoldOf(q, k)' /\ HoldOf(q, k)' \in Nat
    BY <1>2 DEF Summable, Entry
  <1>4. /\ DOMAIN Pledged(q) \ {k} = DOMAIN Pledged(q)' \ {k}
        /\ \A r \in DOMAIN Pledged(q) \ {k} : Pledged(q)'[r] = Pledged(q)[r]
    BY DEF HoldsStay, Pledged, Live
  <1> DEFINE f == Pledged(q)
             g == Pledged(q)'
             g1 == Total(Pledged(q)')
  <1>5. Total(g) = Total(f) - Entry(f, k) + Entry(g, k) /\ Total(f) \in Int
    <2> HIDE DEF f, g
    <2>1. QED
      BY <1>1, <1>3, <1>4, TotalChange DEF f, g
  <1>6. Total(Pledged(q))' = g1
    OBVIOUS
  <1>7. QED
    BY <1>1, <1>3, <1>5, <1>6

\* The equation of one quote, and the two directions of the backing.
InStock(q) == quotes[q].available + Total(Pledged(q)) = quotes[q].offered
Backed(c) ==
  /\ Current(c).reservation \in DOMAIN reservations
  /\ reservations[Current(c).reservation].status = "BOUND"
  /\ reservations[Current(c).reservation].contract = c
Backing(r) ==
  reservations[r].status = "BOUND" =>
    /\ reservations[r].contract \in DOMAIN contracts
    /\ Current(reservations[r].contract).reservation = r

\* The stock invariant by quote, contract and reservation.
LEMMA StockParts ==
  StockIsBacked <=> /\ \A q \in DOMAIN quotes : InStock(q)
                    /\ \A c \in DOMAIN contracts : Backed(c)
                    /\ \A r \in DOMAIN reservations : Backing(r)
  BY DEF StockIsBacked, StockConserved, ReservationsBackOneContract, InStock, Backed, Backing

\* Only reservation k changes what it holds, and its quote makes up for it.
StockMoves(k) ==
  /\ HoldsStay(k) /\ DOMAIN quotes' = DOMAIN quotes
  /\ \A q \in DOMAIN quotes :
       /\ quotes'[q].offered = quotes[q].offered
       /\ quotes'[q].available = quotes[q].available + HoldOf(q, k) - HoldOf(q, k)'

\* A command about one reservation keeps every quote within its stock.
LEMMA StockKept ==
  ASSUME TypeOK, TypeOK', FinitelyMany, FinitelyMany', NEW k, StockMoves(k),
         \A q \in DOMAIN quotes : InStock(q)
  PROVE  \A q \in DOMAIN quotes' : InStock(q)'
  <1> SUFFICES ASSUME NEW q \in DOMAIN quotes PROVE InStock(q)'
    BY DEF StockMoves
  <1>1. /\ Total(Pledged(q))' = Total(Pledged(q)) - HoldOf(q, k) + HoldOf(q, k)'
        /\ Total(Pledged(q)) \in Int /\ HoldOf(q, k) \in Nat /\ HoldOf(q, k)' \in Nat
    BY PledgedChange DEF StockMoves
  <1>2. quotes[q].available \in Nat
    BY DEF TypeOK, Collection, QuoteRecord
  <1> DEFINE t == Total(Pledged(q))
             t2 == Total(Pledged(q)')
             h == HoldOf(q, k)
             h2 == HoldOf(q, k)'
  <1>3. /\ quotes'[q].available = quotes[q].available + h - h2
        /\ quotes'[q].offered = quotes[q].offered /\ quotes[q].available + t = quotes[q].offered
    BY DEF StockMoves, InStock
  <1>4. Total(Pledged(q))' = t2
    OBVIOUS
  <1>5. t2 = t - h + h2 /\ t \in Int /\ h \in Nat /\ h2 \in Nat
    BY <1>1, <1>4
  <1> HIDE DEF t, t2, h, h2
  <1>6. quotes'[q].available + t2 = quotes'[q].offered
    BY <1>2, <1>3, <1>5
  <1>7. QED
    BY <1>4, <1>6 DEF InStock, t2

\* Contract c moves to reservation r, which was free or backed c already.
Binds(c, r) ==
  /\ OthersStay(c) /\ r \in DOMAIN reservations /\ DOMAIN reservations' = DOMAIN reservations
  /\ contracts'[c].versions[Len(contracts'[c].versions)].reservation = r
  /\ \/ reservations[r].status = "RESERVED"
     \/ c \in DOMAIN contracts /\ r = Current(c).reservation
  /\ reservations'[r].status = "BOUND" /\ reservations'[r].contract = c
  /\ \A s \in DOMAIN reservations : s # r =>
       IF c \in DOMAIN contracts /\ s = Current(c).reservation
       THEN reservations'[s].status = "RELEASED"
       ELSE reservations'[s] = reservations[s]

\* Binding a contract to a reservation backs both.
LEMMA BindsBack ==
  ASSUME NEW c, NEW r, Binds(c, r), \A d \in DOMAIN contracts : Backed(d),
         \A s \in DOMAIN reservations : Backing(s)
  PROVE  /\ \A d \in DOMAIN contracts' : Backed(d)'
         /\ \A s \in DOMAIN reservations' : Backing(s)'
  <1>1. Current(c)'.reservation = r
    BY DEF Binds, Current, Version
  <1>2. \A d \in DOMAIN contracts : d # c => Current(d)' = Current(d)
    BY DEF Binds, OthersStay, Current, Version
  <1>3. DOMAIN contracts' = DOMAIN contracts \cup {c}
    BY DEF Binds, OthersStay
  <1>4. Backed(c)'
    BY <1>1 DEF Binds, Backed
  <1>5. ASSUME NEW d \in DOMAIN contracts, d # c PROVE Backed(d)'
    <2> DEFINE s == Current(d).reservation
    <2>1. /\ s \in DOMAIN reservations /\ reservations[s].status = "BOUND"
          /\ reservations[s].contract = d
      BY <1>5 DEF Backed
    <2>2. s # r /\ ~(c \in DOMAIN contracts /\ s = Current(c).reservation)
      BY <1>5, <2>1 DEF Binds, Backed
    <2>3. s \in DOMAIN reservations' /\ reservations'[s] = reservations[s]
      BY <2>1, <2>2 DEF Binds
    <2>4. Current(d)'.reservation = s
      BY <1>2, <1>5
    <2> HIDE DEF s
    <2>5. QED
      BY <2>1, <2>3, <2>4 DEF Backed
  <1>6. ASSUME NEW s \in DOMAIN reservations', reservations'[s].status = "BOUND"
        PROVE  \E d \in DOMAIN contracts' :
                 d = reservations'[s].contract /\ Current(d)'.reservation = s
    <2>1. CASE s = r
      BY <1>1, <1>3, <2>1 DEF Binds
    <2>2. CASE s # r
      <3>1. /\ reservations'[s] = reservations[s]
            /\ ~(c \in DOMAIN contracts /\ s = Current(c).reservation)
        BY <1>6, <2>2 DEF Binds
      <3>2. /\ reservations[s].contract \in DOMAIN contracts
            /\ Current(reservations[s].contract).reservation = s
        BY <1>6, <3>1 DEF Binds, Backing
      <3>3. QED
        BY <1>2, <1>3, <3>1, <3>2
    <2>3. QED
      BY <2>1, <2>2
  <1>7. \A s \in DOMAIN reservations' : Backing(s)'
    BY <1>6 DEF Backing, Current, Version
  <1>8. QED
    BY <1>3, <1>4, <1>5, <1>7

\* Handlers that bind no reservation keep the backing as it is.
NothingBound ==
  /\ DOMAIN contracts' = DOMAIN contracts
  /\ \A c \in DOMAIN contracts : contracts'[c].versions = contracts[c].versions
  /\ DOMAIN reservations \subseteq DOMAIN reservations'
  /\ \A s \in DOMAIN reservations' :
       IF s \in DOMAIN reservations THEN reservations'[s] = reservations[s]
                                    ELSE reservations'[s].status = "RESERVED"

\* Where nothing is bound, everything stays backed.
LEMMA BackingStays ==
  ASSUME NothingBound, \A c \in DOMAIN contracts : Backed(c),
         \A s \in DOMAIN reservations : Backing(s)
  PROVE  /\ \A c \in DOMAIN contracts' : Backed(c)'
         /\ \A s \in DOMAIN reservations' : Backing(s)'
  <1>1. \A c \in DOMAIN contracts : Current(c)' = Current(c)
    BY DEF NothingBound, Current, Version
  <1>2. ASSUME NEW c \in DOMAIN contracts PROVE Backed(c)'
    <2> DEFINE s == Current(c).reservation
    <2>1. /\ s \in DOMAIN reservations /\ reservations[s].status = "BOUND"
          /\ reservations[s].contract = c
      BY DEF Backed
    <2>2. Current(c)'.reservation = s
      BY <1>1
    <2>3. s \in DOMAIN reservations' /\ reservations'[s] = reservations[s]
      BY <2>1 DEF NothingBound
    <2> HIDE DEF s
    <2>4. QED
      BY <2>1, <2>2, <2>3 DEF Backed
  <1>3. ASSUME NEW s \in DOMAIN reservations', reservations'[s].status = "BOUND"
        PROVE  \E d \in DOMAIN contracts' :
                 d = reservations'[s].contract /\ Current(d)'.reservation = s
    <2>1. s \in DOMAIN reservations /\ reservations'[s] = reservations[s]
      BY <1>3 DEF NothingBound
    <2>2. /\ reservations[s].contract \in DOMAIN contracts
          /\ Current(reservations[s].contract).reservation = s
      BY <1>3, <2>1 DEF Backing
    <2>3. QED
      BY <1>1, <2>1, <2>2 DEF NothingBound
  <1>4. \A s \in DOMAIN reservations' : Backing(s)'
    BY <1>3 DEF Backing, Current, Version
  <1>5. QED
    BY <1>2, <1>4 DEF NothingBound

\* addQuote opens a quote with all of its stock.
LEMMA AddQuoteStock ==
  ASSUME TypeOK, TypeOK', FinitelyMany, FinitelyMany', NEW q, NEW input, AddQuote(q, input),
         \A x \in DOMAIN quotes : InStock(x)
  PROVE  NothingBound /\ \A x \in DOMAIN quotes' : InStock(x)'
  <1>1. /\ UNCHANGED <<reservations, contracts>> /\ q \notin DOMAIN quotes
        /\ DOMAIN quotes' = DOMAIN quotes \cup {q}
        /\ quotes'[q].available = quotes'[q].offered
        /\ \A x \in DOMAIN quotes : quotes'[x] = quotes[x]
    BY DEF AddQuote, Put
  <1>2. ASSUME NEW x PROVE Total(Pledged(x))' = Total(Pledged(x))
    <2>1. Pledged(x)' = Pledged(x)
      BY <1>1 DEF Pledged, Live
    <2>2. QED
      BY <2>1
  <1>3. Total(Pledged(q)) = 0
    <2>1. DOMAIN Pledged(q) = {}
      BY <1>1 DEF Pledged, Live, TypeOK, NoDanglingIds
    <2>2. QED
      BY <2>1, TotalEmpty
  <1>4. InStock(q)'
    <2>1. quotes'[q].offered \in Nat
      BY <1>1 DEF TypeOK, Collection, QuoteRecord
    <2>2. Total(Pledged(q))' = 0
      BY <1>2, <1>3
    <2>3. QED
      BY <1>1, <2>1, <2>2 DEF InStock
  <1>5. ASSUME NEW x \in DOMAIN quotes PROVE InStock(x)'
    BY <1>1, <1>2 DEF InStock
  <1>6. QED
    BY <1>1, <1>4, <1>5 DEF NothingBound

\* reserve takes from the quote what the new reservation holds.
LEMMA ReserveStock ==
  ASSUME TypeOK, NEW r, NEW q, NEW task, NEW n \in Quantities, NEW buyer, NEW now,
         Reserve(r, q, task, n, buyer, now)
  PROVE  NothingBound /\ StockMoves(r)
  <1> DEFINE rec == [quote |-> q, task |-> task, quantity |-> n, buyer |-> buyer,
                     status |-> "RESERVED", contract |-> None]
  <1>1. /\ r \notin DOMAIN reservations /\ q \in DOMAIN quotes /\ UNCHANGED contracts
        /\ quotes' = [quotes EXCEPT ![q].available = @ - n]
        /\ reservations' = Put(reservations, r, rec)
    BY DEF Reserve
  <1>2. rec.quote = q /\ rec.quantity = n /\ rec.status = "RESERVED" /\ n \in Nat
    BY NumbersAssumption
  <1> HIDE DEF rec
  <1>3. /\ DOMAIN reservations' = DOMAIN reservations \cup {r} /\ reservations'[r] = rec
        /\ \A s \in DOMAIN reservations : reservations'[s] = reservations[s]
    BY <1>1 DEF Put
  <1>4. \A x \in DOMAIN quotes :
          /\ quotes[x].available \in Nat
          /\ quotes'[x].offered = quotes[x].offered
          /\ quotes'[x].available = quotes[x].available - (IF x = q THEN n ELSE 0)
    BY <1>1, <1>2 DEF TypeOK, Collection, QuoteRecord
  <1>5. \A x : HoldOf(x, r) = 0 /\ HoldOf(x, r)' = IF x = q THEN n ELSE 0
    BY <1>1, <1>2, <1>3 DEF HoldOf
  <1>6. DOMAIN quotes' = DOMAIN quotes
    BY <1>1
  <1>7. HoldsStay(r)
    BY <1>3 DEF HoldsStay
  <1>8. StockMoves(r)
    BY <1>2, <1>4, <1>5, <1>6, <1>7 DEF StockMoves
  <1>9. QED
    BY <1>1, <1>2, <1>3, <1>8 DEF NothingBound

\* createContract binds a reservation that goes on holding its quantity.
LEMMA CreateStock ==
  ASSUME TypeOK, NEW c \in ContractIds, NEW r \in ReservationIds, NEW n \in Nonces,
         NEW t \in Times, NEW now \in Times, CreateContract(c, r, n, t, now)
  PROVE  Binds(c, r) /\ StockMoves(r)
  <1>1. /\ c \notin DOMAIN contracts /\ r \in DOMAIN reservations
        /\ reservations[r].status = "RESERVED" /\ UNCHANGED quotes
        /\ reservations' = [reservations EXCEPT ![r].status = "BOUND", ![r].contract = c]
        /\ reservations[r] \in ReservationRecord
    BY DEF CreateContract, TypeOK, Collection
  <1>2. /\ DOMAIN reservations' = DOMAIN reservations
        /\ reservations'[r].status = "BOUND" /\ reservations'[r].contract = c
        /\ reservations'[r].quote = reservations[r].quote
        /\ reservations'[r].quantity = reservations[r].quantity
        /\ \A s \in DOMAIN reservations : s # r => reservations'[s] = reservations[s]
    BY <1>1 DEF ReservationRecord
  <1>3. OthersStay(c) /\ contracts'[c].versions = <<TermsFor(r, n, t)>>
    BY CreateEffect DEF Created
  <1>4. Binds(c, r)
    BY <1>1, <1>2, <1>3 DEF Binds, TermsFor
  <1>5. \A x : HoldOf(x, r)' = HoldOf(x, r) /\ HoldOf(x, r) \in Nat
    BY <1>1, <1>2, NumbersAssumption DEF HoldOf, ReservationRecord
  <1>6. \A x \in DOMAIN quotes : quotes[x].available \in Nat
    BY DEF TypeOK, Collection, QuoteRecord
  <1>7. HoldsStay(r)
    BY <1>2 DEF HoldsStay
  <1>8. StockMoves(r)
    BY <1>1, <1>5, <1>6, <1>7 DEF StockMoves
  <1>9. QED
    BY <1>4, <1>8

\* reviseContract stays with its reservation, or gives its quantity back to
\* the quote and binds a free one.
LEMMA ReviseStock ==
  ASSUME TypeOK, NEW c \in ContractIds, NEW r \in ReservationIds, NEW n \in Nonces,
         NEW t \in Times, NEW now \in Times, ReviseContract(c, r, n, t, now), Backed(c),
         NEW old, old = Current(c).reservation
  PROVE  Binds(c, r) /\ StockMoves(old)
  <1>1. /\ c \in DOMAIN contracts /\ r \in DOMAIN reservations
        /\ r = old \/ reservations[r].status = "RESERVED"
        /\ reservations[r] \in ReservationRecord
    BY DEF ReviseContract, Revisable, FreeFor, TypeOK, Collection
  <1>2. /\ old \in DOMAIN reservations /\ reservations[old] \in ReservationRecord
        /\ reservations[old].status = "BOUND" /\ reservations[old].contract = c
        /\ reservations[old].quote \in DOMAIN quotes
    BY DEF Backed, TypeOK, Collection, NoDanglingIds
  <1>3. OthersStay(c) /\ contracts'[c].versions = Append(contracts[c].versions, TermsFor(r, n, t))
    BY ReviseEffect DEF Revised
  <1>4. contracts'[c].versions[Len(contracts'[c].versions)].reservation = r
    <2> DEFINE x == TermsFor(r, n, t)
    <2>1. contracts[c].versions \in Seq(Terms) /\ x \in Terms /\ x.reservation = r
      BY <1>1, TermsForType DEF TypeOK, Collection, ContractRecord, TermsFor
    <2> HIDE DEF x
    <2>2. contracts'[c].versions = Append(contracts[c].versions, x)
      BY <1>3 DEF x
    <2>3. QED
      BY <2>1, <2>2, AppendLookup
  <1>5. \A x \in DOMAIN quotes : quotes[x].available \in Nat
    BY DEF TypeOK, Collection, QuoteRecord
  <1>6. \A x : HoldOf(x, old) \in Nat
    BY <1>2, NumbersAssumption DEF HoldOf, ReservationRecord
  <1>7. CASE r = old
    <2>1. UNCHANGED <<quotes, reservations>>
      BY <1>7 DEF ReviseContract
    <2>2. Binds(c, r)
      BY <1>1, <1>2, <1>3, <1>4, <1>7, <2>1 DEF Binds
    <2>3. HoldsStay(old) /\ \A x : HoldOf(x, old)' = HoldOf(x, old)
      BY <2>1 DEF HoldsStay, HoldOf
    <2>4. StockMoves(old)
      BY <1>5, <1>6, <2>1, <2>3 DEF StockMoves
    <2>5. QED
      BY <2>2, <2>4
  <1>8. CASE r # old
    <2> DEFINE qq == reservations[old].quote
               nn == reservations[old].quantity
    <2>1. /\ quotes' = [quotes EXCEPT ![qq].available = @ + nn]
          /\ reservations' = [reservations EXCEPT ![old].status = "RELEASED",
                                                  ![r].status = "BOUND", ![r].contract = c]
      BY <1>8 DEF ReviseContract, Restocked
    <2>2. /\ DOMAIN reservations' = DOMAIN reservations
          /\ reservations'[r].status = "BOUND" /\ reservations'[r].contract = c
          /\ reservations'[r].quote = reservations[r].quote
          /\ reservations'[r].quantity = reservations[r].quantity
          /\ reservations'[old].status = "RELEASED"
          /\ \A s \in DOMAIN reservations \ {r, old} : reservations'[s] = reservations[s]
      BY <1>1, <1>2, <1>8, <2>1 DEF ReservationRecord
    <2>3. Binds(c, r)
      BY <1>1, <1>3, <1>4, <1>8, <2>2 DEF Binds
    <2>4. reservations[r].status # "RELEASED"
      BY <1>1, <1>8
    <2>5. HoldsStay(old)
      BY <2>2, <2>4 DEF HoldsStay
    <2>6. \A x : HoldOf(x, old) = (IF x = qq THEN nn ELSE 0) /\ HoldOf(x, old)' = 0
      BY <1>2, <2>2 DEF HoldOf
    <2>7. nn \in Nat
      BY <1>2, NumbersAssumption DEF ReservationRecord
    <2> HIDE DEF qq, nn
    <2>8. \A x \in DOMAIN quotes :
            /\ quotes'[x].offered = quotes[x].offered
            /\ quotes'[x].available = quotes[x].available + (IF x = qq THEN nn ELSE 0)
      BY <1>5, <2>1, <2>7 DEF TypeOK, Collection, QuoteRecord
    <2>9. DOMAIN quotes' = DOMAIN quotes
      BY <2>1
    <2>10. StockMoves(old)
      BY <1>5, <2>5, <2>6, <2>7, <2>8, <2>9 DEF StockMoves
    <2>11. QED
      BY <2>3, <2>10
  <1>9. QED
    BY <1>7, <1>8

\* The other handlers leave quotes and reservations alone, and the versions.
StockUntouched ==
  /\ UNCHANGED <<quotes, reservations>> /\ DOMAIN contracts' = DOMAIN contracts
  /\ \A c \in DOMAIN contracts : contracts'[c].versions = contracts[c].versions

\* Everything a command does to stock.
LEMMA StockEffect ==
  ASSUME TypeOK, \A c \in DOMAIN contracts : Backed(c), Next
  PROVE  \/ \E q \in QuoteIds, input \in QuoteInputs : AddQuote(q, input)
         \/ NothingBound /\ \E r : StockMoves(r)
         \/ \E c, r, k : Binds(c, r) /\ StockMoves(k)
         \/ StockUntouched
  <1>1. CASE Contracting
    <2>1. ASSUME NEW r, NEW q, NEW task, NEW n \in Quantities, NEW buyer, NEW now,
                 Reserve(r, q, task, n, buyer, now)
          PROVE  NothingBound /\ \E k : StockMoves(k)
      BY <2>1, ReserveStock
    <2>2. ASSUME NEW c \in ContractIds, NEW r \in ReservationIds, NEW n \in Nonces,
                 NEW t \in Times, NEW now \in Times,
                 CreateContract(c, r, n, t, now) \/ ReviseContract(c, r, n, t, now)
          PROVE  \E k : Binds(c, r) /\ StockMoves(k)
      <3>1. CASE CreateContract(c, r, n, t, now)
        BY <3>1, CreateStock
      <3>2. CASE ReviseContract(c, r, n, t, now)
        <4>1. PICK old : old = Current(c).reservation
          OBVIOUS
        <4>2. Backed(c)
          BY <3>2 DEF ReviseContract
        <4>3. QED
          BY <3>2, <4>1, <4>2, ReviseStock
      <3>3. QED
        BY <2>2, <3>1, <3>2
    <2>3. ASSUME NEW c \in ContractIds, NEW v, NEW side \in Sides, NEW w, NEW now,
                 SignContract(c, v, side, w, now)
          PROVE  StockUntouched
      <3>1. Signed(c, side)
        BY <2>3, SignEffect
      <3>2. UNCHANGED <<quotes, reservations>>
        BY <2>3 DEF SignContract
      <3>3. QED
        BY <3>1, <3>2 DEF Signed, OthersStay, StockUntouched
    <2>4. ASSUME NEW c \in ContractIds, NEW v, NEW e, NEW h, NEW receipt,
                 RecordEscrowConfirmed(c, v, e, h, receipt)
          PROVE  StockUntouched
      <3>1. Funded(c)
        BY <2>4, EscrowEffect
      <3>2. UNCHANGED <<quotes, reservations>>
        BY <2>4 DEF RecordEscrowConfirmed
      <3>3. QED
        BY <3>1, <3>2 DEF Funded, OthersStay, StockUntouched
    <2>5. QED
      BY <1>1, <2>1, <2>2, <2>3, <2>4 DEF Contracting
  <1>2. CASE Fulfilment
    <2>1. ASSUME NEW b, NEW c, NEW n, NEW p, DeliverBatch(b, c, n, p) PROVE StockUntouched
      <3>1. ContractsStay
        BY <2>1, DeliverEffect
      <3>2. UNCHANGED <<quotes, reservations>>
        BY <2>1 DEF DeliverBatch
      <3>3. QED
        BY <3>1, <3>2 DEF ContractsStay, StockUntouched
    <2>2. ASSUME NEW b, NEW outcome, NEW n, NEW p, AcceptBatch(b, outcome, n, p)
          PROVE  StockUntouched
      BY <2>2 DEF AcceptBatch, StockUntouched
    <2>3. ASSUME NEW b, NEW n, NEW p, NEW a, ResolveDispute(b, n, p, a) PROVE StockUntouched
      BY <2>3 DEF ResolveDispute, StockUntouched
    <2>4. ASSUME NEW b, NEW a, NEW p, AssignReviewer(b, a, p) PROVE StockUntouched
      BY <2>4 DEF AssignReviewer, StockUntouched
    <2>5. QED
      BY <1>2, <2>1, <2>2, <2>3, <2>4 DEF Fulfilment
  <1>3. CASE Settlement
    <2>1. ASSUME NEW b, DerivePayable(b) PROVE StockUntouched
      BY <2>1 DEF DerivePayable, StockUntouched
    <2>2. ASSUME NEW b, NEW m, NEW p, MarkPaymentPending(b, m, p) PROVE StockUntouched
      BY <2>2 DEF MarkPaymentPending, StockUntouched
    <2>3. ASSUME NEW m, NEW h, NEW receipt, ConfirmPayment(m, h, receipt) PROVE StockUntouched
      BY <2>3 DEF ConfirmPayment, StockUntouched
    <2>4. QED
      BY <1>3, <2>1, <2>2, <2>3 DEF Settlement
  <1>4. QED
    BY <1>1, <1>2, <1>3 DEF Next

\* Every command keeps stock backed.
LEMMA StockNext == TypeOK /\ FinitelyMany /\ StockIsBacked /\ [Next]_vars => StockIsBacked'
  <1> SUFFICES ASSUME TypeOK, FinitelyMany, StockIsBacked, [Next]_vars PROVE StockIsBacked'
    OBVIOUS
  <1>0. TypeOK' /\ FinitelyMany'
    BY NextType, FiniteNext
  <1>1. /\ \A q \in DOMAIN quotes : InStock(q)
        /\ \A c \in DOMAIN contracts : Backed(c)
        /\ \A r \in DOMAIN reservations : Backing(r)
    BY StockParts
  <1>2. ASSUME /\ \A q \in DOMAIN quotes' : InStock(q)'
               /\ \A c \in DOMAIN contracts' : Backed(c)'
               /\ \A r \in DOMAIN reservations' : Backing(r)'
        PROVE  StockIsBacked'
    BY <1>2 DEF StockIsBacked, StockConserved, ReservationsBackOneContract, InStock, Backed, Backing
  <1>3. ASSUME NEW q, NEW input, AddQuote(q, input) PROVE StockIsBacked'
    BY <1>0, <1>1, <1>2, <1>3, AddQuoteStock, BackingStays
  <1>4. ASSUME NothingBound, NEW r, StockMoves(r) PROVE StockIsBacked'
    BY <1>0, <1>1, <1>2, <1>4, StockKept, BackingStays
  <1>5. ASSUME NEW c, NEW r, NEW k, Binds(c, r), StockMoves(k) PROVE StockIsBacked'
    BY <1>0, <1>1, <1>2, <1>5, StockKept, BindsBack
  <1>6. CASE StockUntouched \/ UNCHANGED vars
    <2>1. UNCHANGED <<quotes, reservations>> /\ NothingBound
      BY <1>6 DEF StockUntouched, NothingBound, vars
    <2>2. \A q \in DOMAIN quotes' : InStock(q)'
      BY <1>1, <2>1 DEF InStock, Pledged, Live
    <2>3. QED
      BY <1>1, <1>2, <2>1, <2>2, BackingStays
  <1>7. QED
    BY <1>1, <1>3, <1>4, <1>5, <1>6, StockEffect

\* What a quote promised exists, and once (addQuote, reserve, createContract
\* and the restocking of reviseContract), for any number of reservations.
THEOREM StockAlwaysBacked == Spec => []StockIsBacked
  <1>1. Init => StockIsBacked /\ FinitelyMany
    BY FS_EmptySet DEF Init, FinitelyMany, StockIsBacked, StockConserved, ReservationsBackOneContract
  <1>2. QED
    BY <1>1, StockNext, FiniteNext, TypeCorrect, PTL DEF Spec

-----------------------------------------------------------------------------
(* What a command does to goods and money *)

\* Batches under assessment change; what they delivered to whom stays.
GoodsStay ==
  /\ UNCHANGED <<payables, payments>> /\ DOMAIN batches' = DOMAIN batches
  /\ \A b \in DOMAIN batches :
       /\ batches'[b].contract = batches[b].contract
       /\ batches'[b].delivered = batches[b].delivered
       /\ batches'[b] = batches[b] \/ batches[b].status \in {"DELIVERED", "DISPUTED"}

\* A new batch b that the order still has room for.
Delivers(b) ==
  /\ UNCHANGED <<payables, payments>> /\ b \notin DOMAIN batches
  /\ DOMAIN batches' = DOMAIN batches \cup {b}
  /\ \A x \in DOMAIN batches : batches'[x] = batches[x]
  /\ batches'[b].contract \in DOMAIN contracts
  /\ Ordered(batches'[b].contract, batches'[b].delivered)

\* Batch b is billed: as before, or for the first time.
BillKept(b) ==
  /\ payables'[b].contract = payables[b].contract /\ payables'[b].accepted = payables[b].accepted
  /\ payables'[b].amount = payables[b].amount /\ payables'[b].to = payables[b].to
BillNew(b) ==
  /\ batches[b].status \in {"ACCEPTED", "PARTIAL"}
  /\ payables'[b].contract = batches[b].contract
  /\ payables'[b].accepted = batches[b].accepted
  /\ payables'[b].amount = PayableWei(Current(batches[b].contract).unitPrice, batches[b].accepted)
  /\ payables'[b].to = Current(batches[b].contract).supplier.wallet
  /\ PayableTotal(batches[b].contract) + payables'[b].amount
       <= ContractValue(Current(batches[b].contract))
Billing(b) ==
  /\ UNCHANGED <<contracts, batches>> /\ b \in DOMAIN batches
  /\ DOMAIN payables' = DOMAIN payables \cup {b}
  /\ \A x \in DOMAIN payables : x # b => payables'[x] = payables[x]
  /\ IF b \in DOMAIN payables THEN BillKept(b) ELSE BillNew(b)

Derives(b) ==
  /\ Billing(b) /\ UNCHANGED payments
  /\ IF b \in DOMAIN payables THEN payables'[b] = payables[b] ELSE payables'[b].status = "PAYABLE"
Pays(b, m) ==
  /\ Billing(b) /\ m \notin DOMAIN payments /\ DOMAIN payments' = DOMAIN payments \cup {m}
  /\ \A x \in DOMAIN payments : payments'[x] = payments[x] /\ payments[x].batch # b
  /\ b \in DOMAIN payables => payables[b].status = "PAYABLE"
  /\ payables'[b].status = "PAYMENT_PENDING" /\ payments'[m].status = "PAYMENT_PENDING"
  /\ payments'[m].batch = b /\ payments'[m].contract = batches[b].contract
  /\ payments'[m].value = payables'[b].amount /\ payments'[m].to = payables'[b].to
Confirms(b, m) ==
  /\ Billing(b) /\ m \in DOMAIN payments /\ DOMAIN payments' = DOMAIN payments
  /\ \A x \in DOMAIN payments : x # m => payments'[x] = payments[x]
  /\ payments[m].batch = b /\ b \in DOMAIN payables
  /\ payments[m].status = "PAYMENT_PENDING" /\ payments'[m].status = "PAID"
  /\ payments'[m].batch = b /\ payments'[m].contract = payments[m].contract
  /\ payments'[m].value = payments[m].value /\ payments'[m].to = payments[m].to
  /\ payables'[b].status = "PAID"

\* What a bill for batch b says.
LEMMA BillEffect ==
  ASSUME TypeOK, NEW b \in DOMAIN batches, PayableAdmitted(b)
  PROVE  /\ PayableFor(b) \in PayableRecord
         /\ b \in DOMAIN payables => PayableFor(b) = payables[b]
         /\ b \notin DOMAIN payables =>
              /\ batches[b].status \in {"ACCEPTED", "PARTIAL"}
              /\ PayableFor(b).contract = batches[b].contract
              /\ PayableFor(b).accepted = batches[b].accepted
              /\ PayableFor(b).amount =
                   PayableWei(Current(batches[b].contract).unitPrice, batches[b].accepted)
              /\ PayableFor(b).to = Current(batches[b].contract).supplier.wallet
              /\ PayableFor(b).status = "PAYABLE"
              /\ PayableTotal(batches[b].contract) + PayableFor(b).amount
                   <= ContractValue(Current(batches[b].contract))
  <1>1. PayableFor(b) \in PayableRecord
    BY PayableForType
  <1>2. b \in DOMAIN payables => PayableFor(b) = payables[b]
    BY DEF PayableFor
  <1>3. CASE b \notin DOMAIN payables
    BY <1>1, <1>3 DEF PayableFor, NewPayable, PayableAdmitted
  <1>4. QED
    BY <1>1, <1>2, <1>3

\* A payable is derived from its batch's assessment.
LEMMA DeriveEffect == ASSUME TypeOK, NEW b, DerivePayable(b) PROVE Derives(b)
  <1> DEFINE rec == PayableFor(b)
  <1>1. /\ b \in DOMAIN batches /\ PayableAdmitted(b) /\ payables' = Put(payables, b, rec)
        /\ UNCHANGED <<contracts, batches, payments>>
    BY DEF DerivePayable
  <1> HIDE DEF rec
  <1>2. /\ DOMAIN payables' = DOMAIN payables \cup {b} /\ payables'[b] = rec
        /\ \A x \in DOMAIN payables : x # b => payables'[x] = payables[x]
    BY <1>1 DEF Put
  <1>3. Billing(b)
    BY <1>1, <1>2, BillEffect DEF Billing, BillKept, BillNew, rec
  <1>4. QED
    BY <1>1, <1>2, <1>3, BillEffect DEF Derives, rec

\* A pending payment takes up one payable.
LEMMA PendingEffect ==
  ASSUME TypeOK, NEW b, NEW m, NEW p, MarkPaymentPending(b, m, p)
  PROVE  Pays(b, m)
  <1> DEFINE c == batches[b].contract
             payable == PayableFor(b)
             owed == [payable EXCEPT !.status = "PAYMENT_PENDING"]
             rec == [batch |-> b, contract |-> c, version |-> Version(c),
                     escrow |-> contracts[c].escrow, to |-> payable.to,
                     value |-> payable.amount, financeActor |-> p,
                     status |-> "PAYMENT_PENDING", txHash |-> None]
  <1>1. /\ b \in DOMAIN batches /\ m \notin DOMAIN payments /\ PayableAdmitted(b)
        /\ \A x \in DOMAIN payments : payments[x].batch # b
        /\ payable.status = "PAYABLE" /\ UNCHANGED <<contracts, batches>>
        /\ payables' = Put(payables, b, owed) /\ payments' = Put(payments, m, rec)
    BY DEF MarkPaymentPending
  <1>2. payable \in PayableRecord
    BY <1>1, BillEffect
  <1> HIDE DEF payable
  <1>3. /\ owed.contract = payable.contract /\ owed.accepted = payable.accepted
        /\ owed.amount = payable.amount /\ owed.to = payable.to
        /\ owed.status = "PAYMENT_PENDING"
    BY <1>2 DEF PayableRecord
  <1>4. /\ rec.batch = b /\ rec.contract = c /\ rec.to = payable.to
        /\ rec.value = payable.amount /\ rec.status = "PAYMENT_PENDING"
    OBVIOUS
  <1> HIDE DEF owed, rec
  <1>5. /\ DOMAIN payables' = DOMAIN payables \cup {b} /\ payables'[b] = owed
        /\ \A x \in DOMAIN payables : x # b => payables'[x] = payables[x]
        /\ DOMAIN payments' = DOMAIN payments \cup {m} /\ payments'[m] = rec
        /\ \A x \in DOMAIN payments : payments'[x] = payments[x]
    BY <1>1 DEF Put
  <1>6. Billing(b)
    BY <1>1, <1>3, <1>5, BillEffect DEF Billing, BillKept, BillNew, payable
  <1>7. b \in DOMAIN payables => payables[b].status = "PAYABLE"
    BY <1>1, BillEffect DEF payable
  <1>8. QED
    BY <1>1, <1>3, <1>4, <1>5, <1>6, <1>7 DEF Pays

\* A confirmed payment settles its payable.
LEMMA ConfirmEffect ==
  ASSUME TypeOK, NEW m, NEW h, NEW receipt, ConfirmPayment(m, h, receipt),
         NEW b, b = payments[m].batch
  PROVE  Confirms(b, m)
  <1> DEFINE owed == [payables[b] EXCEPT !.status = "PAID"]
             rec == [payments[m] EXCEPT !.status = "PAID", !.txHash = h]
  <1>1. /\ m \in DOMAIN payments /\ payments[m].status = "PAYMENT_PENDING"
        /\ payables' = [payables EXCEPT ![b] = owed] /\ payments' = [payments EXCEPT ![m] = rec]
        /\ UNCHANGED <<contracts, batches>>
    BY DEF ConfirmPayment
  <1>2. /\ payments[m] \in PaymentRecord /\ b \in DOMAIN payables /\ b \in DOMAIN batches
        /\ payables[b] \in PayableRecord
    BY <1>1 DEF TypeOK, Collection, NoDanglingIds
  <1>3. /\ owed.contract = payables[b].contract /\ owed.accepted = payables[b].accepted
        /\ owed.amount = payables[b].amount /\ owed.to = payables[b].to /\ owed.status = "PAID"
    BY <1>2 DEF PayableRecord
  <1>4. /\ rec.batch = b /\ rec.contract = payments[m].contract /\ rec.to = payments[m].to
        /\ rec.value = payments[m].value /\ rec.status = "PAID"
    BY <1>2 DEF PaymentRecord
  <1> HIDE DEF owed, rec
  <1>5. /\ DOMAIN payables' = DOMAIN payables \cup {b} /\ payables'[b] = owed
        /\ \A x \in DOMAIN payables : x # b => payables'[x] = payables[x]
        /\ DOMAIN payments' = DOMAIN payments /\ payments'[m] = rec
        /\ \A x \in DOMAIN payments : x # m => payments'[x] = payments[x]
    BY <1>1, <1>2
  <1>6. Billing(b)
    BY <1>1, <1>2, <1>3, <1>5 DEF Billing, BillKept
  <1>7. QED
    BY <1>1, <1>2, <1>3, <1>4, <1>5, <1>6 DEF Confirms

\* Assessing a batch leaves its goods and the contracts alone.
LEMMA AssessEffect ==
  ASSUME TypeOK, NEW b \in DOMAIN batches, NEW rec,
         batches' = [batches EXCEPT ![b] = rec], rec.contract = batches[b].contract,
         rec.delivered = batches[b].delivered, batches[b].status \in {"DELIVERED", "DISPUTED"},
         UNCHANGED <<contracts, payables, payments>>
  PROVE  GoodsStay /\ UNCHANGED contracts
  <1>1. /\ DOMAIN batches' = DOMAIN batches /\ batches'[b] = rec
        /\ \A x \in DOMAIN batches : x # b => batches'[x] = batches[x]
    OBVIOUS
  <1>2. QED
    BY <1>1 DEF GoodsStay

\* Fulfilment either assesses goods or delivers a batch.
LEMMA GoodsEffect ==
  ASSUME TypeOK, Fulfilment
  PROVE  \/ GoodsStay /\ UNCHANGED contracts
         \/ ContractsStay /\ \E b : Delivers(b)
  <1>1. ASSUME NEW b, NEW c, NEW n, NEW p, DeliverBatch(b, c, n, p)
        PROVE  ContractsStay /\ Delivers(b)
    <2> DEFINE rec == [contract |-> c, version |-> Version(c), delivered |-> n,
                       accepted |-> 0, deliveryActor |-> p, status |-> "DELIVERED",
                       acceptance |-> None, assignments |-> <<>>, review |-> None]
    <2>1. /\ b \notin DOMAIN batches /\ c \in DOMAIN contracts /\ Ordered(c, n)
          /\ batches' = Put(batches, b, rec) /\ UNCHANGED <<payables, payments>>
      BY <1>1 DEF DeliverBatch
    <2>2. rec.contract = c /\ rec.delivered = n
      OBVIOUS
    <2> HIDE DEF rec
    <2>3. /\ DOMAIN batches' = DOMAIN batches \cup {b} /\ batches'[b] = rec
          /\ \A x \in DOMAIN batches : batches'[x] = batches[x]
      BY <2>1 DEF Put
    <2>4. QED
      BY <1>1, <2>1, <2>2, <2>3, DeliverEffect DEF Delivers
  <1>2. ASSUME NEW b, NEW outcome, NEW n, NEW p, AcceptBatch(b, outcome, n, p)
        PROVE  GoodsStay /\ UNCHANGED contracts
    <2> DEFINE rec == [batches[b] EXCEPT !.status = outcome, !.accepted = n, !.acceptance = p]
    <2>1. /\ b \in DOMAIN batches /\ batches[b].status = "DELIVERED"
          /\ batches[b] \in BatchRecord /\ batches' = [batches EXCEPT ![b] = rec]
          /\ UNCHANGED <<contracts, payables, payments>>
      BY <1>2 DEF AcceptBatch, TypeOK, Collection
    <2>2. rec.contract = batches[b].contract /\ rec.delivered = batches[b].delivered
      BY <2>1 DEF BatchRecord
    <2> HIDE DEF rec
    <2>3. QED
      BY <2>1, <2>2, AssessEffect
  <1>3. ASSUME NEW b, NEW n, NEW p, NEW a, ResolveDispute(b, n, p, a)
        PROVE  GoodsStay /\ UNCHANGED contracts
    <2> DEFINE rec == [batches[b] EXCEPT !.status = ReviewOutcome(n, batches[b].delivered),
                                         !.accepted = n, !.review = p]
    <2>1. /\ b \in DOMAIN batches /\ batches[b].status = "DISPUTED"
          /\ batches[b] \in BatchRecord /\ batches' = [batches EXCEPT ![b] = rec]
          /\ UNCHANGED <<contracts, payables, payments>>
      BY <1>3 DEF ResolveDispute, UnderReview, TypeOK, Collection
    <2>2. rec.contract = batches[b].contract /\ rec.delivered = batches[b].delivered
      BY <2>1 DEF BatchRecord
    <2> HIDE DEF rec
    <2>3. QED
      BY <2>1, <2>2, AssessEffect
  <1>4. ASSUME NEW b, NEW a, NEW p, AssignReviewer(b, a, p)
        PROVE  GoodsStay /\ UNCHANGED contracts
    <2> DEFINE rec == [batches[b] EXCEPT !.assignments = Append(@, [id |-> a, reviewer |-> p])]
    <2>1. /\ b \in DOMAIN batches /\ batches[b].status = "DISPUTED"
          /\ batches[b] \in BatchRecord /\ batches' = [batches EXCEPT ![b] = rec]
          /\ UNCHANGED <<contracts, payables, payments>>
      BY <1>4 DEF AssignReviewer, UnderReview, TypeOK, Collection
    <2>2. rec.contract = batches[b].contract /\ rec.delivered = batches[b].delivered
      BY <2>1 DEF BatchRecord
    <2> HIDE DEF rec
    <2>3. QED
      BY <2>1, <2>2, AssessEffect
  <1>5. QED
    BY <1>1, <1>2, <1>3, <1>4 DEF Fulfilment

\* Settlement derives, pays or confirms.
LEMMA MoneyEffect ==
  ASSUME TypeOK, Settlement
  PROVE  \E b : Derives(b) \/ \E m : Pays(b, m) \/ Confirms(b, m)
  <1>1. ASSUME NEW m, NEW h, NEW receipt, ConfirmPayment(m, h, receipt)
        PROVE  \E b : Confirms(b, m)
    <2>1. PICK b : b = payments[m].batch
      OBVIOUS
    <2>2. QED
      BY <1>1, <2>1, ConfirmEffect
  <1>2. QED
    BY <1>1, DeriveEffect, PendingEffect DEF Settlement

\* A contract with a batch keeps its current version.
TermsStand ==
  /\ DOMAIN contracts \subseteq DOMAIN contracts'
  /\ \A c \in DOMAIN contracts' :
       \/ c \in DOMAIN contracts /\ Current(c)' = Current(c)
       \/ BatchesOf(c) = {}

\* No command changes the terms of a funded contract.
LEMMA TermsStandUnder ==
  ASSUME TypeOK, \/ ContractsStay
                 \/ \E c, x : Created(c, x) \/ Revised(c, x)
                 \/ \E c, side : Signed(c, side)
                 \/ \E c : Funded(c)
  PROVE  TermsStand
  <1>1. CASE ContractsStay
    BY <1>1 DEF ContractsStay, TermsStand, Current, Version
  <1>2. ASSUME NEW c, NEW x, Created(c, x) PROVE TermsStand
    <2>1. BatchesOf(c) = {}
      BY <1>2 DEF Created, BatchesOf, TypeOK, NoDanglingIds
    <2>2. QED
      BY <1>2, <2>1 DEF Created, OthersStay, TermsStand, Current, Version
  <1>3. ASSUME NEW c, NEW x, Revised(c, x) PROVE TermsStand
    BY <1>3 DEF Revised, OthersStay, TermsStand, Current, Version
  <1>4. ASSUME NEW c, NEW side, Signed(c, side) PROVE TermsStand
    BY <1>4 DEF Signed, OthersStay, TermsStand, Current, Version
  <1>5. ASSUME NEW c, Funded(c) PROVE TermsStand
    BY <1>5 DEF Funded, OthersStay, TermsStand, Current, Version
  <1>6. QED
    BY <1>1, <1>2, <1>3, <1>4, <1>5

\* Every step, as the money sees it.
LEMMA StepEffect ==
  ASSUME TypeOK, [Next]_vars
  PROVE  /\ TermsStand
         /\ \/ GoodsStay
            \/ ContractsStay /\ \E b : Delivers(b)
            \/ \E b : Derives(b) \/ \E m : Pays(b, m) \/ Confirms(b, m)
  <1>1. CASE Next
    <2>1. TermsStand
      BY <1>1, ContractsEffect, TermsStandUnder
    <2>2. Contracting => GoodsStay
      BY ContractingFrame DEF GoodsStay
    <2>3. QED
      BY <1>1, <2>1, <2>2, GoodsEffect, MoneyEffect DEF Next
  <1>2. CASE UNCHANGED vars
    BY <1>2 DEF vars, TermsStand, GoodsStay, Current, Version
  <1>3. QED
    BY <1>1, <1>2

-----------------------------------------------------------------------------
(* Bills and payments *)

\* The bill of batch b is of its contract's price for what was accepted.
BillMatches(b) ==
  /\ batches[b].status \in {"ACCEPTED", "PARTIAL"}
  /\ payables[b].contract = batches[b].contract
  /\ payables[b].accepted = batches[b].accepted
  /\ payables[b].amount = PayableWei(Current(batches[b].contract).unitPrice, batches[b].accepted)
  /\ payables[b].to = Current(batches[b].contract).supplier.wallet

\* The match of bills and assessments, one batch at a time.
LEMMA BillMatchesSame ==
  PayablesMatchAcceptance <=> \A b \in DOMAIN payables : BillMatches(b)
  BY DEF PayablesMatchAcceptance, BillMatches

\* Every command keeps bills matching assessments.
LEMMA MatchNext ==
  TypeOK /\ PayablesMatchAcceptance /\ [Next]_vars => PayablesMatchAcceptance'
  <1> SUFFICES ASSUME TypeOK, PayablesMatchAcceptance, [Next]_vars, NEW b \in DOMAIN payables'
               PROVE  BillMatches(b)'
    BY DEF PayablesMatchAcceptance, BillMatches
  <1>1. ASSUME NEW c \in DOMAIN contracts, BatchesOf(c) # {} PROVE Current(c)' = Current(c)
    BY <1>1, StepEffect DEF TermsStand
  <1>2. ASSUME b \in DOMAIN payables
        PROVE  BillMatches(b) /\ b \in DOMAIN batches /\ batches[b].contract \in DOMAIN contracts
    BY <1>2, BillMatchesSame DEF TypeOK, NoDanglingIds
  <1>3. ASSUME b \in DOMAIN payables, batches'[b] = batches[b],
               payables'[b] = payables[b] \/ BillKept(b)
        PROVE  BillMatches(b)'
    <2>1. PICK c : c = batches[b].contract
      OBVIOUS
    <2>2. Current(c)' = Current(c) /\ batches'[b].contract = c
      BY <1>1, <1>2, <1>3, <2>1 DEF BatchesOf
    <2>3. /\ payables'[b].contract = payables[b].contract
          /\ payables'[b].accepted = payables[b].accepted
          /\ payables'[b].amount = payables[b].amount /\ payables'[b].to = payables[b].to
      BY <1>3 DEF BillKept
    <2>4. QED
      BY <1>2, <1>3, <2>1, <2>2, <2>3 DEF BillMatches
  <1>4. CASE GoodsStay
    <2>1. b \in DOMAIN payables /\ payables'[b] = payables[b]
      BY <1>4 DEF GoodsStay
    <2>2. batches'[b] = batches[b]
      BY <1>2, <1>4, <2>1 DEF GoodsStay, BillMatches
    <2>3. QED
      BY <1>3, <2>1, <2>2
  <1>5. ASSUME NEW x, Delivers(x) PROVE BillMatches(b)'
    BY <1>2, <1>3, <1>5 DEF Delivers
  <1>6. ASSUME NEW x, Billing(x) PROVE BillMatches(b)'
    <2>1. CASE b \in DOMAIN payables
      BY <1>3, <1>6, <2>1 DEF Billing
    <2>2. CASE b \notin DOMAIN payables
      <3>1. b = x /\ BillNew(b) /\ UNCHANGED <<contracts, batches>>
        BY <1>6, <2>2 DEF Billing
      <3>2. QED
        BY <3>1 DEF BillNew, BillMatches, Current, Version
    <2>3. QED
      BY <2>1, <2>2
  <1>7. QED
    BY <1>4, <1>5, <1>6, StepEffect DEF Derives, Pays, Confirms

\* Every command keeps a payment and its payable telling the same.
LEMMA MirrorNext ==
  TypeOK /\ PaymentsMirrorPayables /\ [Next]_vars => PaymentsMirrorPayables'
  <1> SUFFICES ASSUME TypeOK, PaymentsMirrorPayables, [Next]_vars PROVE PaymentsMirrorPayables'
    OBVIOUS
  <1> USE DEF PaymentsMirrorPayables
  <1>0. \A m \in DOMAIN payments : payments[m].batch \in DOMAIN payables
    BY DEF TypeOK, NoDanglingIds
  <1>1. CASE UNCHANGED <<payables, payments>>
    BY <1>1
  <1>2. ASSUME NEW b, Derives(b) PROVE PaymentsMirrorPayables'
    BY <1>0, <1>2 DEF Derives, Billing
  <1>3. ASSUME NEW b, NEW m, Pays(b, m) PROVE PaymentsMirrorPayables'
    BY <1>0, <1>3 DEF Pays, Billing
  <1>4. ASSUME NEW b, NEW m, Confirms(b, m) PROVE PaymentsMirrorPayables'
    BY <1>0, <1>4 DEF Confirms, Billing, BillKept
  <1>5. QED
    BY <1>1, <1>2, <1>3, <1>4, StepEffect DEF GoodsStay, Delivers

\* What a contract was delivered, billed and paid, entry by entry.
Deliveries(c) == [b \in BatchesOf(c) |-> batches[b].delivered]
Bills(c) == [b \in PayablesOf(c) |-> payables[b].amount]
SettledBills(c) ==
  [b \in {x \in PayablesOf(c) : payables[x].status # "PAYABLE"} |-> payables[b].amount]
Paid(c) == [m \in PaymentsOf(c) |-> payments[m].value]

\* The three sums of a contract, and the equation that makes the limit on
\* payments inductive: what was paid is what the bills that left PAYABLE say.
SumsFit(c) ==
  /\ Total(Deliveries(c)) <= Current(c).quantity
  /\ Total(Bills(c)) <= ContractValue(Current(c))
  /\ Total(Paid(c)) = Total(SettledBills(c))

\* The sums of a contract's deliveries, bills and payments are integers.
LEMMA SumsDefined ==
  ASSUME TypeOK, FinitelyMany, NEW c
  PROVE  /\ Summable(Deliveries(c)) /\ Summable(Bills(c))
         /\ Summable(SettledBills(c)) /\ Summable(Paid(c))
         /\ Total(SettledBills(c)) <= Total(Bills(c))
         /\ Total(Deliveries(c)) \in Int /\ Total(Bills(c)) \in Int
         /\ Total(SettledBills(c)) \in Int /\ Total(Paid(c)) \in Int
  <1>1. /\ IsFiniteSet(BatchesOf(c)) /\ IsFiniteSet(PayablesOf(c)) /\ IsFiniteSet(PaymentsOf(c))
        /\ IsFiniteSet({x \in PayablesOf(c) : payables[x].status # "PAYABLE"})
    BY FS_Subset DEF BatchesOf, PayablesOf, PaymentsOf, FinitelyMany
  <1>2. /\ \A b \in DOMAIN batches : batches[b].delivered \in Nat
        /\ \A b \in DOMAIN payables : payables[b].amount \in Nat
        /\ \A m \in DOMAIN payments : payments[m].value \in Nat
    BY NumbersAssumption DEF TypeOK, Collection, BatchRecord, PayableRecord, PaymentRecord
  <1>3. /\ DOMAIN Deliveries(c) = BatchesOf(c) /\ Deliveries(c) \in [BatchesOf(c) -> Nat]
        /\ DOMAIN Bills(c) = PayablesOf(c) /\ Bills(c) \in [PayablesOf(c) -> Nat]
        /\ DOMAIN Paid(c) = PaymentsOf(c) /\ Paid(c) \in [PaymentsOf(c) -> Nat]
    BY <1>2 DEF Deliveries, Bills, Paid, BatchesOf, PayablesOf, PaymentsOf
  <1>4. /\ Summable(Deliveries(c)) /\ Summable(Bills(c)) /\ Summable(Paid(c))
    BY <1>1, <1>3, TotalNat
  <1>5. Summable(SettledBills(c))
    <2>1. /\ DOMAIN SettledBills(c) = {x \in PayablesOf(c) : payables[x].status # "PAYABLE"}
          /\ SettledBills(c) \in [DOMAIN SettledBills(c) -> Nat]
      BY <1>2 DEF SettledBills, PayablesOf
    <2>2. QED
      BY <1>1, <2>1, TotalNat
  <1>6. Total(SettledBills(c)) <= Total(Bills(c))
    <2> DEFINE cap == Bills(c)
               A == {x \in PayablesOf(c) : payables[x].status # "PAYABLE"}
    <2>1. Capacity(cap) /\ A \in SUBSET DOMAIN cap
      BY <1>1, <1>3 DEF Capacity
    <2>2. SettledBills(c) = [x \in A |-> cap[x]]
      BY DEF SettledBills, Bills
    <2> HIDE DEF cap, A
    <2>3. Total([x \in A |-> cap[x]]) <= Total(cap)
      BY <2>1, TotalPart
    <2>4. QED
      BY <2>2, <2>3 DEF cap
  <1>7. QED
    BY <1>4, <1>5, <1>6, TotalType

\* Nothing is delivered, billed or paid on a contract without a batch.
LEMMA SumsEmpty ==
  ASSUME TypeOK, NEW c \in DOMAIN contracts, BatchesOf(c) = {}
  PROVE  SumsFit(c)
  <1>1. /\ DOMAIN Deliveries(c) = {} /\ DOMAIN Bills(c) = {}
        /\ DOMAIN SettledBills(c) = {} /\ DOMAIN Paid(c) = {}
    BY DEF Deliveries, Bills, SettledBills, Paid, BatchesOf, PayablesOf, PaymentsOf,
           TypeOK, NoDanglingIds
  <1>2. /\ Total(Deliveries(c)) = 0 /\ Total(Bills(c)) = 0
        /\ Total(SettledBills(c)) = 0 /\ Total(Paid(c)) = 0
    BY <1>1, TotalEmpty
  <1>3. Current(c).quantity \in Nat /\ ContractValue(Current(c)) \in Nat
    <2>1. Current(c).quantity \in Nat /\ Current(c).unitPrice \in Nat
      BY CurrentType, NumbersAssumption DEF Terms
    <2>2. QED
      BY <2>1 DEF ContractValue, PayableWei
  <1>4. QED
    BY <1>2, <1>3 DEF SumsFit

\* The bounds on a contract's sums in the next state.
LEMMA SumsPrimed ==
  ASSUME NEW c, Total(Deliveries(c)') <= Current(c)'.quantity,
         Total(Bills(c)') <= ContractValue(Current(c)'),
         Total(Paid(c)') = Total(SettledBills(c)')
  PROVE  SumsFit(c)'
  <1>1. /\ Total(Deliveries(c))' = Total(Deliveries(c)') /\ Total(Bills(c))' = Total(Bills(c)')
        /\ Total(Paid(c))' = Total(Paid(c)') /\ Total(SettledBills(c))' = Total(SettledBills(c)')
        /\ ContractValue(Current(c))' = ContractValue(Current(c)')
    OBVIOUS
  <1>2. QED
    BY <1>1 DEF SumsFit

\* Sums of which one entry changes.
LEMMA DeliveriesChange ==
  ASSUME TypeOK, TypeOK', FinitelyMany, FinitelyMany', NEW b, Delivers(b), NEW c
  PROVE  Total(Deliveries(c)') = Total(Deliveries(c)) +
           (IF batches'[b].contract = c THEN batches'[b].delivered ELSE 0)
  <1>1. Summable(Deliveries(c))
    BY SumsDefined
  <1>2. Summable(Deliveries(c)')
    <2>1. Summable(Deliveries(c))'
      BY SumsDefined, PTL
    <2>2. QED
      BY <2>1 DEF Summable
  <1> DEFINE f == Deliveries(c)
             g == Deliveries(c)'
  <1>3. /\ DOMAIN f \ {b} = DOMAIN g \ {b} /\ \A x \in DOMAIN f \ {b} : g[x] = f[x]
        /\ Entry(f, b) = 0
        /\ Entry(g, b) = IF batches'[b].contract = c THEN batches'[b].delivered ELSE 0
    BY DEF Delivers, Deliveries, BatchesOf, Entry
  <1> HIDE DEF f, g
  <1>4. Total(g) = Total(f) - Entry(f, b) + Entry(g, b) /\ Total(f) \in Int /\ Entry(g, b) \in Int
    BY <1>1, <1>2, <1>3, TotalChange DEF f, g
  <1>5. Total(g) = Total(f) + Entry(g, b)
    BY <1>3, <1>4
  <1>6. QED
    BY <1>3, <1>5 DEF f, g

\* A new bill adds its amount to its contract's bills.
LEMMA BillsChange ==
  ASSUME TypeOK, TypeOK', FinitelyMany, FinitelyMany', NEW b, Billing(b), NEW c
  PROVE  Total(Bills(c)') = Total(Bills(c)) +
           (IF b \notin DOMAIN payables /\ batches[b].contract = c THEN payables'[b].amount ELSE 0)
  <1>1. Summable(Bills(c))
    BY SumsDefined
  <1>2. Summable(Bills(c)')
    <2>1. Summable(Bills(c))'
      BY SumsDefined, PTL
    <2>2. QED
      BY <2>1 DEF Summable
  <1> DEFINE f == Bills(c)
             g == Bills(c)'
  <1>3. /\ DOMAIN f \ {b} = DOMAIN g \ {b} /\ \A x \in DOMAIN f \ {b} : g[x] = f[x]
    BY DEF Billing, Bills, PayablesOf
  <1>4. CASE b \in DOMAIN payables
    <2>1. Entry(g, b) = Entry(f, b)
      BY <1>4 DEF Billing, BillKept, Bills, PayablesOf, Entry
    <2> HIDE DEF f, g
    <2>2. Total(g) = Total(f)
      BY <1>1, <1>2, <1>3, <2>1, TotalChange DEF f, g
    <2>3. Total(f) \in Int
      BY <1>1, TotalType DEF f
    <2>4. QED
      BY <1>4, <2>2, <2>3 DEF f, g
  <1>5. CASE b \notin DOMAIN payables
    <2>1. /\ Entry(f, b) = 0
          /\ Entry(g, b) = IF batches[b].contract = c THEN payables'[b].amount ELSE 0
      BY <1>5 DEF Billing, BillNew, Bills, PayablesOf, Entry
    <2> HIDE DEF f, g
    <2>2. Total(g) = Total(f) - Entry(f, b) + Entry(g, b) /\ Total(f) \in Int /\ Entry(g, b) \in Int
      BY <1>1, <1>2, <1>3, TotalChange DEF f, g
    <2>3. Total(g) = Total(f) + Entry(g, b)
      BY <2>1, <2>2
    <2>4. QED
      BY <1>5, <2>1, <2>3 DEF f, g
  <1>6. QED
    BY <1>4, <1>5

\* A payment settles one bill of its amount.
LEMMA PaidChange ==
  ASSUME TypeOK, TypeOK', FinitelyMany, FinitelyMany', NEW b, NEW m, Pays(b, m), NEW c
  PROVE  Total(Paid(c)) = Total(SettledBills(c)) => Total(Paid(c)') = Total(SettledBills(c)')
  <1>1. Summable(Paid(c)) /\ Summable(SettledBills(c))
    BY SumsDefined
  <1>2. Summable(Paid(c)') /\ Summable(SettledBills(c)')
    <2>1. Summable(Paid(c))' /\ Summable(SettledBills(c))'
      BY SumsDefined, PTL
    <2>2. QED
      BY <2>1 DEF Summable
  <1> DEFINE f == Paid(c)
             g == Paid(c)'
             h == SettledBills(c)
             k == SettledBills(c)'
             a == IF batches[b].contract = c THEN payables'[b].amount ELSE 0
  <1>3. /\ DOMAIN f \ {m} = DOMAIN g \ {m} /\ \A x \in DOMAIN f \ {m} : g[x] = f[x]
        /\ Entry(f, m) = 0 /\ Entry(g, m) = a
    BY DEF Pays, Paid, PaymentsOf, Entry
  <1>4. /\ DOMAIN h \ {b} = DOMAIN k \ {b} /\ \A x \in DOMAIN h \ {b} : k[x] = h[x]
    BY DEF Pays, Billing, SettledBills, PayablesOf
  <1>5. payables'[b].contract = batches[b].contract
    BY DEF Pays, Billing, BillKept, BillNew, TypeOK, NoDanglingIds
  <1>6. Entry(h, b) = 0
    BY DEF Pays, SettledBills, PayablesOf, Entry
  <1>7. Entry(k, b) = a
    BY <1>5 DEF Pays, Billing, SettledBills, PayablesOf, Entry
  <1> HIDE DEF f, g, h, k, a
  <1>8. /\ Total(g) = Total(f) - Entry(f, m) + Entry(g, m)
        /\ Total(k) = Total(h) - Entry(h, b) + Entry(k, b)
    <2>1. Total(g) = Total(f) - Entry(f, m) + Entry(g, m)
      BY <1>1, <1>2, <1>3, TotalChange DEF f, g
    <2>2. Total(k) = Total(h) - Entry(h, b) + Entry(k, b)
      BY <1>1, <1>2, <1>4, TotalChange DEF h, k
    <2>3. QED
      BY <2>1, <2>2
  <1>9. Total(f) = Total(h) => Total(g) = Total(k)
    BY <1>3, <1>6, <1>7, <1>8
  <1>10. QED
    BY <1>9 DEF f, g, h, k

AllSumsFit == \A c \in DOMAIN contracts : SumsFit(c)

\* Every command keeps deliveries and bills within the contract, and payments
\* equal to the settled bills.
LEMMA SumsNext ==
  TypeOK /\ FinitelyMany /\ PaymentsMirrorPayables /\ AllSumsFit /\ [Next]_vars => AllSumsFit'
  <1> SUFFICES ASSUME TypeOK, FinitelyMany, PaymentsMirrorPayables, AllSumsFit, [Next]_vars,
                      NEW c \in DOMAIN contracts'
               PROVE  SumsFit(c)'
    BY DEF AllSumsFit
  <1>1. TypeOK' /\ FinitelyMany'
    BY NextType, FiniteNext
  <1>2. /\ Total(Deliveries(c)) \in Int /\ Total(Bills(c)) \in Int
        /\ Total(SettledBills(c)) \in Int /\ Total(Paid(c)) \in Int
    BY SumsDefined
  <1>3. CASE GoodsStay
    <2>1. /\ BatchesOf(c)' = BatchesOf(c) /\ Deliveries(c)' = Deliveries(c)
          /\ Bills(c)' = Bills(c) /\ SettledBills(c)' = SettledBills(c) /\ Paid(c)' = Paid(c)
      BY <1>3 DEF GoodsStay, BatchesOf, Deliveries, Bills, SettledBills, Paid, PayablesOf, PaymentsOf
    <2>2. CASE BatchesOf(c) = {}
      <3>1. (TypeOK /\ c \in DOMAIN contracts /\ BatchesOf(c) = {} => SumsFit(c))'
        BY SumsEmpty, PTL
      <3>2. QED
        BY <1>1, <2>1, <2>2, <3>1
    <2>3. CASE c \in DOMAIN contracts /\ Current(c)' = Current(c)
      BY <2>1, <2>3, SumsPrimed DEF AllSumsFit, SumsFit
    <2>4. QED
      BY <2>2, <2>3, StepEffect DEF TermsStand
  <1>4. ASSUME ContractsStay, NEW b, Delivers(b) PROVE SumsFit(c)'
    <2>1. c \in DOMAIN contracts /\ Current(c)' = Current(c)
      BY <1>4 DEF ContractsStay, Current, Version
    <2>2. Bills(c)' = Bills(c) /\ SettledBills(c)' = SettledBills(c) /\ Paid(c)' = Paid(c)
      BY <1>4 DEF Delivers, Bills, SettledBills, Paid, PayablesOf, PaymentsOf
    <2>3. Total(Deliveries(c)') = Total(Deliveries(c)) +
            (IF batches'[b].contract = c THEN batches'[b].delivered ELSE 0)
      BY <1>1, <1>4, DeliveriesChange
    <2>4. batches'[b].contract = c =>
            Total(Deliveries(c)) + batches'[b].delivered <= Current(c).quantity
      BY <1>4 DEF Delivers, Ordered, Delivered, Deliveries
    <2>5. Total(Deliveries(c)') <= Current(c)'.quantity
      BY <1>2, <2>1, <2>3, <2>4 DEF AllSumsFit, SumsFit
    <2>6. QED
      BY <2>1, <2>2, <2>5, SumsPrimed DEF AllSumsFit, SumsFit
  <1>5. ASSUME NEW b, Billing(b), Total(Paid(c)') = Total(SettledBills(c)') PROVE SumsFit(c)'
    <2>1. c \in DOMAIN contracts /\ Current(c)' = Current(c) /\ Deliveries(c)' = Deliveries(c)
      BY <1>5 DEF Billing, Current, Version, Deliveries, BatchesOf
    <2>2. Total(Bills(c)') = Total(Bills(c)) +
           (IF b \notin DOMAIN payables /\ batches[b].contract = c THEN payables'[b].amount ELSE 0)
      BY <1>1, <1>5, BillsChange
    <2>3. b \notin DOMAIN payables /\ batches[b].contract = c =>
            Total(Bills(c)) + payables'[b].amount <= ContractValue(Current(c))
      BY <1>5 DEF Billing, BillNew, PayableTotal, Bills
    <2>4. Total(Bills(c)') <= ContractValue(Current(c)')
      BY <1>2, <2>1, <2>2, <2>3 DEF AllSumsFit, SumsFit
    <2>5. QED
      BY <1>5, <2>1, <2>4, SumsPrimed DEF AllSumsFit, SumsFit
  <1>6. ASSUME NEW b, Billing(b), Paid(c)' = Paid(c), SettledBills(c)' = SettledBills(c)
        PROVE  SumsFit(c)'
    <2>1. c \in DOMAIN contracts
      BY <1>6 DEF Billing
    <2>2. Total(Paid(c)') = Total(SettledBills(c)')
      BY <1>6, <2>1 DEF AllSumsFit, SumsFit
    <2>3. QED
      BY <1>5, <1>6, <2>2
  <1>7. ASSUME NEW b, Derives(b) PROVE SumsFit(c)'
    <2>1. Billing(b) /\ Paid(c)' = Paid(c)
      BY <1>7 DEF Derives, Paid, PaymentsOf
    <2>2. SettledBills(c)' = SettledBills(c)
      BY <1>7 DEF Derives, Billing, SettledBills, PayablesOf
    <2>3. QED
      BY <1>6, <2>1, <2>2
  <1>8. ASSUME NEW b, NEW m, Pays(b, m) PROVE SumsFit(c)'
    <2>1. Billing(b) /\ c \in DOMAIN contracts
      BY <1>8 DEF Pays, Billing
    <2>2. Total(Paid(c)') = Total(SettledBills(c)')
      BY <1>1, <1>8, <2>1, PaidChange DEF AllSumsFit, SumsFit
    <2>3. QED
      BY <1>5, <2>1, <2>2
  <1>9. ASSUME NEW b, NEW m, Confirms(b, m) PROVE SumsFit(c)'
    <2>1. Billing(b) /\ Paid(c)' = Paid(c)
      BY <1>9 DEF Confirms, Paid, PaymentsOf
    <2>2. b \in DOMAIN payables /\ payables[b].status # "PAYABLE" /\ payables'[b].status # "PAYABLE"
      BY <1>9 DEF Confirms, PaymentsMirrorPayables
    <2>3. SettledBills(c)' = SettledBills(c)
      BY <1>9, <2>1, <2>2 DEF Billing, BillKept, SettledBills, PayablesOf
    <2>4. QED
      BY <1>6, <2>1, <2>3
  <1>10. QED
    BY <1>3, <1>4, <1>7, <1>8, <1>9, StepEffect

\* The sums bound what is paid by what the confirmed escrow holds.
LEMMA SumsSuffice ==
  TypeOK /\ FinitelyMany /\ FulfilmentIsBacked /\ AllSumsFit => PayoutsWithinEscrow
  <1> SUFFICES ASSUME TypeOK, FinitelyMany, FulfilmentIsBacked, AllSumsFit,
                      NEW c \in DOMAIN contracts
               PROVE  /\ Delivered(c) <= Current(c).quantity
                      /\ PaymentsOf(c) # {} =>
                           Total([m \in PaymentsOf(c) |-> payments[m].value])
                             <= escrows[contracts[c].escrow].value
    BY DEF PayoutsWithinEscrow
  <1>1. Delivered(c) <= Current(c).quantity
    BY DEF AllSumsFit, SumsFit, Delivered, Deliveries
  <1>2. Total(Paid(c)) <= ContractValue(Current(c))
    <2>1. /\ Total(Paid(c)) = Total(SettledBills(c)) /\ Total(Bills(c)) <= ContractValue(Current(c))
          /\ Total(SettledBills(c)) <= Total(Bills(c))
          /\ Total(Bills(c)) \in Int /\ Total(SettledBills(c)) \in Int
      BY SumsDefined DEF AllSumsFit, SumsFit
    <2>2. ContractValue(Current(c)) \in Int
      <3>1. Current(c).quantity \in Nat /\ Current(c).unitPrice \in Nat
        BY CurrentType, NumbersAssumption DEF Terms
      <3>2. QED
        BY <3>1 DEF ContractValue, PayableWei
    <2>3. QED
      BY <2>1, <2>2
  <1>3. ASSUME PaymentsOf(c) # {}
        PROVE  escrows[contracts[c].escrow].value = ContractValue(Current(c))
    <2>1. PICK b \in DOMAIN batches : batches[b].contract = c
      BY <1>3 DEF PaymentsOf, TypeOK, NoDanglingIds
    <2>2. contracts[c].status = "IN_FULFILLMENT"
      BY <2>1 DEF FulfilmentIsBacked
    <2>3. FulfilledContract(c)
      BY <2>2 DEF FulfilmentIsBacked
    <2>4. QED
      BY <2>3 DEF FulfilledContract
  <1>4. QED
    BY <1>1, <1>2, <1>3 DEF Paid

\* What is paid was delivered, accepted and covered (payableFor,
\* markPaymentPending, confirmPayment), batch by batch and in sum, for any
\* number of batches and payments.
THEOREM PaymentsAlwaysEarned == Spec => []PaymentsAreEarned
  <1>1. Init => FinitelyMany /\ PayablesMatchAcceptance /\ PaymentsMirrorPayables /\ AllSumsFit
    BY FS_EmptySet DEF Init, FinitelyMany, PayablesMatchAcceptance, PaymentsMirrorPayables, AllSumsFit
  <1>2. TypeOK /\ FinitelyMany /\ FulfilmentIsBacked /\ PayablesMatchAcceptance
          /\ PaymentsMirrorPayables /\ AllSumsFit => PaymentsAreEarned
    BY SumsSuffice DEF PaymentsAreEarned
  <1>3. QED
    BY <1>1, <1>2, FiniteNext, MatchNext, MirrorNext, SumsNext, TypeCorrect, FulfilmentBacked, PTL
       DEF Spec

\* What is billed is never assessed again (acceptBatch, assignReviewer,
\* resolveDispute), and a PAID payment stays as it is (confirmPayment).
THEOREM SettlementAlwaysFinal == Spec => SettlementIsFinal
  <1>1. TypeOK /\ PayablesMatchAcceptance /\ [Next]_vars
          => [/\ \A b \in DOMAIN payables : batches'[b] = batches[b]
              /\ \A m \in DOMAIN payments :
                   payments[m].status = "PAID" => payments'[m] = payments[m]]_vars
    <2> SUFFICES ASSUME TypeOK, PayablesMatchAcceptance, [Next]_vars
                 PROVE  /\ \A b \in DOMAIN payables : batches'[b] = batches[b]
                        /\ \A m \in DOMAIN payments :
                             payments[m].status = "PAID" => payments'[m] = payments[m]
      OBVIOUS
    <2>1. \A b \in DOMAIN payables : BillMatches(b) /\ b \in DOMAIN batches
      BY BillMatchesSame DEF TypeOK, NoDanglingIds
    <2>2. CASE GoodsStay
      BY <2>1, <2>2 DEF GoodsStay, BillMatches
    <2>3. ASSUME NEW b, Delivers(b)
          PROVE  UNCHANGED payments /\ \A x \in DOMAIN payables : batches'[x] = batches[x]
      BY <2>1, <2>3 DEF Delivers
    <2>4. ASSUME NEW b, Derives(b) \/ \E m : Pays(b, m) \/ Confirms(b, m)
          PROVE  /\ UNCHANGED batches
                 /\ \A x \in DOMAIN payments :
                      payments[x].status = "PAID" => payments'[x] = payments[x]
      BY <2>4 DEF Derives, Pays, Confirms, Billing
    <2>5. QED
      BY <2>2, <2>3, <2>4, StepEffect DEF GoodsStay
  <1>2. Init => PayablesMatchAcceptance
    BY DEF Init, PayablesMatchAcceptance
  <1>3. QED
    BY <1>1, <1>2, MatchNext, TypeCorrect, PTL DEF Spec, SettlementIsFinal

-----------------------------------------------------------------------------
(* Well-formed posts, journal and files *)

InvitationRecord == [email : Users, organizationId : Organizations, role : STRING,
                     status : {"open", "expired", "claimed"}]
Methods == {"addQuote", "reserve", "createContract", "signContract", "recordEscrowConfirmed",
            "deliverBatch", "acceptBatch", "assignReviewer", "resolveDispute", "derivePayable"}
EntryRecord == [method : Methods, actorId : Users \cup {Admin, "adapter"},
                subject : QuoteIds \cup ReservationIds \cup ContractIds \cup BatchIds]
FileRecord == [contract : ContractIds, version : Nat, batch : BatchIds, method : Methods,
               actor : People, reviewAssignment : AssignmentIds \cup {None}, boundTo : Nat]

RegistryTypeOK ==
  /\ invitations \in Seq(InvitationRecord) /\ assignments \in Seq(PostRecord)
  /\ walletOf \in [Users -> Wallets]
StoreTypeOK ==
  /\ journal \in Seq(EntryRecord) /\ evidence \in Seq(FileRecord)
  /\ \A e \in DOMAIN evidence : evidence[e].boundTo \in 0..Len(journal)
UploadsTypeOK ==
  \A u \in uploads : /\ u.post \in DOMAIN assignments /\ u.contract \in DOMAIN contracts
                     /\ assignments[u.post].role \in DOMAIN UploadStage
\* The bound on versions holds in the domain.
VersionsBounded == \A c \in DOMAIN contracts : Version(c) \in 1..MaxVersion

PlatformTypeOK == TypeOK /\ VersionsBounded /\ RegistryTypeOK /\ StoreTypeOK /\ UploadsTypeOK

\* A post names a buyer, and a person by account and wallet.
LEMMA PostType ==
  ASSUME RegistryTypeOK, NEW k \in DOMAIN assignments
  PROVE  /\ assignments[k] \in PostRecord
         /\ Party(k) \in Buyers /\ Actor(k) \in People
         /\ assignments[k].user \in Users /\ assignments[k].wallet \in Wallets
         /\ Actor(k).id = assignments[k].user /\ Actor(k).wallet = assignments[k].wallet
  <1> DEFINE s == assignments
  <1>1. s \in Seq(PostRecord)
    BY DEF RegistryTypeOK
  <1> HIDE DEF s
  <1>2. \A i \in DOMAIN s : s[i] \in PostRecord
    BY <1>1, SeqElements
  <1>3. assignments[k] \in PostRecord
    BY <1>2 DEF s
  <1>4. Party(k) \in [wallet : Wallets, organizationId : Organizations]
    BY <1>3 DEF Party, PostRecord
  <1>5. Actor(k) \in [id : Users, wallet : Wallets, organizationId : Organizations]
    BY <1>3 DEF Actor, PostRecord
  <1>6. QED
    BY <1>3, <1>4, <1>5, PlatformAssumption DEF PostRecord, Actor

\* A reviewer once assigned was named by an assignment's id.
LEMMA LastAssignment ==
  ASSUME TypeOK, NEW b \in DOMAIN batches, batches[b].assignments # <<>>
  PROVE  batches[b].assignments[Len(batches[b].assignments)].id \in AssignmentIds
  <1> DEFINE R == [id : AssignmentIds, reviewer : People]
             s == batches[b].assignments
  <1>1. s \in Seq(R) /\ s # <<>>
    BY DEF TypeOK, Collection, BatchRecord
  <1> HIDE DEF s, R
  <1>2. Len(s) \in DOMAIN s
    BY <1>1
  <1>3. s[Len(s)] \in R
    BY <1>1, <1>2, SeqElements
  <1>4. QED
    BY <1>3 DEF s, R

-----------------------------------------------------------------------------
(* The platform runs the domain's commands *)

\* The routes of the purchase run the commands up to the signed contract.
LEMMA PurchasingRuns == RegistryTypeOK /\ TypeOK /\ VersionsBounded /\ Purchasing => Contracting
  <1> SUFFICES ASSUME RegistryTypeOK, TypeOK, VersionsBounded, Purchasing PROVE Contracting
    OBVIOUS
  <1>1. ASSUME NEW k, NEW q \in QuoteIds, NEW input \in QuoteInputs, PostQuote(k, q, input)
        PROVE  Contracting
    BY <1>1 DEF PostQuote, Execute, Contracting
  <1>2. ASSUME NEW k, NEW j \in DOMAIN assignments, NEW r \in ReservationIds, NEW q \in QuoteIds,
               NEW task \in Tasks, NEW n \in Quantities, NEW now \in Times,
               PostReservation(k, j, r, q, task, n, now)
        PROVE  Contracting
    <2>1. Reserve(r, q, task, n, Party(j), now) /\ Party(j) \in Buyers
      BY <1>2, PostType DEF PostReservation, Execute
    <2>2. QED
      BY <2>1 DEF Contracting
  <1>3. ASSUME NEW k, NEW c \in ContractIds, NEW r \in ReservationIds, NEW n \in Nonces,
               NEW t \in Times, NEW now \in Times, PostContract(k, c, r, n, t, now)
        PROVE  Contracting
    BY <1>3 DEF PostContract, Execute, Contracting
  <1>4. ASSUME NEW k \in DOMAIN assignments, NEW c \in ContractIds, NEW side \in Sides,
               NEW now \in Times, PostSignature(k, c, side, now)
        PROVE  Contracting
    <2>1. /\ SignContract(c, Version(c), side, assignments[k].wallet, now)
          /\ Version(c) \in 1..MaxVersion /\ assignments[k].wallet \in Wallets
      BY <1>4, PostType DEF PostSignature, Execute, VersionsBounded
    <2>2. PICK v, w : v = Version(c) /\ w = assignments[k].wallet
      OBVIOUS
    <2>3. SignContract(c, v, side, w, now) /\ v \in 1..MaxVersion /\ w \in Wallets
      BY <2>1, <2>2
    <2>4. QED
      BY <2>3 DEF Contracting
  <1>5. QED
    BY <1>1, <1>2, <1>3, <1>4 DEF Purchasing, Operators

\* Every command of the fulfilment handlers is one of the procurement domain.
LEMMA FulfillingRuns == RegistryTypeOK /\ TypeOK /\ VersionsBounded /\ Fulfilling => Next
  <1> SUFFICES ASSUME RegistryTypeOK, TypeOK, VersionsBounded, Fulfilling PROVE Next
    OBVIOUS
  <1>1. ASSUME NEW c \in ContractIds, NEW e \in EscrowIds, NEW h \in TxHashes,
               NEW receipt \in [contract : ContractIds, version : 1..MaxVersion, value : Values],
               ConfirmEscrow(c, e, h, receipt)
        PROVE  Next
    <2>1. PICK v : v = Version(c)
      OBVIOUS
    <2>2. RecordEscrowConfirmed(c, v, e, h, receipt) /\ v \in 1..MaxVersion
      BY <1>1, <2>1 DEF ConfirmEscrow, Execute, VersionsBounded
    <2>3. Contracting
      BY <2>2 DEF Contracting
    <2>4. QED
      BY <2>3 DEF Next
  <1>2. ASSUME NEW b \in BatchIds, NEW k \in DOMAIN assignments, NEW a \in AssignmentIds,
               PostReviewer(b, k, a)
        PROVE  Next
    <2>1. AssignReviewer(b, a, Actor(k)) /\ Actor(k) \in People
      BY <1>2, PostType DEF PostReviewer, Execute
    <2>2. QED
      BY <2>1 DEF Fulfilment, Next
  <1>3. ASSUME NEW b \in BatchIds, NEW k, PostPayable(k, b) PROVE Next
    BY <1>3 DEF PostPayable, Execute, Settlement, Next
  <1>4. ASSUME NEW b \in BatchIds, NEW k \in DOMAIN assignments, NEW c \in ContractIds,
               NEW n \in Quantities, NEW ids, PostDelivery(k, b, c, n, ids)
        PROVE  Next
    <2>1. DeliverBatch(b, c, n, Actor(k)) /\ Actor(k) \in People
      BY <1>4, PostType DEF PostDelivery, ExecuteAttested
    <2>2. QED
      BY <2>1 DEF Fulfilment, Next
  <1>5. ASSUME NEW b \in BatchIds, NEW k \in DOMAIN assignments, NEW outcome \in Outcomes,
               NEW n \in Quantities \cup {0}, NEW ids, PostAcceptance(k, b, outcome, n, ids)
        PROVE  Next
    <2>1. AcceptBatch(b, outcome, n, Actor(k)) /\ Actor(k) \in People
      BY <1>5, PostType DEF PostAcceptance, ExecuteAttested
    <2>2. QED
      BY <2>1 DEF Fulfilment, Next
  <1>6. ASSUME NEW b \in BatchIds, NEW k \in DOMAIN assignments,
               NEW n \in Quantities \cup {0}, NEW ids, PostReview(k, b, n, ids)
        PROVE  Next
    <2>1. PICK a : a = batches[b].assignments[Len(batches[b].assignments)].id
      OBVIOUS
    <2>2. /\ ResolveDispute(b, n, Actor(k), a) /\ Actor(k) \in People
          /\ b \in DOMAIN batches /\ batches[b].assignments # <<>>
      BY <1>6, <2>1, PostType DEF PostReview, ExecuteAttested, AssignedTo
    <2>3. a \in AssignmentIds
      BY <2>1, <2>2, LastAssignment
    <2>4. QED
      BY <2>2, <2>3 DEF Fulfilment, Next
  <1>7. QED
    BY <1>1, <1>2, <1>3, <1>4, <1>5, <1>6 DEF Fulfilling, Operators

\* Every step of the platform is a step of the procurement domain, or none.
LEMMA PlatformRuns ==
  RegistryTypeOK /\ TypeOK /\ VersionsBounded /\ [PlatformNext]_platformVars => [Next]_vars
  <1>1. Registry => UNCHANGED vars
    BY DEF Registry, Invite, LapseInvitation, ClaimPost, RevokePost, RebindWallet,
           outsideRegistry, storeVars
  <1>2. Uploading => UNCHANGED vars
    <2>1. ASSUME NEW u, NEW b, FinishUpload(u, b) PROVE UNCHANGED vars
      BY <2>1 DEF FinishUpload, PutEvidence, domainVars
    <2>2. QED
      BY <2>1 DEF Uploading, StartUpload, EndUpload, storeVars
  <1>3. UNCHANGED platformVars => UNCHANGED vars
    BY DEF platformVars, storeVars
  <1>4. Contracting => Next
    BY DEF Next
  <1>5. QED
    BY <1>1, <1>2, <1>3, <1>4, PurchasingRuns, FulfillingRuns DEF PlatformNext

-----------------------------------------------------------------------------
(* What a command does to the journal, the files and the batches *)

\* File e shows that `person` ran `method` on batch b.
Shows(e, b, method, person) ==
  /\ evidence[e].boundTo \in DOMAIN journal
  /\ evidence[e].batch = b /\ evidence[e].version = batches[b].version
  /\ evidence[e].method = method /\ evidence[e].actor = person
  /\ journal[evidence[e].boundTo] = [method |-> method, actorId |-> person.id, subject |-> b]
Shown(b, method, person) == \E e \in DOMAIN evidence : Shows(e, b, method, person)

\* Whoever delivered, accepted or reviewed a batch has shown so ...
BatchShown(b) ==
  /\ Shown(b, "deliverBatch", batches[b].deliveryActor)
  /\ batches[b].acceptance # None => Shown(b, "acceptBatch", batches[b].acceptance)
  /\ batches[b].review # None => Shown(b, "resolveDispute", batches[b].review)
AllShown == \A b \in DOMAIN batches : BatchShown(b)

\* ... and its status tells which of them were there.
StatusTells ==
  \A b \in DOMAIN batches :
    /\ batches[b].status # "DELIVERED" => batches[b].acceptance # None
    /\ batches[b].review # None => batches[b].status \notin {"DELIVERED", "DISPUTED"}

Logs(method, user, subject) ==
  /\ [method |-> method, actorId |-> user, subject |-> subject] \in EntryRecord
  /\ journal' = Append(journal, [method |-> method, actorId |-> user, subject |-> subject])

\* No command meddles with what an earlier one of another account was about.
Admits(method, user, subject) ==
  \/ method = "addQuote" /\ subject \notin DOMAIN quotes
  \/ method = "reserve" /\ subject \notin DOMAIN reservations
  \/ method = "createContract" /\ subject \notin DOMAIN contracts
  \/ method = "signContract" /\ BatchesOf(subject) = {}
  \/ method \in {"recordEscrowConfirmed", "assignReviewer"}
  \/ /\ method = "derivePayable"
     /\ batches[subject].review # None => batches[subject].review.id # user
PeopleStay ==
  /\ DOMAIN batches' = DOMAIN batches
  /\ \A b \in DOMAIN batches :
       /\ batches'[b].contract = batches[b].contract /\ batches'[b].version = batches[b].version
       /\ batches'[b].deliveryActor = batches[b].deliveryActor
       /\ batches'[b].acceptance = batches[b].acceptance
       /\ batches'[b].review = batches[b].review /\ batches'[b].status = batches[b].status
Commands ==
  /\ PeopleStay /\ UNCHANGED evidence
  /\ \E method, user, subject : Logs(method, user, subject) /\ Admits(method, user, subject)

\* A command on batch b by p, with files of its own.
Attests(method, b, p) ==
  /\ Logs(method, p.id, b) /\ p \in People /\ b \in BatchIds
  /\ \E ids \in SUBSET DOMAIN evidence :
       /\ ids # {}
       /\ evidence' = [e \in DOMAIN evidence |->
            IF e \in ids THEN [evidence[e] EXCEPT !.boundTo = Len(journal) + 1] ELSE evidence[e]]
       /\ \A e \in ids :
            /\ evidence[e].boundTo = 0 /\ evidence[e].batch = b /\ evidence[e].method = method
            /\ evidence[e].version = batches'[b].version /\ evidence[e].actor = p
OnlyBatch(b) ==
  /\ DOMAIN batches' = DOMAIN batches \cup {b}
  /\ \A x \in DOMAIN batches : x # b => batches'[x] = batches[x]
SameGoods(b) ==
  /\ b \in DOMAIN batches
  /\ batches'[b].contract = batches[b].contract /\ batches'[b].version = batches[b].version
  /\ batches'[b].deliveryActor = batches[b].deliveryActor
DeliveredBy(b, p) ==
  /\ b \notin DOMAIN batches /\ OnlyBatch(b)
  /\ batches'[b].deliveryActor = p /\ batches'[b].status = "DELIVERED"
  /\ batches'[b].acceptance = None /\ batches'[b].review = None
AcceptedBy(b, p) ==
  /\ OnlyBatch(b) /\ SameGoods(b)
  /\ batches[b].status = "DELIVERED" /\ batches'[b].status # "DELIVERED"
  /\ batches'[b].acceptance = p /\ batches'[b].review = batches[b].review
ReviewedBy(b, p) ==
  /\ OnlyBatch(b) /\ SameGoods(b) /\ UNCHANGED <<contracts, reservations>>
  /\ batches[b].status = "DISPUTED" /\ batches'[b].status \notin {"DELIVERED", "DISPUTED"}
  /\ batches'[b].acceptance = batches[b].acceptance /\ batches'[b].review = p
  /\ p.id \notin Participants(batches[b].contract)
Assesses(b, p) ==
  \/ DeliveredBy(b, p) /\ Attests("deliverBatch", b, p)
  \/ AcceptedBy(b, p) /\ Attests("acceptBatch", b, p)
  \/ ReviewedBy(b, p) /\ Attests("resolveDispute", b, p)

Uploaded ==
  /\ UNCHANGED <<vars, journal>>
  /\ \E f \in FileRecord : /\ f.boundTo = 0 /\ WithinQuota(f.contract)
                           /\ evidence' = Append(evidence, f)

\* A delivery adds a batch with its deliverer and no other person.
LEMMA DeliveredEffect ==
  ASSUME NEW b, NEW c, NEW n, NEW p, DeliverBatch(b, c, n, p)
  PROVE  DeliveredBy(b, p)
  <1> DEFINE rec == [contract |-> c, version |-> Version(c), delivered |-> n,
                     accepted |-> 0, deliveryActor |-> p, status |-> "DELIVERED",
                     acceptance |-> None, assignments |-> <<>>, review |-> None]
  <1>1. b \notin DOMAIN batches /\ batches' = Put(batches, b, rec)
    BY DEF DeliverBatch
  <1>2. /\ rec.deliveryActor = p /\ rec.status = "DELIVERED" /\ rec.acceptance = None
        /\ rec.review = None
    OBVIOUS
  <1> HIDE DEF rec
  <1>3. QED
    BY <1>1, <1>2 DEF DeliveredBy, OnlyBatch, Put

\* An acceptance records who accepted, on one batch.
LEMMA AcceptedEffect ==
  ASSUME TypeOK, NEW b, NEW outcome \in Outcomes, NEW n, NEW p, AcceptBatch(b, outcome, n, p)
  PROVE  AcceptedBy(b, p)
  <1> DEFINE rec == [batches[b] EXCEPT !.status = outcome, !.accepted = n, !.acceptance = p]
  <1>1. /\ b \in DOMAIN batches /\ batches[b].status = "DELIVERED"
        /\ batches[b] \in BatchRecord /\ batches' = [batches EXCEPT ![b] = rec]
    BY DEF AcceptBatch, TypeOK, Collection
  <1>2. /\ rec.contract = batches[b].contract /\ rec.version = batches[b].version
        /\ rec.deliveryActor = batches[b].deliveryActor /\ rec.review = batches[b].review
        /\ rec.acceptance = p /\ rec.status = outcome
    BY <1>1 DEF BatchRecord
  <1> HIDE DEF rec
  <1>3. QED
    BY <1>1, <1>2 DEF AcceptedBy, OnlyBatch, SameGoods, Outcomes

\* A resolution records a reviewer who took no part in the contract.
LEMMA ReviewedEffect ==
  ASSUME TypeOK, NEW b, NEW n, NEW p, NEW a, ResolveDispute(b, n, p, a),
         p.id \notin Participants(batches[b].contract)
  PROVE  ReviewedBy(b, p)
  <1> DEFINE rec == [batches[b] EXCEPT !.status = ReviewOutcome(n, batches[b].delivered),
                                       !.accepted = n, !.review = p]
  <1>1. /\ b \in DOMAIN batches /\ batches[b].status = "DISPUTED"
        /\ batches[b] \in BatchRecord /\ batches' = [batches EXCEPT ![b] = rec]
        /\ UNCHANGED <<contracts, reservations>>
    BY DEF ResolveDispute, UnderReview, TypeOK, Collection
  <1>2. /\ rec.contract = batches[b].contract /\ rec.version = batches[b].version
        /\ rec.deliveryActor = batches[b].deliveryActor /\ rec.acceptance = batches[b].acceptance
        /\ rec.review = p /\ rec.status = ReviewOutcome(n, batches[b].delivered)
    BY <1>1 DEF BatchRecord
  <1>3. ReviewOutcome(n, batches[b].delivered) \in {"ACCEPTED", "PARTIAL", "REJECTED"}
    BY DEF ReviewOutcome
  <1> HIDE DEF rec
  <1>4. QED
    BY <1>1, <1>2, <1>3 DEF ReviewedBy, OnlyBatch, SameGoods

\* Assigning a reviewer changes nobody a batch names.
LEMMA AssignedEffect ==
  ASSUME TypeOK, NEW b, NEW a, NEW p, AssignReviewer(b, a, p)
  PROVE  PeopleStay
  <1> DEFINE rec == [batches[b] EXCEPT !.assignments = Append(@, [id |-> a, reviewer |-> p])]
  <1>1. /\ b \in DOMAIN batches /\ batches[b] \in BatchRecord
        /\ batches' = [batches EXCEPT ![b] = rec]
    BY DEF AssignReviewer, TypeOK, Collection
  <1>2. /\ rec.contract = batches[b].contract /\ rec.version = batches[b].version
        /\ rec.deliveryActor = batches[b].deliveryActor /\ rec.acceptance = batches[b].acceptance
        /\ rec.review = batches[b].review /\ rec.status = batches[b].status
    BY <1>1 DEF BatchRecord
  <1> HIDE DEF rec
  <1>3. QED
    BY <1>1, <1>2 DEF PeopleStay

\* Batches that stay name the same people.
LEMMA SameBatches == UNCHANGED batches => PeopleStay
  BY DEF PeopleStay

\* A recorded command is one more entry of the journal.
LEMMA RecordEffect ==
  ASSUME NEW method \in Methods, NEW user \in Users \cup {Admin, "adapter"},
         NEW subject \in QuoteIds \cup ReservationIds \cup ContractIds \cup BatchIds,
         Record(method, user, subject)
  PROVE  Logs(method, user, subject)
  BY DEF Record, Logs, EntryRecord

\* Files spent on a command show who ran it.
LEMMA AttestEffect ==
  ASSUME RegistryTypeOK, NEW k \in DOMAIN assignments, NEW p, p = Actor(k),
         NEW method \in Methods, NEW b \in BatchIds, NEW ids \in Materials,
         Attest(method, p, b, ids)
  PROVE  Attests(method, b, p)
  <1>1. p \in People /\ p.id \in Users
    BY PostType
  <1>2. Logs(method, p.id, b)
    BY <1>1, RecordEffect DEF Attest
  <1>3. ids # {} /\ ids \in SUBSET DOMAIN evidence
    BY DEF Materials
  <1>4. /\ evidence' = [e \in DOMAIN evidence |->
            IF e \in ids THEN [evidence[e] EXCEPT !.boundTo = Len(journal) + 1] ELSE evidence[e]]
        /\ \A e \in ids :
            /\ evidence[e].boundTo = 0 /\ evidence[e].batch = b /\ evidence[e].method = method
            /\ evidence[e].version = batches'[b].version /\ evidence[e].actor = p
    BY DEF Attest, InScope
  <1>5. QED
    BY <1>1, <1>2, <1>3, <1>4 DEF Attests

\* Purchasing commands leave the people of every batch alone.
LEMMA PurchasingEffect == RegistryTypeOK /\ TypeOK /\ Purchasing => Commands
  <1> SUFFICES ASSUME RegistryTypeOK, TypeOK, Purchasing PROVE Commands
    OBVIOUS
  <1>1. ASSUME NEW k \in DOMAIN assignments, NEW q \in QuoteIds, NEW input,
               PostQuote(k, q, input)
        PROVE  Commands
    <2>1. PICK u \in Users : u = assignments[k].user
      BY PostType
    <2>2. /\ Record("addQuote", u, q) /\ UNCHANGED <<batches, evidence>>
          /\ q \notin DOMAIN quotes
      BY <1>1, <2>1 DEF PostQuote, Execute, AddQuote
    <2>3. QED
      BY <2>2, RecordEffect, SameBatches DEF Commands, Admits, Methods
  <1>2. ASSUME NEW k \in DOMAIN assignments, NEW j, NEW r \in ReservationIds, NEW q,
               NEW task, NEW n, NEW now, PostReservation(k, j, r, q, task, n, now)
        PROVE  Commands
    <2>1. PICK u \in Users : u = assignments[k].user
      BY PostType
    <2>2. /\ Record("reserve", u, r) /\ UNCHANGED <<batches, evidence>>
          /\ r \notin DOMAIN reservations
      BY <1>2, <2>1 DEF PostReservation, Execute, Reserve
    <2>3. QED
      BY <2>2, RecordEffect, SameBatches DEF Commands, Admits, Methods
  <1>3. ASSUME NEW k \in DOMAIN assignments, NEW c \in ContractIds, NEW r, NEW n, NEW t, NEW now,
               PostContract(k, c, r, n, t, now)
        PROVE  Commands
    <2>1. PICK u \in Users : u = assignments[k].user
      BY PostType
    <2>2. /\ Record("createContract", u, c) /\ UNCHANGED <<batches, evidence>>
          /\ c \notin DOMAIN contracts
      BY <1>3, <2>1 DEF PostContract, Execute, CreateContract
    <2>3. QED
      BY <2>2, RecordEffect, SameBatches DEF Commands, Admits, Methods
  <1>4. ASSUME NEW k \in DOMAIN assignments, NEW c \in ContractIds, NEW side, NEW now,
               PostSignature(k, c, side, now)
        PROVE  Commands
    <2>1. PICK u \in Users : u = assignments[k].user
      BY PostType
    <2>2. /\ Record("signContract", u, c) /\ UNCHANGED <<batches, evidence>>
          /\ BatchesOf(c) = {}
      BY <1>4, <2>1 DEF PostSignature, Execute, SignContract
    <2>3. QED
      BY <2>2, RecordEffect, SameBatches DEF Commands, Admits, Methods
  <1>5. QED
    BY <1>1, <1>2, <1>3, <1>4 DEF Purchasing, Operators

\* Fulfilment commands do too, or assess one batch with attested material.
LEMMA FulfillingEffect ==
  RegistryTypeOK /\ TypeOK /\ Fulfilling => Commands \/ \E b, p : Assesses(b, p)
  <1> SUFFICES ASSUME RegistryTypeOK, TypeOK, Fulfilling PROVE Commands \/ \E b, p : Assesses(b, p)
    OBVIOUS
  <1>1. ASSUME NEW c \in ContractIds, NEW e, NEW h, NEW receipt, ConfirmEscrow(c, e, h, receipt)
        PROVE  Commands
    <2>1. Logs("recordEscrowConfirmed", "adapter", c) /\ UNCHANGED <<batches, evidence>>
      BY <1>1, RecordEffect DEF ConfirmEscrow, Execute, Methods, RecordEscrowConfirmed
    <2>2. QED
      BY <2>1, SameBatches DEF Commands, Admits
  <1>2. ASSUME NEW b \in BatchIds, NEW k \in DOMAIN assignments, NEW a, PostReviewer(b, k, a)
        PROVE  Commands
    <2>1. PICK p : p = Actor(k)
      OBVIOUS
    <2>2. AssignReviewer(b, a, p)
      BY <1>2, <2>1 DEF PostReviewer, Execute
    <2>3. Logs("assignReviewer", Admin, b) /\ UNCHANGED evidence
      BY <1>2, RecordEffect DEF PostReviewer, Execute, Methods
    <2>4. QED
      BY <2>2, <2>3, AssignedEffect DEF Commands, Admits
  <1>3. ASSUME NEW b \in BatchIds, NEW k \in DOMAIN assignments, PostPayable(k, b) PROVE Commands
    <2>1. PICK u \in Users : u = assignments[k].user
      BY PostType
    <2>2. /\ Record("derivePayable", u, b) /\ UNCHANGED <<batches, evidence>>
          /\ batches[b].review # None => batches[b].review.id # u
      BY <1>3, <2>1 DEF PostPayable, Execute, DerivePayable, FinanceSeparation, BatchesOf
    <2>3. QED
      BY <2>2, RecordEffect, SameBatches DEF Commands, Admits, Methods
  <1>4. ASSUME NEW b \in BatchIds, NEW k \in DOMAIN assignments, NEW c, NEW n,
               NEW ids \in Materials, PostDelivery(k, b, c, n, ids)
        PROVE  Assesses(b, Actor(k))
    <2>1. PICK p : p = Actor(k)
      OBVIOUS
    <2>2. DeliverBatch(b, c, n, p) /\ Attest("deliverBatch", p, b, ids)
      BY <1>4, <2>1 DEF PostDelivery, ExecuteAttested
    <2>3. Attests("deliverBatch", b, p)
      BY <2>1, <2>2, AttestEffect DEF Methods
    <2>4. QED
      BY <2>1, <2>2, <2>3, DeliveredEffect DEF Assesses
  <1>5. ASSUME NEW b \in BatchIds, NEW k \in DOMAIN assignments, NEW outcome \in Outcomes, NEW n,
               NEW ids \in Materials, PostAcceptance(k, b, outcome, n, ids)
        PROVE  Assesses(b, Actor(k))
    <2>1. PICK p : p = Actor(k)
      OBVIOUS
    <2>2. AcceptBatch(b, outcome, n, p) /\ Attest("acceptBatch", p, b, ids)
      BY <1>5, <2>1 DEF PostAcceptance, ExecuteAttested
    <2>3. Attests("acceptBatch", b, p)
      BY <2>1, <2>2, AttestEffect DEF Methods
    <2>4. QED
      BY <2>1, <2>2, <2>3, AcceptedEffect DEF Assesses
  <1>6. ASSUME NEW b \in BatchIds, NEW k \in DOMAIN assignments, NEW n,
               NEW ids \in Materials, PostReview(k, b, n, ids)
        PROVE  Assesses(b, Actor(k))
    <2>1. PICK p, a : p = Actor(k) /\ a = batches[b].assignments[Len(batches[b].assignments)].id
      OBVIOUS
    <2>2. ResolveDispute(b, n, p, a) /\ Attest("resolveDispute", p, b, ids)
      BY <1>6, <2>1 DEF PostReview, ExecuteAttested
    <2>3. Attests("resolveDispute", b, p)
      BY <2>1, <2>2, AttestEffect DEF Methods
    <2>4. p.id \notin Participants(batches[b].contract)
      BY <1>6, <2>1, PostType DEF PostReview, ReviewSeparation
    <2>5. QED
      BY <2>1, <2>2, <2>3, <2>4, ReviewedEffect DEF Assesses
  <1>7. QED
    BY <1>1, <1>2, <1>3, <1>4, <1>5, <1>6 DEF Fulfilling, Operators

-----------------------------------------------------------------------------
(* Posts *)

\* One row of a sequence is replaced and the others stay.
LEMMA ExceptSeq ==
  ASSUME NEW R, NEW s \in Seq(R), NEW i \in DOMAIN s, NEW v \in R
  PROVE  /\ [s EXCEPT ![i] = v] \in Seq(R)
         /\ DOMAIN [s EXCEPT ![i] = v] = DOMAIN s
         /\ \A j \in DOMAIN s : [s EXCEPT ![i] = v][j] = IF j = i THEN v ELSE s[j]
  OBVIOUS

\* A row keeps all but its status.
PostsKept ==
  \A k \in DOMAIN assignments :
    /\ k \in DOMAIN assignments'
    /\ assignments'[k].user = assignments[k].user /\ assignments'[k].wallet = assignments[k].wallet
    /\ assignments'[k].role = assignments[k].role

ClaimedPost(row) ==
  /\ assignments' = Append(assignments, row) /\ row \in PostRecord
  /\ Unassigned(row.user, row.wallet)
RevokedPost(k, row) ==
  /\ assignments' = [assignments EXCEPT ![k] = row] /\ k \in DOMAIN assignments
  /\ row \in PostRecord /\ row.status = "revoked"
  /\ row.user = assignments[k].user /\ row.wallet = assignments[k].wallet
  /\ row.role = assignments[k].role

\* A command of the operator registry changes at most one post.
LEMMA RegistryEffect ==
  ASSUME RegistryTypeOK, Registry
  PROVE  /\ invitations' \in Seq(InvitationRecord) /\ walletOf' \in [Users -> Wallets]
         /\ \/ UNCHANGED assignments
            \/ \E row : ClaimedPost(row)
            \/ \E k, row : RevokedPost(k, row)
         /\ UNCHANGED <<storeVars, uploads>>
  <1> DEFINE Typed == invitations' \in Seq(InvitationRecord) /\ walletOf' \in [Users -> Wallets]
             Rows == \/ UNCHANGED assignments
                     \/ \E row : ClaimedPost(row)
                     \/ \E k, row : RevokedPost(k, row)
  <1>1. /\ invitations \in Seq(InvitationRecord) /\ assignments \in Seq(PostRecord)
        /\ walletOf \in [Users -> Wallets]
    BY DEF RegistryTypeOK
  <1>2. ASSUME NEW i \in DOMAIN invitations, NEW st \in {"expired", "claimed"},
               invitations' = [invitations EXCEPT ![i].status = st]
        PROVE  invitations' \in Seq(InvitationRecord)
    <2> DEFINE rec == [invitations[i] EXCEPT !.status = st]
    <2>1. invitations[i] \in InvitationRecord
      BY <1>1, SeqElements
    <2>2. rec \in InvitationRecord
      BY <2>1 DEF InvitationRecord
    <2>3. invitations' = [invitations EXCEPT ![i] = rec]
      BY <1>2
    <2> HIDE DEF rec
    <2>4. QED
      BY <1>1, <2>2, <2>3, ExceptSeq
  <1>3. ASSUME NEW offer \in Offers, Invite(offer) PROVE Typed /\ Rows
    <2> DEFINE rec == [email |-> offer.email, organizationId |-> offer.organizationId,
                       role |-> offer.role, status |-> "open"]
    <2>1. rec \in InvitationRecord
      BY PlatformAssumption DEF InvitationRecord
    <2>2. invitations' = Append(invitations, rec) /\ UNCHANGED <<assignments, walletOf>>
      BY <1>3 DEF Invite, Issue, outsideRegistry
    <2> HIDE DEF rec
    <2>3. QED
      BY <1>1, <2>1, <2>2
  <1>4. ASSUME NEW i, LapseInvitation(i) PROVE Typed /\ Rows
    BY <1>1, <1>2, <1>4 DEF LapseInvitation, Expire, outsideRegistry
  <1>5. ASSUME NEW i, NEW u \in Users, ClaimPost(i, u) PROVE Typed /\ Rows
    <2>1. PICK w : w = walletOf[u]
      OBVIOUS
    <2> DEFINE row == [user |-> u, wallet |-> w,
                       organizationId |-> invitations[i].organizationId,
                       role |-> invitations[i].role, status |-> "active"]
    <2>2. /\ i \in DOMAIN invitations /\ Unassigned(u, w) /\ UNCHANGED walletOf
          /\ invitations' = [invitations EXCEPT ![i].status = "claimed"]
          /\ assignments' = Append(assignments, row)
      BY <1>5, <2>1 DEF ClaimPost, Claim, outsideRegistry
    <2>3. invitations[i] \in InvitationRecord
      BY <1>1, <2>2, SeqElements
    <2>4. row \in PostRecord /\ row.user = u /\ row.wallet = w
      BY <1>1, <2>1, <2>3 DEF PostRecord, InvitationRecord
    <2> HIDE DEF row
    <2>5. ClaimedPost(row)
      BY <2>2, <2>4 DEF ClaimedPost
    <2>6. QED
      BY <1>1, <1>2, <2>2, <2>5
  <1>6. ASSUME NEW u, RevokePost(u) PROVE Typed /\ Rows
    <2>1. PICK k \in DOMAIN assignments :
            /\ assignments' = [assignments EXCEPT ![k].status = "revoked"]
            /\ UNCHANGED <<invitations, walletOf>>
      BY <1>6 DEF RevokePost, Revoke, PostsOf, outsideRegistry
    <2> DEFINE row == [assignments[k] EXCEPT !.status = "revoked"]
    <2>2. assignments[k] \in PostRecord
      BY <1>1, SeqElements
    <2>3. /\ row \in PostRecord /\ row.status = "revoked" /\ row.user = assignments[k].user
          /\ row.wallet = assignments[k].wallet /\ row.role = assignments[k].role
      BY <2>2 DEF PostRecord
    <2>4. assignments' = [assignments EXCEPT ![k] = row]
      BY <2>1
    <2> HIDE DEF row
    <2>5. RevokedPost(k, row)
      BY <2>3, <2>4 DEF RevokedPost
    <2>6. QED
      BY <1>1, <2>1, <2>5
  <1>7. ASSUME NEW x \in Rebinds, RebindWallet(x[1], x[2]) PROVE Typed /\ Rows
    <2>1. x[1] \in Users /\ x[2] \in Wallets
      BY PlatformAssumption
    <2>2. QED
      BY <1>1, <1>7, <2>1 DEF RebindWallet, registryVars
  <1>8. UNCHANGED <<storeVars, uploads>>
    BY DEF Registry, Invite, LapseInvitation, ClaimPost, RevokePost, RebindWallet, outsideRegistry
  <1>9. QED
    BY <1>3, <1>4, <1>5, <1>6, <1>7, <1>8 DEF Registry

\* A claimed invitation adds a post ...
LEMMA ClaimedKept ==
  ASSUME RegistryTypeOK, NEW row, ClaimedPost(row)
  PROVE  /\ assignments' \in Seq(PostRecord) /\ PostsKept
         /\ \A k \in DOMAIN assignments' :
              \/ k \in DOMAIN assignments /\ assignments'[k] = assignments[k]
              \/ k = Len(assignments) + 1 /\ assignments'[k] = row
  <1> DEFINE s == assignments
  <1>1. s \in Seq(PostRecord) /\ row \in PostRecord
    BY DEF RegistryTypeOK, ClaimedPost
  <1> HIDE DEF s
  <1>2. /\ Append(s, row) \in Seq(PostRecord)
        /\ \A k \in DOMAIN s : k \in DOMAIN Append(s, row) /\ Append(s, row)[k] = s[k]
        /\ \A k \in DOMAIN Append(s, row) :
             \/ k \in DOMAIN s /\ Append(s, row)[k] = s[k]
             \/ k = Len(s) + 1 /\ Append(s, row)[k] = row
    BY <1>1
  <1>3. QED
    BY <1>2 DEF s, ClaimedPost, PostsKept

\* ... and a revocation withdraws one: posts are never edited otherwise.
LEMMA RevokedKept ==
  ASSUME RegistryTypeOK, NEW k, NEW row, RevokedPost(k, row)
  PROVE  /\ assignments' \in Seq(PostRecord) /\ PostsKept
         /\ DOMAIN assignments' = DOMAIN assignments
         /\ \A j \in DOMAIN assignments : assignments'[j] = IF j = k THEN row ELSE assignments[j]
  BY ExceptSeq DEF RegistryTypeOK, RevokedPost, PostsKept

\* Domain commands do not touch the registry.
LEMMA RegistryUntouched ==
  Purchasing \/ Uploading \/ Fulfilling => UNCHANGED <<registryVars, walletOf>>
  BY DEF Purchasing, PostQuote, PostReservation, PostContract, PostSignature, Uploading,
         StartUpload, EndUpload, FinishUpload, Fulfilling, ConfirmEscrow, PostReviewer, PostPayable,
         PostDelivery, PostAcceptance, PostReview, outsideStore

\* Every step keeps the registry well-formed and its posts.
LEMMA RegistryNext ==
  RegistryTypeOK /\ [PlatformNext]_platformVars => RegistryTypeOK' /\ PostsKept
  <1>1. UNCHANGED assignments => PostsKept
    BY DEF PostsKept
  <1>2. UNCHANGED <<registryVars, walletOf>> /\ RegistryTypeOK => RegistryTypeOK'
    BY DEF registryVars, RegistryTypeOK
  <1>3. Registry /\ RegistryTypeOK => RegistryTypeOK' /\ PostsKept
    BY <1>1, RegistryEffect, ClaimedKept, RevokedKept DEF RegistryTypeOK
  <1>4. UNCHANGED <<registryVars, walletOf>> => UNCHANGED assignments
    BY DEF registryVars
  <1>5. QED
    BY <1>1, <1>2, <1>3, <1>4, RegistryUntouched DEF PlatformNext, platformVars

\* Every step keeps posts exclusive.
LEMMA ExclusiveNext ==
  RegistryTypeOK /\ PostsExclusive /\ [PlatformNext]_platformVars => PostsExclusive'
  <1> SUFFICES ASSUME RegistryTypeOK, PostsExclusive, [PlatformNext]_platformVars
               PROVE  PostsExclusive'
    OBVIOUS
  <1> USE DEF PostsExclusive, Exclusive
  <1>1. ASSUME NEW row, ClaimedPost(row) PROVE PostsExclusive'
    BY <1>1, ClaimedKept DEF ClaimedPost, Unassigned, Active
  <1>2. ASSUME NEW k, NEW row, RevokedPost(k, row) PROVE PostsExclusive'
    BY <1>2, RevokedKept DEF RevokedPost
  <1>3. UNCHANGED assignments => PostsExclusive'
    OBVIOUS
  <1>4. QED
    BY <1>1, <1>2, <1>3, RegistryEffect, RegistryUntouched
    DEF PlatformNext, platformVars, registryVars

-----------------------------------------------------------------------------
(* The platform implements the domain *)

\* Versions are bounded in the domain.
LEMMA VersionsNext == TypeOK /\ VersionsBounded /\ [Next]_vars => VersionsBounded'
  <1> SUFFICES ASSUME TypeOK, VersionsBounded, [Next]_vars PROVE VersionsBounded'
    OBVIOUS
  <1>1. CASE ContractsStay
    BY <1>1 DEF ContractsStay, VersionsBounded, Version
  <1>2. ASSUME NEW c, NEW x, Created(c, x) PROVE VersionsBounded'
    <2>1. Version(c)' = 1 /\ 1 \in 1..MaxVersion
      BY <1>2, NumbersAssumption DEF Created, Version
    <2>2. QED
      BY <1>2, <2>1 DEF Created, OthersStay, VersionsBounded, Version
  <1>3. ASSUME NEW c, NEW side, Signed(c, side) PROVE VersionsBounded'
    BY <1>3 DEF Signed, OthersStay, VersionsBounded, Version
  <1>4. ASSUME NEW c, Funded(c) PROVE VersionsBounded'
    BY <1>4 DEF Funded, OthersStay, VersionsBounded, Version
  <1>5. ASSUME NEW c \in ContractIds, NEW r \in ReservationIds, NEW n \in Nonces, NEW t \in Times,
               NEW now \in Times, ReviseContract(c, r, n, t, now)
        PROVE  VersionsBounded'
    <2>1. PICK x : Revised(c, x)
      BY <1>5, ReviseEffect
    <2>2. Version(c) < MaxVersion
      BY <1>5 DEF ReviseContract
    <2>3. /\ c \in DOMAIN contracts /\ OthersStay(c)
          /\ contracts'[c].versions = Append(contracts[c].versions, x)
          /\ x \in Terms /\ contracts[c].versions \in Seq(Terms)
      BY <2>1 DEF Revised, TypeOK, Collection, ContractRecord
    <2>4. Version(c)' = Version(c) + 1
      BY <2>3 DEF Version
    <2>5. Version(c)' \in 1..MaxVersion
      BY <2>2, <2>3, <2>4, CurrentType, NumbersAssumption
    <2>6. QED
      BY <2>3, <2>5 DEF OthersStay, VersionsBounded, Version
  <1>6. CASE Contracting
    <2>1. ASSUME NEW q, NEW input, AddQuote(q, input) PROVE UNCHANGED contracts
      BY <2>1 DEF AddQuote
    <2>2. ASSUME NEW r, NEW q, NEW task, NEW n, NEW buyer, NEW now,
                 Reserve(r, q, task, n, buyer, now)
          PROVE  UNCHANGED contracts
      BY <2>2 DEF Reserve
    <2>3. UNCHANGED contracts => ContractsStay
      BY DEF ContractsStay
    <2>4. QED
      BY <1>1, <1>2, <1>3, <1>4, <1>5, <1>6, <2>1, <2>2, <2>3, CreateEffect, SignEffect,
         EscrowEffect
      DEF Contracting
  <1>7. Next => ContractsStay \/ Contracting
    <2>1. UNCHANGED contracts => ContractsStay
      BY DEF ContractsStay
    <2>2. ASSUME NEW b, NEW m, NEW p, MarkPaymentPending(b, m, p) PROVE UNCHANGED contracts
      BY <2>2 DEF MarkPaymentPending
    <2>3. Settlement => UNCHANGED contracts
      BY <2>2 DEF Settlement, DerivePayable, ConfirmPayment
    <2>4. Fulfilment => ContractsStay
      BY <2>1, GoodsEffect
    <2>5. QED
      BY <2>1, <2>3, <2>4 DEF Next
  <1>8. UNCHANGED vars => ContractsStay
    BY DEF vars, ContractsStay
  <1>9. QED
    BY <1>1, <1>6, <1>7, <1>8

\* The four ways in which a step of the platform meets the store.
LEMMA FinishEffect ==
  ASSUME PlatformTypeOK, NEW u \in uploads, NEW b \in BatchIds, FinishUpload(u, b)
  PROVE  Uploaded /\ uploads' = uploads \ {u}
  <1> DEFINE k == u.post
             stage == UploadStage[assignments[k].role]
             a == IF stage = "resolveDispute" /\ b \in DOMAIN batches /\ AssignedTo(b, k)
                  THEN batches[b].assignments[Len(batches[b].assignments)].id ELSE None
             f == [contract |-> u.contract, version |-> Version(u.contract), batch |-> b,
                   method |-> stage, actor |-> Actor(k), reviewAssignment |-> a, boundTo |-> 0]
  <1>1. /\ PutEvidence(u.contract, Version(u.contract), b, stage, Actor(k), a)
        /\ uploads' = uploads \ {u}
    BY DEF FinishUpload
  <1>2. /\ k \in DOMAIN assignments /\ u.contract \in DOMAIN contracts
        /\ assignments[k].role \in DOMAIN UploadStage
    BY DEF PlatformTypeOK, UploadsTypeOK
  <1>3. stage \in Methods
    BY <1>2 DEF UploadStage, Methods
  <1>4. a \in AssignmentIds \cup {None}
    BY LastAssignment DEF PlatformTypeOK, AssignedTo
  <1>5. u.contract \in ContractIds /\ Version(u.contract) \in Nat /\ Actor(k) \in People
    BY <1>2, CurrentType, PostType DEF PlatformTypeOK, TypeOK, Collection
  <1>6. /\ WithinQuota(u.contract) /\ evidence' = Append(evidence, f)
        /\ UNCHANGED <<vars, journal>>
    BY <1>1 DEF PutEvidence, domainVars
  <1> HIDE DEF stage, a
  <1>7. f \in FileRecord /\ f.boundTo = 0 /\ f.contract = u.contract
    BY <1>3, <1>4, <1>5 DEF FileRecord
  <1> HIDE DEF f
  <1>8. QED
    BY <1>1, <1>6, <1>7 DEF Uploaded

\* Uploading changes the evidence alone, and never a row bound to a record.
LEMMA UploadingEffect ==
  ASSUME PlatformTypeOK, Uploading
  PROVE  /\ UNCHANGED storeVars \/ Uploaded
         /\ \/ uploads' \subseteq uploads
            \/ \E k \in DOMAIN assignments, c \in DOMAIN contracts :
                 /\ assignments[k].role \in DOMAIN UploadStage
                 /\ uploads' = uploads \cup {[post |-> k, contract |-> c]}
  <1>1. ASSUME NEW u, NEW b \in BatchIds, FinishUpload(u, b)
        PROVE  Uploaded /\ uploads' \subseteq uploads
    BY <1>1, FinishEffect DEF FinishUpload
  <1>2. QED
    BY <1>1 DEF Uploading, StartUpload, EndUpload

\* Everything a step does to the store: upload, run a command, or assess a
\* batch.
LEMMA StoreEffect ==
  ASSUME PlatformTypeOK, [PlatformNext]_platformVars
  PROVE  \/ UNCHANGED storeVars
         \/ Uploaded
         \/ Commands
         \/ \E b, p : Assesses(b, p)
  BY PurchasingEffect, FulfillingEffect, UploadingEffect, RegistryEffect
  DEF PlatformTypeOK, PlatformNext, platformVars

\* An upload keeps the store's types.
LEMMA UploadedType == ASSUME StoreTypeOK, Uploaded PROVE StoreTypeOK'
  <1>1. PICK f \in FileRecord : f.boundTo = 0 /\ evidence' = Append(evidence, f)
    BY DEF Uploaded
  <1> DEFINE s == evidence
  <1>2. s \in Seq(FileRecord) /\ journal' = journal /\ Len(journal) \in Nat
    BY DEF StoreTypeOK, Uploaded
  <1> HIDE DEF s
  <1>3. /\ Append(s, f) \in Seq(FileRecord)
        /\ \A e \in DOMAIN Append(s, f) :
             \/ e \in DOMAIN s /\ Append(s, f)[e] = s[e]
             \/ Append(s, f)[e] = f
    BY <1>2
  <1>4. QED
    BY <1>1, <1>2, <1>3 DEF s, StoreTypeOK

\* A journal entry is added at the end.
LEMMA LogsType ==
  ASSUME StoreTypeOK, NEW method, NEW user, NEW subject, Logs(method, user, subject)
  PROVE  /\ journal' \in Seq(EntryRecord) /\ Len(journal) \in Nat
         /\ Len(journal') = Len(journal) + 1
         /\ DOMAIN journal' = 1..Len(journal) + 1 /\ DOMAIN journal = 1..Len(journal)
         /\ \A i \in DOMAIN journal : journal'[i] = journal[i]
         /\ journal'[Len(journal) + 1] = [method |-> method, actorId |-> user, subject |-> subject]
  <1> DEFINE s == journal
             entry == [method |-> method, actorId |-> user, subject |-> subject]
  <1>1. s \in Seq(EntryRecord) /\ entry \in EntryRecord /\ journal' = Append(s, entry)
    BY DEF StoreTypeOK, Logs
  <1> HIDE DEF s, entry
  <1>2. QED
    BY <1>1 DEF s, entry

\* Binding evidence keeps its types and never rebinds a bound row.
LEMMA AttestsType ==
  ASSUME StoreTypeOK, NEW method, NEW b, NEW p, Attests(method, b, p)
  PROVE  /\ StoreTypeOK' /\ DOMAIN evidence' = DOMAIN evidence
         /\ \A e \in DOMAIN evidence :
              /\ evidence'[e].contract = evidence[e].contract
              /\ evidence[e].boundTo # 0 => evidence'[e] = evidence[e]
  <1>1. PICK ids \in SUBSET DOMAIN evidence :
          /\ evidence' = [e \in DOMAIN evidence |->
               IF e \in ids THEN [evidence[e] EXCEPT !.boundTo = Len(journal) + 1] ELSE evidence[e]]
          /\ \A e \in ids : evidence[e].boundTo = 0
    BY DEF Attests
  <1>2. Logs(method, p.id, b)
    BY DEF Attests
  <1>3. \A e \in DOMAIN evidence : evidence[e] \in FileRecord
    BY SeqElements DEF StoreTypeOK
  <1>4. \A e \in DOMAIN evidence :
          /\ [evidence[e] EXCEPT !.boundTo = Len(journal) + 1] \in FileRecord
          /\ [evidence[e] EXCEPT !.boundTo = Len(journal) + 1].boundTo = Len(journal) + 1
          /\ [evidence[e] EXCEPT !.boundTo = Len(journal) + 1].contract = evidence[e].contract
    BY <1>2, <1>3, LogsType DEF FileRecord
  <1>5. \A e \in DOMAIN evidence :
          /\ evidence'[e] \in FileRecord /\ evidence'[e].contract = evidence[e].contract
          /\ evidence'[e].boundTo \in {evidence[e].boundTo, Len(journal) + 1}
          /\ evidence[e].boundTo # 0 => evidence'[e] = evidence[e]
    BY <1>1, <1>3, <1>4
  <1>6. DOMAIN evidence' = DOMAIN evidence /\ DOMAIN evidence = 1..Len(evidence) /\ Len(evidence) \in Nat
    BY <1>1 DEF StoreTypeOK
  <1>7. evidence' \in Seq(FileRecord)
    <2>1. evidence' = [e \in 1..Len(evidence) |-> evidence'[e]]
      BY <1>1, <1>6
    <2>2. QED
      BY <1>5, <1>6, <2>1
  <1>8. \A e \in DOMAIN evidence' : evidence'[e].boundTo \in 0..Len(journal')
    <2>1. \A e \in DOMAIN evidence : evidence[e].boundTo \in 0..Len(journal)
      BY DEF StoreTypeOK
    <2>2. Len(journal) \in Nat /\ Len(journal') = Len(journal) + 1
      BY <1>2, LogsType
    <2>3. QED
      BY <1>5, <1>6, <2>1, <2>2
  <1>9. QED
    BY <1>2, <1>5, <1>6, <1>7, <1>8, LogsType DEF StoreTypeOK

\* Every step keeps the store's types.
LEMMA StoreNext ==
  ASSUME PlatformTypeOK, [PlatformNext]_platformVars
  PROVE  StoreTypeOK'
  <1>1. StoreTypeOK
    BY DEF PlatformTypeOK
  <1>2. CASE UNCHANGED storeVars
    BY <1>1, <1>2 DEF storeVars, StoreTypeOK
  <1>3. CASE Commands
    <2>1. journal' \in Seq(EntryRecord) /\ Len(journal) \in Nat /\ Len(journal') = Len(journal) + 1
      BY <1>1, <1>3, LogsType DEF Commands
    <2>2. \A e \in DOMAIN evidence : evidence[e].boundTo \in 0..Len(journal)
      BY <1>1 DEF StoreTypeOK
    <2>3. evidence' = evidence /\ evidence \in Seq(FileRecord)
      BY <1>1, <1>3 DEF Commands, StoreTypeOK
    <2>4. \A e \in DOMAIN evidence : evidence[e].boundTo \in 0..Len(journal')
      BY <2>1, <2>2
    <2>5. QED
      BY <2>1, <2>3, <2>4 DEF StoreTypeOK
  <1>4. ASSUME NEW b, NEW p, Assesses(b, p) PROVE StoreTypeOK'
    BY <1>1, <1>4, AttestsType DEF Assesses
  <1>5. QED
    BY <1>1, <1>2, <1>3, <1>4, StoreEffect, UploadedType

\* Every step keeps the types of the uploads under way.
LEMMA UploadsNext ==
  ASSUME PlatformTypeOK, [PlatformNext]_platformVars, DOMAIN contracts \subseteq DOMAIN contracts'
  PROVE  UploadsTypeOK'
  <1>1. UploadsTypeOK /\ PostsKept
    BY RegistryNext DEF PlatformTypeOK
  <1>2. \/ uploads' \subseteq uploads
        \/ \E k \in DOMAIN assignments, c \in DOMAIN contracts :
             /\ assignments[k].role \in DOMAIN UploadStage
             /\ uploads' = uploads \cup {[post |-> k, contract |-> c]}
    <2>1. Purchasing \/ Fulfilling \/ UNCHANGED platformVars => UNCHANGED uploads
      BY DEF Purchasing, PostQuote, PostReservation, PostContract, PostSignature,
             Fulfilling, ConfirmEscrow, PostReviewer, PostPayable,
             PostDelivery, PostAcceptance, PostReview, outsideStore, platformVars
    <2>2. QED
      BY <2>1, UploadingEffect, RegistryEffect DEF PlatformNext, PlatformTypeOK
  <1>3. \A u \in uploads' : \/ u \in uploads
                            \/ /\ u.post \in DOMAIN assignments /\ u.contract \in DOMAIN contracts
                               /\ assignments[u.post].role \in DOMAIN UploadStage
    BY <1>2
  <1>4. QED
    BY <1>1, <1>3 DEF UploadsTypeOK, PostsKept

\* The empty platform is well-formed.
LEMMA PlatformTypeInit == PlatformInit => PlatformTypeOK
  <1>1. Init => TypeOK /\ VersionsBounded
    BY InitType DEF Init, VersionsBounded
  <1>2. PlatformInit => RegistryTypeOK
    BY PlatformAssumption DEF PlatformInit, RegistryInit, RegistryTypeOK
  <1>3. PlatformInit => StoreTypeOK /\ UploadsTypeOK
    BY DEF PlatformInit, StoreInit, StoreTypeOK, UploadsTypeOK
  <1>4. QED
    BY <1>1, <1>2, <1>3 DEF PlatformInit, StoreInit, PlatformTypeOK

\* Every step keeps the types, and runs the procurement domain.
LEMMA PlatformTypeNext ==
  PlatformTypeOK /\ [PlatformNext]_platformVars => PlatformTypeOK' /\ [Next]_vars
  <1> SUFFICES ASSUME PlatformTypeOK, [PlatformNext]_platformVars
               PROVE  PlatformTypeOK' /\ [Next]_vars
    OBVIOUS
  <1>1. TypeOK /\ VersionsBounded /\ RegistryTypeOK
    BY DEF PlatformTypeOK
  <1>2. [Next]_vars
    BY <1>1, PlatformRuns
  <1>3. TypeOK' /\ VersionsBounded' /\ TermsStand
    BY <1>1, <1>2, NextType, VersionsNext, StepEffect
  <1>4. RegistryTypeOK' /\ StoreTypeOK' /\ UploadsTypeOK'
    BY <1>1, <1>3, RegistryNext, StoreNext, UploadsNext DEF TermsStand
  <1>5. QED
    BY <1>2, <1>3, <1>4 DEF PlatformTypeOK

\* Every state of the platform is well formed: posts, journal, files and the
\* uploads in flight name what exists (platform-service.js, operator-registry.js,
\* procurement-store.js).
THEOREM PlatformTypeCorrect == PlatformSpec => []PlatformTypeOK
  BY PlatformTypeInit, PlatformTypeNext, PTL DEF PlatformSpec

\* The platform changes the procurement domain by the domain's own commands and
\* in no other way, so what is proved of the domain holds on the platform
\* (platform-service.js only reaches it through store.execute).
THEOREM PlatformImplementsProcurement == PlatformSpec => Spec
  <1>1. PlatformInit => Init
    BY DEF PlatformInit, StoreInit
  <1>2. PlatformTypeOK /\ [PlatformNext]_platformVars => [Next]_vars
    BY PlatformTypeNext
  <1>3. QED
    BY <1>1, <1>2, PlatformTypeCorrect, PTL DEF PlatformSpec, Spec

\* A person and a wallet never hold two posts at once (operator-registry.js).
THEOREM PostsAlwaysExclusive == PlatformSpec => []PostsExclusive
  <1>1. PlatformInit => PostsExclusive
    BY PlatformAssumption DEF PlatformInit, RegistryInit, PostsExclusive
  <1>2. PlatformTypeOK /\ PostsExclusive /\ [PlatformNext]_platformVars => PostsExclusive'
    BY ExclusiveNext DEF PlatformTypeOK
  <1>3. QED
    BY <1>1, <1>2, PlatformTypeCorrect, PTL DEF PlatformSpec

-----------------------------------------------------------------------------
(* Evidence *)

\* An upload adds one file to its contract, no other step adds any.
LEMMA QuotaNext ==
  PlatformTypeOK /\ EvidenceWithinQuota /\ [PlatformNext]_platformVars => EvidenceWithinQuota'
  <1> SUFFICES ASSUME PlatformTypeOK, EvidenceWithinQuota, [PlatformNext]_platformVars
               PROVE  EvidenceWithinQuota'
    OBVIOUS
  <1>1. StoreTypeOK
    BY DEF PlatformTypeOK
  <1>2. ASSUME DOMAIN evidence' = DOMAIN evidence,
               \A e \in DOMAIN evidence : evidence'[e].contract = evidence[e].contract
        PROVE  EvidenceWithinQuota'
    <2>1. \A c \in ContractIds : FilesOf(c)' = FilesOf(c)
      BY <1>2 DEF FilesOf
    <2>2. QED
      BY <2>1 DEF EvidenceWithinQuota
  <1>3. CASE Uploaded
    <2>1. PICK f \in FileRecord : WithinQuota(f.contract) /\ evidence' = Append(evidence, f)
      BY <1>3 DEF Uploaded
    <2> DEFINE s == evidence
    <2>2. s \in Seq(FileRecord)
      BY <1>1 DEF StoreTypeOK
    <2> HIDE DEF s
    <2>3. /\ Len(s) \in Nat /\ DOMAIN s = 1..Len(s)
          /\ DOMAIN Append(s, f) = DOMAIN s \cup {Len(s) + 1} /\ Len(s) + 1 \notin DOMAIN s
          /\ Append(s, f)[Len(s) + 1] = f
          /\ \A e \in DOMAIN s : Append(s, f)[e] = s[e]
      BY <2>2
    <2>4. \A c \in ContractIds :
            FilesOf(c)' = IF c = f.contract THEN FilesOf(c) \cup {Len(s) + 1} ELSE FilesOf(c)
      BY <2>1, <2>3 DEF FilesOf, s
    <2>5. ASSUME NEW c \in ContractIds PROVE IsFiniteSet(FilesOf(c)) /\ Len(s) + 1 \notin FilesOf(c)
      <3>1. FilesOf(c) \in SUBSET (1..Len(s)) /\ IsFiniteSet(1..Len(s))
        BY <2>3, FS_Interval DEF FilesOf, s
      <3>2. QED
        BY <2>3, <3>1, FS_Subset
    <2>6. ASSUME NEW c \in ContractIds PROVE Cardinality(FilesOf(c)') <= MaxFiles
      <3>1. CASE c = f.contract
        <4>1. Cardinality(FilesOf(c)) \in Nat /\ Cardinality(FilesOf(c)) < MaxFiles
          BY <2>1, <2>5, <3>1, FS_CardinalityType DEF WithinQuota
        <4>2. Cardinality(FilesOf(c) \cup {Len(s) + 1}) = Cardinality(FilesOf(c)) + 1
          BY <2>5, FS_AddElement
        <4>3. FilesOf(c)' = FilesOf(c) \cup {Len(s) + 1}
          BY <2>4, <3>1
        <4>4. Cardinality(FilesOf(c)') = Cardinality(FilesOf(c)) + 1
          BY <4>2, <4>3
        <4>5. QED
          BY <4>1, <4>4, StoreAssumption
      <3>2. CASE c # f.contract
        BY <2>4, <3>2 DEF EvidenceWithinQuota
      <3>3. QED
        BY <3>1, <3>2
    <2>7. QED
      BY <2>6 DEF EvidenceWithinQuota
  <1>4. CASE UNCHANGED storeVars
    BY <1>2, <1>4 DEF storeVars
  <1>5. CASE Commands
    BY <1>2, <1>5 DEF Commands
  <1>6. ASSUME NEW b, NEW p, Assesses(b, p) PROVE EvidenceWithinQuota'
    BY <1>1, <1>2, <1>6, AttestsType DEF Assesses
  <1>7. QED
    BY <1>3, <1>4, <1>5, <1>6, StoreEffect

\* The files of a contract never exceed its quota, however uploads overlap
\* (procurement-store.js, putEvidence).
THEOREM EvidenceAlwaysWithinQuota == PlatformSpec => []EvidenceWithinQuota
  <1>1. PlatformInit => EvidenceWithinQuota
    <2>1. PlatformInit => \A c \in ContractIds : FilesOf(c) = {}
      BY DEF PlatformInit, StoreInit, FilesOf
    <2>2. QED
      BY <2>1, FS_EmptySet, StoreAssumption DEF EvidenceWithinQuota
  <1>2. QED
    BY <1>1, QuotaNext, PlatformTypeCorrect, PTL DEF PlatformSpec

-----------------------------------------------------------------------------
(* Material behind every assessment *)

\* What is logged and what is bound stays.
RecordsKept ==
  /\ \A i \in DOMAIN journal : i \in DOMAIN journal' /\ journal'[i] = journal[i]
  /\ \A e \in DOMAIN evidence :
       e \in DOMAIN evidence' /\ (evidence[e].boundTo # 0 => evidence'[e] = evidence[e])

\* Journal and bound evidence are append-only.
LEMMA RecordsStay ==
  ASSUME PlatformTypeOK, [PlatformNext]_platformVars
  PROVE  RecordsKept
  <1>1. StoreTypeOK
    BY DEF PlatformTypeOK
  <1>2. CASE UNCHANGED storeVars
    BY <1>2 DEF storeVars, RecordsKept
  <1>3. CASE Uploaded
    <2>1. PICK f : evidence' = Append(evidence, f)
      BY <1>3 DEF Uploaded
    <2> DEFINE s == evidence
    <2>2. s \in Seq(FileRecord)
      BY <1>1 DEF StoreTypeOK
    <2> HIDE DEF s
    <2>3. \A e \in DOMAIN s : e \in DOMAIN Append(s, f) /\ Append(s, f)[e] = s[e]
      BY <2>2
    <2>4. QED
      BY <1>3, <2>1, <2>3 DEF Uploaded, RecordsKept, s
  <1>4. ASSUME NEW m, NEW u, NEW x, Logs(m, u, x)
        PROVE  \A i \in DOMAIN journal : i \in DOMAIN journal' /\ journal'[i] = journal[i]
    <2>1. /\ DOMAIN journal' = 1..Len(journal) + 1 /\ DOMAIN journal = 1..Len(journal)
          /\ Len(journal) \in Nat /\ \A i \in DOMAIN journal : journal'[i] = journal[i]
      BY <1>1, <1>4, LogsType
    <2>2. 1..Len(journal) \subseteq 1..Len(journal) + 1
      BY <2>1
    <2>3. QED
      BY <2>1, <2>2
  <1>5. CASE Commands
    BY <1>4, <1>5 DEF Commands, RecordsKept
  <1>6. ASSUME NEW m, NEW b, NEW p, Attests(m, b, p) PROVE RecordsKept
    BY <1>1, <1>4, <1>6, AttestsType DEF Attests, RecordsKept
  <1>7. QED
    BY <1>2, <1>3, <1>5, <1>6, StoreEffect DEF Assesses

\* Material shown for a record stays shown while the record's version stays.
LEMMA ShownStays ==
  ASSUME StoreTypeOK, RecordsKept, NEW b, batches'[b].version = batches[b].version,
         NEW m, NEW p, Shown(b, m, p)
  PROVE  Shown(b, m, p)'
  <1>1. PICK e \in DOMAIN evidence : Shows(e, b, m, p)
    BY DEF Shown
  <1>2. evidence[e].boundTo # 0 /\ evidence[e].boundTo \in DOMAIN journal
    BY <1>1 DEF Shows, StoreTypeOK
  <1>3. e \in DOMAIN evidence' /\ evidence'[e] = evidence[e]
    BY <1>2 DEF RecordsKept
  <1>4. Shows(e, b, m, p)'
    BY <1>1, <1>2, <1>3 DEF Shows, RecordsKept
  <1>5. QED
    BY <1>3, <1>4 DEF Shown

\* An attested command shows material for its record.
LEMMA AttestsShows ==
  ASSUME StoreTypeOK, NEW m, NEW b, NEW p, Attests(m, b, p)
  PROVE  Shown(b, m, p)'
  <1>1. PICK ids \in SUBSET DOMAIN evidence :
          /\ ids # {}
          /\ evidence' = [e \in DOMAIN evidence |->
               IF e \in ids THEN [evidence[e] EXCEPT !.boundTo = Len(journal) + 1] ELSE evidence[e]]
          /\ \A e \in ids :
               /\ evidence[e].batch = b /\ evidence[e].method = m
               /\ evidence[e].version = batches'[b].version /\ evidence[e].actor = p
    BY DEF Attests
  <1>2. PICK e \in ids : TRUE
    BY <1>1
  <1>3. /\ Len(journal) + 1 \in DOMAIN journal'
        /\ journal'[Len(journal) + 1] = [method |-> m, actorId |-> p.id, subject |-> b]
    BY LogsType DEF Attests
  <1> DEFINE f == [evidence[e] EXCEPT !.boundTo = Len(journal) + 1]
  <1>4. e \in DOMAIN evidence /\ evidence[e] \in FileRecord
    BY SeqElements DEF StoreTypeOK
  <1>5. /\ f.boundTo = Len(journal) + 1 /\ f.batch = b /\ f.method = m
        /\ f.version = batches'[b].version /\ f.actor = p
    BY <1>1, <1>4 DEF FileRecord
  <1>6. e \in DOMAIN evidence' /\ evidence'[e] = f
    BY <1>1, <1>4
  <1> HIDE DEF f
  <1>7. Shows(e, b, m, p)'
    BY <1>3, <1>5, <1>6 DEF Shows
  <1>8. QED
    BY <1>6, <1>7 DEF Shown

\* A batch nobody assesses stays documented.
LEMMA BatchShownStays ==
  ASSUME StoreTypeOK, RecordsKept, NEW b, BatchShown(b),
         batches'[b].version = batches[b].version,
         batches'[b].deliveryActor = batches[b].deliveryActor,
         batches'[b].acceptance = batches[b].acceptance, batches'[b].review = batches[b].review
  PROVE  BatchShown(b)'
  <1>1. PICK d, a, v : /\ d = batches[b].deliveryActor /\ a = batches[b].acceptance
                       /\ v = batches[b].review
    OBVIOUS
  <1>2. \A m, p : Shown(b, m, p) => Shown(b, m, p)'
    BY ShownStays
  <1>3. /\ Shown(b, "deliverBatch", d)
        /\ a # None => Shown(b, "acceptBatch", a)
        /\ v # None => Shown(b, "resolveDispute", v)
    BY <1>1 DEF BatchShown
  <1>4. /\ Shown(b, "deliverBatch", d)'
        /\ a # None => Shown(b, "acceptBatch", a)'
        /\ v # None => Shown(b, "resolveDispute", v)'
    BY <1>2, <1>3
  <1>5. d = batches'[b].deliveryActor /\ a = batches'[b].acceptance /\ v = batches'[b].review
    BY <1>1
  <1>6. QED
    BY <1>4, <1>5 DEF BatchShown

\* Every step keeps all assessments documented.
LEMMA ShownNext ==
  PlatformTypeOK /\ AllShown /\ StatusTells /\ [PlatformNext]_platformVars
    => AllShown' /\ StatusTells'
  <1> SUFFICES ASSUME PlatformTypeOK, AllShown, StatusTells, [PlatformNext]_platformVars
               PROVE  AllShown' /\ StatusTells'
    OBVIOUS
  <1>1. StoreTypeOK /\ RecordsKept
    BY RecordsStay DEF PlatformTypeOK
  <1>2. CASE PeopleStay
    BY <1>1, <1>2, BatchShownStays DEF PeopleStay, AllShown, StatusTells
  <1>3. ASSUME NEW b, NEW p, Assesses(b, p) PROVE AllShown' /\ StatusTells'
    <2>1. OnlyBatch(b) /\ p # None
      BY <1>3, NoneAssumption DEF Assesses, DeliveredBy, AcceptedBy, ReviewedBy, Attests
    <2>2. \A x \in DOMAIN batches : x # b => BatchShown(x)'
      BY <1>1, <2>1, BatchShownStays DEF OnlyBatch, AllShown
    <2>3. CASE DeliveredBy(b, p) /\ Attests("deliverBatch", b, p)
      <3>1. Shown(b, "deliverBatch", p)'
        BY <1>1, <2>3, AttestsShows
      <3>2. BatchShown(b)'
        BY <2>3, <3>1 DEF BatchShown, DeliveredBy
      <3>3. QED
        BY <2>1, <2>2, <2>3, <3>2 DEF AllShown, StatusTells, OnlyBatch, DeliveredBy
    <2>4. CASE AcceptedBy(b, p) /\ Attests("acceptBatch", b, p)
      <3>1. Shown(b, "acceptBatch", p)'
        BY <1>1, <2>4, AttestsShows
      <3>2. b \in DOMAIN batches /\ batches[b].review = None /\ BatchShown(b)
        BY <2>4 DEF AcceptedBy, SameGoods, StatusTells, AllShown
      <3>3. PICK d : d = batches[b].deliveryActor
        OBVIOUS
      <3>4. Shown(b, "deliverBatch", d)'
        BY <1>1, <2>4, <3>2, <3>3, ShownStays DEF AcceptedBy, SameGoods, BatchShown
      <3>5. BatchShown(b)'
        BY <2>4, <3>1, <3>2, <3>3, <3>4 DEF BatchShown, AcceptedBy, SameGoods
      <3>6. QED
        BY <2>1, <2>2, <2>4, <3>2, <3>5 DEF AllShown, StatusTells, OnlyBatch, AcceptedBy
    <2>5. CASE ReviewedBy(b, p) /\ Attests("resolveDispute", b, p)
      <3>1. Shown(b, "resolveDispute", p)'
        BY <1>1, <2>5, AttestsShows
      <3>2. b \in DOMAIN batches /\ batches[b].acceptance # None /\ BatchShown(b)
        BY <2>5 DEF ReviewedBy, SameGoods, StatusTells, AllShown
      <3>3. PICK d, a : d = batches[b].deliveryActor /\ a = batches[b].acceptance
        OBVIOUS
      <3>4. Shown(b, "deliverBatch", d)' /\ Shown(b, "acceptBatch", a)'
        BY <1>1, <2>5, <3>2, <3>3, ShownStays DEF ReviewedBy, SameGoods, BatchShown
      <3>5. BatchShown(b)'
        BY <2>5, <3>1, <3>2, <3>3, <3>4 DEF BatchShown, ReviewedBy, SameGoods
      <3>6. QED
        BY <2>1, <2>2, <2>5, <3>2, <3>5 DEF AllShown, StatusTells, OnlyBatch, ReviewedBy
    <2>6. QED
      BY <1>3, <2>3, <2>4, <2>5 DEF Assesses
  <1>4. UNCHANGED storeVars \/ Uploaded \/ Commands => PeopleStay
    BY SameBatches DEF storeVars, vars, Uploaded, Commands
  <1>5. QED
    BY <1>2, <1>3, <1>4, StoreEffect

\* Every assessment was made with material.
LEMMA AlwaysShown == PlatformSpec => [](AllShown /\ StatusTells)
  <1>1. PlatformInit => AllShown /\ StatusTells
    BY DEF PlatformInit, StoreInit, Init, AllShown, StatusTells
  <1>2. QED
    BY <1>1, ShownNext, PlatformTypeCorrect, PTL DEF PlatformSpec

\* Every payable rests on material of its own batch and version, uploaded by the
\* very people who delivered, accepted and reviewed it (procurement-store.js,
\* validateEvidenceScope; platform-service.js, derivePayable).
THEOREM PayablesAlwaysAttested == PlatformSpec => []PayablesAttested
  <1>1. ASSUME PlatformTypeOK, AllShown, StatusTells, PaymentsAreEarned PROVE PayablesAttested
    <2>1. \A m, p, b : Shown(b, m, p) =>
            \E e \in DOMAIN evidence :
              /\ evidence[e].boundTo # 0
              /\ evidence[e].batch = b /\ evidence[e].version = batches[b].version
              /\ evidence[e].method = m /\ evidence[e].actor = p
              /\ journal[evidence[e].boundTo] = [method |-> m, actorId |-> p.id, subject |-> b]
      <3>1. \A i \in DOMAIN journal : i # 0
        BY <1>1 DEF PlatformTypeOK, StoreTypeOK
      <3>2. QED
        BY <3>1 DEF Shown, Shows
    <2>2. \A b \in DOMAIN payables :
            b \in DOMAIN batches /\ batches[b].status \in {"ACCEPTED", "PARTIAL"}
      BY <1>1, BillMatchesSame DEF PlatformTypeOK, TypeOK, NoDanglingIds, PaymentsAreEarned,
         BillMatches
    <2>3. \A b \in DOMAIN payables : batches[b].acceptance # None /\ BatchShown(b)
      BY <1>1, <2>2 DEF AllShown, StatusTells
    <2>4. QED
      BY <2>1, <2>3 DEF PayablesAttested, BatchShown
  <1>2. QED
    BY <1>1, PlatformTypeCorrect, AlwaysShown, PlatformImplementsProcurement,
       PaymentsAlwaysEarned, PTL

-----------------------------------------------------------------------------
(* Independent reviewers *)

\* An account that neither quoted q, reserved r, created or signed c, nor
\* delivered, accepted or billed b.
Unhanded(user, q, r, c, b) ==
  /\ ~Did(user, {"addQuote"}, {q})
  /\ ~Did(user, {"reserve"}, {r})
  /\ ~Did(user, {"createContract", "signContract"}, {c})
  /\ ~Did(user, {"deliverBatch", "acceptBatch", "derivePayable"}, {b})
ReviewUnhanded(b) ==
  Unhanded(batches[b].review.id, reservations[Current(batches[b].contract).reservation].quote,
           Current(batches[b].contract).reservation, batches[b].contract, b)

\* Reviewer independence, one batch at a time.
LEMMA IndependentSame ==
  ReviewerIndependent <=> \A b \in DOMAIN batches : batches[b].review # None => ReviewUnhanded(b)
  BY DEF ReviewerIndependent, ReviewUnhanded, Unhanded

\* Reservations keep the quote they were taken from.
LEMMA QuotesStay ==
  ASSUME TypeOK, [Next]_vars
  PROVE  \A r \in DOMAIN reservations :
           r \in DOMAIN reservations' /\ reservations'[r].quote = reservations[r].quote
  <1> DEFINE G == \A r \in DOMAIN reservations :
                    r \in DOMAIN reservations' /\ reservations'[r].quote = reservations[r].quote
  <1>1. UNCHANGED reservations => G
    OBVIOUS
  <1>2. ASSUME NEW r, NEW q, NEW task, NEW n, NEW buyer, NEW now,
               Reserve(r, q, task, n, buyer, now)
        PROVE  G
    BY <1>2 DEF Reserve, Put
  <1>3. \A r \in DOMAIN reservations : reservations[r] \in ReservationRecord
    BY DEF TypeOK, Collection
  <1>4. ASSUME NEW c, NEW r, NEW n, NEW t, NEW now, CreateContract(c, r, n, t, now)
        PROVE  G
    BY <1>3, <1>4 DEF CreateContract, ReservationRecord
  <1>5. ASSUME NEW c, NEW r, NEW n, NEW t, NEW now, ReviseContract(c, r, n, t, now)
        PROVE  G
    BY <1>3, <1>5 DEF ReviseContract, ReservationRecord
  <1>6. ASSUME NEW q, NEW input, AddQuote(q, input) PROVE UNCHANGED reservations
    BY <1>6 DEF AddQuote
  <1>7. ASSUME NEW c, NEW v, NEW side, NEW w, NEW now, SignContract(c, v, side, w, now)
        PROVE  UNCHANGED reservations
    BY <1>7 DEF SignContract
  <1>8. ASSUME NEW c, NEW v, NEW e, NEW h, NEW receipt, RecordEscrowConfirmed(c, v, e, h, receipt)
        PROVE  UNCHANGED reservations
    BY <1>8 DEF RecordEscrowConfirmed
  <1>9. Contracting => G
    BY <1>1, <1>2, <1>4, <1>5, <1>6, <1>7, <1>8 DEF Contracting
  <1>10. Fulfilment => UNCHANGED reservations
    <2>1. ASSUME NEW b, NEW c, NEW n, NEW p, DeliverBatch(b, c, n, p) PROVE UNCHANGED reservations
      BY <2>1 DEF DeliverBatch
    <2>2. ASSUME NEW b, NEW outcome, NEW n, NEW p, AcceptBatch(b, outcome, n, p)
          PROVE  UNCHANGED reservations
      BY <2>2 DEF AcceptBatch
    <2>3. ASSUME NEW b, NEW n, NEW p, NEW a, ResolveDispute(b, n, p, a)
          PROVE  UNCHANGED reservations
      BY <2>3 DEF ResolveDispute
    <2>4. ASSUME NEW b, NEW a, NEW p, AssignReviewer(b, a, p) PROVE UNCHANGED reservations
      BY <2>4 DEF AssignReviewer
    <2>5. QED
      BY <2>1, <2>2, <2>3, <2>4 DEF Fulfilment
  <1>11. ASSUME NEW b, NEW m, NEW p, MarkPaymentPending(b, m, p) PROVE UNCHANGED reservations
    BY <1>11 DEF MarkPaymentPending
  <1>12. Settlement => UNCHANGED reservations
    BY <1>11 DEF Settlement, DerivePayable, ConfirmPayment
  <1>13. QED
    BY <1>1, <1>9, <1>10, <1>12 DEF Next, vars

\* What an account did before a command, and with it.
LEMMA DidNext ==
  ASSUME StoreTypeOK, NEW m, NEW u, NEW x, Logs(m, u, x), NEW user, NEW ms, NEW xs,
         Did(user, ms, xs)'
  PROVE  Did(user, ms, xs) \/ (user = u /\ m \in ms /\ x \in xs)
  <1>1. /\ DOMAIN journal' = 1..Len(journal) + 1 /\ DOMAIN journal = 1..Len(journal)
        /\ Len(journal) \in Nat /\ \A i \in DOMAIN journal : journal'[i] = journal[i]
        /\ journal'[Len(journal) + 1] = [method |-> m, actorId |-> u, subject |-> x]
    BY LogsType
  <1>2. PICK i \in DOMAIN journal' :
          journal'[i].actorId = user /\ journal'[i].method \in ms /\ journal'[i].subject \in xs
    BY DEF Did
  <1>3. i \in DOMAIN journal \/ i = Len(journal) + 1
    BY <1>1, <1>2
  <1>4. QED
    BY <1>1, <1>2, <1>3 DEF Did

\* With the journal as it is, nobody is found to have done more.
LEMMA DidStays ==
  ASSUME NEW user, NEW ms, NEW xs, UNCHANGED journal, Did(user, ms, xs)'
  PROVE  Did(user, ms, xs)
  BY DEF Did

\* Whoever had a hand in a contract is among its participants.
LEMMA ParticipantsCover ==
  ASSUME TypeOK, NEW c \in DOMAIN contracts, NEW b \in BatchesOf(c), NEW r, NEW q, NEW user,
         r = Current(c).reservation, q = reservations[r].quote, user \notin Participants(c)
  PROVE  Unhanded(user, q, r, c, b)
  <1>1. r \in {t.reservation : t \in {contracts[c].versions[v] : v \in DOMAIN contracts[c].versions}}
    BY CurrentType DEF Current
  <1>2. q \in {reservations[x].quote : x \in
                 {t.reservation : t \in {contracts[c].versions[v] : v \in DOMAIN contracts[c].versions}}}
    BY <1>1
  <1>3. ASSUME NEW i \in DOMAIN journal,
               \/ journal[i].method \in {"addQuote"} /\ journal[i].subject \in {q}
               \/ journal[i].method \in {"reserve"} /\ journal[i].subject \in {r}
               \/ journal[i].method \in {"createContract", "signContract"} /\ journal[i].subject \in {c}
               \/ /\ journal[i].method \in {"deliverBatch", "acceptBatch", "derivePayable"}
                  /\ journal[i].subject \in {b}
        PROVE  journal[i].actorId # user
    <2>1. CASE journal[i].method = "addQuote" /\ journal[i].subject = q
      BY <1>2, <2>1 DEF ConcernsContract, Participants
    <2>2. CASE journal[i].method = "reserve" /\ journal[i].subject = r
      BY <1>1, <2>2 DEF ConcernsContract, Participants
    <2>3. CASE journal[i].method \in {"createContract", "signContract"} /\ journal[i].subject = c
      BY <2>3 DEF ConcernsContract, Participants
    <2>4. CASE /\ journal[i].method \in {"deliverBatch", "acceptBatch", "derivePayable"}
               /\ journal[i].subject = b
      BY <2>4 DEF ConcernsContract, Participants
    <2>5. QED
      BY <1>3, <2>1, <2>2, <2>3, <2>4
  <1>4. QED
    BY <1>3 DEF Unhanded, Did

\* A recorded command keeps a reviewer's hands clean unless it is the reviewer's
\* own and about the same deal.
LEMMA UnhandedStays ==
  ASSUME StoreTypeOK, NEW m, NEW u, NEW x, Logs(m, u, x),
         NEW user, NEW q, NEW r, NEW c, NEW b, Unhanded(user, q, r, c, b),
         user = u =>
           /\ ~(m = "addQuote" /\ x = q) /\ ~(m = "reserve" /\ x = r)
           /\ ~(m \in {"createContract", "signContract"} /\ x = c)
           /\ ~(m \in {"deliverBatch", "acceptBatch", "derivePayable"} /\ x = b)
  PROVE  Unhanded(user, q, r, c, b)'
  <1>1. \A ms, xs : Did(user, ms, xs)' => Did(user, ms, xs) \/ (user = u /\ m \in ms /\ x \in xs)
    BY DidNext
  <1>2. ~Did(user, {"addQuote"}, {q})'
    BY <1>1 DEF Unhanded
  <1>3. ~Did(user, {"reserve"}, {r})'
    BY <1>1 DEF Unhanded
  <1>4. ~Did(user, {"createContract", "signContract"}, {c})'
    BY <1>1 DEF Unhanded
  <1>5. ~Did(user, {"deliverBatch", "acceptBatch", "derivePayable"}, {b})'
    BY <1>1 DEF Unhanded
  <1>6. QED
    BY <1>2, <1>3, <1>4, <1>5 DEF Unhanded

\* What the review of batch b is about stays.
DealKept(b) ==
  /\ b \in DOMAIN batches /\ batches'[b].review = batches[b].review
  /\ batches'[b].contract = batches[b].contract
\* The records a delivered batch goes back to stay the same.
LEMMA DealStays ==
  ASSUME PlatformTypeOK, [PlatformNext]_platformVars, NEW b, DealKept(b),
         NEW c, NEW r, NEW q, c = batches[b].contract, r = Current(c).reservation,
         q = reservations[r].quote
  PROVE  /\ c \in DOMAIN contracts /\ b \in BatchesOf(c) /\ r \in DOMAIN reservations
         /\ q \in DOMAIN quotes
         /\ batches'[b].contract = c /\ Current(c)'.reservation = r
         /\ reservations'[r].quote = q
  <1>1. TypeOK /\ [Next]_vars
    BY PlatformTypeNext DEF PlatformTypeOK
  <1>2. c \in DOMAIN contracts /\ b \in BatchesOf(c)
    BY <1>1 DEF DealKept, TypeOK, NoDanglingIds, BatchesOf
  <1>3. r \in DOMAIN reservations
    BY <1>1, <1>2, CurrentType
  <1>4. q \in DOMAIN quotes
    BY <1>1, <1>3 DEF TypeOK, NoDanglingIds
  <1>5. Current(c)' = Current(c)
    BY <1>1, <1>2, StepEffect DEF TermsStand
  <1>6. QED
    BY <1>1, <1>2, <1>3, <1>4, <1>5, QuotesStay DEF DealKept

\* A command admitted by the separation of duties leaves earlier reviewers
\* independent.
LEMMA ReviewStays ==
  ASSUME PlatformTypeOK, [PlatformNext]_platformVars, NEW b, DealKept(b), ReviewUnhanded(b),
         NEW m, NEW u, NEW x, Logs(m, u, x),
         \/ Admits(m, u, x)
         \/ m \in {"deliverBatch", "acceptBatch", "resolveDispute"} /\ x # b
  PROVE  batches[b].review # None => ReviewUnhanded(b)'
  <1> SUFFICES ASSUME batches[b].review # None PROVE ReviewUnhanded(b)'
    OBVIOUS
  <1>1. PICK c, r, q, user : /\ c = batches[b].contract /\ r = Current(c).reservation
                             /\ q = reservations[r].quote /\ user = batches[b].review.id
    OBVIOUS
  <1>2. /\ c \in DOMAIN contracts /\ b \in BatchesOf(c) /\ r \in DOMAIN reservations
        /\ q \in DOMAIN quotes
        /\ batches'[b].contract = c /\ Current(c)'.reservation = r
        /\ reservations'[r].quote = q
    BY <1>1, DealStays
  <1>3. Unhanded(user, q, r, c, b)
    BY <1>1 DEF ReviewUnhanded
  <1>4. user = u =>
           /\ ~(m = "addQuote" /\ x = q) /\ ~(m = "reserve" /\ x = r)
           /\ ~(m \in {"createContract", "signContract"} /\ x = c)
           /\ ~(m \in {"deliverBatch", "acceptBatch", "derivePayable"} /\ x = b)
    BY <1>1, <1>2 DEF Admits
  <1>5. Unhanded(user, q, r, c, b)'
    BY <1>3, <1>4, UnhandedStays DEF PlatformTypeOK
  <1>6. user = batches'[b].review.id
    BY <1>1 DEF DealKept
  <1>7. QED
    BY <1>2, <1>5, <1>6 DEF ReviewUnhanded

\* Every step keeps reviewers independent.
LEMMA IndependentNext ==
  PlatformTypeOK /\ StatusTells /\ ReviewerIndependent /\ [PlatformNext]_platformVars
    => ReviewerIndependent'
  <1> SUFFICES ASSUME PlatformTypeOK, StatusTells, ReviewerIndependent,
                      [PlatformNext]_platformVars, NEW b \in DOMAIN batches',
                      batches'[b].review # None
               PROVE  ReviewUnhanded(b)'
    <2>1. ReviewerIndependent' <=>
            \A b \in DOMAIN batches' : batches'[b].review # None => ReviewUnhanded(b)'
      BY DEF ReviewerIndependent, ReviewUnhanded, Unhanded
    <2>2. QED
      BY <2>1
  <1>1. \A x \in DOMAIN batches : batches[x].review # None => ReviewUnhanded(x)
    BY IndependentSame
  <1>2. PlatformTypeOK /\ StoreTypeOK /\ TypeOK
    BY DEF PlatformTypeOK
  <1>3. CASE UNCHANGED storeVars \/ Uploaded
    <2>1. UNCHANGED <<vars, journal>>
      BY <1>3 DEF storeVars, Uploaded
    <2>2. UNCHANGED <<batches, contracts, reservations, journal>>
      BY <2>1 DEF vars
    <2>3. QED
      BY <1>1, <2>2 DEF ReviewUnhanded, Unhanded, Did, Current, Version
  <1>4. CASE Commands
    <2>1. PICK m, u, x : Logs(m, u, x) /\ Admits(m, u, x)
      BY <1>4 DEF Commands
    <2>2. DealKept(b) /\ batches[b].review # None
      BY <1>4 DEF Commands, PeopleStay, DealKept
    <2>3. ReviewUnhanded(b)
      BY <1>1, <2>2 DEF DealKept
    <2>4. QED
      BY <1>2, <2>1, <2>2, <2>3, ReviewStays
  <1>5. ASSUME NEW d, NEW p, Assesses(d, p) PROVE ReviewUnhanded(b)'
    <2>1. PICK m \in {"deliverBatch", "acceptBatch", "resolveDispute"} : Logs(m, p.id, d)
      BY <1>5 DEF Assesses, Attests
    <2>2. OnlyBatch(d)
      BY <1>5 DEF Assesses, DeliveredBy, AcceptedBy, ReviewedBy
    <2>3. CASE b # d
      <3>1. DealKept(b) /\ batches[b].review # None
        BY <2>2, <2>3 DEF OnlyBatch, DealKept
      <3>2. ReviewUnhanded(b)
        BY <1>1, <3>1 DEF DealKept
      <3>3. PICK u : u = p.id
        OBVIOUS
      <3>4. QED
        BY <1>2, <2>1, <2>3, <3>1, <3>2, ReviewStays
    <2>4. CASE b = d
      <3>1. ReviewedBy(b, p) /\ Attests("resolveDispute", b, p)
        BY <1>5, <2>4 DEF Assesses, DeliveredBy, AcceptedBy, SameGoods, StatusTells
      <3>2. PICK c, r, q : /\ c = batches[b].contract /\ r = Current(c).reservation
                           /\ q = reservations[r].quote
        OBVIOUS
      <3>3. /\ b \in DOMAIN batches /\ c \in DOMAIN contracts /\ b \in BatchesOf(c)
            /\ p.id \notin Participants(c) /\ UNCHANGED <<contracts, reservations>>
            /\ batches'[b].contract = c /\ batches'[b].review = p
        BY <1>2, <3>1, <3>2 DEF ReviewedBy, SameGoods, TypeOK, NoDanglingIds, BatchesOf
      <3>4. PICK user : user = p.id
        OBVIOUS
      <3>5. Unhanded(user, q, r, c, b)
        BY <1>2, <3>2, <3>3, <3>4, ParticipantsCover
      <3>6. Logs("resolveDispute", user, b)
        BY <3>1, <3>4 DEF Attests
      <3>7. Unhanded(user, q, r, c, b)'
        BY <1>2, <3>5, <3>6, UnhandedStays
      <3>8. Current(c)'.reservation = r /\ reservations'[r].quote = q
        BY <3>2, <3>3 DEF Current, Version
      <3>9. QED
        BY <3>3, <3>4, <3>7, <3>8 DEF ReviewUnhanded
    <2>5. QED
      BY <2>3, <2>4
  <1>6. QED
    BY <1>3, <1>4, <1>5, <1>2, StoreEffect

\* Whoever settled a dispute had no hand in what was disputed, before the review
\* and after it, under whatever posts the account held meanwhile
\* (platform-service.js, assertReviewSeparation).
THEOREM ReviewersAlwaysIndependent == PlatformSpec => []ReviewerIndependent
  <1>1. PlatformInit => ReviewerIndependent
    BY DEF PlatformInit, StoreInit, Init, ReviewerIndependent
  <1>2. QED
    BY <1>1, IndependentNext, PlatformTypeCorrect, AlwaysShown, PTL DEF PlatformSpec
=============================================================================
