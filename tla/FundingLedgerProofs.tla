------------------------- MODULE FundingLedgerProofs -------------------------
(***************************************************************************)
(* Proofs about FundingLedger, for every value of its constants: its types *)
(* and order, then its contracts: what they lock, pay and release adds up, *)
(* a closed task keeps nothing, donors' restrictions hold and the oldest   *)
(* money goes first.                                                       *)
(***************************************************************************)
EXTENDS FundingLedger, SumLemmas

-----------------------------------------------------------------------------
(* The helpers *)

\* Put sets one key and leaves the others.
LEMMA PutValue ==
  ASSUME NEW f, NEW k, NEW v
  PROVE  /\ DOMAIN Put(f, k, v) = DOMAIN f \cup {k}
         /\ Put(f, k, v)[k] = v
         /\ \A x \in DOMAIN f : x # k => Put(f, k, v)[x] = f[x]
  BY DEF Put

\* Storing under a known id keeps a collection keyed by its ids.
LEMMA PutKeyed ==
  ASSUME NEW f, NEW ids, Keyed(f, ids), NEW k \in ids, NEW v
  PROVE  Keyed(Put(f, k, v), ids)
  BY FS_AddElement DEF Put, Keyed

\* Storing a well-formed record keeps a collection well-formed.
LEMMA PutCollection ==
  ASSUME NEW f, NEW ids, NEW R, Collection(f, ids, R), NEW k \in ids, NEW v \in R
  PROVE  Collection(Put(f, k, v), ids, R)
  BY FS_AddElement DEF Put, Keyed, Collection

\* What a task or a contract can give is a capacity, and the order of arrival
\* ranks the donations strictly.
LEMMA AvailableForTaskType ==
  ASSUME TypeOK, NEW t
  PROVE  /\ Capacity(AvailableForTask(t))
         /\ DOMAIN AvailableForTask(t) = {d \in DOMAIN donations : <<t, d>> \in DOMAIN allocations}
         /\ \A d \in DOMAIN AvailableForTask(t) : AvailableForTask(t)[d] = allocations[<<t, d>>]
  <1>1. IsFiniteSet(DOMAIN AvailableForTask(t))
    BY FS_Subset DEF AvailableForTask, TypeOK, Collection, Keyed
  <1>2. QED
    BY <1>1 DEF AvailableForTask, TypeOK, Collection, Capacity

\* What remains of a contract's sources can be drawn from.
LEMMA RemainingType ==
  ASSUME TypeOK, NEW c \in DOMAIN contracts
  PROVE  /\ Capacity(Remaining(c))
         /\ DOMAIN Remaining(c) = DOMAIN contracts[c].sources
         /\ \A d \in DOMAIN contracts[c].sources :
              Remaining(c)[d] = contracts[c].sources[d].remaining
  <1>1. IsFiniteSet(DOMAIN contracts[c].sources)
    BY FS_Subset DEF TypeOK, Collection, Keyed
  <1>2. QED
    BY <1>1 DEF Remaining, TypeOK, Contract, Capacity

\* sourcesFrom takes something of each source it names, and no more than it has.
LEMMA SourcesFromType ==
  ASSUME NEW balance, Capacity(balance), NEW amount \in Amounts
  PROVE  /\ DOMAIN SourcesFrom(balance, amount) \subseteq DOMAIN balance
         /\ SourcesFrom(balance, amount) \in [DOMAIN SourcesFrom(balance, amount) -> Nat \ {0}]
         /\ \A d \in DOMAIN SourcesFrom(balance, amount) :
              SourcesFrom(balance, amount)[d] <= balance[d]
  <1> DEFINE taken == SourcesFrom(balance, amount)
  <1>1. amount \in Nat
    BY AmountsAssumption
  <1>2. \A d \in DOMAIN taken :
          d \in DOMAIN balance /\ taken[d] \in Nat \ {0} /\ taken[d] <= balance[d]
    BY <1>1, GreedyType DEF SourcesFrom
  <1>3. taken = [d \in DOMAIN taken |-> taken[d]]
    BY DEF SourcesFrom, Greedy
  <1>4. QED
    BY <1>2, <1>3
\* Spending from what is available leaves a well-formed donation.
LEMMA SpendType ==
  ASSUME TypeOK, NEW d \in DOMAIN donations, NEW amount \in Nat, amount <= donations[d].available,
         donations' = [donations EXCEPT ![d].available = @ - amount]
  PROVE  /\ Collection(donations', DonationIds, Donation)
         /\ DOMAIN donations' = DOMAIN donations
         /\ donations'[d] = [donations[d] EXCEPT !.available = @ - amount]
         /\ \A e \in DOMAIN donations : e # d => donations'[e] = donations[e]
  <1>1. donations \in [DOMAIN donations -> Donation] /\ donations[d] \in Donation
    BY DEF TypeOK, Collection
  <1>2. [donations[d] EXCEPT !.available = @ - amount] \in Donation
    BY <1>1 DEF Donation
  <1>3. QED
    BY <1>1, <1>2 DEF TypeOK, Collection, Keyed

-----------------------------------------------------------------------------
(* What a lock, a payment and a release do, entry by entry *)

\* What a lock takes from the task's allocations, and a payment from the
\* contract's sources.
LockTakes(t, amount) == SourcesFrom(AvailableForTask(t), amount)
PayTakes(c, amount)  == SourcesFrom(Remaining(c), amount)

Locking(c, t, amount) ==
  /\ c \notin DOMAIN contracts /\ t \in DOMAIN tasks /\ tasks[t].status = "OPEN"
  /\ amount <= Total(AvailableForTask(t))
  /\ LockTakes(t, amount) \in [DOMAIN LockTakes(t, amount) -> Nat \ {0}]
  /\ \A d \in DOMAIN LockTakes(t, amount) :
       /\ d \in DOMAIN donations /\ <<t, d>> \in DOMAIN allocations
       /\ LockTakes(t, amount)[d] <= allocations[<<t, d>>]
  /\ DOMAIN allocations' = DOMAIN allocations
  /\ Collection(allocations', (DOMAIN tasks) \X (DOMAIN donations), Nat)
  /\ \A x \in DOMAIN tasks, d \in DOMAIN donations : <<x, d>> \in DOMAIN allocations =>
       allocations'[<<x, d>>] =
         allocations[<<x, d>>] - (IF x = t THEN Entry(LockTakes(t, amount), d) ELSE 0)
  /\ DOMAIN contracts' = DOMAIN contracts \cup {c}
  /\ \A x \in DOMAIN contracts : x # c /\ contracts'[x] = contracts[x]
  /\ contracts'[c] \in Contract(DOMAIN LockTakes(t, amount))
  /\ contracts'[c].task = t /\ contracts'[c].amount = amount
  /\ contracts'[c].released = 0 /\ contracts'[c].status = "LOCKED"
  /\ \A d \in DOMAIN LockTakes(t, amount) :
       /\ contracts'[c].sources[d].amount = LockTakes(t, amount)[d]
       /\ contracts'[c].sources[d].remaining = LockTakes(t, amount)[d]
  /\ UNCHANGED <<donations, tasks, payments, refunds>>

\* A lock moves its amount, split over the task's donations, to the contract.
LEMMA LockEffect ==
  ASSUME TypeOK, NEW c \in ContractIds, NEW t \in TaskIds, NEW recipient \in Payees,
         NEW amount \in Amounts, ContractLocked(c, t, recipient, amount)
  PROVE  Locking(c, t, amount)
  <1> DEFINE taken == LockTakes(t, amount)
             sources == [d \in DOMAIN taken |-> [amount |-> taken[d], remaining |-> taken[d]]]
             new == [task |-> t, recipient |-> recipient, amount |-> amount, released |-> 0,
                     status |-> "LOCKED", sources |-> sources]
  <1>1. /\ taken \in [DOMAIN taken -> Nat \ {0}]
        /\ \A d \in DOMAIN taken : /\ d \in DOMAIN donations /\ <<t, d>> \in DOMAIN allocations
                                  /\ taken[d] <= allocations[<<t, d>>]
    BY AvailableForTaskType, SourcesFromType DEF LockTakes
  <1>2. /\ contracts' = Put(contracts, c, new)
        /\ allocations' = [a \in DOMAIN allocations |->
             IF a[1] = t /\ a[2] \in DOMAIN taken THEN allocations[a] - taken[a[2]]
             ELSE allocations[a]]
        /\ c \notin DOMAIN contracts /\ t \in DOMAIN tasks /\ tasks[t].status = "OPEN"
        /\ amount <= Total(AvailableForTask(t))
        /\ UNCHANGED <<donations, tasks, payments, refunds>>
    BY DEF ContractLocked, LockTakes
  <1> HIDE DEF taken
  <1>3. sources \in [DOMAIN taken -> [amount : Nat \ {0}, remaining : Nat]]
    BY <1>1
  <1>4. ASSUME NEW x \in DOMAIN tasks, NEW d \in DOMAIN donations, <<x, d>> \in DOMAIN allocations
        PROVE  allocations'[<<x, d>>] =
                 allocations[<<x, d>>] - (IF x = t THEN Entry(taken, d) ELSE 0)
    <2>1. allocations[<<x, d>>] \in Nat
      BY <1>4 DEF TypeOK, Collection
    <2>2. QED
      BY <1>2, <1>4, <2>1 DEF Entry
  <1>5. \A d \in DOMAIN taken : sources[d].amount = taken[d] /\ sources[d].remaining = taken[d]
    OBVIOUS
  <1> HIDE DEF sources
  <1>6. /\ new \in Contract(DOMAIN taken)
        /\ new.task = t /\ new.amount = amount /\ new.released = 0 /\ new.status = "LOCKED"
        /\ new.sources = sources
    BY <1>3, InputsAssumption DEF Contract
  <1> HIDE DEF new
  <1>7. /\ DOMAIN contracts' = DOMAIN contracts \cup {c} /\ contracts'[c] = new
        /\ \A x \in DOMAIN contracts : x # c /\ contracts'[x] = contracts[x]
    BY <1>2 DEF Put
  <1>8. /\ DOMAIN allocations' = DOMAIN allocations
        /\ Collection(allocations', (DOMAIN tasks) \X (DOMAIN donations), Nat)
    <2>1. \A a \in DOMAIN allocations : a = <<a[1], a[2]>>
      BY DEF TypeOK, Collection, Keyed
    <2>2. QED
      BY <1>1, <1>2, <2>1 DEF TypeOK, Collection, Keyed
  <1>9. QED
    BY <1>1, <1>2, <1>4, <1>5, <1>6, <1>7, <1>8 DEF taken, Locking

Paying(m, c, amount) ==
  /\ c \in DOMAIN contracts /\ m \notin DOMAIN payments /\ contracts[c].status = "LOCKED"
  /\ amount <= Total(Remaining(c))
  /\ PayTakes(c, amount) \in [DOMAIN PayTakes(c, amount) -> Nat \ {0}]
  /\ \A d \in DOMAIN PayTakes(c, amount) :
       /\ d \in DOMAIN contracts[c].sources
       /\ PayTakes(c, amount)[d] <= contracts[c].sources[d].remaining
  /\ DOMAIN contracts' = DOMAIN contracts
  /\ \A x \in DOMAIN contracts : x # c => contracts'[x] = contracts[x]
  /\ contracts'[c] \in Contract(DOMAIN contracts[c].sources)
  /\ contracts'[c].task = contracts[c].task /\ contracts'[c].amount = contracts[c].amount
  /\ contracts'[c].released = contracts[c].released /\ contracts'[c].status = "LOCKED"
  /\ \A d \in DOMAIN contracts[c].sources :
       /\ contracts'[c].sources[d].amount = contracts[c].sources[d].amount
       /\ contracts'[c].sources[d].remaining =
            contracts[c].sources[d].remaining - Entry(PayTakes(c, amount), d)
  /\ DOMAIN payments' = DOMAIN payments \cup {m}
  /\ \A x \in DOMAIN payments : x # m /\ payments'[x] = payments[x]
  /\ payments'[m] \in Payment(DOMAIN PayTakes(c, amount))
  /\ payments'[m].contract = c /\ payments'[m].task = contracts[c].task
  /\ payments'[m].amount = amount /\ payments'[m].sources = PayTakes(c, amount)
  /\ UNCHANGED <<donations, tasks, allocations, refunds>>

\* A batch payment takes its amount from the contract's sources.
LEMMA PayEffect ==
  ASSUME TypeOK, NEW m \in PaymentIds, NEW c \in ContractIds, NEW batch \in BatchIds,
         NEW recipient \in Wallets, NEW amount \in Amounts,
         BatchPaid(m, c, batch, recipient, amount)
  PROVE  Paying(m, c, amount)
  <1> DEFINE taken == PayTakes(c, amount)
             old == contracts[c].sources
             D == DOMAIN old
             sources == Drawn(old, taken)
             new == [contract |-> c, batch |-> batch, task |-> contracts[c].task,
                     recipient |-> recipient, amount |-> amount, sources |-> taken]
  <1>1. /\ c \in DOMAIN contracts /\ contracts[c] \in Contract(D) /\ contracts[c].task \in TaskIds
        /\ m \notin DOMAIN payments /\ contracts[c].status = "LOCKED"
        /\ amount <= Total(Remaining(c))
        /\ UNCHANGED <<donations, tasks, allocations, refunds>>
    BY DEF BatchPaid, TypeOK, Contract
  <1>2. /\ DOMAIN taken \subseteq D
        /\ taken \in [DOMAIN taken -> Nat \ {0}]
        /\ \A d \in DOMAIN taken : taken[d] <= old[d].remaining
    BY <1>1, RemainingType, SourcesFromType DEF PayTakes
  <1>3. contracts' = [contracts EXCEPT ![c].sources = sources] /\ payments' = Put(payments, m, new)
    BY DEF BatchPaid, PayTakes
  <1> HIDE DEF taken
  <1>4. /\ sources \in [D -> [amount : Nat \ {0}, remaining : Nat]]
        /\ \A d \in D : /\ sources[d].amount = old[d].amount
                       /\ sources[d].remaining = old[d].remaining - Entry(taken, d)
    <2>1. \A d \in D : old[d] \in [amount : Nat \ {0}, remaining : Nat]
      BY <1>1 DEF Contract
    <2>2. ASSUME NEW d \in D
          PROVE  /\ sources[d] \in [amount : Nat \ {0}, remaining : Nat]
                 /\ sources[d].amount = old[d].amount
                 /\ sources[d].remaining = old[d].remaining - Entry(taken, d)
      <3>1. CASE d \in DOMAIN taken
        BY <1>2, <2>1, <3>1 DEF Drawn, Entry
      <3>2. CASE d \notin DOMAIN taken
        BY <2>1, <3>2 DEF Drawn, Entry
      <3>3. QED
        BY <3>1, <3>2
    <2>3. sources = [d \in D |-> sources[d]]
      BY DEF Drawn
    <2> HIDE DEF sources
    <2>4. QED
      BY <2>2, <2>3
  <1>5. /\ new \in Payment(DOMAIN taken) /\ new.contract = c /\ new.task = contracts[c].task
        /\ new.amount = amount /\ new.sources = taken
    BY <1>1, <1>2 DEF Payment
  <1> HIDE DEF sources
  <1>6. /\ DOMAIN contracts' = DOMAIN contracts
        /\ contracts'[c] \in Contract(D) /\ contracts'[c].sources = sources
        /\ contracts'[c].task = contracts[c].task /\ contracts'[c].amount = contracts[c].amount
        /\ contracts'[c].released = contracts[c].released
        /\ contracts'[c].status = contracts[c].status
        /\ \A x \in DOMAIN contracts : x # c => contracts'[x] = contracts[x]
    BY <1>1, <1>3, <1>4 DEF Contract
  <1> HIDE DEF new
  <1>7. /\ DOMAIN payments' = DOMAIN payments \cup {m} /\ payments'[m] = new
        /\ \A x \in DOMAIN payments : x # m /\ payments'[x] = payments[x]
    BY <1>1, <1>3 DEF Put
  <1>8. QED
    BY <1>1, <1>2, <1>4, <1>5, <1>6, <1>7 DEF taken, Paying

Releasing(c, released) ==
  /\ c \in DOMAIN contracts /\ contracts[c].status = "LOCKED"
  /\ released = Total(Remaining(c)) /\ released \in Nat
  /\ DOMAIN contracts' = DOMAIN contracts
  /\ \A x \in DOMAIN contracts : x # c => contracts'[x] = contracts[x]
  /\ contracts'[c] \in Contract(DOMAIN contracts[c].sources)
  /\ contracts'[c].task = contracts[c].task /\ contracts'[c].amount = contracts[c].amount
  /\ contracts'[c].status = "CLOSED" /\ contracts'[c].released = released
  /\ \A d \in DOMAIN contracts[c].sources :
       /\ contracts'[c].sources[d].amount = contracts[c].sources[d].amount
       /\ contracts'[c].sources[d].remaining = 0
  /\ DOMAIN allocations' = DOMAIN allocations
  /\ Collection(allocations', (DOMAIN tasks) \X (DOMAIN donations), Nat)
  /\ \A x \in DOMAIN tasks, d \in DOMAIN donations : <<x, d>> \in DOMAIN allocations =>
       allocations'[<<x, d>>] =
         allocations[<<x, d>>] + (IF x = contracts[c].task /\ d \in DOMAIN contracts[c].sources
                                  THEN contracts[c].sources[d].remaining ELSE 0)
  /\ UNCHANGED <<donations, tasks, payments, refunds>>

\* Closing a contract gives what remains back to the task.
LEMMA CloseEffect ==
  ASSUME TypeOK, NEW c \in ContractIds, NEW released \in Amounts \cup {0},
         ContractClosed(c, released)
  PROVE  Releasing(c, released)
  <1> DEFINE old == contracts[c].sources
             D == DOMAIN old
             sources == [d \in D |-> [old[d] EXCEPT !.remaining = 0]]
  <1>1. /\ c \in DOMAIN contracts /\ contracts[c] \in Contract(D) /\ released \in Nat
        /\ contracts[c].status = "LOCKED" /\ released = Total(Remaining(c))
        /\ UNCHANGED <<donations, tasks, payments, refunds>>
    BY AmountsAssumption DEF ContractClosed, Leftover, TypeOK
  <1>2. /\ contracts' = [contracts EXCEPT ![c].status = "CLOSED", ![c].released = released,
                                          ![c].sources = sources]
        /\ allocations' = BackTo(c, Remaining(c))
    BY DEF ContractClosed, Returned
  <1>3. /\ sources \in [D -> [amount : Nat \ {0}, remaining : Nat]]
        /\ \A d \in D : sources[d].amount = old[d].amount /\ sources[d].remaining = 0
    BY <1>1 DEF Contract
  <1> HIDE DEF sources
  <1>4. /\ DOMAIN contracts' = DOMAIN contracts
        /\ contracts'[c] \in Contract(D) /\ contracts'[c].sources = sources
        /\ contracts'[c].task = contracts[c].task /\ contracts'[c].amount = contracts[c].amount
        /\ contracts'[c].released = released /\ contracts'[c].status = "CLOSED"
        /\ \A x \in DOMAIN contracts : x # c => contracts'[x] = contracts[x]
    BY <1>1, <1>2, <1>3 DEF Contract
  <1>5. ASSUME NEW x \in DOMAIN tasks, NEW d \in DOMAIN donations, <<x, d>> \in DOMAIN allocations
        PROVE  allocations'[<<x, d>>] =
                 allocations[<<x, d>>] + (IF x = contracts[c].task /\ d \in D
                                          THEN old[d].remaining ELSE 0)
    <2>1. DOMAIN Remaining(c) = D /\ \A e \in D : Remaining(c)[e] = old[e].remaining
      BY <1>1, RemainingType
    <2>2. allocations[<<x, d>>] \in Nat
      BY <1>5 DEF TypeOK, Collection
    <2>3. QED
      BY <1>2, <1>5, <2>1, <2>2 DEF BackTo
  <1>6. /\ DOMAIN allocations' = DOMAIN allocations
        /\ Collection(allocations', (DOMAIN tasks) \X (DOMAIN donations), Nat)
    <2>1. Capacity(Remaining(c))
      BY <1>1, RemainingType
    <2>2. \A a \in DOMAIN allocations : allocations'[a] \in Nat
      BY <1>2, <2>1 DEF BackTo, Capacity, TypeOK, Collection
    <2>3. DOMAIN allocations' = DOMAIN allocations /\ allocations' \in [DOMAIN allocations -> Nat]
      BY <1>2, <2>2 DEF BackTo
    <2>4. QED
      BY <2>3 DEF TypeOK, Collection, Keyed
  <1>7. QED
    BY <1>1, <1>3, <1>4, <1>5, <1>6 DEF Releasing

-----------------------------------------------------------------------------
(* TypeOK is inductive *)

\* A donation comes in with all but its gas to spend.
LEMMA ReceivedType ==
  ASSUME TypeOK, NEW d \in DonationIds, NEW gift \in Gifts, DonationReceived(d, gift)
  PROVE  TypeOK'
  <1> DEFINE new == [donor |-> gift.donor, purpose |-> gift.purpose, project |-> gift.project,
                     amount |-> gift.amount, gasReserved |-> gift.gasReserved,
                     available |-> Spendable(gift), at |-> Cardinality(DOMAIN donations)]
  <1>1. new \in Donation
    <2>1. Cardinality(DOMAIN donations) \in Nat
      BY FS_CardinalityType DEF TypeOK, Collection, Keyed
    <2>2. /\ gift.donor \in Wallets /\ gift.purpose \in Purposes \cup {AnyPurpose}
          /\ gift.project \in Projects \cup {None} /\ gift.amount \in Nat \ {0}
          /\ gift.gasReserved \in Nat
      BY InputsAssumption
    <2>3. Spendable(gift) \in Nat
      BY <2>2 DEF DonationReceived, CanReceive, Spendable
    <2>4. QED
      BY <2>1, <2>2, <2>3 DEF Donation
  <1>2. donations' = Put(donations, d, new)
    BY DEF DonationReceived, CanReceive
  <1> HIDE DEF new
  <1>3. Collection(donations', DonationIds, Donation) /\ DOMAIN donations' = DOMAIN donations \cup {d}
    BY <1>1, <1>2, PutCollection, PutValue DEF TypeOK
  <1>4. QED
    BY <1>3 DEF DonationReceived, CanReceive, TypeOK, Collection, Keyed

\* Registering a task keeps the record types.
LEMMA RegisteredType ==
  ASSUME TypeOK, NEW t \in TaskIds, NEW input \in TaskInputs, TaskRegistered(t, input)
  PROVE  TypeOK'
  <1> DEFINE new == [purpose |-> input.purpose, project |-> input.project, status |-> "OPEN"]
  <1>1. new \in Task /\ tasks' = Put(tasks, t, new)
    BY InputsAssumption DEF TaskRegistered, CanRegister, Task
  <1> HIDE DEF new
  <1>2. Collection(tasks', TaskIds, Task) /\ DOMAIN tasks' = DOMAIN tasks \cup {t}
    BY <1>1, PutCollection, PutValue DEF TypeOK
  <1>3. QED
    BY <1>2 DEF TaskRegistered, CanRegister, TypeOK, Collection, Keyed

\* Opening or pausing a task keeps the record types.
LEMMA ActivityType ==
  ASSUME TypeOK, NEW t \in TaskIds, NEW active \in BOOLEAN, TaskActivityChanged(t, active)
  PROVE  TypeOK'
  <1>1. Collection(tasks', TaskIds, Task) /\ DOMAIN tasks' = DOMAIN tasks
    BY DEF TaskActivityChanged, CanChange, TypeOK, Collection, Keyed, Task
  <1>2. QED
    BY <1>1 DEF TaskActivityChanged, CanChange, TypeOK

\* An allocation keeps the record types.
LEMMA AllocatedType ==
  ASSUME TypeOK, NEW d \in DonationIds, NEW t \in TaskIds, NEW amount \in Amounts,
         DonationAllocated(d, t, amount)
  PROVE  TypeOK'
  <1> DEFINE held == IF <<t, d>> \in DOMAIN allocations THEN allocations[<<t, d>>] ELSE 0
  <1>1. amount \in Nat /\ held \in Nat
    BY AmountsAssumption DEF TypeOK, Collection
  <1>2. Collection(donations', DonationIds, Donation) /\ DOMAIN donations' = DOMAIN donations
    <2>1. /\ donations' = [donations EXCEPT ![d].available = @ - amount]
          /\ d \in DOMAIN donations /\ amount <= donations[d].available
      BY DEF DonationAllocated, CanAllocate, Allocatable
    <2>2. QED
      BY <1>1, <2>1, SpendType
  <1>3. Collection(allocations', (DOMAIN tasks) \X (DOMAIN donations), Nat)
    <2>1. allocations' = Put(allocations, <<t, d>>, held + amount)
      BY DEF DonationAllocated, CanAllocate
    <2>2. <<t, d>> \in (DOMAIN tasks) \X (DOMAIN donations) /\ held + amount \in Nat
      BY <1>1 DEF DonationAllocated, CanAllocate
    <2> HIDE DEF held
    <2>3. QED
      BY <2>1, <2>2, PutCollection, PutValue DEF TypeOK
  <1>4. QED
    BY <1>2, <1>3 DEF DonationAllocated, CanAllocate, TypeOK

\* A lock keeps the record types.
LEMMA LockedType ==
  ASSUME TypeOK, NEW c \in ContractIds, NEW t \in TaskIds, NEW recipient \in Payees,
         NEW amount \in Amounts, ContractLocked(c, t, recipient, amount)
  PROVE  TypeOK'
  <1> DEFINE D == DOMAIN LockTakes(t, amount)
  <1>1. /\ contracts'[c] \in Contract(D) /\ contracts'[c].task = t /\ t \in DOMAIN tasks
        /\ D \subseteq DOMAIN donations
        /\ DOMAIN contracts' = DOMAIN contracts \cup {c}
        /\ \A x \in DOMAIN contracts : contracts'[x] = contracts[x]
        /\ Collection(allocations', (DOMAIN tasks) \X (DOMAIN donations), Nat)
        /\ UNCHANGED <<donations, tasks, payments, refunds>>
    BY LockEffect DEF Locking
  <1>2. DOMAIN contracts'[c].sources = D
    BY <1>1 DEF Contract
  <1> HIDE DEF D
  <1>3. Keyed(contracts', ContractIds)
    BY <1>1, FS_AddElement DEF TypeOK, Keyed
  <1>4. QED
    BY <1>1, <1>2, <1>3 DEF TypeOK

\* A batch payment keeps the record types.
LEMMA PaidType ==
  ASSUME TypeOK, NEW m \in PaymentIds, NEW c \in ContractIds, NEW batch \in BatchIds,
         NEW recipient \in Wallets, NEW amount \in Amounts,
         BatchPaid(m, c, batch, recipient, amount)
  PROVE  TypeOK'
  <1> DEFINE D == DOMAIN contracts[c].sources
             P == DOMAIN PayTakes(c, amount)
  <1>0. Paying(m, c, amount)
    BY PayEffect
  <1>1. /\ c \in DOMAIN contracts /\ \A d \in P : d \in D
        /\ contracts'[c] \in Contract(D) /\ contracts'[c].task = contracts[c].task
        /\ DOMAIN contracts' = DOMAIN contracts
    BY <1>0 DEF Paying
  <1>2. /\ \A x \in DOMAIN contracts : x # c => contracts'[x] = contracts[x]
        /\ payments'[m] \in Payment(P) /\ payments'[m].contract = c
        /\ payments'[m].task = contracts[c].task
        /\ DOMAIN payments' = DOMAIN payments \cup {m}
        /\ \A x \in DOMAIN payments : payments'[x] = payments[x]
        /\ UNCHANGED <<donations, tasks, allocations, refunds>>
    BY <1>0 DEF Paying
  <1>3. DOMAIN contracts'[c].sources = D /\ DOMAIN payments'[m].sources = P
    BY <1>1, <1>2 DEF Contract, Payment
  <1>4. contracts[c].task \in DOMAIN tasks /\ D \subseteq DOMAIN donations
    BY <1>1 DEF TypeOK
  <1> HIDE DEF D, P
  <1>5. Keyed(contracts', ContractIds) /\ Keyed(payments', PaymentIds)
    BY <1>1, <1>2, FS_AddElement DEF TypeOK, Keyed
  <1>6. QED
    BY <1>1, <1>2, <1>3, <1>4, <1>5 DEF TypeOK

\* Closing a contract keeps the record types.
LEMMA ClosedType ==
  ASSUME TypeOK, NEW c \in ContractIds, NEW released \in Amounts \cup {0},
         ContractClosed(c, released)
  PROVE  TypeOK'
  <1> DEFINE D == DOMAIN contracts[c].sources
  <1>1. /\ c \in DOMAIN contracts
        /\ contracts'[c] \in Contract(D) /\ contracts'[c].task = contracts[c].task
        /\ DOMAIN contracts' = DOMAIN contracts
        /\ \A x \in DOMAIN contracts : x # c => contracts'[x] = contracts[x]
        /\ Collection(allocations', (DOMAIN tasks) \X (DOMAIN donations), Nat)
        /\ UNCHANGED <<donations, tasks, payments, refunds>>
    BY CloseEffect DEF Releasing
  <1>2. DOMAIN contracts'[c].sources = D
    BY <1>1 DEF Contract
  <1>3. contracts[c].task \in DOMAIN tasks /\ D \subseteq DOMAIN donations
    BY <1>1 DEF TypeOK
  <1> HIDE DEF D
  <1>4. QED
    BY <1>1, <1>2, <1>3 DEF TypeOK, Keyed

\* Closing a task keeps the record types.
LEMMA TaskClosedType ==
  ASSUME TypeOK, NEW t \in TaskIds, NEW released \in Amounts \cup {0}, TaskClosed(t, released)
  PROVE  TypeOK'
  <1> DEFINE held == Restrict(allocations, TaskAllocations(t))
  <1>1. /\ DOMAIN held \subseteq DOMAIN allocations
        /\ \A a \in DOMAIN held : held[a] \in Nat
    BY DEF Restrict, TaskAllocations, TypeOK, Collection
  <1>2. donations' = [d \in DOMAIN donations |->
           IF <<t, d>> \in DOMAIN held
           THEN [donations[d] EXCEPT !.available = @ + held[<<t, d>>]] ELSE donations[d]]
    BY DEF TaskClosed
  <1> HIDE DEF held
  <1>3. Collection(donations', DonationIds, Donation) /\ DOMAIN donations' = DOMAIN donations
    <2>1. ASSUME NEW d \in DOMAIN donations PROVE donations'[d] \in Donation
      <3>1. donations[d] \in Donation
        BY DEF TypeOK, Collection
      <3>2. ASSUME <<t, d>> \in DOMAIN held
            PROVE  [donations[d] EXCEPT !.available = @ + held[<<t, d>>]] \in Donation
        BY <1>1, <3>1, <3>2 DEF Donation
      <3>3. QED
        BY <1>2, <3>1, <3>2
    <2>2. DOMAIN donations' = DOMAIN donations /\ donations' \in [DOMAIN donations -> Donation]
      BY <1>2, <2>1
    <2>3. QED
      BY <2>2 DEF TypeOK, Collection, Keyed
  <1>4. Collection(tasks', TaskIds, Task) /\ DOMAIN tasks' = DOMAIN tasks
    BY DEF TaskClosed, TypeOK, Collection, Keyed, Task
  <1>5. Collection(allocations', (DOMAIN tasks) \X (DOMAIN donations), Nat)
    BY DEF TaskClosed, TypeOK, Collection, Keyed
  <1>6. QED
    BY <1>3, <1>4, <1>5 DEF TaskClosed, TypeOK

\* A refund keeps the record types.
LEMMA RefundedType ==
  ASSUME TypeOK, NEW f \in RefundIds, NEW d \in DonationIds, NEW recipient \in Wallets,
         NEW amount \in Amounts, DonationRefunded(f, d, recipient, amount)
  PROVE  TypeOK'
  <1> DEFINE new == [donation |-> d, recipient |-> recipient, amount |-> amount]
  <1>1. /\ d \in DOMAIN donations /\ amount <= donations[d].available /\ amount \in Nat
        /\ donations' = [donations EXCEPT ![d].available = @ - amount]
        /\ refunds' = Put(refunds, f, new)
    BY AmountsAssumption DEF DonationRefunded, CanRefund
  <1>2. new \in Refund /\ new.donation = d
    BY DEF Refund
  <1> HIDE DEF new
  <1>3. Collection(donations', DonationIds, Donation) /\ DOMAIN donations' = DOMAIN donations
    BY <1>1, SpendType
  <1>4. Collection(refunds', RefundIds, Refund)
    BY <1>1, <1>2, PutCollection DEF TypeOK
  <1>5. \A x \in DOMAIN refunds' : refunds'[x].donation \in DOMAIN donations
    BY <1>1, <1>2 DEF Put, TypeOK
  <1>6. QED
    BY <1>3, <1>4, <1>5 DEF DonationRefunded, CanRefund, TypeOK

\* The empty ledger has the record types.
LEMMA InitType == Init => TypeOK
  BY FS_EmptySet DEF Init, TypeOK, Collection, Keyed

\* Every event keeps the record types.
LEMMA NextType == TypeOK /\ [Next]_vars => TypeOK'
  <1> SUFFICES ASSUME TypeOK, [Next]_vars PROVE TypeOK'
    OBVIOUS
  <1>1. ASSUME NEW d \in DonationIds, NEW gift \in Gifts, DonationReceived(d, gift)
        PROVE  TypeOK'
    BY <1>1, ReceivedType
  <1>2. ASSUME NEW t \in TaskIds, NEW input \in TaskInputs, TaskRegistered(t, input)
        PROVE  TypeOK'
    BY <1>2, RegisteredType
  <1>3. ASSUME NEW t \in TaskIds, NEW active \in BOOLEAN, TaskActivityChanged(t, active)
        PROVE  TypeOK'
    BY <1>3, ActivityType
  <1>4. ASSUME NEW d \in DonationIds, NEW t \in TaskIds, NEW amount \in Amounts,
               DonationAllocated(d, t, amount)
        PROVE  TypeOK'
    BY <1>4, AllocatedType
  <1>5. ASSUME NEW c \in ContractIds, NEW t \in TaskIds, NEW w \in Payees,
               NEW amount \in Amounts, ContractLocked(c, t, w, amount)
        PROVE  TypeOK'
    BY <1>5, LockedType
  <1>6. ASSUME NEW m \in PaymentIds, NEW c \in ContractIds, NEW b \in BatchIds,
               NEW w \in Wallets, NEW amount \in Amounts, BatchPaid(m, c, b, w, amount)
        PROVE  TypeOK'
    BY <1>6, PaidType
  <1>7. ASSUME NEW c \in ContractIds, NEW amount \in Amounts \cup {0}, ContractClosed(c, amount)
        PROVE  TypeOK'
    BY <1>7, ClosedType
  <1>8. ASSUME NEW t \in TaskIds, NEW amount \in Amounts \cup {0}, TaskClosed(t, amount)
        PROVE  TypeOK'
    BY <1>8, TaskClosedType
  <1>9. ASSUME NEW f \in RefundIds, NEW d \in DonationIds, NEW w \in Wallets,
               NEW amount \in Amounts, DonationRefunded(f, d, w, amount)
        PROVE  TypeOK'
    BY <1>9, RefundedType
  <1>10. CASE UNCHANGED vars
    BY <1>10 DEF vars, TypeOK, Collection, Keyed
  <1>11. QED
    BY <1>1, <1>2, <1>3, <1>4, <1>5, <1>6, <1>7, <1>8, <1>9, <1>10 DEF Next

\* Whatever events arrive, the ledger's collections stay well formed: every
\* reference leads somewhere and no balance goes below zero.
THEOREM TypeCorrect == Spec => []TypeOK
  BY InitType, NextType, PTL DEF Spec
-----------------------------------------------------------------------------
(* What the other handlers do, entry by entry *)

Allocating(d, t, amount) ==
  /\ d \in DOMAIN donations /\ t \in DOMAIN tasks /\ Allocatable(d, t, amount)
  /\ amount \in Nat /\ amount <= donations[d].available
  /\ DOMAIN donations' = DOMAIN donations
  /\ donations'[d] = [donations[d] EXCEPT !.available = @ - amount]
  /\ \A e \in DOMAIN donations : e # d => donations'[e] = donations[e]
  /\ DOMAIN allocations' = DOMAIN allocations \cup {<<t, d>>}
  /\ allocations'[<<t, d>>] = Entry(allocations, <<t, d>>) + amount
  /\ \A a \in DOMAIN allocations : a # <<t, d>> => allocations'[a] = allocations[a]
  /\ UNCHANGED <<tasks, contracts, payments, refunds>>

\* An allocation moves its amount from the donation's free money to the task.
LEMMA AllocateEffect ==
  ASSUME TypeOK, NEW d \in DonationIds, NEW t \in TaskIds, NEW amount \in Amounts,
         DonationAllocated(d, t, amount)
  PROVE  Allocating(d, t, amount)
  <1>1. /\ d \in DOMAIN donations /\ t \in DOMAIN tasks /\ Allocatable(d, t, amount)
        /\ amount \in Nat /\ amount <= donations[d].available
        /\ donations' = [donations EXCEPT ![d].available = @ - amount]
        /\ allocations' = Put(allocations, <<t, d>>, Entry(allocations, <<t, d>>) + amount)
        /\ UNCHANGED <<tasks, contracts, payments, refunds>>
    BY AmountsAssumption DEF DonationAllocated, CanAllocate, Allocatable, Entry
  <1>2. /\ DOMAIN donations' = DOMAIN donations
        /\ donations'[d] = [donations[d] EXCEPT !.available = @ - amount]
        /\ \A e \in DOMAIN donations : e # d => donations'[e] = donations[e]
    BY <1>1, SpendType
  <1>3. /\ DOMAIN allocations' = DOMAIN allocations \cup {<<t, d>>}
        /\ allocations'[<<t, d>>] = Entry(allocations, <<t, d>>) + amount
        /\ \A a \in DOMAIN allocations : a # <<t, d>> => allocations'[a] = allocations[a]
    BY <1>1 DEF Put
  <1>4. QED
    BY <1>1, <1>2, <1>3 DEF Allocating

Receiving(d, gift) ==
  /\ d \notin DOMAIN donations
  /\ DOMAIN donations' = DOMAIN donations \cup {d}
  /\ \A e \in DOMAIN donations : e # d /\ donations'[e] = donations[e]
  /\ donations'[d].amount = gift.amount /\ donations'[d].gasReserved = gift.gasReserved
  /\ donations'[d].available = gift.amount - gift.gasReserved
  /\ donations'[d].at = Cardinality(DOMAIN donations)
  /\ UNCHANGED <<tasks, allocations, contracts, payments, refunds>>

\* A donation arrives with its gas reserve set aside.
LEMMA ReceiveEffect ==
  ASSUME NEW d \in DonationIds, NEW gift \in Gifts, DonationReceived(d, gift)
  PROVE  Receiving(d, gift)
  BY DEF DonationReceived, CanReceive, Spendable, Put, Receiving

TaskClosing(t) ==
  /\ t \in DOMAIN tasks /\ ContractsClosed(t)
  /\ DOMAIN donations' = DOMAIN donations
  /\ \A d \in DOMAIN donations :
       donations'[d] = [donations[d] EXCEPT !.available = @ + Entry(allocations, <<t, d>>)]
  /\ DOMAIN tasks' = DOMAIN tasks
  /\ tasks'[t] = [tasks[t] EXCEPT !.status = "CLOSED"]
  /\ \A x \in DOMAIN tasks : x # t => tasks'[x] = tasks[x]
  /\ DOMAIN allocations' = DOMAIN allocations
  /\ \A x \in DOMAIN tasks, d \in DOMAIN donations : <<x, d>> \in DOMAIN allocations =>
       allocations'[<<x, d>>] = IF x = t THEN 0 ELSE allocations[<<x, d>>]
  /\ UNCHANGED <<contracts, payments, refunds>>

\* Closing a task returns every allocation to its donation.
LEMMA TaskCloseEffect ==
  ASSUME TypeOK, NEW t \in TaskIds, NEW released \in Amounts \cup {0}, TaskClosed(t, released)
  PROVE  TaskClosing(t)
  <1> DEFINE held == Restrict(allocations, TaskAllocations(t))
  <1>1. ASSUME NEW d \in DOMAIN donations
        PROVE  donations'[d] = [donations[d] EXCEPT !.available = @ + Entry(allocations, <<t, d>>)]
    <2>1. donations'[d] = IF <<t, d>> \in DOMAIN held
                          THEN [donations[d] EXCEPT !.available = @ + held[<<t, d>>]]
                          ELSE donations[d]
      BY DEF TaskClosed
    <2>2. CASE <<t, d>> \in DOMAIN allocations
      <3>1. <<t, d>> \in DOMAIN held /\ held[<<t, d>>] = allocations[<<t, d>>]
        BY <2>2 DEF Restrict, TaskAllocations
      <3>2. QED
        BY <2>1, <2>2, <3>1 DEF Entry
    <2>3. CASE <<t, d>> \notin DOMAIN allocations
      <3>1. <<t, d>> \notin DOMAIN held
        BY <2>3 DEF Restrict, TaskAllocations
      <3>2. donations[d] = [donations[d] EXCEPT !.available = @ + 0]
        BY DEF TypeOK, Collection, Donation
      <3>3. QED
        BY <2>1, <2>3, <3>1, <3>2 DEF Entry
    <2>4. QED
      BY <2>2, <2>3
  <1>2. /\ t \in DOMAIN tasks /\ ContractsClosed(t)
        /\ DOMAIN donations' = DOMAIN donations
        /\ tasks' = [tasks EXCEPT ![t].status = "CLOSED"]
        /\ allocations' = [a \in DOMAIN allocations |-> IF a[1] = t THEN 0 ELSE allocations[a]]
        /\ UNCHANGED <<contracts, payments, refunds>>
    BY DEF TaskClosed
  <1>3. /\ DOMAIN tasks' = DOMAIN tasks
        /\ tasks'[t] = [tasks[t] EXCEPT !.status = "CLOSED"]
        /\ \A x \in DOMAIN tasks : x # t => tasks'[x] = tasks[x]
    BY <1>2
  <1>4. /\ DOMAIN allocations' = DOMAIN allocations
        /\ \A x \in DOMAIN tasks, d \in DOMAIN donations : <<x, d>> \in DOMAIN allocations =>
             allocations'[<<x, d>>] = IF x = t THEN 0 ELSE allocations[<<x, d>>]
    BY <1>2
  <1>5. QED
    BY <1>1, <1>2, <1>3, <1>4 DEF TaskClosing

Refunding(f, d, amount) ==
  /\ f \notin DOMAIN refunds /\ d \in DOMAIN donations
  /\ amount \in Nat /\ amount <= donations[d].available
  /\ DOMAIN donations' = DOMAIN donations
  /\ donations'[d] = [donations[d] EXCEPT !.available = @ - amount]
  /\ \A e \in DOMAIN donations : e # d => donations'[e] = donations[e]
  /\ DOMAIN refunds' = DOMAIN refunds \cup {f}
  /\ refunds'[f].donation = d /\ refunds'[f].amount = amount
  /\ \A x \in DOMAIN refunds : x # f /\ refunds'[x] = refunds[x]
  /\ UNCHANGED <<tasks, allocations, contracts, payments>>

\* A refund takes its amount from the donation's free money.
LEMMA RefundEffect ==
  ASSUME TypeOK, NEW f \in RefundIds, NEW d \in DonationIds, NEW recipient \in Wallets,
         NEW amount \in Amounts, DonationRefunded(f, d, recipient, amount)
  PROVE  Refunding(f, d, amount)
  <1>1. /\ f \notin DOMAIN refunds /\ d \in DOMAIN donations
        /\ amount \in Nat /\ amount <= donations[d].available
        /\ donations' = [donations EXCEPT ![d].available = @ - amount]
        /\ refunds' = Put(refunds, f, [donation |-> d, recipient |-> recipient, amount |-> amount])
        /\ UNCHANGED <<tasks, allocations, contracts, payments>>
    BY AmountsAssumption DEF DonationRefunded, CanRefund
  <1>2. /\ DOMAIN donations' = DOMAIN donations
        /\ donations'[d] = [donations[d] EXCEPT !.available = @ - amount]
        /\ \A e \in DOMAIN donations : e # d => donations'[e] = donations[e]
    BY <1>1, SpendType
  <1>3. /\ DOMAIN refunds' = DOMAIN refunds \cup {f}
        /\ refunds'[f].donation = d /\ refunds'[f].amount = amount
        /\ \A x \in DOMAIN refunds : x # f /\ refunds'[x] = refunds[x]
    BY <1>1 DEF Put
  <1>4. QED
    BY <1>1, <1>2, <1>3 DEF Refunding
Registering(t) ==
  /\ t \notin DOMAIN tasks /\ DOMAIN tasks' = DOMAIN tasks \cup {t}
  /\ tasks'[t].status = "OPEN"
  /\ \A x \in DOMAIN tasks : x # t /\ tasks'[x] = tasks[x]
  /\ UNCHANGED <<donations, allocations, contracts, payments, refunds>>

Pausing(t) ==
  /\ t \in DOMAIN tasks /\ DOMAIN tasks' = DOMAIN tasks
  /\ tasks[t].status # "CLOSED" /\ tasks'[t].status # "CLOSED"
  /\ tasks'[t].purpose = tasks[t].purpose /\ tasks'[t].project = tasks[t].project
  /\ \A x \in DOMAIN tasks : x # t => tasks'[x] = tasks[x]
  /\ UNCHANGED <<donations, allocations, contracts, payments, refunds>>

\* Every step is one of these.
LEMMA StepEffects ==
  ASSUME TypeOK, Next
  PROVE  \/ \E d \in DonationIds, gift \in Gifts : Receiving(d, gift)
         \/ \E t \in TaskIds : Registering(t)
         \/ \E t \in TaskIds : Pausing(t)
         \/ \E d \in DonationIds, t \in TaskIds, amount \in Amounts : Allocating(d, t, amount)
         \/ \E c \in ContractIds, t \in TaskIds, amount \in Amounts : Locking(c, t, amount)
         \/ \E m \in PaymentIds, c \in ContractIds, amount \in Amounts : Paying(m, c, amount)
         \/ \E c \in ContractIds, amount \in Amounts \cup {0} : Releasing(c, amount)
         \/ \E t \in TaskIds : TaskClosing(t)
         \/ \E f \in RefundIds, d \in DonationIds, amount \in Amounts : Refunding(f, d, amount)
  <1>1. ASSUME NEW d \in DonationIds, NEW gift \in Gifts, DonationReceived(d, gift)
        PROVE  Receiving(d, gift)
    BY <1>1, ReceiveEffect
  <1>2. ASSUME NEW t \in TaskIds, NEW input \in TaskInputs, TaskRegistered(t, input)
        PROVE  Registering(t)
    BY <1>2 DEF TaskRegistered, CanRegister, Put, Registering
  <1>3. ASSUME NEW t \in TaskIds, NEW active \in BOOLEAN, TaskActivityChanged(t, active)
        PROVE  Pausing(t)
    BY <1>3 DEF TaskActivityChanged, CanChange, Pausing, TypeOK, Collection, Task
  <1>4. ASSUME NEW d \in DonationIds, NEW t \in TaskIds, NEW amount \in Amounts,
               DonationAllocated(d, t, amount)
        PROVE  Allocating(d, t, amount)
    BY <1>4, AllocateEffect
  <1>5. ASSUME NEW c \in ContractIds, NEW t \in TaskIds, NEW w \in Payees,
               NEW amount \in Amounts, ContractLocked(c, t, w, amount)
        PROVE  Locking(c, t, amount)
    BY <1>5, LockEffect
  <1>6. ASSUME NEW m \in PaymentIds, NEW c \in ContractIds, NEW b \in BatchIds,
               NEW w \in Wallets, NEW amount \in Amounts, BatchPaid(m, c, b, w, amount)
        PROVE  Paying(m, c, amount)
    BY <1>6, PayEffect
  <1>7. ASSUME NEW c \in ContractIds, NEW amount \in Amounts \cup {0}, ContractClosed(c, amount)
        PROVE  Releasing(c, amount)
    BY <1>7, CloseEffect
  <1>8. ASSUME NEW t \in TaskIds, NEW amount \in Amounts \cup {0}, TaskClosed(t, amount)
        PROVE  TaskClosing(t)
    BY <1>8, TaskCloseEffect
  <1>9. ASSUME NEW f \in RefundIds, NEW d \in DonationIds, NEW w \in Wallets,
               NEW amount \in Amounts, DonationRefunded(f, d, w, amount)
        PROVE  Refunding(f, d, amount)
    BY <1>9, RefundEffect
  <1>10. QED
    BY <1>1, <1>2, <1>3, <1>4, <1>5, <1>6, <1>7, <1>8, <1>9 DEF Next

-----------------------------------------------------------------------------
(* The books are in order *)

\* Every event leaves the books in order.
LEMMA BooksNext ==
  ASSUME TypeOK, TypeOK', BooksInOrder, [Next]_vars
  PROVE  BooksInOrder'
  <1>1. ASSUME NEW d \in DonationIds, NEW gift \in Gifts, Receiving(d, gift) PROVE BooksInOrder'
    <2> DEFINE n == Cardinality(DOMAIN donations)
    <2>1. /\ n \in Nat /\ Cardinality(DOMAIN donations') = n + 1
          /\ DOMAIN donations' = DOMAIN donations \cup {d} /\ d \notin DOMAIN donations
          /\ donations'[d].at = n
          /\ \A e \in DOMAIN donations : donations'[e] = donations[e]
      BY <1>1, FS_AddElement, FS_CardinalityType DEF Receiving, TypeOK, Collection, Keyed
    <2>2. \A e \in DOMAIN donations : donations[e].at \in Nat /\ donations[e].at < n
      BY DEF BooksInOrder, ArrivalsDistinct, TypeOK, Collection, Donation
    <2> HIDE DEF n
    <2>3. ArrivalsDistinct'
      BY <2>1, <2>2 DEF BooksInOrder, ArrivalsDistinct
    <2>4. QED
      BY <1>1, <2>3 DEF Receiving, BooksInOrder, ContractsInOrder, PaymentsInOrder
  <1>2. ASSUME NEW t \in TaskIds, Registering(t) \/ Pausing(t) PROVE BooksInOrder'
    BY <1>2 DEF Registering, Pausing, BooksInOrder, ArrivalsDistinct, ContractsInOrder,
                PaymentsInOrder
  <1>3. ASSUME DOMAIN donations' = DOMAIN donations,
               \A d \in DOMAIN donations : donations'[d].at = donations[d].at
        PROVE  ArrivalsDistinct'
    BY <1>3 DEF BooksInOrder, ArrivalsDistinct
  <1>4. ASSUME NEW d \in DonationIds, NEW t \in TaskIds, NEW amount \in Amounts,
               Allocating(d, t, amount)
        PROVE  BooksInOrder'
    <2>1. \A e \in DOMAIN donations : donations'[e].at = donations[e].at
      BY <1>4 DEF Allocating, TypeOK, Collection, Donation
    <2>2. ContractsInOrder' /\ PaymentsInOrder'
      BY <1>4 DEF Allocating, BooksInOrder, ContractsInOrder, PaymentsInOrder
    <2>3. QED
      BY <1>3, <1>4, <2>1, <2>2 DEF Allocating, BooksInOrder
  <1>5. ASSUME NEW c \in ContractIds, NEW t \in TaskIds, NEW amount \in Amounts,
               Locking(c, t, amount)
        PROVE  BooksInOrder'
    <2>1. ArrivalsDistinct'
      BY <1>3, <1>5 DEF Locking
    <2>2. ContractsInOrder'
      <3> SUFFICES ASSUME NEW x \in DOMAIN contracts'
                   PROVE  /\ contracts'[x].status = "LOCKED" => contracts'[x].released = 0
                          /\ \A d \in DOMAIN contracts'[x].sources :
                               /\ <<contracts'[x].task, d>> \in DOMAIN allocations'
                               /\ contracts'[x].status = "CLOSED" => contracts'[x].sources[d].remaining = 0
        BY DEF ContractsInOrder
      <3>1. CASE x = c
        <4>1. DOMAIN contracts'[c].sources = DOMAIN LockTakes(t, amount)
          BY <1>5 DEF Locking, Contract
        <4>2. QED
          BY <1>5, <3>1, <4>1 DEF Locking
      <3>2. CASE x # c
        BY <1>5, <3>2 DEF Locking, BooksInOrder, ContractsInOrder
      <3>3. QED
        BY <3>1, <3>2
    <2>3. PaymentsInOrder'
      BY <1>5 DEF Locking, BooksInOrder, PaymentsInOrder, TypeOK
    <2>4. QED
      BY <2>1, <2>2, <2>3 DEF BooksInOrder
  <1>6. ASSUME NEW m \in PaymentIds, NEW c \in ContractIds, NEW amount \in Amounts,
               Paying(m, c, amount)
        PROVE  BooksInOrder'
    <2>1. ArrivalsDistinct'
      BY <1>3, <1>6 DEF Paying
    <2>2. DOMAIN contracts'[c].sources = DOMAIN contracts[c].sources
      BY <1>6 DEF Paying, Contract
    <2>3. ContractsInOrder'
      BY <1>6, <2>2 DEF Paying, BooksInOrder, ContractsInOrder
    <2>4. PaymentsInOrder'
      <3> SUFFICES ASSUME NEW x \in DOMAIN payments'
                   PROVE  /\ payments'[x].task = contracts'[payments'[x].contract].task
                          /\ DOMAIN payments'[x].sources
                               \subseteq DOMAIN contracts'[payments'[x].contract].sources
        BY DEF PaymentsInOrder
      <3>1. CASE x = m
        BY <1>6, <2>2, <3>1 DEF Paying
      <3>2. CASE x # m
        <4>1. /\ x \in DOMAIN payments /\ payments'[x] = payments[x]
              /\ payments[x].contract \in DOMAIN contracts
          BY <1>6, <3>2 DEF Paying, TypeOK
        <4>2. /\ contracts'[payments[x].contract].task = contracts[payments[x].contract].task
              /\ DOMAIN contracts'[payments[x].contract].sources
                   = DOMAIN contracts[payments[x].contract].sources
          BY <1>6, <2>2, <4>1 DEF Paying
        <4>3. QED
          BY <4>1, <4>2 DEF BooksInOrder, PaymentsInOrder
      <3>3. QED
        BY <3>1, <3>2
    <2>5. QED
      BY <2>1, <2>3, <2>4 DEF BooksInOrder
  <1>7. ASSUME NEW c \in ContractIds, NEW amount \in Amounts \cup {0}, Releasing(c, amount)
        PROVE  BooksInOrder'
    <2>1. ArrivalsDistinct'
      BY <1>3, <1>7 DEF Releasing
    <2>2. DOMAIN contracts'[c].sources = DOMAIN contracts[c].sources
      BY <1>7 DEF Releasing, Contract
    <2>3. ContractsInOrder'
      BY <1>7, <2>2 DEF Releasing, BooksInOrder, ContractsInOrder
    <2>4. PaymentsInOrder'
      BY <1>7, <2>2 DEF Releasing, BooksInOrder, PaymentsInOrder, TypeOK
    <2>5. QED
      BY <2>1, <2>3, <2>4 DEF BooksInOrder
  <1>8. ASSUME NEW t \in TaskIds, TaskClosing(t) PROVE BooksInOrder'
    <2>1. ASSUME NEW e \in DOMAIN donations PROVE donations'[e].at = donations[e].at
      <3>1. /\ donations[e] \in Donation
            /\ donations'[e] = [donations[e] EXCEPT !.available = @ + Entry(allocations, <<t, e>>)]
        BY <1>8 DEF TaskClosing, TypeOK, Collection
      <3>2. QED
        BY <3>1 DEF Donation
    <2>2. ContractsInOrder' /\ PaymentsInOrder'
      BY <1>8 DEF TaskClosing, BooksInOrder, ContractsInOrder, PaymentsInOrder
    <2>3. QED
      BY <1>3, <1>8, <2>1, <2>2 DEF TaskClosing, BooksInOrder
  <1>9. ASSUME NEW f \in RefundIds, NEW d \in DonationIds, NEW amount \in Amounts,
               Refunding(f, d, amount)
        PROVE  BooksInOrder'
    <2>1. \A e \in DOMAIN donations : donations'[e].at = donations[e].at
      BY <1>9 DEF Refunding, TypeOK, Collection, Donation
    <2>2. ContractsInOrder' /\ PaymentsInOrder'
      BY <1>9 DEF Refunding, BooksInOrder, ContractsInOrder, PaymentsInOrder
    <2>3. QED
      BY <1>3, <1>9, <2>1, <2>2 DEF Refunding, BooksInOrder
  <1>10. CASE UNCHANGED vars
    BY <1>10 DEF vars, BooksInOrder, ArrivalsDistinct, ContractsInOrder, PaymentsInOrder
  <1>11. QED
    BY <1>1, <1>2, <1>4, <1>5, <1>6, <1>7, <1>8, <1>9, <1>10, StepEffects

\* What the handlers take for granted holds whenever they run.
THEOREM BooksStayInOrder == Spec => []BooksInOrder
  <1>1. Init => BooksInOrder
    BY DEF Init, BooksInOrder, ArrivalsDistinct, ContractsInOrder, PaymentsInOrder
  <1>2. TypeOK /\ TypeOK' /\ BooksInOrder /\ [Next]_vars => BooksInOrder'
    BY BooksNext
  <1>3. QED
    BY <1>1, <1>2, TypeCorrect, PTL DEF Spec
-----------------------------------------------------------------------------
(* How the totals move *)

\* What contract c holds of donation d, and what payment m spent of it.
HeldBy(c, d)  == IF c \in DOMAIN contracts /\ d \in DOMAIN contracts[c].sources
                 THEN contracts[c].sources[d].remaining ELSE 0
SpentBy(m, d) == IF m \in DOMAIN payments THEN Entry(payments[m].sources, d) ELSE 0

\* What a donation has in each pot is a number.
LEMMA TotalsType ==
  ASSUME TypeOK, NEW d
  PROVE  /\ AllocatedOf(d) \in Nat /\ LockedOf(d) \in Nat
         /\ SpentOf(d) \in Nat /\ RefundedOf(d) \in Nat
  <1>1. AllocatedOf(d) \in Nat
    <2> DEFINE f == [a \in {x \in DOMAIN allocations : x[2] = d} |-> allocations[a]]
    <2>1. IsFiniteSet(DOMAIN f) /\ f \in [DOMAIN f -> Nat]
      BY FS_Subset DEF TypeOK, Collection, Keyed
    <2> HIDE DEF f
    <2>2. Total(f) \in Nat
      BY <2>1, TotalNat
    <2>3. QED
      BY <2>2 DEF f, AllocatedOf
  <1>2. LockedOf(d) \in Nat
    <2> DEFINE f == [c \in {x \in DOMAIN contracts : d \in DOMAIN contracts[x].sources} |->
                       contracts[c].sources[d].remaining]
    <2>1. IsFiniteSet(DOMAIN f) /\ f \in [DOMAIN f -> Nat]
      BY FS_Subset DEF TypeOK, Keyed, Contract
    <2> HIDE DEF f
    <2>2. Total(f) \in Nat
      BY <2>1, TotalNat
    <2>3. QED
      BY <2>2 DEF f, LockedOf
  <1>3. SpentOf(d) \in Nat
    <2> DEFINE f == [m \in {x \in DOMAIN payments : d \in DOMAIN payments[x].sources} |->
                       payments[m].sources[d]]
    <2>1. IsFiniteSet(DOMAIN f) /\ f \in [DOMAIN f -> Nat]
      BY FS_Subset DEF TypeOK, Keyed, Payment
    <2> HIDE DEF f
    <2>2. Total(f) \in Nat
      BY <2>1, TotalNat
    <2>3. QED
      BY <2>2 DEF f, SpentOf
  <1>4. RefundedOf(d) \in Nat
    <2> DEFINE f == [x \in {y \in DOMAIN refunds : refunds[y].donation = d} |-> refunds[x].amount]
    <2>1. IsFiniteSet(DOMAIN f) /\ f \in [DOMAIN f -> Nat]
      BY FS_Subset, AmountsAssumption DEF TypeOK, Collection, Keyed, Refund
    <2> HIDE DEF f
    <2>2. Total(f) \in Nat
      BY <2>1, TotalNat
    <2>3. QED
      BY <2>2 DEF f, RefundedOf
  <1>5. QED
    BY <1>1, <1>2, <1>3, <1>4

\* When the books of one task change, a donation's allocations change by them.
LEMMA AllocatedChange ==
  ASSUME TypeOK, TypeOK', DOMAIN tasks' = DOMAIN tasks, NEW t, NEW d,
         \A x \in DOMAIN tasks : x # t =>
           /\ <<x, d>> \in DOMAIN allocations' <=> <<x, d>> \in DOMAIN allocations
           /\ <<x, d>> \in DOMAIN allocations => allocations'[<<x, d>>] = allocations[<<x, d>>]
  PROVE  AllocatedOf(d)' = AllocatedOf(d) - Entry(allocations, <<t, d>>)
                                          + Entry(allocations', <<t, d>>)
  <1> DEFINE f == [a \in {x \in DOMAIN allocations : x[2] = d} |-> allocations[a]]
             g == [a \in {x \in DOMAIN allocations' : x[2] = d} |-> allocations'[a]]
             k == <<t, d>>
  <1>1. /\ IsFiniteSet(DOMAIN f) /\ f \in [DOMAIN f -> Nat]
        /\ IsFiniteSet(DOMAIN g) /\ g \in [DOMAIN g -> Nat]
    BY FS_Subset DEF TypeOK, Collection, Keyed
  <1>2. \A a : a \in DOMAIN allocations \/ a \in DOMAIN allocations' =>
          \E x \in DOMAIN tasks : a = <<x, a[2]>>
    BY DEF TypeOK, Collection, Keyed
  <1>3. DOMAIN f \ {k} = DOMAIN g \ {k} /\ \A a \in DOMAIN f \ {k} : g[a] = f[a]
    BY <1>2
  <1>4. Entry(f, k) = Entry(allocations, k) /\ Entry(g, k) = Entry(allocations', k)
    BY DEF Entry
  <1> HIDE DEF f, g
  <1>5. Total(g) = Total(f) - Entry(f, k) + Entry(g, k)
    BY <1>1, <1>3, TotalNat, TotalChange
  <1>6. QED
    BY <1>4, <1>5 DEF f, g, AllocatedOf

\* When one contract changes, a donation's locked money changes by what it held.
LEMMA LockedChange ==
  ASSUME TypeOK, TypeOK', NEW c, NEW d,
         \A x : x # c => (x \in DOMAIN contracts' <=> x \in DOMAIN contracts),
         \A x \in DOMAIN contracts : x # c => contracts'[x] = contracts[x]
  PROVE  LockedOf(d)' = LockedOf(d) - HeldBy(c, d) + HeldBy(c, d)'
  <1> DEFINE f == [x \in {y \in DOMAIN contracts : d \in DOMAIN contracts[y].sources} |->
                     contracts[x].sources[d].remaining]
             g == [x \in {y \in DOMAIN contracts' : d \in DOMAIN contracts'[y].sources} |->
                     contracts'[x].sources[d].remaining]
  <1>1. IsFiniteSet(DOMAIN f) /\ f \in [DOMAIN f -> Nat]
    BY FS_Subset DEF TypeOK, Keyed, Contract
  <1>2. IsFiniteSet(DOMAIN g) /\ g \in [DOMAIN g -> Nat]
    BY FS_Subset DEF TypeOK, Keyed, Contract
  <1>3. DOMAIN f \ {c} = DOMAIN g \ {c} /\ \A x \in DOMAIN f \ {c} : g[x] = f[x]
    OBVIOUS
  <1>4. Entry(f, c) = HeldBy(c, d) /\ Entry(g, c) = HeldBy(c, d)'
    BY DEF Entry, HeldBy
  <1> HIDE DEF f, g
  <1>5. Total(g) = Total(f) - Entry(f, c) + Entry(g, c)
    BY <1>1, <1>2, <1>3, TotalNat, TotalChange
  <1>6. QED
    BY <1>4, <1>5 DEF f, g, LockedOf

\* When one payment is added, a donation's spent money changes by it.
LEMMA SpentChange ==
  ASSUME TypeOK, TypeOK', NEW m, NEW d,
         \A x : x # m => (x \in DOMAIN payments' <=> x \in DOMAIN payments),
         \A x \in DOMAIN payments : x # m => payments'[x] = payments[x]
  PROVE  SpentOf(d)' = SpentOf(d) - SpentBy(m, d) + SpentBy(m, d)'
  <1> DEFINE f == [x \in {y \in DOMAIN payments : d \in DOMAIN payments[y].sources} |->
                     payments[x].sources[d]]
             g == [x \in {y \in DOMAIN payments' : d \in DOMAIN payments'[y].sources} |->
                     payments'[x].sources[d]]
  <1>1. IsFiniteSet(DOMAIN f) /\ f \in [DOMAIN f -> Nat]
    BY FS_Subset DEF TypeOK, Keyed, Payment
  <1>2. IsFiniteSet(DOMAIN g) /\ g \in [DOMAIN g -> Nat]
    BY FS_Subset DEF TypeOK, Keyed, Payment
  <1>3. DOMAIN f \ {m} = DOMAIN g \ {m} /\ \A x \in DOMAIN f \ {m} : g[x] = f[x]
    OBVIOUS
  <1>4. Entry(f, m) = SpentBy(m, d) /\ Entry(g, m) = SpentBy(m, d)'
    BY DEF Entry, SpentBy
  <1> HIDE DEF f, g
  <1>5. Total(g) = Total(f) - Entry(f, m) + Entry(g, m)
    BY <1>1, <1>2, <1>3, TotalNat, TotalChange
  <1>6. QED
    BY <1>4, <1>5 DEF f, g, SpentOf

\* A new refund adds to what its donation got back.
LEMMA RefundedChange ==
  ASSUME TypeOK, TypeOK', NEW r, NEW d, r \notin DOMAIN refunds,
         DOMAIN refunds' = DOMAIN refunds \cup {r},
         \A x \in DOMAIN refunds : refunds'[x] = refunds[x]
  PROVE  RefundedOf(d)' = RefundedOf(d) + (IF refunds'[r].donation = d
                                           THEN refunds'[r].amount ELSE 0)
  <1> DEFINE f == [x \in {y \in DOMAIN refunds : refunds[y].donation = d} |-> refunds[x].amount]
             g == [x \in {y \in DOMAIN refunds' : refunds'[y].donation = d} |-> refunds'[x].amount]
  <1>1. IsFiniteSet(DOMAIN f) /\ f \in [DOMAIN f -> Nat]
    BY FS_Subset, AmountsAssumption DEF TypeOK, Collection, Keyed, Refund
  <1>2. IsFiniteSet(DOMAIN g) /\ g \in [DOMAIN g -> Nat]
    BY FS_Subset, AmountsAssumption DEF TypeOK, Collection, Keyed, Refund
  <1>3. DOMAIN f \ {r} = DOMAIN g \ {r} /\ \A x \in DOMAIN f \ {r} : g[x] = f[x]
    OBVIOUS
  <1>4. Entry(f, r) = 0 /\ Entry(g, r) = IF refunds'[r].donation = d THEN refunds'[r].amount ELSE 0
    BY DEF Entry
  <1> HIDE DEF f, g
  <1>5. Total(g) = Total(f) - Entry(f, r) + Entry(g, r) /\ Total(f) \in Int
    BY <1>1, <1>2, <1>3, TotalNat, TotalChange
  <1>6. QED
    BY <1>4, <1>5 DEF f, g, RefundedOf
-----------------------------------------------------------------------------
(* Every handler moves money between two pots *)

\* k wei of donation d cross from one pot to another.
Moved(d, from, to, k) ==
  \A p \in {"gas", "free", "allocated", "locked", "spent", "refunded"} :
    PotsOf(d)'[p] = IF p = from THEN PotsOf(d)[p] - k
                    ELSE IF p = to THEN PotsOf(d)[p] + k ELSE PotsOf(d)[p]

\* The pots of a donation are numbers.
LEMMA PotsType ==
  ASSUME TypeOK, NEW d \in DOMAIN donations
  PROVE  PotsOf(d) \in [gas : Nat, free : Nat, allocated : Nat, locked : Nat, spent : Nat,
                        refunded : Nat]
  BY TotalsType DEF PotsOf, TypeOK, Collection, Donation

\* A pot summed over books that stay does not change.
LEMMA SameTotals ==
  ASSUME NEW d
  PROVE  /\ UNCHANGED allocations => AllocatedOf(d)' = AllocatedOf(d)
         /\ UNCHANGED contracts => LockedOf(d)' = LockedOf(d)
         /\ UNCHANGED payments => SpentOf(d)' = SpentOf(d)
         /\ UNCHANGED refunds => RefundedOf(d)' = RefundedOf(d)
  BY DEF AllocatedOf, LockedOf, SpentOf, RefundedOf

\* A new donation starts with its whole amount in the gas and free pots.
LEMMA ReceiveMoves ==
  ASSUME TypeOK, TypeOK', NEW d \in DonationIds, NEW gift \in Gifts, Receiving(d, gift)
  PROVE  /\ \A e \in DOMAIN donations : PotsOf(e)' = PotsOf(e)
         /\ PotsOf(d)' = [gas |-> gift.gasReserved, free |-> gift.amount - gift.gasReserved,
                          allocated |-> 0, locked |-> 0, spent |-> 0, refunded |-> 0]
  <1>1. /\ d \notin DOMAIN donations
        /\ donations'[d].gasReserved = gift.gasReserved
        /\ donations'[d].available = gift.amount - gift.gasReserved
        /\ \A e \in DOMAIN donations : donations'[e] = donations[e]
        /\ UNCHANGED <<tasks, allocations, contracts, payments, refunds>>
    BY DEF Receiving
  <1>2. ASSUME NEW e \in DOMAIN donations PROVE PotsOf(e)' = PotsOf(e)
    BY <1>1, SameTotals DEF PotsOf
  <1>3. AllocatedOf(d) = 0 /\ LockedOf(d) = 0 /\ SpentOf(d) = 0 /\ RefundedOf(d) = 0
    <2>1. /\ {x \in DOMAIN allocations : x[2] = d} = {}
          /\ {x \in DOMAIN contracts : d \in DOMAIN contracts[x].sources} = {}
          /\ {x \in DOMAIN payments : d \in DOMAIN payments[x].sources} = {}
          /\ {x \in DOMAIN refunds : refunds[x].donation = d} = {}
      BY <1>1 DEF TypeOK, Collection, Keyed
    <2>2. QED
      BY <2>1, TotalEmpty DEF AllocatedOf, LockedOf, SpentOf, RefundedOf
  <1>4. QED
    BY <1>1, <1>2, <1>3, SameTotals DEF PotsOf

\* An allocation moves money from free to allocated.
LEMMA AllocateMoves ==
  ASSUME TypeOK, TypeOK', NEW d \in DonationIds, NEW t \in TaskIds, NEW amount \in Amounts,
         Allocating(d, t, amount), NEW e \in DOMAIN donations
  PROVE  \E k \in Nat : Moved(e, "free", "allocated", k)
  <1> DEFINE k == IF e = d THEN amount ELSE 0
  <1>1. donations[e] \in Donation /\ amount \in Nat
    BY DEF Allocating, TypeOK, Collection
  <1>2. /\ donations'[e].gasReserved = donations[e].gasReserved
        /\ donations'[e].available = donations[e].available - k
    BY <1>1 DEF Allocating, Donation
  <1>3. AllocatedOf(e)' = AllocatedOf(e) + k
    <2>1. \A x \in DOMAIN tasks : x # t =>
           /\ <<x, e>> \in DOMAIN allocations' <=> <<x, e>> \in DOMAIN allocations
           /\ <<x, e>> \in DOMAIN allocations => allocations'[<<x, e>>] = allocations[<<x, e>>]
      BY DEF Allocating
    <2>2. AllocatedOf(e)' = AllocatedOf(e) - Entry(allocations, <<t, e>>)
                                           + Entry(allocations', <<t, e>>)
      BY <2>1, AllocatedChange DEF Allocating
    <2>3. Entry(allocations, <<t, e>>) \in Nat /\ AllocatedOf(e) \in Nat
      BY TotalsType DEF Entry, TypeOK, Collection
    <2>4. Entry(allocations', <<t, e>>) = Entry(allocations, <<t, e>>) + k
      <3>1. CASE e = d
        BY <3>1 DEF Allocating, Entry
      <3>2. CASE e # d
        BY <3>2, <2>3 DEF Allocating, Entry
      <3>3. QED
        BY <3>1, <3>2
    <2>5. QED
      BY <1>1, <2>2, <2>3, <2>4
  <1>4. LockedOf(e)' = LockedOf(e) /\ SpentOf(e)' = SpentOf(e) /\ RefundedOf(e)' = RefundedOf(e)
    BY SameTotals DEF Allocating
  <1>5. k \in Nat
    BY <1>1
  <1> HIDE DEF k
  <1>6. Moved(e, "free", "allocated", k)
    BY <1>2, <1>3, <1>4 DEF PotsOf, Moved
  <1>7. QED
    BY <1>5, <1>6

\* A lock moves money from allocated to locked.
LEMMA LockMoves ==
  ASSUME TypeOK, TypeOK', NEW c \in ContractIds, NEW t \in TaskIds, NEW amount \in Amounts,
         Locking(c, t, amount), NEW e \in DOMAIN donations
  PROVE  \E k \in Nat : Moved(e, "allocated", "locked", k)
  <1> DEFINE k == Entry(LockTakes(t, amount), e)
  <1>1. k \in Nat
    BY DEF Locking, Entry
  <1>2. AllocatedOf(e)' = AllocatedOf(e) - k
    <2>1. /\ DOMAIN tasks' = DOMAIN tasks /\ t \in DOMAIN tasks
          /\ DOMAIN allocations' = DOMAIN allocations
          /\ \A x \in DOMAIN tasks : <<x, e>> \in DOMAIN allocations =>
               allocations'[<<x, e>>] = allocations[<<x, e>>] - (IF x = t THEN k ELSE 0)
      BY DEF Locking
    <2>2. k # 0 => <<t, e>> \in DOMAIN allocations
      BY DEF Locking, Entry
    <2> HIDE DEF k
    <2>3. \A x \in DOMAIN tasks : <<x, e>> \in DOMAIN allocations => allocations[<<x, e>>] \in Nat
      BY DEF TypeOK, Collection
    <2>4. AllocatedOf(e)' = AllocatedOf(e) - Entry(allocations, <<t, e>>)
                                           + Entry(allocations', <<t, e>>)
      BY <2>1, <2>3, AllocatedChange
    <2>5. AllocatedOf(e) \in Nat
      BY TotalsType
    <2>6. CASE <<t, e>> \in DOMAIN allocations
      BY <1>1, <2>1, <2>3, <2>4, <2>5, <2>6 DEF Entry
    <2>7. CASE <<t, e>> \notin DOMAIN allocations
      BY <2>1, <2>2, <2>4, <2>5, <2>7 DEF Entry
    <2>8. QED
      BY <2>6, <2>7
  <1>3. LockedOf(e)' = LockedOf(e) + k
    <2>1. LockedOf(e)' = LockedOf(e) - HeldBy(c, e) + HeldBy(c, e)'
      BY LockedChange DEF Locking
    <2>2. HeldBy(c, e) = 0 /\ HeldBy(c, e)' = k
      BY DEF Locking, HeldBy, Entry, Contract
    <2>3. QED
      BY <1>1, <2>1, <2>2, TotalsType
  <1>4. /\ SpentOf(e)' = SpentOf(e) /\ RefundedOf(e)' = RefundedOf(e)
        /\ donations' = donations
    BY SameTotals DEF Locking
  <1> HIDE DEF k
  <1>5. Moved(e, "allocated", "locked", k)
    BY <1>2, <1>3, <1>4 DEF PotsOf, Moved
  <1>6. QED
    BY <1>1, <1>5

\* A payment moves money from locked to spent.
LEMMA PayMoves ==
  ASSUME TypeOK, TypeOK', NEW m \in PaymentIds, NEW c \in ContractIds, NEW amount \in Amounts,
         Paying(m, c, amount), NEW e \in DOMAIN donations
  PROVE  \E k \in Nat : Moved(e, "locked", "spent", k)
  <1> DEFINE k == Entry(PayTakes(c, amount), e)
  <1>1. k \in Nat
    BY DEF Paying, Entry
  <1>2. LockedOf(e)' = LockedOf(e) - k
    <2>1. LockedOf(e)' = LockedOf(e) - HeldBy(c, e) + HeldBy(c, e)'
      BY LockedChange DEF Paying
    <2>2. HeldBy(c, e)' = HeldBy(c, e) - k /\ HeldBy(c, e) \in Nat
      <3>1. /\ c \in DOMAIN contracts /\ c \in DOMAIN contracts'
            /\ DOMAIN contracts'[c].sources = DOMAIN contracts[c].sources
        BY DEF Paying, Contract
      <3>2. CASE e \in DOMAIN contracts[c].sources
        <4>1. contracts[c].sources[e].remaining \in Nat
          BY <3>1, <3>2 DEF TypeOK, Contract
        <4>2. contracts'[c].sources[e].remaining = contracts[c].sources[e].remaining - k
          BY <3>2 DEF Paying
        <4>3. QED
          BY <3>1, <3>2, <4>1, <4>2 DEF HeldBy
      <3>3. CASE e \notin DOMAIN contracts[c].sources
        <4>1. k = 0
          BY <3>3 DEF Paying, Entry
        <4>2. QED
          BY <3>1, <3>3, <4>1 DEF HeldBy
      <3>4. QED
        BY <3>2, <3>3
    <2> HIDE DEF k
    <2>3. QED
      BY <1>1, <2>1, <2>2, TotalsType
  <1>3. SpentOf(e)' = SpentOf(e) + k
    <2>1. SpentOf(e)' = SpentOf(e) - SpentBy(m, e) + SpentBy(m, e)'
      BY SpentChange DEF Paying
    <2>2. SpentBy(m, e) = 0 /\ SpentBy(m, e)' = k
      BY DEF Paying, SpentBy
    <2>3. QED
      BY <1>1, <2>1, <2>2, TotalsType
  <1>4. /\ AllocatedOf(e)' = AllocatedOf(e) /\ RefundedOf(e)' = RefundedOf(e)
        /\ donations' = donations
    BY SameTotals DEF Paying
  <1> HIDE DEF k
  <1>5. Moved(e, "locked", "spent", k)
    BY <1>2, <1>3, <1>4 DEF PotsOf, Moved
  <1>6. QED
    BY <1>1, <1>5

\* Closing a contract moves money from locked back to allocated.
LEMMA ReleaseMoves ==
  ASSUME TypeOK, TypeOK', BooksInOrder, NEW c \in ContractIds, NEW amount \in Amounts \cup {0},
         Releasing(c, amount), NEW e \in DOMAIN donations
  PROVE  \E k \in Nat : Moved(e, "locked", "allocated", k)
  <1> DEFINE k == HeldBy(c, e)
             t == contracts[c].task
  <1>1. k \in Nat
    BY DEF HeldBy, TypeOK, Contract
  <1>2. LockedOf(e)' = LockedOf(e) - k
    <2>1. LockedOf(e)' = LockedOf(e) - HeldBy(c, e) + HeldBy(c, e)'
      BY LockedChange DEF Releasing
    <2>2. HeldBy(c, e)' = 0
      BY DEF Releasing, HeldBy, Contract
    <2> HIDE DEF k
    <2>3. QED
      BY <1>1, <2>1, <2>2, TotalsType DEF k
  <1>3. AllocatedOf(e)' = AllocatedOf(e) + k
    <2>1. /\ DOMAIN tasks' = DOMAIN tasks /\ t \in DOMAIN tasks
          /\ DOMAIN allocations' = DOMAIN allocations
          /\ \A x \in DOMAIN tasks : <<x, e>> \in DOMAIN allocations =>
               allocations'[<<x, e>>] = allocations[<<x, e>>] + (IF x = t THEN k ELSE 0)
      BY DEF Releasing, HeldBy, TypeOK
    <2>2. k # 0 => <<t, e>> \in DOMAIN allocations
      BY DEF HeldBy, BooksInOrder, ContractsInOrder
    <2> HIDE DEF k, t
    <2>3. \A x \in DOMAIN tasks : <<x, e>> \in DOMAIN allocations => allocations[<<x, e>>] \in Nat
      BY DEF TypeOK, Collection
    <2>4. AllocatedOf(e)' = AllocatedOf(e) - Entry(allocations, <<t, e>>)
                                           + Entry(allocations', <<t, e>>)
      BY <2>1, <2>3, AllocatedChange
    <2>5. AllocatedOf(e) \in Nat
      BY TotalsType
    <2>6. CASE <<t, e>> \in DOMAIN allocations
      BY <1>1, <2>1, <2>3, <2>4, <2>5, <2>6 DEF Entry
    <2>7. CASE <<t, e>> \notin DOMAIN allocations
      BY <2>1, <2>2, <2>4, <2>5, <2>7 DEF Entry
    <2>8. QED
      BY <2>6, <2>7
  <1>4. /\ SpentOf(e)' = SpentOf(e) /\ RefundedOf(e)' = RefundedOf(e)
        /\ donations' = donations
    BY SameTotals DEF Releasing
  <1> HIDE DEF k
  <1>5. Moved(e, "locked", "allocated", k)
    BY <1>2, <1>3, <1>4 DEF PotsOf, Moved
  <1>6. QED
    BY <1>1, <1>5

\* Closing a task moves money from allocated back to free.
LEMMA TaskCloseMoves ==
  ASSUME TypeOK, TypeOK', NEW t \in TaskIds, TaskClosing(t), NEW e \in DOMAIN donations
  PROVE  \E k \in Nat : Moved(e, "allocated", "free", k)
  <1> DEFINE k == Entry(allocations, <<t, e>>)
  <1>1. k \in Nat
    BY DEF Entry, TypeOK, Collection
  <1>2. AllocatedOf(e)' = AllocatedOf(e) - k
    <2>1. /\ DOMAIN tasks' = DOMAIN tasks /\ t \in DOMAIN tasks
          /\ DOMAIN allocations' = DOMAIN allocations
          /\ \A x \in DOMAIN tasks : <<x, e>> \in DOMAIN allocations =>
               allocations'[<<x, e>>] = IF x = t THEN 0 ELSE allocations[<<x, e>>]
      BY DEF TaskClosing
    <2>2. AllocatedOf(e)' = AllocatedOf(e) - Entry(allocations, <<t, e>>)
                                           + Entry(allocations', <<t, e>>)
      BY <2>1, AllocatedChange
    <2>3. Entry(allocations', <<t, e>>) = 0
      BY <2>1 DEF Entry
    <2> HIDE DEF k
    <2>4. QED
      BY <1>1, <2>2, <2>3, TotalsType DEF k
  <1>3. /\ donations'[e].gasReserved = donations[e].gasReserved
        /\ donations'[e].available = donations[e].available + k
    BY <1>1 DEF TaskClosing, TypeOK, Collection, Donation
  <1>4. LockedOf(e)' = LockedOf(e) /\ SpentOf(e)' = SpentOf(e) /\ RefundedOf(e)' = RefundedOf(e)
    BY SameTotals DEF TaskClosing
  <1> HIDE DEF k
  <1>5. Moved(e, "allocated", "free", k)
    BY <1>2, <1>3, <1>4 DEF PotsOf, Moved
  <1>6. QED
    BY <1>1, <1>5

\* A refund moves money from free to refunded.
LEMMA RefundMoves ==
  ASSUME TypeOK, TypeOK', NEW f \in RefundIds, NEW d \in DonationIds, NEW amount \in Amounts,
         Refunding(f, d, amount), NEW e \in DOMAIN donations
  PROVE  \E k \in Nat : Moved(e, "free", "refunded", k)
  <1> DEFINE k == IF e = d THEN amount ELSE 0
  <1>1. k \in Nat
    BY DEF Refunding
  <1>2. /\ donations'[e].gasReserved = donations[e].gasReserved
        /\ donations'[e].available = donations[e].available - k
    BY DEF Refunding, TypeOK, Collection, Donation
  <1>3. RefundedOf(e)' = RefundedOf(e) + k
    BY RefundedChange DEF Refunding
  <1>4. AllocatedOf(e)' = AllocatedOf(e) /\ LockedOf(e)' = LockedOf(e) /\ SpentOf(e)' = SpentOf(e)
    BY SameTotals DEF Refunding
  <1> HIDE DEF k
  <1>5. Moved(e, "free", "refunded", k)
    BY <1>2, <1>3, <1>4 DEF PotsOf, Moved
  <1>6. QED
    BY <1>1, <1>5
\* Every step receives a donation, moves money of each donation along one
\* and the same edge of the abstract specification, or moves none.
AllMoved(from, to) ==
  /\ <<from, to>> \in Flow!Edges
  /\ \A e \in DOMAIN donations : \E k \in Nat : Moved(e, from, to, k)

\* Every event moves money between two pots of each donation, or adds one.
LEMMA StepMoves ==
  ASSUME TypeOK, TypeOK', BooksInOrder, [Next]_vars
  PROVE  \/ \E d \in DonationIds, gift \in Gifts : Receiving(d, gift)
         \/ /\ DOMAIN donations' = DOMAIN donations
            /\ \A e \in DOMAIN donations : donations'[e].amount = donations[e].amount
            /\ \/ \A e \in DOMAIN donations : PotsOf(e)' = PotsOf(e)
               \/ \E from, to : AllMoved(from, to)
  <1> DEFINE Steady == /\ DOMAIN donations' = DOMAIN donations
                       /\ \A e \in DOMAIN donations : donations'[e].amount = donations[e].amount
  <1>1. ASSUME UNCHANGED <<donations, allocations, contracts, payments, refunds>>
        PROVE  Steady /\ \A e \in DOMAIN donations : PotsOf(e)' = PotsOf(e)
    BY <1>1, SameTotals DEF PotsOf
  <1>2. ASSUME NEW t \in TaskIds, Registering(t) \/ Pausing(t)
        PROVE  Steady /\ \A e \in DOMAIN donations : PotsOf(e)' = PotsOf(e)
    BY <1>1, <1>2 DEF Registering, Pausing
  <1>3. ASSUME NEW d \in DonationIds, NEW t \in TaskIds, NEW amount \in Amounts,
               Allocating(d, t, amount)
        PROVE  Steady /\ AllMoved("free", "allocated")
    <2>1. Steady
      BY <1>3 DEF Allocating, TypeOK, Collection, Donation
    <2>2. AllMoved("free", "allocated")
      BY <1>3, AllocateMoves DEF AllMoved, Flow!Edges
    <2>3. QED
      BY <2>1, <2>2
  <1>4. ASSUME NEW c \in ContractIds, NEW t \in TaskIds, NEW amount \in Amounts,
               Locking(c, t, amount)
        PROVE  Steady /\ AllMoved("allocated", "locked")
    <2>1. Steady
      BY <1>4 DEF Locking
    <2>2. AllMoved("allocated", "locked")
      BY <1>4, LockMoves DEF AllMoved, Flow!Edges
    <2>3. QED
      BY <2>1, <2>2
  <1>5. ASSUME NEW m \in PaymentIds, NEW c \in ContractIds, NEW amount \in Amounts,
               Paying(m, c, amount)
        PROVE  Steady /\ AllMoved("locked", "spent")
    <2>1. Steady
      BY <1>5 DEF Paying
    <2>2. AllMoved("locked", "spent")
      BY <1>5, PayMoves DEF AllMoved, Flow!Edges
    <2>3. QED
      BY <2>1, <2>2
  <1>6. ASSUME NEW c \in ContractIds, NEW amount \in Amounts \cup {0}, Releasing(c, amount)
        PROVE  Steady /\ AllMoved("locked", "allocated")
    <2>1. Steady
      BY <1>6 DEF Releasing
    <2>2. AllMoved("locked", "allocated")
      BY <1>6, ReleaseMoves DEF AllMoved, Flow!Edges
    <2>3. QED
      BY <2>1, <2>2
  <1>7. ASSUME NEW t \in TaskIds, TaskClosing(t)
        PROVE  Steady /\ AllMoved("allocated", "free")
    <2>1. Steady
      <3>1. \A e \in DOMAIN donations : donations[e] \in Donation
        BY DEF TypeOK, Collection
      <3>2. ASSUME NEW e \in DOMAIN donations PROVE donations'[e].amount = donations[e].amount
        <4>1. /\ donations[e] \in Donation
              /\ donations'[e] = [donations[e] EXCEPT !.available = @ + Entry(allocations, <<t, e>>)]
          BY <1>7, <3>1 DEF TaskClosing
        <4>2. QED
          BY <4>1 DEF Donation
      <3>3. QED
        BY <1>7, <3>2 DEF TaskClosing
    <2>2. AllMoved("allocated", "free")
      BY <1>7, TaskCloseMoves DEF AllMoved, Flow!Edges
    <2>3. QED
      BY <2>1, <2>2
  <1>8. ASSUME NEW f \in RefundIds, NEW d \in DonationIds, NEW amount \in Amounts,
               Refunding(f, d, amount)
        PROVE  Steady /\ AllMoved("free", "refunded")
    <2>1. Steady
      BY <1>8 DEF Refunding, TypeOK, Collection, Donation
    <2>2. AllMoved("free", "refunded")
      BY <1>8, RefundMoves DEF AllMoved, Flow!Edges
    <2>3. QED
      BY <2>1, <2>2
  <1>9. CASE UNCHANGED vars
    BY <1>1, <1>9 DEF vars
  <1> HIDE DEF Steady
  <1>10. CASE Next
    BY <1>2, <1>3, <1>4, <1>5, <1>6, <1>7, <1>8, <1>10, StepEffects DEF Steady
  <1>11. QED
    BY <1>9, <1>10 DEF Steady

\* Every event conserves each donation.
LEMMA SourceNext ==
  ASSUME TypeOK, TypeOK', BooksInOrder, SourceConserved, [Next]_vars
  PROVE  SourceConserved'
  <1> DEFINE Whole(e) == donations[e].amount =
                 PotsOf(e).free + PotsOf(e).gas + PotsOf(e).allocated + PotsOf(e).locked
                   + PotsOf(e).spent + PotsOf(e).refunded
  <1>1. \A e \in DOMAIN donations : Whole(e)
    BY DEF SourceConserved, PotsOf
  <1>2. (\A e \in DOMAIN donations' : Whole(e)') => SourceConserved'
    BY DEF SourceConserved, PotsOf
  <1>3. ASSUME NEW d \in DonationIds, NEW gift \in Gifts, Receiving(d, gift)
        PROVE  \A e \in DOMAIN donations' : Whole(e)'
    <2>1. PotsOf(d)' = [gas |-> gift.gasReserved, free |-> gift.amount - gift.gasReserved,
                        allocated |-> 0, locked |-> 0, spent |-> 0, refunded |-> 0]
      BY <1>3, ReceiveMoves
    <2>2. \A e \in DOMAIN donations : PotsOf(e)' = PotsOf(e)
      BY <1>3, ReceiveMoves
    <2>3. gift.amount \in Nat /\ gift.gasReserved \in Nat
      BY InputsAssumption
    <2>4. Whole(d)'
      BY <1>3, <2>1, <2>3 DEF Receiving
    <2>5. \A e \in DOMAIN donations : Whole(e)'
      BY <1>1, <1>3, <2>2 DEF Receiving
    <2>6. QED
      BY <1>3, <2>4, <2>5 DEF Receiving
  <1>4. ASSUME DOMAIN donations' = DOMAIN donations, NEW e \in DOMAIN donations,
               donations'[e].amount = donations[e].amount,
               NEW from, NEW to, NEW k \in Nat, <<from, to>> \in Flow!Edges, Moved(e, from, to, k)
        PROVE  Whole(e)'
    <2>1. PotsOf(e) \in [gas : Nat, free : Nat, allocated : Nat, locked : Nat, spent : Nat,
                         refunded : Nat]
      BY PotsType
    <2>2. \/ from = "free" /\ to \in {"allocated", "refunded"}
          \/ from = "allocated" /\ to \in {"free", "locked"}
          \/ from = "locked" /\ to \in {"allocated", "spent"}
      BY <1>4 DEF Flow!Edges
    <2>3. Whole(e)
      BY <1>1
    <2>4. QED
      BY <1>4, <2>1, <2>2, <2>3 DEF Moved
  <1> HIDE DEF Whole
  <1>5. ASSUME DOMAIN donations' = DOMAIN donations,
               \A e \in DOMAIN donations : donations'[e].amount = donations[e].amount,
               \A e \in DOMAIN donations : PotsOf(e)' = PotsOf(e)
        PROVE  \A e \in DOMAIN donations' : Whole(e)'
    BY <1>1, <1>5 DEF Whole
  <1>6. ASSUME DOMAIN donations' = DOMAIN donations,
               \A e \in DOMAIN donations : donations'[e].amount = donations[e].amount,
               NEW from, NEW to, AllMoved(from, to)
        PROVE  \A e \in DOMAIN donations' : Whole(e)'
    BY <1>4, <1>6 DEF AllMoved
  <1>7. QED
    BY <1>2, <1>3, <1>5, <1>6, StepMoves

\* The six pots of a donation hold at all times what its donor gave: no route
\* through tasks, contracts, batches and refunds loses or makes a wei, and
\* SOURCE_CONSERVATION_FAILED is never thrown.
THEOREM SourceAlwaysConserved == Spec => []SourceConserved
  <1>1. Init => SourceConserved
    BY DEF Init, SourceConserved
  <1>2. TypeOK /\ TypeOK' /\ BooksInOrder /\ SourceConserved /\ [Next]_vars => SourceConserved'
    BY SourceNext
  <1>3. QED
    BY <1>1, <1>2, TypeCorrect, BooksStayInOrder, PTL DEF Spec

\* Every event is a step of the abstract flow of money, or none.
LEMMA FlowNext ==
  ASSUME TypeOK, TypeOK', BooksInOrder, [Next]_vars
  PROVE  [Flow!Next]_([d \in DOMAIN donations |-> PotsOf(d)])
  <1> DEFINE pots == [d \in DOMAIN donations |-> PotsOf(d)]
  <1>1. ASSUME NEW d \in DonationIds, NEW gift \in Gifts, Receiving(d, gift)
        PROVE  Flow!Receive(d)
    <2>1. PotsOf(d)' = [gas |-> gift.gasReserved, free |-> gift.amount - gift.gasReserved,
                        allocated |-> 0, locked |-> 0, spent |-> 0, refunded |-> 0]
      BY <1>1, ReceiveMoves
    <2>2. \A e \in DOMAIN donations : PotsOf(e)' = PotsOf(e)
      BY <1>1, ReceiveMoves
    <2>3. d \notin DOMAIN donations /\ DOMAIN donations' = DOMAIN donations \cup {d}
      BY <1>1 DEF Receiving
    <2>4. /\ DOMAIN pots = DOMAIN donations /\ DOMAIN pots' = DOMAIN donations'
          /\ pots'[d] = PotsOf(d)'
          /\ \A e \in DOMAIN donations : pots[e] = PotsOf(e) /\ pots'[e] = PotsOf(e)'
      BY <2>3
    <2>5. Flow!Restrict(pots', DOMAIN pots) = pots
      BY <2>2, <2>3 DEF Flow!Restrict
    <2>6. \E p \in {"gas", "free"} : pots'[d][p] > 0
      <3>1. gift.amount \in Nat \ {0} /\ gift.gasReserved \in Nat
        BY InputsAssumption
      <3>2. gift.gasReserved > 0 \/ gift.amount - gift.gasReserved > 0
        BY <3>1
      <3>3. QED
        BY <2>1, <2>4, <3>2
    <2>7. \A p \in Flow!Pots \ {"gas", "free"} : pots'[d][p] = 0
      BY <2>1, <2>4 DEF Flow!Pots
    <2>8. QED
      BY <2>3, <2>4, <2>5, <2>6, <2>7 DEF Flow!Receive
  <1>2. ASSUME DOMAIN donations' = DOMAIN donations, NEW from, NEW to, AllMoved(from, to)
        PROVE  Flow!Transfer(<<from, to>>)
    <2>1. DOMAIN pots' = DOMAIN pots /\ DOMAIN pots = DOMAIN donations
      BY <1>2
    <2>2. ASSUME NEW e \in DOMAIN donations PROVE Flow!Crosses(e, <<from, to>>)
      <3>1. PICK k \in Nat : Moved(e, from, to, k)
        BY <1>2 DEF AllMoved
      <3>2. /\ from \in Flow!Pots /\ to \in Flow!Pots /\ from # to
        BY <1>2 DEF AllMoved, Flow!Edges, Flow!Pots
      <3> DEFINE P == PotsOf(e)
                 Q == PotsOf(e)'
                 R == [P EXCEPT ![from] = @ - k, ![to] = @ + k]
      <3>3. P[from] \in Nat /\ P = [p \in Flow!Pots |-> P[p]] /\ Q = [p \in Flow!Pots |-> Q[p]]
        BY <3>2, PotsType DEF Flow!Pots, PotsOf
      <3>4. \A p \in Flow!Pots : Q[p] = IF p = from THEN P[p] - k
                                      ELSE IF p = to THEN P[p] + k ELSE P[p]
        BY <3>1 DEF Moved, Flow!Pots
      <3>5. pots[e] = P /\ pots'[e] = Q
        BY <1>2
      <3> HIDE DEF P, Q
      <3>6. Q = R
        BY <3>2, <3>3, <3>4
      <3>7. P[from] - Q[from] = k
        BY <3>2, <3>3, <3>4
      <3>8. Q = [P EXCEPT ![from] = @ - (P[from] - Q[from]), ![to] = @ + (P[from] - Q[from])]
        BY <3>6, <3>7
      <3> HIDE DEF pots
      <3>9. /\ pots[e][from] - pots'[e][from] >= 0
            /\ pots'[e] = [pots[e] EXCEPT ![from] = @ - (pots[e][from] - pots'[e][from]),
                                         ![to] = @ + (pots[e][from] - pots'[e][from])]
        <4>1. P[from] - Q[from] >= 0
          BY <3>7
        <4>2. QED
          BY <3>5, <3>8, <4>1
      <3>10. QED
        BY <3>9 DEF Flow!Crosses, pots
    <2>3. QED
      BY <2>1, <2>2 DEF Flow!Transfer
  <1>3. ASSUME DOMAIN donations' = DOMAIN donations,
               \A e \in DOMAIN donations : PotsOf(e)' = PotsOf(e)
        PROVE  pots' = pots
    BY <1>3
  <1>4. QED
    BY <1>1, <1>2, <1>3, StepMoves DEF Flow!Next, AllMoved

\* The ledger keeps the donor's promise: whatever contracts, tasks and batches
\* lie between, each event moves money of the donations along one edge of
\* DonationFlow, and what was spent or refunded never comes back.
THEOREM LedgerImplementsFlow == Spec => FlowSpec
  <1>1. Init => Flow!Init
    BY DEF Init, Flow!Init
  <1>2. TypeOK /\ TypeOK' /\ BooksInOrder /\ [Next]_vars
          => [Flow!Next]_([d \in DOMAIN donations |-> PotsOf(d)])
    BY FlowNext
  <1>3. QED
    BY <1>1, <1>2, TypeCorrect, BooksStayInOrder, PTL DEF Spec, FlowSpec, Flow!Spec

-----------------------------------------------------------------------------
(* The split over the donations, oldest first *)

\* No two donations arrived at once, so arrival ranks any of them linearly.
LEMMA ArrivalRanks ==
  ASSUME TypeOK, BooksInOrder, NEW D \in SUBSET DOMAIN donations
  PROVE  LinearOrder(Ranking(D, Older), D)
  <1>1. \A d \in D : donations[d].at \in Nat
    BY DEF TypeOK, Collection, Donation
  <1>2. \A d, e \in D : donations[d].at = donations[e].at => d = e
    BY DEF BooksInOrder, ArrivalsDistinct
  <1>3. \A d, e \in D : <<d, e>> \in Ranking(D, Older) <=> donations[d].at < donations[e].at
    BY DEF Ranking, Older
  <1>4. QED
    BY <1>1, <1>2, <1>3 DEF LinearOrder, StrictOrder

\* The shares make up the whole amount.
LEMMA SourcesFromTotal ==
  ASSUME TypeOK, BooksInOrder, NEW balance, Capacity(balance),
         DOMAIN balance \subseteq DOMAIN donations,
         NEW amount \in Amounts, amount <= Total(balance)
  PROVE  /\ Summable(SourcesFrom(balance, amount))
         /\ Total(SourcesFrom(balance, amount)) = amount
  <1>1. LinearOrder(Ranking(DOMAIN balance, Older), DOMAIN balance)
    BY ArrivalRanks
  <1>2. amount \in Nat
    BY AmountsAssumption
  <1>3. QED
    BY <1>1, <1>2, GreedyTotal DEF SourcesFrom

\* A younger donation gives only when every older one gives all it has.
LEMMA SourcesFromOldest ==
  ASSUME TypeOK, BooksInOrder, NEW balance, Capacity(balance),
         DOMAIN balance \subseteq DOMAIN donations, NEW amount \in Amounts,
         NEW d \in DOMAIN balance, NEW e \in DOMAIN SourcesFrom(balance, amount), Older(d, e)
  PROVE  Entry(SourcesFrom(balance, amount), d) = balance[d]
  <1> DEFINE r == Ranking(DOMAIN balance, Older)
  <1>1. StrictOrder(r, DOMAIN balance)
    BY ArrivalRanks DEF LinearOrder
  <1>2. amount \in Nat
    BY AmountsAssumption
  <1>3. e \in DOMAIN balance
    BY SourcesFromType
  <1>4. <<d, e>> \in r
    BY <1>3 DEF Ranking
  <1>5. /\ SourcesFrom(balance, amount) = Greedy(amount, balance, r)
        /\ e \in DOMAIN Greedy(amount, balance, r)
    BY DEF SourcesFrom
  <1> HIDE DEF r
  <1>6. \/ d \notin DOMAIN Greedy(amount, balance, r) /\ balance[d] = 0
        \/ d \in DOMAIN Greedy(amount, balance, r) /\ Greedy(amount, balance, r)[d] = balance[d]
    BY <1>1, <1>2, <1>4, <1>5, GreedyExhausts
  <1>7. QED
    BY <1>5, <1>6 DEF Entry

-----------------------------------------------------------------------------
(* What is paid, released and left of a contract *)

\* What a contract has paid is a number.
LEMMA PaidOfType == ASSUME TypeOK, NEW c PROVE PaidOf(c) \in Nat
  <1> DEFINE f == [m \in {x \in DOMAIN payments : payments[x].contract = c} |-> payments[m].amount]
  <1>1. IsFiniteSet(DOMAIN f) /\ f \in [DOMAIN f -> Nat]
    BY FS_Subset, AmountsAssumption DEF TypeOK, Keyed, Payment
  <1> HIDE DEF f
  <1>2. Total(f) \in Nat
    BY <1>1, TotalNat
  <1>3. QED
    BY <1>2 DEF f, PaidOf

\* A payment adds to what its contract paid.
LEMMA PaidChange ==
  ASSUME TypeOK, TypeOK', NEW m, NEW c, m \notin DOMAIN payments,
         DOMAIN payments' = DOMAIN payments \cup {m},
         \A x \in DOMAIN payments : payments'[x] = payments[x]
  PROVE  PaidOf(c)' = PaidOf(c) + (IF payments'[m].contract = c
                                   THEN payments'[m].amount ELSE 0)
  <1> DEFINE f == [x \in {y \in DOMAIN payments : payments[y].contract = c} |->
                     payments[x].amount]
             g == [x \in {y \in DOMAIN payments' : payments'[y].contract = c} |->
                     payments'[x].amount]
  <1>1. IsFiniteSet(DOMAIN f) /\ f \in [DOMAIN f -> Nat]
    BY FS_Subset, AmountsAssumption DEF TypeOK, Keyed, Payment
  <1>2. IsFiniteSet(DOMAIN g) /\ g \in [DOMAIN g -> Nat]
    BY FS_Subset, AmountsAssumption DEF TypeOK, Keyed, Payment
  <1>3. DOMAIN f \ {m} = DOMAIN g \ {m} /\ \A x \in DOMAIN f \ {m} : g[x] = f[x]
    OBVIOUS
  <1>4. Entry(f, m) = 0 /\ Entry(g, m) = IF payments'[m].contract = c
                                          THEN payments'[m].amount ELSE 0
    BY DEF Entry
  <1> HIDE DEF f, g
  <1>5. Total(g) = Total(f) - Entry(f, m) + Entry(g, m) /\ Total(f) \in Int
    BY <1>1, <1>2, <1>3, TotalNat, TotalChange
  <1>6. QED
    BY <1>4, <1>5 DEF f, g, PaidOf

\* The account of contract c, and of payment m.
ContractBalanced(c) == contracts[c].amount = PaidOf(c) + contracts[c].released + Total(Remaining(c))
PaymentBalanced(m)  == payments[m].amount = Total(payments[m].sources)

\* A contract nobody touches stays balanced.
LEMMA BalancedUnchanged ==
  ASSUME NEW c, ContractBalanced(c), UNCHANGED contracts[c], UNCHANGED PaidOf(c)
  PROVE  ContractBalanced(c)'
  BY DEF ContractBalanced, Remaining

\* The money locked for a contract is the sum of its sources.
LEMMA LockBalances ==
  ASSUME TypeOK, TypeOK', BooksInOrder, NEW c \in ContractIds, NEW t \in TaskIds,
         NEW amount \in Amounts, Locking(c, t, amount)
  PROVE  ContractBalanced(c)'
  <1> DEFINE taken == LockTakes(t, amount)
  <1>1. Capacity(AvailableForTask(t)) /\ DOMAIN AvailableForTask(t) \subseteq DOMAIN donations
    BY AvailableForTaskType
  <1>2. amount <= Total(AvailableForTask(t))
    BY DEF Locking
  <1>3. Total(taken) = amount
    BY <1>1, <1>2, SourcesFromTotal DEF LockTakes
  <1>4. DOMAIN contracts'[c].sources = DOMAIN taken
    BY DEF Locking, Contract
  <1>5. taken = [d \in DOMAIN taken |-> taken[d]]
    BY DEF Locking
  <1> HIDE DEF taken
  <1>6. Remaining(c)' = taken
    BY <1>4, <1>5 DEF Locking, Remaining, taken
  <1>7. PaidOf(c)' = 0
    <2>1. {x \in DOMAIN payments' : payments'[x].contract = c} = {}
      BY DEF Locking, TypeOK
    <2>2. QED
      BY <2>1, TotalEmpty DEF PaidOf
  <1>8. /\ contracts'[c].amount = amount /\ contracts'[c].released = 0 /\ amount \in Nat
    BY AmountsAssumption DEF Locking
  <1>9. QED
    BY <1>3, <1>6, <1>7, <1>8 DEF ContractBalanced

\* A batch payment takes from the sources what it pays.
LEMMA PayBalances ==
  ASSUME TypeOK, TypeOK', BooksInOrder, NEW m \in PaymentIds, NEW c \in ContractIds,
         NEW amount \in Amounts, Paying(m, c, amount), ContractBalanced(c)
  PROVE  ContractBalanced(c)' /\ PaymentBalanced(m)'
  <1> DEFINE taken == PayTakes(c, amount)
             D == DOMAIN contracts[c].sources
  <1>1. c \in DOMAIN contracts /\ amount <= Total(Remaining(c)) /\ amount \in Nat
    BY AmountsAssumption DEF Paying
  <1>2. /\ Capacity(Remaining(c)) /\ DOMAIN Remaining(c) = D
        /\ \A d \in D : Remaining(c)[d] = contracts[c].sources[d].remaining
        /\ D \subseteq DOMAIN donations
    BY <1>1, RemainingType DEF TypeOK
  <1>3. Summable(taken) /\ Total(taken) = amount
    BY <1>1, <1>2, SourcesFromTotal DEF PayTakes
  <1>4. /\ DOMAIN Remaining(c)' = D
        /\ \A d \in D : Remaining(c)'[d] = contracts'[c].sources[d].remaining
        /\ \A d \in D : contracts'[c].sources[d].remaining \in Nat
    BY DEF Remaining, Paying, Contract
  <1>5. Summable(Remaining(c)) /\ Summable(Remaining(c)')
    <2>1. IsFiniteSet(D)
      BY <1>2 DEF Capacity
    <2>2. Remaining(c)' = [d \in D |-> Remaining(c)'[d]]
      BY <1>4 DEF Remaining
    <2> HIDE DEF D
    <2>3. QED
      BY <1>2, <1>4, <2>1, <2>2 DEF Capacity, Summable
  <1>6. /\ DOMAIN taken \subseteq D
        /\ \A d \in D : Remaining(c)[d] = Remaining(c)'[d] + (IF d \in DOMAIN taken THEN taken[d] ELSE 0)
    <2>1. /\ \A d \in DOMAIN taken : d \in D
          /\ \A d \in DOMAIN taken : taken[d] \in Nat
          /\ \A d \in D : contracts'[c].sources[d].remaining =
                            contracts[c].sources[d].remaining - Entry(taken, d)
      BY DEF Paying
    <2>2. \A d \in D : Remaining(c)[d] \in Nat
      BY <1>2 DEF Capacity
    <2> HIDE DEF taken, D
    <2>3. QED
      BY <1>2, <1>4, <2>1, <2>2 DEF Entry
  <1> HIDE DEF taken, D
  <1>7. Total(Remaining(c)) = Total(Remaining(c)') + amount
    BY <1>2, <1>3, <1>4, <1>5, <1>6, TotalSplit
  <1>8. Total(Remaining(c)') \in Int /\ PaidOf(c) \in Nat
    BY <1>5, TotalType, PaidOfType
  <1>9. PaidOf(c)' = PaidOf(c) + amount
    BY PaidChange DEF Paying
  <1>10. /\ contracts'[c].amount = contracts[c].amount
         /\ contracts'[c].released = contracts[c].released
         /\ contracts[c].released \in Nat
         /\ payments'[m].amount = amount /\ payments'[m].sources = taken
    BY DEF Paying, TypeOK, Contract, taken
  <1> DEFINE left == Total(Remaining(c))
             left2 == Total(Remaining(c)')
  <1>11. Total(Remaining(c))' = left2
    OBVIOUS
  <1> HIDE DEF left, left2
  <1>12. ContractBalanced(c)'
    BY <1>1, <1>7, <1>8, <1>9, <1>10, <1>11 DEF ContractBalanced, left, left2
  <1>13. QED
    BY <1>3, <1>10, <1>12 DEF PaymentBalanced

\* A closed contract has nothing left.
LEMMA NothingLeft ==
  ASSUME NEW f, IsFiniteSet(DOMAIN f), f = [d \in DOMAIN f |-> f[d]], \A d \in DOMAIN f : f[d] = 0
  PROVE  Total(f) = 0
  <1>1. f = [d \in DOMAIN f |-> 0]
    OBVIOUS
  <1>2. QED
    BY <1>1, TotalZero

\* Closing a contract takes what remains of every source.
LEMMA ReleaseBalances ==
  ASSUME TypeOK, TypeOK', BooksInOrder, NEW c \in ContractIds, NEW amount \in Amounts \cup {0},
         Releasing(c, amount), ContractBalanced(c)
  PROVE  ContractBalanced(c)'
  <1>1. /\ c \in DOMAIN contracts /\ amount = Total(Remaining(c))
        /\ contracts'[c].released = amount /\ contracts'[c].amount = contracts[c].amount
        /\ contracts[c].released = 0 /\ payments' = payments
    BY DEF Releasing, BooksInOrder, ContractsInOrder
  <1>2. Total(Remaining(c)') = 0
    <2> DEFINE f == Remaining(c)'
    <2>1. DOMAIN f = DOMAIN contracts[c].sources /\ \A d \in DOMAIN f : f[d] = 0
      BY DEF Remaining, Releasing, Contract
    <2>2. IsFiniteSet(DOMAIN contracts[c].sources)
      BY <1>1, RemainingType DEF Capacity
    <2>3. f = [d \in DOMAIN f |-> f[d]]
      BY DEF Remaining
    <2> HIDE DEF f
    <2>4. Total(f) = 0
      BY <2>1, <2>2, <2>3, NothingLeft
    <2>5. QED
      BY <2>4 DEF f
  <1>3. PaidOf(c)' = PaidOf(c) /\ PaidOf(c) \in Nat
    BY <1>1, PaidOfType DEF PaidOf
  <1>4. amount \in Nat
    BY AmountsAssumption
  <1>5. QED
    BY <1>1, <1>2, <1>3, <1>4 DEF ContractBalanced

\* Every event keeps contracts and payments balanced.
LEMMA ContractNext ==
  ASSUME TypeOK, TypeOK', BooksInOrder, ContractConserved, [Next]_vars
  PROVE  ContractConserved'
  <1>1. /\ \A c \in DOMAIN contracts : ContractBalanced(c)
        /\ \A m \in DOMAIN payments : PaymentBalanced(m)
    BY DEF ContractConserved, ContractBalanced, PaymentBalanced
  <1>2. (/\ \A c \in DOMAIN contracts' : ContractBalanced(c)'
         /\ \A m \in DOMAIN payments' : PaymentBalanced(m)') => ContractConserved'
    BY DEF ContractConserved, ContractBalanced, PaymentBalanced
  <1>3. UNCHANGED payments => /\ \A c : PaidOf(c)' = PaidOf(c)
                              /\ \A m \in DOMAIN payments' : PaymentBalanced(m)'
    BY <1>1 DEF PaidOf, PaymentBalanced
  <1>4. ASSUME UNCHANGED <<contracts, payments>> PROVE ContractConserved'
    BY <1>1, <1>2, <1>3, <1>4, BalancedUnchanged
  <1>5. ASSUME NEW c \in ContractIds, NEW t \in TaskIds, NEW amount \in Amounts,
               Locking(c, t, amount)
        PROVE  ContractConserved'
    <2>1. ASSUME NEW x \in DOMAIN contracts, x # c PROVE ContractBalanced(x)'
      BY <1>1, <1>3, <1>5, <2>1, BalancedUnchanged DEF Locking
    <2>2. ContractBalanced(c)'
      BY <1>5, LockBalances
    <2>3. QED
      BY <1>2, <1>3, <1>5, <2>1, <2>2 DEF Locking
  <1>6. ASSUME NEW m \in PaymentIds, NEW c \in ContractIds, NEW amount \in Amounts,
               Paying(m, c, amount)
        PROVE  ContractConserved'
    <2>1. c \in DOMAIN contracts /\ ContractBalanced(c)
      BY <1>1, <1>6 DEF Paying
    <2>2. ContractBalanced(c)' /\ PaymentBalanced(m)'
      BY <1>6, <2>1, PayBalances
    <2>3. ASSUME NEW x \in DOMAIN contracts, x # c PROVE ContractBalanced(x)'
      <3>1. PaidOf(x)' = PaidOf(x)
        <4>1. PaidOf(x)' = PaidOf(x) + 0
          BY <1>6, <2>3, PaidChange DEF Paying
        <4>2. QED
          BY <4>1, PaidOfType
      <3>2. contracts'[x] = contracts[x]
        BY <1>6, <2>3 DEF Paying
      <3>3. QED
        BY <1>1, <3>1, <3>2, BalancedUnchanged
    <2>4. ASSUME NEW x \in DOMAIN payments PROVE PaymentBalanced(x)'
      BY <1>1, <1>6 DEF Paying, PaymentBalanced
    <2>5. QED
      BY <1>2, <1>6, <2>2, <2>3, <2>4 DEF Paying
  <1>7. ASSUME NEW c \in ContractIds, NEW amount \in Amounts \cup {0}, Releasing(c, amount)
        PROVE  ContractConserved'
    <2>1. c \in DOMAIN contracts /\ ContractBalanced(c)
      BY <1>1, <1>7 DEF Releasing
    <2>2. ContractBalanced(c)'
      BY <1>7, <2>1, ReleaseBalances
    <2>3. ASSUME NEW x \in DOMAIN contracts, x # c PROVE ContractBalanced(x)'
      BY <1>1, <1>3, <1>7, <2>3, BalancedUnchanged DEF Releasing
    <2>4. QED
      BY <1>2, <1>3, <1>7, <2>2, <2>3 DEF Releasing
  <1>8. CASE Next
    BY <1>4, <1>5, <1>6, <1>7, <1>8, StepEffects DEF Receiving, Registering, Pausing,
       Allocating, TaskClosing, Refunding
  <1>9. QED
    BY <1>4, <1>8 DEF vars

-----------------------------------------------------------------------------
(* A closed task keeps nothing *)

\* A task closes only when its contracts are done with, and gives back what it holds.
LEMMA ClosedNext ==
  ASSUME TypeOK, TypeOK', BooksInOrder, BooksInOrder', ClosedTasksHoldNothing, [Next]_vars
  PROVE  ClosedTasksHoldNothing'
  <1> DEFINE Idle(t) == \A a \in DOMAIN allocations : a[1] = t => allocations[a] = 0
             Over(t) == \A c \in DOMAIN contracts : contracts[c].task = t => contracts[c].status = "CLOSED"
             Done(t) == tasks[t].status = "CLOSED" => Idle(t) /\ Over(t)
  <1>1. \A t \in DOMAIN tasks : Done(t)
    BY DEF ClosedTasksHoldNothing, TaskAllocations
  <1>2. (\A t \in DOMAIN tasks' : Done(t)') => ClosedTasksHoldNothing'
    <2>1. ASSUME NEW c \in DOMAIN contracts', contracts'[c].status = "CLOSED"
          PROVE  Total(Remaining(c))' = 0
      <3> DEFINE f == Remaining(c)'
      <3>1. DOMAIN f = DOMAIN contracts'[c].sources /\ \A d \in DOMAIN f : f[d] = 0
        BY <2>1 DEF Remaining, BooksInOrder, ContractsInOrder
      <3>2. IsFiniteSet(DOMAIN contracts'[c].sources)
        <4>1. /\ DOMAIN contracts'[c].sources \subseteq DOMAIN donations'
              /\ IsFiniteSet(DOMAIN donations')
          BY DEF TypeOK, Collection, Keyed
        <4>2. QED
          BY <4>1, FS_Subset
      <3>3. f = [d \in DOMAIN f |-> f[d]]
        BY DEF Remaining
      <3> HIDE DEF f
      <3>4. Total(f) = 0
        BY <3>1, <3>2, <3>3, NothingLeft
      <3>5. QED
        BY <3>4 DEF f
    <2>2. QED
      BY <2>1 DEF ClosedTasksHoldNothing, TaskAllocations
  <1>3. ASSUME UNCHANGED <<tasks, allocations, contracts>> PROVE \A t \in DOMAIN tasks' : Done(t)'
    BY <1>1, <1>3
  <1>4. ASSUME NEW t \in TaskIds, Registering(t) \/ Pausing(t) PROVE \A x \in DOMAIN tasks' : Done(x)'
    BY <1>1, <1>4 DEF Registering, Pausing
  <1>5. /\ \A a \in DOMAIN allocations : /\ a = <<a[1], a[2]>> /\ a[1] \in DOMAIN tasks
                                         /\ a[2] \in DOMAIN donations /\ allocations[a] \in Nat
        /\ \A a \in DOMAIN allocations' : a = <<a[1], a[2]>> /\ a[1] \in DOMAIN tasks'
    BY DEF TypeOK, Collection, Keyed
  <1>6. ASSUME NEW d \in DonationIds, NEW t \in TaskIds, NEW amount \in Amounts,
               Allocating(d, t, amount), NEW x \in DOMAIN tasks'
        PROVE  Done(x)'
    <2>1. x \in DOMAIN tasks /\ tasks'[x] = tasks[x] /\ contracts' = contracts
      BY <1>6 DEF Allocating
    <2>2. tasks[x].status = "CLOSED" => x # t
      BY <1>6 DEF Allocating, Allocatable
    <2>3. \A a \in DOMAIN allocations' : a[1] # t => /\ a \in DOMAIN allocations
                                                     /\ allocations'[a] = allocations[a]
      BY <1>6 DEF Allocating
    <2>4. QED
      BY <1>1, <2>1, <2>2, <2>3
  <1>7. ASSUME NEW c \in ContractIds, NEW t \in TaskIds, NEW amount \in Amounts,
               Locking(c, t, amount), NEW x \in DOMAIN tasks'
        PROVE  Done(x)'
    <2>1. x \in DOMAIN tasks /\ tasks'[x] = tasks[x] /\ (tasks[x].status = "CLOSED" => x # t)
      BY <1>7 DEF Locking
    <2>2. \A a \in DOMAIN allocations' : a[1] # t => /\ a \in DOMAIN allocations
                                                     /\ allocations'[a] = allocations[a]
      <3>1. ASSUME NEW a \in DOMAIN allocations, a[1] # t PROVE allocations'[a] = allocations[a]
        <4>1. allocations'[<<a[1], a[2]>>] = allocations[<<a[1], a[2]>>] - 0
          BY <1>5, <1>7, <3>1 DEF Locking
        <4>2. QED
          BY <1>5, <4>1
      <3>2. QED
        BY <1>7, <3>1 DEF Locking
    <2>3. /\ DOMAIN contracts' = DOMAIN contracts \cup {c} /\ contracts'[c].task = t
          /\ \A y \in DOMAIN contracts : y # c /\ contracts'[y] = contracts[y]
      BY <1>7 DEF Locking
    <2>4. QED
      BY <1>1, <2>1, <2>2, <2>3
  <1>8. ASSUME NEW m \in PaymentIds, NEW c \in ContractIds, NEW amount \in Amounts,
               Paying(m, c, amount), NEW x \in DOMAIN tasks'
        PROVE  Done(x)'
    <2>1. /\ c \in DOMAIN contracts /\ contracts[c].status = "LOCKED"
          /\ DOMAIN contracts' = DOMAIN contracts
          /\ \A y \in DOMAIN contracts : y # c => contracts'[y] = contracts[y]
          /\ contracts'[c].task = contracts[c].task
          /\ tasks' = tasks /\ allocations' = allocations
      BY <1>8 DEF Paying
    <2>2. QED
      BY <1>1, <2>1
  <1>9. ASSUME NEW c \in ContractIds, NEW amount \in Amounts \cup {0}, Releasing(c, amount),
               NEW x \in DOMAIN tasks'
        PROVE  Done(x)'
    <2>1. /\ c \in DOMAIN contracts /\ contracts[c].status = "LOCKED"
          /\ DOMAIN contracts' = DOMAIN contracts /\ DOMAIN allocations' = DOMAIN allocations
          /\ \A y \in DOMAIN contracts : y # c => contracts'[y] = contracts[y]
          /\ contracts'[c].task = contracts[c].task /\ tasks' = tasks
      BY <1>9 DEF Releasing
    <2>2. ASSUME NEW a \in DOMAIN allocations, a[1] # contracts[c].task
          PROVE  allocations'[a] = allocations[a]
      <3>1. allocations'[<<a[1], a[2]>>] = allocations[<<a[1], a[2]>>] + 0
        BY <1>5, <1>9, <2>2 DEF Releasing
      <3>2. QED
        BY <1>5, <3>1
    <2>3. QED
      BY <1>1, <2>1, <2>2
  <1>10. ASSUME NEW t \in TaskIds, TaskClosing(t), NEW x \in DOMAIN tasks' PROVE Done(x)'
    <2>1. /\ DOMAIN tasks' = DOMAIN tasks /\ \A y \in DOMAIN tasks : y # t => tasks'[y] = tasks[y]
          /\ DOMAIN allocations' = DOMAIN allocations /\ contracts' = contracts
          /\ Over(t)
      BY <1>10 DEF TaskClosing, ContractsClosed
    <2>2. ASSUME NEW a \in DOMAIN allocations
          PROVE  allocations'[a] = IF a[1] = t THEN 0 ELSE allocations[a]
      <3>1. allocations'[<<a[1], a[2]>>] = IF a[1] = t THEN 0 ELSE allocations[<<a[1], a[2]>>]
        BY <1>5, <1>10 DEF TaskClosing
      <3>2. QED
        BY <1>5, <3>1
    <2>3. QED
      BY <1>1, <2>1, <2>2
  <1>11. ASSUME NEW f \in RefundIds, NEW d \in DonationIds, NEW amount \in Amounts,
                Refunding(f, d, amount)
         PROVE  \A x \in DOMAIN tasks' : Done(x)'
    BY <1>3, <1>11 DEF Refunding
  <1>12. ASSUME NEW d \in DonationIds, NEW gift \in Gifts, Receiving(d, gift)
         PROVE  \A x \in DOMAIN tasks' : Done(x)'
    BY <1>3, <1>12 DEF Receiving
  <1>13. ASSUME UNCHANGED vars PROVE \A x \in DOMAIN tasks' : Done(x)'
    BY <1>3, <1>13 DEF vars
  <1> HIDE DEF Done
  <1>14. \A x \in DOMAIN tasks' : Done(x)'
    BY <1>4, <1>6, <1>7, <1>8, <1>9, <1>10, <1>11, <1>12, <1>13, StepEffects
  <1>15. QED
    BY <1>2, <1>14

\* No wei is lost, made or stranded: every donation is whole over its pots,
\* every contract over its payments, release and rest, every payment over its
\* sources, and a closed task keeps none.
THEOREM MoneyAlwaysConserved == Spec => []MoneyConserved
  <1>1. Init => ContractConserved /\ ClosedTasksHoldNothing
    BY DEF Init, ContractConserved, ClosedTasksHoldNothing
  <1>2. TypeOK /\ TypeOK' /\ BooksInOrder /\ ContractConserved /\ [Next]_vars => ContractConserved'
    BY ContractNext
  <1>3. TypeOK /\ TypeOK' /\ BooksInOrder /\ BooksInOrder' /\ ClosedTasksHoldNothing /\ [Next]_vars
          => ClosedTasksHoldNothing'
    BY ClosedNext
  <1>4. SourceConserved /\ ContractConserved /\ ClosedTasksHoldNothing => MoneyConserved
    BY DEF MoneyConserved
  <1>5. QED
    BY <1>1, <1>2, <1>3, <1>4, TypeCorrect, BooksStayInOrder, SourceAlwaysConserved, PTL DEF Spec

-----------------------------------------------------------------------------
(* Restrictions *)

\* Neither what a donor named nor what a task is for ever changes.
LEMMA PurposesStay ==
  ASSUME TypeOK, [Next]_vars
  PROVE  /\ \A d \in DOMAIN donations :
              /\ d \in DOMAIN donations' /\ donations'[d].purpose = donations[d].purpose
              /\ donations'[d].project = donations[d].project /\ donations'[d].at = donations[d].at
         /\ \A t \in DOMAIN tasks :
              /\ t \in DOMAIN tasks' /\ tasks'[t].purpose = tasks[t].purpose
              /\ tasks'[t].project = tasks[t].project
  <1>1. (\A d \in DOMAIN donations : donations[d] \in Donation) /\ \A t \in DOMAIN tasks : tasks[t] \in Task
    BY DEF TypeOK, Collection
  <1> DEFINE Stay == /\ \A d \in DOMAIN donations :
                          /\ d \in DOMAIN donations' /\ donations'[d].purpose = donations[d].purpose
                          /\ donations'[d].project = donations[d].project
                          /\ donations'[d].at = donations[d].at
                     /\ \A t \in DOMAIN tasks :
                          /\ t \in DOMAIN tasks' /\ tasks'[t].purpose = tasks[t].purpose
                          /\ tasks'[t].project = tasks[t].project
  <1>2. ASSUME UNCHANGED <<donations, tasks>> PROVE Stay
    BY <1>2
  <1>3. ASSUME NEW d \in DonationIds, NEW gift \in Gifts, Receiving(d, gift) PROVE Stay
    BY <1>3 DEF Receiving
  <1>4. ASSUME NEW t \in TaskIds, Registering(t) \/ Pausing(t) PROVE Stay
    BY <1>4 DEF Registering, Pausing
  <1>5. ASSUME NEW d \in DonationIds, NEW t \in TaskIds, NEW amount \in Amounts,
               Allocating(d, t, amount)
        PROVE  Stay
    BY <1>1, <1>5 DEF Allocating, Donation
  <1>6. ASSUME NEW t \in TaskIds, TaskClosing(t) PROVE Stay
    <2>1. ASSUME NEW d \in DOMAIN donations
          PROVE  /\ d \in DOMAIN donations' /\ donations'[d].purpose = donations[d].purpose
                 /\ donations'[d].project = donations[d].project
                 /\ donations'[d].at = donations[d].at
      <3>1. /\ d \in DOMAIN donations' /\ donations[d] \in Donation
            /\ donations'[d] = [donations[d] EXCEPT !.available = @ + Entry(allocations, <<t, d>>)]
        BY <1>1, <1>6 DEF TaskClosing
      <3>2. QED
        BY <3>1 DEF Donation
    <2>2. ASSUME NEW x \in DOMAIN tasks
          PROVE  /\ x \in DOMAIN tasks' /\ tasks'[x].purpose = tasks[x].purpose
                 /\ tasks'[x].project = tasks[x].project
      BY <1>1, <1>6, <2>2 DEF TaskClosing, Task
    <2>3. QED
      BY <2>1, <2>2
  <1>7. ASSUME NEW f \in RefundIds, NEW d \in DonationIds, NEW amount \in Amounts,
               Refunding(f, d, amount)
        PROVE  Stay
    BY <1>1, <1>7 DEF Refunding, Donation
  <1> HIDE DEF Stay
  <1>8. ASSUME Next PROVE Stay
    <2>1. ASSUME NEW c \in ContractIds, NEW t \in TaskIds, NEW amount \in Amounts,
                 Locking(c, t, amount)
          PROVE  Stay
      BY <1>2, <2>1 DEF Locking
    <2>2. ASSUME NEW m \in PaymentIds, NEW c \in ContractIds, NEW amount \in Amounts,
                 Paying(m, c, amount)
          PROVE  Stay
      BY <1>2, <2>2 DEF Paying
    <2>3. ASSUME NEW c \in ContractIds, NEW amount \in Amounts \cup {0}, Releasing(c, amount)
          PROVE  Stay
      BY <1>2, <2>3 DEF Releasing
    <2>4. QED
      BY <1>3, <1>4, <1>5, <1>6, <1>7, <1>8, <2>1, <2>2, <2>3, StepEffects
  <1>9. Stay
    BY <1>2, <1>8 DEF vars
  <1>10. QED
    BY <1>9 DEF Stay

\* Every event keeps money within the purpose its donor named.
LEMMA RestrictionsNext ==
  ASSUME TypeOK, TypeOK', BooksInOrder, BooksInOrder', RestrictionsHonoured, [Next]_vars
  PROVE  RestrictionsHonoured'
  <1> DEFINE Fits(d, t) == Matches(donations[d], tasks[t])
             OfAllocation(a) == Fits(a[2], a[1])
             OfContract(c) == \A d \in DOMAIN contracts[c].sources : Fits(d, contracts[c].task)
             OfPayment(m) == \A d \in DOMAIN payments[m].sources : Fits(d, payments[m].task)
  <1>1. \A d \in DOMAIN donations, t \in DOMAIN tasks : Fits(d, t) => Fits(d, t)'
    BY PurposesStay DEF Matches
  <1>2. /\ \A a \in DOMAIN allocations : OfAllocation(a)
        /\ \A c \in DOMAIN contracts : OfContract(c)
        /\ \A m \in DOMAIN payments : OfPayment(m)
    BY DEF RestrictionsHonoured
  <1>3. (/\ \A a \in DOMAIN allocations' : OfAllocation(a)'
         /\ \A c \in DOMAIN contracts' : OfContract(c)'
         /\ \A m \in DOMAIN payments' : OfPayment(m)') => RestrictionsHonoured'
    BY DEF RestrictionsHonoured
  <1>4. /\ \A a \in DOMAIN allocations : a[1] \in DOMAIN tasks /\ a[2] \in DOMAIN donations
        /\ \A c \in DOMAIN contracts : /\ contracts[c].task \in DOMAIN tasks
                                       /\ DOMAIN contracts[c].sources \subseteq DOMAIN donations
        /\ \A m \in DOMAIN payments : /\ payments[m].task \in DOMAIN tasks
                                      /\ DOMAIN payments[m].sources \subseteq DOMAIN donations
    BY DEF TypeOK, Collection, Keyed
  <1> HIDE DEF Fits
  <1>5. /\ \A a \in DOMAIN allocations : OfAllocation(a)'
        /\ \A c \in DOMAIN contracts : UNCHANGED contracts[c] => OfContract(c)'
        /\ \A m \in DOMAIN payments : UNCHANGED payments[m] => OfPayment(m)'
    BY <1>1, <1>2, <1>4
  <1>6. ASSUME UNCHANGED <<contracts, payments>>, DOMAIN allocations' = DOMAIN allocations
        PROVE  RestrictionsHonoured'
    BY <1>3, <1>5, <1>6
  <1>7. ASSUME NEW d \in DonationIds, NEW t \in TaskIds, NEW amount \in Amounts,
               Allocating(d, t, amount)
        PROVE  RestrictionsHonoured'
    <2>1. Fits(d, t)'
      BY <1>1, <1>7 DEF Allocating, Allocatable, Fits
    <2>2. DOMAIN allocations' = DOMAIN allocations \cup {<<t, d>>} /\ UNCHANGED <<contracts, payments>>
      BY <1>7 DEF Allocating
    <2>3. OfAllocation(<<t, d>>)'
      BY <2>1
    <2>4. QED
      BY <1>3, <1>5, <2>2, <2>3
  <1>8. ASSUME NEW c \in ContractIds, NEW t \in TaskIds, NEW amount \in Amounts,
               Locking(c, t, amount)
        PROVE  RestrictionsHonoured'
    <2>1. /\ DOMAIN contracts'[c].sources = DOMAIN LockTakes(t, amount)
          /\ contracts'[c].task = t
      BY <1>8 DEF Locking, Contract
    <2>2. \A d \in DOMAIN LockTakes(t, amount) : <<t, d>> \in DOMAIN allocations
      BY <1>8 DEF Locking
    <2>3. \A d \in DOMAIN LockTakes(t, amount) : Fits(d, t)'
      BY <1>5, <2>2
    <2>4. OfContract(c)'
      BY <2>1, <2>3
    <2>5. /\ DOMAIN contracts' = DOMAIN contracts \cup {c}
          /\ \A x \in DOMAIN contracts : contracts'[x] = contracts[x]
          /\ DOMAIN allocations' = DOMAIN allocations /\ payments' = payments
      BY <1>8 DEF Locking
    <2>6. QED
      BY <1>3, <1>5, <2>4, <2>5
  <1>9. ASSUME NEW c \in DOMAIN contracts, DOMAIN contracts' = DOMAIN contracts,
               \A x \in DOMAIN contracts : x # c => contracts'[x] = contracts[x],
               contracts'[c].task = contracts[c].task,
               DOMAIN contracts'[c].sources = DOMAIN contracts[c].sources
        PROVE  \A x \in DOMAIN contracts' : OfContract(x)'
    BY <1>1, <1>2, <1>4, <1>5, <1>9
  <1>10. ASSUME NEW m \in PaymentIds, NEW c \in ContractIds, NEW amount \in Amounts,
                Paying(m, c, amount)
         PROVE  RestrictionsHonoured'
    <2>1. /\ c \in DOMAIN contracts /\ DOMAIN contracts' = DOMAIN contracts
          /\ \A x \in DOMAIN contracts : x # c => contracts'[x] = contracts[x]
          /\ contracts'[c].task = contracts[c].task
          /\ DOMAIN contracts'[c].sources = DOMAIN contracts[c].sources
      BY <1>10 DEF Paying, Contract
    <2>2. \A x \in DOMAIN contracts' : OfContract(x)'
      BY <1>9, <2>1
    <2>3. payments'[m].task = contracts'[c].task /\ m \in DOMAIN payments'
      BY <1>10, <2>1 DEF Paying
    <2>4. DOMAIN payments'[m].sources \subseteq DOMAIN contracts'[c].sources
      BY <1>10, <2>3 DEF Paying, BooksInOrder, PaymentsInOrder
    <2>5. OfPayment(m)'
      BY <2>1, <2>2, <2>3, <2>4
    <2>6. /\ DOMAIN payments' = DOMAIN payments \cup {m} /\ allocations' = allocations
          /\ \A x \in DOMAIN payments : payments'[x] = payments[x]
      BY <1>10 DEF Paying
    <2>7. QED
      BY <1>3, <1>5, <2>2, <2>5, <2>6
  <1>11. ASSUME NEW c \in ContractIds, NEW amount \in Amounts \cup {0}, Releasing(c, amount)
         PROVE  RestrictionsHonoured'
    <2>1. /\ c \in DOMAIN contracts /\ DOMAIN contracts' = DOMAIN contracts
          /\ \A x \in DOMAIN contracts : x # c => contracts'[x] = contracts[x]
          /\ contracts'[c].task = contracts[c].task
          /\ DOMAIN contracts'[c].sources = DOMAIN contracts[c].sources
          /\ DOMAIN allocations' = DOMAIN allocations /\ payments' = payments
      BY <1>11 DEF Releasing, Contract
    <2>2. \A x \in DOMAIN contracts' : OfContract(x)'
      BY <1>9, <2>1
    <2>3. QED
      BY <1>3, <1>5, <2>1, <2>2
  <1>12. CASE UNCHANGED vars
    BY <1>6, <1>12 DEF vars
  <1>13. CASE Next
    BY <1>6, <1>7, <1>8, <1>10, <1>11, <1>13, StepEffects DEF Receiving, Registering, Pausing,
       TaskClosing, Refunding
  <1>14. QED
    BY <1>12, <1>13

-----------------------------------------------------------------------------
(* Order *)

\* The sources of contract c are used up in the order their donations came.
OldestFirst(c) ==
  contracts[c].status = "LOCKED" =>
    \A d, e \in DOMAIN contracts[c].sources :
      /\ Older(d, e)
      /\ contracts[c].sources[e].remaining < contracts[c].sources[e].amount
      => contracts[c].sources[d].remaining = 0

\* A payment spends a contract's older sources first.
LEMMA PayOldest ==
  ASSUME TypeOK, BooksInOrder, NEW m \in PaymentIds, NEW c \in ContractIds, NEW amount \in Amounts,
         Paying(m, c, amount), OldestFirst(c)
  PROVE  OldestFirst(c)'
  <1> DEFINE D == DOMAIN contracts[c].sources
             taken == PayTakes(c, amount)
             left(d) == contracts[c].sources[d].remaining
  <1>1. /\ c \in DOMAIN contracts /\ contracts[c].status = "LOCKED" /\ donations' = donations
        /\ D = DOMAIN contracts'[c].sources
        /\ \A d \in D : /\ contracts'[c].sources[d].amount = contracts[c].sources[d].amount
                        /\ contracts'[c].sources[d].remaining = left(d) - Entry(taken, d)
    BY DEF Paying, Contract
  <1>2. /\ Capacity(Remaining(c)) /\ DOMAIN Remaining(c) = D
        /\ \A d \in D : Remaining(c)[d] = left(d)
        /\ D \subseteq DOMAIN donations
    BY <1>1, RemainingType DEF TypeOK
  <1>3. \A d \in D : left(d) \in Nat /\ Entry(taken, d) \in Nat /\ Entry(taken, d) <= left(d)
    BY <1>1, <1>2 DEF Paying, Entry, Capacity
  <1> SUFFICES ASSUME NEW d \in D, NEW e \in D, Older(d, e),
                      contracts'[c].sources[e].remaining < contracts'[c].sources[e].amount
               PROVE  contracts'[c].sources[d].remaining = 0
    BY <1>1 DEF OldestFirst, Older
  <1>4. CASE e \in DOMAIN taken
    <2>1. Entry(taken, d) = left(d)
      BY <1>2, <1>4, SourcesFromOldest DEF PayTakes
    <2>2. QED
      BY <1>1, <1>3, <2>1
  <1>5. CASE e \notin DOMAIN taken
    <2>1. left(e) < contracts[c].sources[e].amount
      BY <1>1, <1>3, <1>5 DEF Entry
    <2>2. left(d) = 0
      BY <1>1, <2>1 DEF OldestFirst
    <2>3. QED
      BY <1>1, <1>3, <2>2
  <1>6. QED
    BY <1>4, <1>5

\* Every event keeps the older sources of a contract spent first.
LEMMA OldestNext ==
  ASSUME TypeOK, BooksInOrder, OldestSpentFirst, [Next]_vars
  PROVE  OldestSpentFirst'
  <1>1. \A c \in DOMAIN contracts : OldestFirst(c)
    BY DEF OldestSpentFirst, OldestFirst
  <1>2. (\A c \in DOMAIN contracts' : OldestFirst(c)') => OldestSpentFirst'
    BY DEF OldestSpentFirst, OldestFirst
  <1>3. ASSUME NEW c \in DOMAIN contracts, UNCHANGED contracts[c] PROVE OldestFirst(c)'
    <2>1. DOMAIN contracts[c].sources \subseteq DOMAIN donations
      BY DEF TypeOK
    <2>2. \A d \in DOMAIN contracts[c].sources : donations'[d].at = donations[d].at
      BY <2>1, PurposesStay
    <2>3. QED
      BY <1>1, <1>3, <2>2 DEF OldestFirst, Older
  <1>4. ASSUME NEW c \in ContractIds, NEW t \in TaskIds, NEW amount \in Amounts,
               Locking(c, t, amount)
        PROVE  \A x \in DOMAIN contracts' : OldestFirst(x)'
    <2>1. /\ DOMAIN contracts' = DOMAIN contracts \cup {c}
          /\ \A x \in DOMAIN contracts : contracts'[x] = contracts[x]
      BY <1>4 DEF Locking
    <2>2. \A d \in DOMAIN contracts'[c].sources :
            /\ contracts'[c].sources[d].remaining = contracts'[c].sources[d].amount
            /\ contracts'[c].sources[d].amount \in Nat
      BY <1>4 DEF Locking, Contract
    <2>3. OldestFirst(c)'
      BY <2>2 DEF OldestFirst
    <2>4. QED
      BY <1>3, <2>1, <2>3
  <1>5. ASSUME NEW m \in PaymentIds, NEW c \in ContractIds, NEW amount \in Amounts,
               Paying(m, c, amount)
        PROVE  \A x \in DOMAIN contracts' : OldestFirst(x)'
    <2>1. /\ DOMAIN contracts' = DOMAIN contracts /\ c \in DOMAIN contracts
          /\ \A x \in DOMAIN contracts : x # c => contracts'[x] = contracts[x]
      BY <1>5 DEF Paying
    <2>2. OldestFirst(c)'
      BY <1>1, <1>5, <2>1, PayOldest
    <2>3. QED
      BY <1>3, <2>1, <2>2
  <1>6. ASSUME NEW c \in ContractIds, NEW amount \in Amounts \cup {0}, Releasing(c, amount)
        PROVE  \A x \in DOMAIN contracts' : OldestFirst(x)'
    BY <1>3, <1>6 DEF Releasing, OldestFirst
  <1>7. ASSUME UNCHANGED contracts PROVE \A x \in DOMAIN contracts' : OldestFirst(x)'
    BY <1>3, <1>7
  <1>8. CASE Next
    BY <1>2, <1>4, <1>5, <1>6, <1>7, <1>8, StepEffects DEF Receiving, Registering, Pausing,
       Allocating, TaskClosing, Refunding
  <1>9. QED
    BY <1>2, <1>7, <1>8 DEF vars

\* Money is locked and spent only for what its donor named, and a contract uses
\* up its oldest donation before the next, through partial payments, releases
\* and re-allocation.
THEOREM AlwaysSpentAsMeant == Spec => []SpentAsMeant
  <1>1. Init => RestrictionsHonoured /\ OldestSpentFirst
    BY DEF Init, RestrictionsHonoured, OldestSpentFirst
  <1>2. TypeOK /\ TypeOK' /\ BooksInOrder /\ BooksInOrder' /\ RestrictionsHonoured /\ [Next]_vars
          => RestrictionsHonoured'
    BY RestrictionsNext
  <1>3. TypeOK /\ BooksInOrder /\ OldestSpentFirst /\ [Next]_vars => OldestSpentFirst'
    BY OldestNext
  <1>4. RestrictionsHonoured /\ OldestSpentFirst => SpentAsMeant
    BY DEF SpentAsMeant
  <1>5. QED
    BY <1>1, <1>2, <1>3, <1>4, TypeCorrect, BooksStayInOrder, PTL DEF Spec

\* A lock reaches for a donation only when the older ones have nothing left for
\* the task.
LEMMA LockOldest ==
  ASSUME TypeOK, BooksInOrder, NEW c \in ContractIds, NEW t \in TaskIds, NEW amount \in Amounts,
         Locking(c, t, amount), NEW d \in DOMAIN donations, NEW e \in DOMAIN contracts'[c].sources,
         Older(d, e), <<t, d>> \in DOMAIN allocations
  PROVE  allocations'[<<t, d>>] = 0
  <1>1. e \in DOMAIN LockTakes(t, amount) /\ t \in DOMAIN tasks
    BY DEF Locking, Contract
  <1>2. /\ Capacity(AvailableForTask(t)) /\ DOMAIN AvailableForTask(t) \subseteq DOMAIN donations
        /\ d \in DOMAIN AvailableForTask(t) /\ AvailableForTask(t)[d] = allocations[<<t, d>>]
    BY AvailableForTaskType
  <1>3. Entry(LockTakes(t, amount), d) = allocations[<<t, d>>]
    BY <1>1, <1>2, SourcesFromOldest DEF LockTakes
  <1>4. allocations'[<<t, d>>] = allocations[<<t, d>>] - Entry(LockTakes(t, amount), d)
    BY <1>1 DEF Locking
  <1>5. allocations[<<t, d>>] \in Nat
    BY DEF TypeOK, Collection
  <1>6. QED
    BY <1>3, <1>4, <1>5

\* A contract locks the oldest allocations of its task first, and leaves none of
\* an older one when it touches a younger.
THEOREM OldestAlwaysLockedFirst == Spec => OldestLockedFirst
  <1> DEFINE A == \A c \in DOMAIN contracts' \ DOMAIN contracts : LocksOldest(c)
  <1>1. ASSUME TypeOK, BooksInOrder, Next PROVE A
    <2>1. ASSUME DOMAIN contracts' = DOMAIN contracts PROVE A
      BY <2>1
    <2>2. ASSUME NEW c \in ContractIds, NEW t \in TaskIds, NEW amount \in Amounts,
                 Locking(c, t, amount)
          PROVE  A
      <3>1. \A x \in DOMAIN contracts' \ DOMAIN contracts : x = c
        BY <2>2 DEF Locking
      <3>2. contracts'[c].task = t
        BY <2>2 DEF Locking
      <3>3. QED
        BY <1>1, <2>2, <3>1, <3>2, LockOldest DEF LocksOldest
    <2>3. \/ \E c \in ContractIds, t \in TaskIds, amount \in Amounts : Locking(c, t, amount)
          \/ DOMAIN contracts' = DOMAIN contracts
      <3>1. ASSUME NEW d \in DonationIds, NEW t \in TaskIds, NEW amount \in Amounts,
                   Allocating(d, t, amount)
            PROVE  DOMAIN contracts' = DOMAIN contracts
        BY <3>1 DEF Allocating
      <3>2. ASSUME NEW m \in PaymentIds, NEW c \in ContractIds, NEW amount \in Amounts,
                   Paying(m, c, amount)
            PROVE  DOMAIN contracts' = DOMAIN contracts
        BY <3>2 DEF Paying
      <3>3. ASSUME NEW c \in ContractIds, NEW amount \in Amounts \cup {0}, Releasing(c, amount)
            PROVE  DOMAIN contracts' = DOMAIN contracts
        BY <3>3 DEF Releasing
      <3>4. ASSUME NEW t \in TaskIds, Registering(t) \/ Pausing(t) \/ TaskClosing(t)
            PROVE  DOMAIN contracts' = DOMAIN contracts
        BY <3>4 DEF Registering, Pausing, TaskClosing
      <3>5. ASSUME NEW d \in DonationIds,
                   \/ \E gift \in Gifts : Receiving(d, gift)
                   \/ \E f \in RefundIds, amount \in Amounts : Refunding(f, d, amount)
            PROVE  DOMAIN contracts' = DOMAIN contracts
        BY <3>5 DEF Receiving, Refunding
      <3>6. QED
        BY <1>1, <3>1, <3>2, <3>3, <3>4, <3>5, StepEffects
    <2> HIDE DEF A
    <2>4. QED
      BY <2>1, <2>2, <2>3
  <1>2. TypeOK /\ BooksInOrder /\ [Next]_vars => [A]_vars
    BY <1>1
  <1>3. QED
    BY <1>2, TypeCorrect, BooksStayInOrder, PTL DEF Spec, OldestLockedFirst
=============================================================================
