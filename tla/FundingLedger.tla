----------------------------- MODULE FundingLedger -----------------------------
(***************************************************************************)
(* The ledger projected from verified chain events,                        *)
(* backend/funding-domain.js: donations with their restrictions, tasks,    *)
(* allocations of donations to tasks, contracts that lock allocated money, *)
(* batch payments, releases and refunds.                                   *)
(*                                                                         *)
(* One action per event type.  apply() runs a handler on a copy of the     *)
(* state and keeps the copy only when nothing threw, so a rejected event   *)
(* is no step.  The order and duplicate checks of apply() are in           *)
(* FundingIndexer; here events arrive in journal order, so the position of *)
(* a donation is the number of donations before it.  The assertion         *)
(* invariant() that closes every apply() is stated as the properties       *)
(* SourceConserved and ContractConserved instead of as a guard: that they  *)
(* hold means it never throws.  Amounts above 2^256 - 1 are left out.      *)
(***************************************************************************)
EXTENDS Functions, Greedy

CONSTANTS
  DonationIds, TaskIds, ContractIds, PaymentIds, RefundIds, BatchIds,
  Wallets, Payees, \* all wallets, and those a contract may pay
  Purposes, AnyPurpose,   \* purposes of tasks, and purpose 0 of a donation
  Projects, None,
  Gifts,           \* what a DonationReceived may carry
  TaskInputs,      \* what a TaskRegistered may carry
  Amounts          \* wei amounts the other events may carry

ASSUME RestrictionAssumption == AnyPurpose \notin Purposes /\ None \notin Projects
ASSUME AmountsAssumption == Amounts \subseteq Nat \ {0}
ASSUME InputsAssumption ==
  /\ Payees \subseteq Wallets
  /\ Gifts \subseteq [donor : Wallets, purpose : Purposes \cup {AnyPurpose},
                     project : Projects \cup {None}, amount : Nat \ {0}, gasReserved : Nat]
  /\ TaskInputs \subseteq [purpose : Purposes, project : Projects \cup {None}]

VARIABLES
  donations,    \* donation id -> donation, with what is neither allocated nor refunded
  tasks,        \* task id -> task
  allocations,  \* <<task, donation>> -> wei of the donation held for the task
  contracts,    \* contract id -> contract, with the donations it draws on
  payments,     \* payment id -> payment
  refunds       \* refund id -> refund

vars == <<donations, tasks, allocations, contracts, payments, refunds>>

-----------------------------------------------------------------------------
\* A collection with the entry of key k replaced or added.
Put(f, k, v) == [x \in DOMAIN f \cup {k} |-> IF x = k THEN v ELSE f[x]]

Older(d, e) == donations[d].at < donations[e].at

Matches(donation, task) ==
  /\ donation.purpose \in {AnyPurpose, task.purpose}
  /\ donation.project \in {None, task.project}

\* What is allocated to task t, per donation.
AvailableForTask(t) ==
  [d \in {x \in DOMAIN donations : <<t, x>> \in DOMAIN allocations} |-> allocations[<<t, d>>]]

Remaining(c) == [d \in DOMAIN contracts[c].sources |-> contracts[c].sources[d].remaining]

\* sourcesFrom: what each donation of `balance` contributes to `amount`, the
\* oldest first, each to exhaustion before the next.
\* Mutant: the newest first.
SourcesFromNewest(balance, amount) ==
  Greedy(amount, balance, Ranking(DOMAIN balance, LAMBDA d, e : Older(e, d)))
SourcesFrom(balance, amount) == Greedy(amount, balance, Ranking(DOMAIN balance, Older))

TaskAllocations(t) == {a \in DOMAIN allocations : a[1] = t}

-----------------------------------------------------------------------------
Init ==
  /\ donations = <<>> /\ tasks = <<>> /\ allocations = <<>>
  /\ contracts = <<>> /\ payments = <<>> /\ refunds = <<>>

\* Mutant: the gas reserve can be spent too.
WholeGift(gift) == gift.amount
Spendable(gift) == gift.amount - gift.gasReserved

CanReceive(d, gift) ==
  /\ d \notin DOMAIN donations
  /\ gift.amount > 0 /\ gift.gasReserved <= gift.amount
DonationReceived(d, gift) ==
  /\ CanReceive(d, gift)
  /\ donations' = Put(donations, d,
       [donor |-> gift.donor, purpose |-> gift.purpose, project |-> gift.project,
        amount |-> gift.amount, gasReserved |-> gift.gasReserved,
        available |-> Spendable(gift),
        at |-> Cardinality(DOMAIN donations)])
  /\ UNCHANGED <<tasks, allocations, contracts, payments, refunds>>

CanRegister(t) == t \notin DOMAIN tasks
TaskRegistered(t, input) ==
  /\ CanRegister(t)
  /\ tasks' = Put(tasks, t, [purpose |-> input.purpose, project |-> input.project,
                             status |-> "OPEN"])
  /\ UNCHANGED <<donations, allocations, contracts, payments, refunds>>

CanChange(t) == t \in DOMAIN tasks /\ tasks[t].status # "CLOSED"
TaskActivityChanged(t, active) ==
  /\ CanChange(t)
  /\ tasks' = [tasks EXCEPT ![t].status = IF active THEN "OPEN" ELSE "PAUSED"]
  /\ UNCHANGED <<donations, allocations, contracts, payments, refunds>>

\* May `amount` of d go to t?  Mutant: without regard to what the
\* donor named.
AllocatableAnywhere(d, t, amount) ==
  tasks[t].status = "OPEN" /\ amount <= donations[d].available
Allocatable(d, t, amount) ==
  /\ tasks[t].status = "OPEN"
  /\ Matches(donations[d], tasks[t])
  /\ amount <= donations[d].available

CanAllocate(d, t, amount) ==
  d \in DOMAIN donations /\ t \in DOMAIN tasks /\ amount > 0 /\ Allocatable(d, t, amount)
DonationAllocated(d, t, amount) ==
  /\ CanAllocate(d, t, amount)
  /\ donations' = [donations EXCEPT ![d].available = @ - amount]
  /\ LET held == IF <<t, d>> \in DOMAIN allocations THEN allocations[<<t, d>>] ELSE 0
     IN  allocations' = Put(allocations, <<t, d>>, held + amount)
  /\ UNCHANGED <<tasks, contracts, payments, refunds>>

ContractLocked(c, t, recipient, amount) ==
  LET taken == SourcesFrom(AvailableForTask(t), amount)
  IN  /\ c \notin DOMAIN contracts
      /\ t \in DOMAIN tasks
      /\ tasks[t].status = "OPEN"
      /\ amount <= Total(AvailableForTask(t))
      /\ allocations' = [a \in DOMAIN allocations |->
           IF a[1] = t /\ a[2] \in DOMAIN taken THEN allocations[a] - taken[a[2]]
           ELSE allocations[a]]
      /\ contracts' = Put(contracts, c,
           [task |-> t, recipient |-> recipient, amount |-> amount, released |-> 0,
            status |-> "LOCKED",
            sources |-> [d \in DOMAIN taken |-> [amount |-> taken[d], remaining |-> taken[d]]]])
      /\ UNCHANGED <<donations, tasks, payments, refunds>>

\* The sources once `taken` is paid out of them.
Drawn(sources, taken) ==
  [d \in DOMAIN sources |-> IF d \in DOMAIN taken
                            THEN [sources[d] EXCEPT !.remaining = @ - taken[d]]
                            ELSE sources[d]]

BatchPaid(m, c, batch, recipient, amount) ==
  LET taken == SourcesFrom(Remaining(c), amount)
  IN  /\ m \notin DOMAIN payments
      /\ \A x \in DOMAIN payments : ~(payments[x].contract = c /\ payments[x].batch = batch)
      /\ c \in DOMAIN contracts
      /\ contracts[c].status = "LOCKED"
      /\ recipient = contracts[c].recipient
      /\ amount <= Total(Remaining(c))
      /\ contracts' = [contracts EXCEPT ![c].sources = Drawn(@, taken)]
      /\ payments' = Put(payments, m,
           [contract |-> c, batch |-> batch, task |-> contracts[c].task,
            recipient |-> recipient, amount |-> amount, sources |-> taken])
      /\ UNCHANGED <<donations, tasks, allocations, refunds>>

\* What closing c releases, and the allocations that gives.  Mutants: nothing,
\* or what was locked at first, goes back.
Leftover(c) == Total(Remaining(c))

BackTo(c, back) == [a \in DOMAIN allocations |->
  IF a[1] = contracts[c].task /\ a[2] \in DOMAIN back THEN allocations[a] + back[a[2]]
                                                      ELSE allocations[a]]
NothingReturned(c) == allocations
AllReturned(c) ==
  BackTo(c, [d \in DOMAIN contracts[c].sources |-> contracts[c].sources[d].amount])
Returned(c) == BackTo(c, Remaining(c))

ContractClosed(c, released) ==
  /\ c \in DOMAIN contracts
  /\ contracts[c].status = "LOCKED"
  /\ released = Leftover(c)
  /\ allocations' = Returned(c)
  /\ contracts' = [contracts EXCEPT ![c].status = "CLOSED", ![c].released = released,
       ![c].sources = [d \in DOMAIN @ |-> [@[d] EXCEPT !.remaining = 0]]]
  /\ UNCHANGED <<donations, tasks, payments, refunds>>

\* Have the contracts of t run their course?
ContractsClosed(t) ==
  \A c \in DOMAIN contracts : contracts[c].task = t => contracts[c].status = "CLOSED"

TaskClosed(t, released) ==
  LET held == Restrict(allocations, TaskAllocations(t))
  IN  /\ t \in DOMAIN tasks
      /\ tasks[t].status # "CLOSED"
      /\ ContractsClosed(t)
      /\ released = Total(held)
      /\ donations' = [d \in DOMAIN donations |->
           IF <<t, d>> \in DOMAIN held
           THEN [donations[d] EXCEPT !.available = @ + held[<<t, d>>]] ELSE donations[d]]
      /\ allocations' = [a \in DOMAIN allocations |-> IF a[1] = t THEN 0 ELSE allocations[a]]
      /\ tasks' = [tasks EXCEPT ![t].status = "CLOSED"]
      /\ UNCHANGED <<contracts, payments, refunds>>

CanRefund(f, d, recipient, amount) ==
  /\ f \notin DOMAIN refunds
  /\ d \in DOMAIN donations
  /\ recipient = donations[d].donor
  /\ amount > 0 /\ amount <= donations[d].available
DonationRefunded(f, d, recipient, amount) ==
  /\ CanRefund(f, d, recipient, amount)
  /\ donations' = [donations EXCEPT ![d].available = @ - amount]
  /\ refunds' = Put(refunds, f, [donation |-> d, recipient |-> recipient, amount |-> amount])
  /\ UNCHANGED <<tasks, allocations, contracts, payments>>

Next ==
  \/ \E d \in DonationIds, gift \in Gifts : DonationReceived(d, gift)
  \/ \E t \in TaskIds, input \in TaskInputs : TaskRegistered(t, input)
  \/ \E t \in TaskIds, active \in BOOLEAN : TaskActivityChanged(t, active)
  \/ \E d \in DonationIds, t \in TaskIds, amount \in Amounts : DonationAllocated(d, t, amount)
  \/ \E c \in ContractIds, t \in TaskIds, w \in Payees, amount \in Amounts :
        ContractLocked(c, t, w, amount)
  \/ \E m \in PaymentIds, c \in ContractIds, b \in BatchIds, w \in Wallets, amount \in Amounts :
        BatchPaid(m, c, b, w, amount)
  \/ \E c \in ContractIds, amount \in Amounts \cup {0} : ContractClosed(c, amount)
  \/ \E t \in TaskIds, amount \in Amounts \cup {0} : TaskClosed(t, amount)
  \/ \E f \in RefundIds, d \in DonationIds, w \in Wallets, amount \in Amounts :
        DonationRefunded(f, d, w, amount)
Spec == Init /\ [][Next]_vars
-----------------------------------------------------------------------------
(* Properties *)

Donation == [donor : Wallets, purpose : Purposes \cup {AnyPurpose},
             project : Projects \cup {None}, amount : Nat \ {0}, gasReserved : Nat,
             available : Nat, at : Nat]
Task == [purpose : Purposes, project : Projects \cup {None},
         status : {"OPEN", "PAUSED", "CLOSED"}]
Contract(D) == [task : TaskIds, recipient : Wallets, amount : Amounts, released : Nat,
                status : {"LOCKED", "CLOSED"},
                sources : [D -> [amount : Nat \ {0}, remaining : Nat]]]
Payment(D) == [contract : ContractIds, batch : BatchIds, task : TaskIds, recipient : Wallets,
               amount : Amounts, sources : [D -> Nat \ {0}]]
Refund == [donation : DonationIds, recipient : Wallets, amount : Amounts]

\* A collection holds finitely many entries; the ids and records it may hold.
Keyed(f, ids) == DOMAIN f \subseteq ids /\ IsFiniteSet(DOMAIN f)
Collection(f, ids, R) == Keyed(f, ids) /\ f \in [DOMAIN f -> R]

\* Every collection holds well-formed entries that name existing ones, and no
\* balance is negative.
TypeOK ==
  /\ Collection(donations, DonationIds, Donation)
  /\ Collection(tasks, TaskIds, Task)
  /\ Collection(allocations, (DOMAIN tasks) \X (DOMAIN donations), Nat)
  /\ Keyed(contracts, ContractIds)
  /\ \A c \in DOMAIN contracts :
       LET D == DOMAIN contracts[c].sources
       IN  /\ contracts[c] \in Contract(D)
           /\ contracts[c].task \in DOMAIN tasks
           /\ D \subseteq DOMAIN donations
  /\ Keyed(payments, PaymentIds)
  /\ \A m \in DOMAIN payments :
       LET D == DOMAIN payments[m].sources
       IN  /\ payments[m] \in Payment(D)
           /\ payments[m].contract \in DOMAIN contracts
           /\ payments[m].task \in DOMAIN tasks
           /\ D \subseteq DOMAIN donations
  /\ Collection(refunds, RefundIds, Refund)
  /\ \A f \in DOMAIN refunds : refunds[f].donation \in DOMAIN donations

\* Where the money of donation d is.
AllocatedOf(d) ==
  Total([a \in {x \in DOMAIN allocations : x[2] = d} |-> allocations[a]])
LockedOf(d) ==
  Total([c \in {x \in DOMAIN contracts : d \in DOMAIN contracts[x].sources} |->
           contracts[c].sources[d].remaining])
SpentOf(d) ==
  Total([m \in {x \in DOMAIN payments : d \in DOMAIN payments[x].sources} |->
           payments[m].sources[d]])
RefundedOf(d) ==
  Total([f \in {x \in DOMAIN refunds : refunds[x].donation = d} |-> refunds[f].amount])
PaidOf(c) ==
  Total([m \in {x \in DOMAIN payments : payments[x].contract = c} |-> payments[m].amount])

\* Donor-level conservation, over every route the money can take
\* (SOURCE_CONSERVATION_FAILED is never thrown).
SourceConserved ==
  \A d \in DOMAIN donations :
    donations[d].amount = donations[d].available + donations[d].gasReserved
                            + AllocatedOf(d) + LockedOf(d) + SpentOf(d) + RefundedOf(d)

\* Contract-level conservation across partial payments and the release
\* (CONTRACT_CONSERVATION_FAILED is never thrown), each payment's sources
\* summing to its amount.
ContractConserved ==
  /\ \A c \in DOMAIN contracts :
       contracts[c].amount = PaidOf(c) + contracts[c].released + Total(Remaining(c))
  /\ \A m \in DOMAIN payments : payments[m].amount = Total(payments[m].sources)

\* Payments drain the sources of a contract oldest donation first: while it is
\* open, a younger source is touched only when every older one is used up.
OldestSpentFirst ==
  \A c \in DOMAIN contracts : contracts[c].status = "LOCKED" =>
    LET sources == contracts[c].sources
    IN  \A d, e \in DOMAIN sources :
          Older(d, e) /\ sources[e].remaining < sources[e].amount
            => sources[d].remaining = 0

\* A contract locks the oldest allocations of its task first: a donation that
\* is skipped or only partly used is the youngest it draws on.
LocksOldest(c) ==
  \A d, e \in DOMAIN donations :
    LET a == <<contracts'[c].task, d>>
    IN  Older(d, e) /\ e \in DOMAIN contracts'[c].sources /\ a \in DOMAIN allocations
          => allocations'[a] = 0
OldestLockedFirst == [][\A c \in DOMAIN contracts' \ DOMAIN contracts : LocksOldest(c)]_vars

\* No wei is locked or spent outside the purpose and project its donor named,
\* through allocation, release, re-allocation and task closure.
RestrictionsHonoured ==
  /\ \A a \in DOMAIN allocations : Matches(donations[a[2]], tasks[a[1]])
  /\ \A c \in DOMAIN contracts : \A d \in DOMAIN contracts[c].sources :
       Matches(donations[d], tasks[contracts[c].task])
  /\ \A m \in DOMAIN payments : \A d \in DOMAIN payments[m].sources :
       Matches(donations[d], tasks[payments[m].task])

\* A closed task keeps no donor's money: nothing stays allocated to it and no
\* contract of it can still pay or release.
ClosedTasksHoldNothing ==
  \A t \in DOMAIN tasks : tasks[t].status = "CLOSED" =>
    /\ \A a \in TaskAllocations(t) : allocations[a] = 0
    /\ \A c \in DOMAIN contracts : contracts[c].task = t =>
         contracts[c].status = "CLOSED" /\ Total(Remaining(c)) = 0

\* What the handlers rely on without checking it: no two donations arrived at
\* once; an open contract has released nothing, a closed one can spend nothing
\* and its money has an allocation to return to; a payment draws on its own
\* contract.
ArrivalsDistinct ==
  \A d \in DOMAIN donations :
    /\ donations[d].at < Cardinality(DOMAIN donations)
    /\ \A e \in DOMAIN donations : donations[d].at = donations[e].at => d = e
ContractsInOrder ==
  \A c \in DOMAIN contracts :
    /\ contracts[c].status = "LOCKED" => contracts[c].released = 0
    /\ \A d \in DOMAIN contracts[c].sources :
         /\ <<contracts[c].task, d>> \in DOMAIN allocations
         /\ contracts[c].status = "CLOSED" => contracts[c].sources[d].remaining = 0
PaymentsInOrder ==
  \A m \in DOMAIN payments :
    LET c == payments[m].contract
    IN  /\ payments[m].task = contracts[c].task
        /\ DOMAIN payments[m].sources \subseteq DOMAIN contracts[c].sources
BooksInOrder == ArrivalsDistinct /\ ContractsInOrder /\ PaymentsInOrder

\* No wei is lost, made or stranded by any handler of the ledger.
MoneyConserved == SourceConserved /\ ContractConserved /\ ClosedTasksHoldNothing

\* Money is spent as its donor meant it, and in the order it was given.
SpentAsMeant == RestrictionsHonoured /\ OldestSpentFirst

\* The pots of donation d.
PotsOf(d) ==
  [gas |-> donations[d].gasReserved, free |-> donations[d].available,
   allocated |-> AllocatedOf(d), locked |-> LockedOf(d),
   spent |-> SpentOf(d), refunded |-> RefundedOf(d)]

\* The ledger implements the donor's view.
Flow == INSTANCE DonationFlow WITH
  Donations <- DonationIds,
  pots <- [d \in DOMAIN donations |-> PotsOf(d)]
FlowSpec == Flow!Spec
=============================================================================
