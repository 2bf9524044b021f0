---------------------------- MODULE ContractProofs ----------------------------
(***************************************************************************)
(* Proofs about the two contracts and their readers, for every value of    *)
(* the constants.  First DonationPipeline.  Of the donation contract: its   *)
(* slots mirror which tasks are active, its books balance, money reaches    *)
(* the task that comes first, and a dead permit gives no donation; the      *)
(* reader only takes events away, so these are facts about the contract     *)
(* alone.  Of the two together: the projected ledger follows the contract.  *)
(* Then WalletSync: the pool contract's log keeps its books on every chain, *)
(* and what the wallet service persists is the history of one chain.        *)
(***************************************************************************)
EXTENDS DonationPipeline, WalletSync, SumLemmas

-----------------------------------------------------------------------------
(* The inductive invariant *)

Permit == [registrar : Registrars, donation : DonationIds, offer : Offers, nonce : Nonces,
           epoch : Nat]
Donation == [donor : Donors, purpose : Purposes \cup {AnyPurpose},
             project : Projects \cup {None}, amount : Nat, gasReserved : Nat,
             available : Nat, refunded : Nat, sequence : Nat, permit : Permit]
Task == [purpose : Purposes, project : Projects, urgency : 1..3, target : Nat \ {0},
         allocated : Nat, sequence : Nat, active : BOOLEAN]
Totals == [donated : Int, gas : Int, available : Int, allocated : Int, refunded : Int]

\* A collection of records of R under ids.
Table(f, ids, R) == IsFiniteSet(DOMAIN f) /\ DOMAIN f \subseteq ids /\ f \in [DOMAIN f -> R]

\* The collections are well formed, and money is allocated only from donations
\* and to tasks that exist.
LedgerTypeOK ==
  /\ Table(donations, DonationIds, Donation)
  /\ Table(tasks, TaskIds, Task)
  /\ Table(allocations, (DOMAIN tasks) \X (DOMAIN donations), Nat)
  /\ slots \in [1..MaxActiveTasks -> TaskIds \cup {None}]
  /\ registrars \subseteq Registrars /\ epochs \in [Registrars -> Nat]
  /\ signed \subseteq Permit /\ dead \subseteq Permit
  /\ totals \in Totals

\* Tasks are numbered as they are registered, which makes the ranking of the
\* needy ones linear.
TasksInOrder ==
  /\ \A t \in DOMAIN tasks : tasks[t].sequence <= Cardinality(DOMAIN tasks)
  /\ \A s, t \in DOMAIN tasks : s # t => tasks[s].sequence # tasks[t].sequence

\* No permit is of a later epoch, and each dead one is past its deadline, its
\* nonce spent or its registrar's epoch over.
PermitsInOrder ==
  /\ \A p \in signed \cup dead : p.epoch <= epochs[p.registrar]
  /\ \A p \in dead : \/ p \notin signed
                     \/ <<p.offer.donor, p.nonce>> \in usedNonces
                     \/ p.epoch < epochs[p.registrar]

\* What a donation came with and where it is now, and the sums of each.
Row(d) == [amount |-> donations[d].amount, gas |-> donations[d].gasReserved,
           available |-> donations[d].available, allocated |-> AllocatedFrom(d),
           refunded |-> donations[d].refunded]
Donated   == Total([d \in DOMAIN donations |-> Row(d).amount])
Reserved  == Total([d \in DOMAIN donations |-> Row(d).gas])
Available == Total([d \in DOMAIN donations |-> Row(d).available])
Allocated == Total([d \in DOMAIN donations |-> Row(d).allocated])
Refunded  == Total([d \in DOMAIN donations |-> Row(d).refunded])

RowsBalance ==
  \A d \in DOMAIN donations :
    Row(d).amount = Row(d).gas + Row(d).available + Row(d).refunded + Row(d).allocated
TasksBalance ==
  \A t \in DOMAIN tasks :
    tasks[t].allocated = AllocatedTo(t) /\ tasks[t].allocated <= tasks[t].target
TotalsBalance ==
  totals = [donated |-> Donated, gas |-> Reserved, available |-> Available,
            allocated |-> Allocated, refunded |-> Refunded]

LedgerInv ==
  /\ LedgerTypeOK /\ TasksInOrder /\ PermitsInOrder /\ SlotsMirrorActivity
  /\ RowsBalance /\ TasksBalance /\ TotalsBalance

\* The books as the rows tell them are the books of BooksBalance.
LEMMA RowsAreBooks == BooksBalance <=> RowsBalance /\ TasksBalance /\ TotalsBalance
  BY DEF BooksBalance, RowsBalance, TasksBalance, TotalsBalance, Row, Donated, Reserved,
         Available, Allocated, Refunded, SumOf

-----------------------------------------------------------------------------
(* What an allocation gives *)

\* An active task is in a slot.
LEMMA ActiveHasSlot ==
  ASSUME LedgerTypeOK, SlotsMirrorActivity, NEW t \in DOMAIN tasks, tasks[t].active
  PROVE  t \in Range(slots) \ {None}
  <1>1. {i \in DOMAIN slots : slots[i] = t} # {}
    BY FS_EmptySet DEF SlotsMirrorActivity
  <1>2. t # None
    BY LedgerAssumption DEF LedgerTypeOK, Table
  <1>3. QED
    BY <1>1, <1>2 DEF Range

\* The tasks a donation can serve are the active ones with room that it may
\* go to.
LEMMA NeedsType ==
  ASSUME LedgerTypeOK, SlotsMirrorActivity, NEW d, NEW donation
  PROVE  /\ Capacity(Needs(d, donation))
         /\ DOMAIN Needs(d, donation) =
              {t \in DOMAIN tasks : /\ tasks[t].active /\ tasks[t].allocated < tasks[t].target
                                    /\ Serves(donation, tasks[t])}
         /\ \A t \in DOMAIN Needs(d, donation) :
              /\ Needs(d, donation)[t] = NeedOf(tasks[t])
              /\ NeedOf(tasks[t]) \in Nat \ {0}
  <1> DEFINE D == {t \in DOMAIN tasks : /\ tasks[t].active
                                        /\ tasks[t].allocated < tasks[t].target
                                        /\ Serves(donation, tasks[t])}
  <1>1. D = {x \in Range(slots) \ {None} : /\ tasks[x].active
                                           /\ tasks[x].allocated < tasks[x].target
                                           /\ Serves(donation, tasks[x])}
    BY ActiveHasSlot DEF SlotsMirrorActivity
  <1>2. Needs(d, donation) = [t \in D |-> NeedOf(tasks[t])]
    BY <1>1 DEF Needs
  <1>3. \A t \in D : NeedOf(tasks[t]) \in Nat \ {0}
    BY DEF LedgerTypeOK, Table, Task, NeedOf
  <1>4. IsFiniteSet(D)
    BY FS_Subset DEF LedgerTypeOK, Table
  <1> HIDE DEF D
  <1>5. QED
    BY <1>2, <1>3, <1>4 DEF D, Capacity

\* Urgency and registration rank any tasks linearly.
LEMMA RankingLinear ==
  ASSUME LedgerTypeOK, TasksInOrder, NEW D \in SUBSET DOMAIN tasks
  PROVE  LinearOrder(Ranking(D, Outranks), D)
  <1> DEFINE r == Ranking(D, Outranks)
  <1>1. \A s, t \in D : <<s, t>> \in r <=> Outranks(s, t)
    BY DEF Ranking
  <1>2. \A t \in D : tasks[t].urgency \in Int /\ tasks[t].sequence \in Int
    BY DEF LedgerTypeOK, Table, Task
  <1>3. \A s, t \in D : s # t => tasks[s].sequence # tasks[t].sequence
    BY DEF TasksInOrder
  <1> HIDE DEF r
  <1>4. \A s \in D : <<s, s>> \notin r
    BY <1>1, <1>2 DEF Outranks
  <1>5. \A s, t, u \in D : <<s, t>> \in r /\ <<t, u>> \in r => <<s, u>> \in r
    BY <1>1, <1>2 DEF Outranks
  <1>6. ASSUME NEW s \in D, NEW t \in D, s # t PROVE <<s, t>> \in r \/ <<t, s>> \in r
    <2>1. Outranks(s, t) \/ Outranks(t, s)
      BY <1>2, <1>3, <1>6 DEF Outranks
    <2>2. QED
      BY <1>1, <2>1
  <1>7. LinearOrder(r, D)
    BY <1>4, <1>5, <1>6 DEF LinearOrder, StrictOrder
  <1>8. QED
    BY <1>7 DEF r

\* What donation gives the tasks when it is shared out as `shares`.
SharedOut(donation, shares) ==
  /\ DOMAIN shares \subseteq DOMAIN tasks /\ shares = [t \in DOMAIN shares |-> shares[t]]
  /\ Summable(shares) /\ Total(shares) \in Nat /\ Total(shares) <= donation.available
  /\ \A t \in DOMAIN shares :
       /\ tasks[t].active /\ Serves(donation, tasks[t])
       /\ shares[t] \in Nat \ {0} /\ tasks[t].allocated + shares[t] <= tasks[t].target
  /\ \A t \in DOMAIN shares, s \in DOMAIN tasks :
       Outranks(s, t) /\ tasks[s].active /\ Serves(donation, tasks[s]) =>
         tasks[s].allocated + Entry(shares, s) >= tasks[s].target
  /\ Total(shares) < donation.available =>
       \A s \in DOMAIN tasks :
         tasks[s].active /\ Serves(donation, tasks[s]) =>
           tasks[s].allocated + Entry(shares, s) >= tasks[s].target

\* The shares are of tasks in need, no more than they need, and in order.
LEMMA SharesType ==
  ASSUME LedgerTypeOK, TasksInOrder, SlotsMirrorActivity, NEW d, NEW donation,
         donation.available \in Nat
  PROVE  SharedOut(donation, Shares(d, donation))
  <1> PICK cap, r, amount, shares :
        /\ cap = Needs(d, donation) /\ r = Ranking(DOMAIN cap, Outranks)
        /\ amount = donation.available /\ shares = Greedy(amount, cap, r)
    OBVIOUS
  <1>1. /\ Capacity(cap)
        /\ DOMAIN cap = {t \in DOMAIN tasks : /\ tasks[t].active
                                              /\ tasks[t].allocated < tasks[t].target
                                              /\ Serves(donation, tasks[t])}
        /\ \A t \in DOMAIN cap : cap[t] = NeedOf(tasks[t]) /\ NeedOf(tasks[t]) \in Nat \ {0}
    BY NeedsType
  <1>2. LinearOrder(r, DOMAIN cap) /\ amount \in Nat
    BY <1>1, RankingLinear
  <1>3. Shares(d, donation) = shares
    BY DEF Shares
  <1>4. \A t \in DOMAIN shares : /\ t \in DOMAIN cap /\ shares[t] \in Nat \ {0}
                                 /\ shares[t] <= cap[t]
    BY <1>1, <1>2, GreedyType
  <1>5. /\ Summable(shares) /\ Total(shares) \in Nat /\ Total(shares) <= amount
        /\ \/ Total(shares) = amount
           \/ \A s \in DOMAIN cap : cap[s] > 0 => s \in DOMAIN shares /\ shares[s] = cap[s]
    <2>1. PICK g : g = Greedy(amount, cap, r)
      OBVIOUS
    <2>2. /\ Summable(g) /\ Total(g) \in Nat /\ Total(g) <= amount
          /\ \/ Total(g) = amount
             \/ \A s \in DOMAIN cap : cap[s] > 0 => s \in DOMAIN g /\ g[s] = cap[s]
      <3>1. Capacity(cap) /\ LinearOrder(r, DOMAIN cap) /\ amount \in Nat
        BY <1>1, <1>2
      <3>2. QED
        BY <2>1, <3>1, GreedyBound
    <2>3. QED
      BY <2>1, <2>2
  <1>6. \A s \in DOMAIN cap, t \in DOMAIN shares : <<s, t>> \in r =>
          \/ s \notin DOMAIN shares /\ cap[s] = 0
          \/ s \in DOMAIN shares /\ shares[s] = cap[s]
    BY <1>1, <1>2, GreedyExhausts DEF LinearOrder
  <1>7. \A s, t \in DOMAIN cap : Outranks(s, t) => <<s, t>> \in r
    BY DEF Ranking
  <1>8. shares = [t \in DOMAIN shares |-> shares[t]]
    BY DEF Greedy
  <1>9. \A t \in DOMAIN tasks : tasks[t].allocated \in Nat /\ tasks[t].target \in Nat
    BY DEF LedgerTypeOK, Table, Task
  <1>10. ASSUME NEW t \in DOMAIN shares
         PROVE  /\ t \in DOMAIN tasks /\ tasks[t].active /\ Serves(donation, tasks[t])
                /\ shares[t] \in Nat \ {0} /\ tasks[t].allocated + shares[t] <= tasks[t].target
    BY <1>1, <1>4, <1>9, <1>10 DEF NeedOf
  <1>11. ASSUME NEW s \in DOMAIN tasks, tasks[s].active, Serves(donation, tasks[s]),
                s \in DOMAIN cap => s \in DOMAIN shares /\ shares[s] = cap[s]
         PROVE  tasks[s].allocated + Entry(shares, s) >= tasks[s].target
    <2>1. CASE s \in DOMAIN cap
      BY <1>1, <1>9, <1>11, <2>1 DEF NeedOf, Entry
    <2>2. CASE s \notin DOMAIN cap
      BY <1>1, <1>4, <1>9, <1>11, <2>2 DEF Entry
    <2>3. QED
      BY <2>1, <2>2
  <1>12. ASSUME NEW t \in DOMAIN shares, NEW s \in DOMAIN tasks, Outranks(s, t),
                tasks[s].active, Serves(donation, tasks[s])
         PROVE  tasks[s].allocated + Entry(shares, s) >= tasks[s].target
    <2>1. s \in DOMAIN cap => s \in DOMAIN shares /\ shares[s] = cap[s]
      BY <1>1, <1>4, <1>6, <1>7, <1>12
    <2>2. QED
      BY <1>11, <1>12, <2>1
  <1>13. ASSUME Total(shares) < amount, NEW s \in DOMAIN tasks, tasks[s].active,
                Serves(donation, tasks[s])
         PROVE  tasks[s].allocated + Entry(shares, s) >= tasks[s].target
    <2>1. s \in DOMAIN cap => s \in DOMAIN shares /\ shares[s] = cap[s]
      BY <1>1, <1>2, <1>5, <1>13
    <2>2. QED
      BY <1>11, <1>13, <2>1
  <1>14. QED
    BY <1>3, <1>5, <1>8, <1>10, <1>12, <1>13 DEF SharedOut

-----------------------------------------------------------------------------
(* What an allocation does, entry by entry *)

Allocating(d, donation, sums, shares) ==
  /\ SharedOut(donation, shares)
  /\ tasks' = [t \in DOMAIN tasks |->
                 [tasks[t] EXCEPT !.allocated = @ + Entry(shares, t)]]
  /\ DOMAIN allocations' = DOMAIN allocations \cup {<<t, d>> : t \in DOMAIN shares}
  /\ allocations' = [a \in DOMAIN allocations' |->
                       Entry(allocations, a) + (IF a[2] = d THEN Entry(shares, a[1]) ELSE 0)]
  /\ donations' = Put(donations, d, [donation EXCEPT !.available = @ - Total(shares)])
  /\ totals' = [sums EXCEPT !.available = @ - Total(shares), !.allocated = @ + Total(shares)]
  /\ UNCHANGED slots

\* _allocate gives each task its share, from the donation and for its account.
LEMMA AllocateShares ==
  ASSUME LedgerTypeOK, TasksInOrder, SlotsMirrorActivity, NEW call, NEW d, NEW donation,
         donation.available \in Nat, NEW sums, NEW before,
         Allocate(call, d, donation, sums, before), UNCHANGED slots
  PROVE  Allocating(d, donation, sums, Shares(d, donation))
  <1> PICK shares : shares = Shares(d, donation)
    OBVIOUS
  <1>1. SharedOut(donation, shares)
    BY SharesType
  <1>2. \A t \in DOMAIN shares : t \in DOMAIN tasks /\ shares[t] \in Nat
    BY <1>1 DEF SharedOut
  <1>3. tasks' = [t \in DOMAIN tasks |-> [tasks[t] EXCEPT !.allocated = @ + Entry(shares, t)]]
    <2>1. tasks' = [t \in DOMAIN tasks |->
                      IF t \in DOMAIN shares
                      THEN [tasks[t] EXCEPT !.allocated = @ + shares[t]] ELSE tasks[t]]
      BY DEF Allocate
    <2>2. \A t \in DOMAIN tasks : tasks[t] = [tasks[t] EXCEPT !.allocated = @ + 0]
      BY DEF LedgerTypeOK, Table, Task
    <2>3. QED
      BY <2>1, <2>2 DEF Entry
  <1>4. /\ DOMAIN allocations' = DOMAIN allocations \cup {<<t, d>> : t \in DOMAIN shares}
        /\ allocations' = [a \in DOMAIN allocations' |->
                             Entry(allocations, a) + (IF a[2] = d THEN Entry(shares, a[1]) ELSE 0)]
    <2> DEFINE D == DOMAIN allocations \cup {<<t, d>> : t \in DOMAIN shares}
    <2>1. allocations' = [a \in D |->
                            IF a[2] = d /\ a[1] \in DOMAIN shares
                            THEN Entry(allocations, <<a[1], d>>) + shares[a[1]]
                            ELSE allocations[a]]
      BY DEF Allocate, Held, Entry
    <2>2. \A a \in DOMAIN allocations : a = <<a[1], a[2]>> /\ allocations[a] \in Nat
      BY DEF LedgerTypeOK, Table
    <2>3. ASSUME NEW a \in D
          PROVE  (IF a[2] = d /\ a[1] \in DOMAIN shares
                  THEN Entry(allocations, <<a[1], d>>) + shares[a[1]] ELSE allocations[a])
                   = Entry(allocations, a) + (IF a[2] = d THEN Entry(shares, a[1]) ELSE 0)
      <3>1. a = <<a[1], a[2]>>
        BY <2>2
      <3>2. CASE a[2] = d /\ a[1] \in DOMAIN shares
        BY <3>1, <3>2 DEF Entry
      <3>3. CASE ~(a[2] = d /\ a[1] \in DOMAIN shares)
        <4>1. a \in DOMAIN allocations
          BY <3>3
        <4>2. QED
          BY <2>2, <3>3, <4>1 DEF Entry
      <3>4. QED
        BY <3>2, <3>3
    <2> HIDE DEF D
    <2>4. allocations' = [a \in D |->
            Entry(allocations, a) + (IF a[2] = d THEN Entry(shares, a[1]) ELSE 0)]
      BY <2>1, <2>3
    <2>5. QED
      BY <2>4 DEF D
  <1>5. /\ donations' = Put(donations, d, [donation EXCEPT !.available = @ - Total(shares)])
        /\ totals' = [sums EXCEPT !.available = @ - Total(shares),
                                  !.allocated = @ + Total(shares)]
    BY DEF Allocate
  <1>6. QED
    BY <1>1, <1>3, <1>4, <1>5 DEF Allocating

\* Whatever the shares are.
LEMMA AllocateEffect ==
  ASSUME LedgerTypeOK, TasksInOrder, SlotsMirrorActivity, NEW call, NEW d, NEW donation,
         donation.available \in Nat, NEW sums, NEW before,
         Allocate(call, d, donation, sums, before), UNCHANGED slots
  PROVE  \E shares : Allocating(d, donation, sums, shares)
  BY AllocateShares

\* Tables take entries of their type.
LEMMA PutTable ==
  ASSUME NEW f, NEW ids, NEW R, Table(f, ids, R), NEW k \in ids, NEW v \in R
  PROVE  Table(Put(f, k, v), ids, R)
  BY FS_AddElement DEF Put, Table

\* Put sets one key and leaves the others.
LEMMA PutValue ==
  ASSUME NEW f, NEW k, NEW v
  PROVE  /\ DOMAIN Put(f, k, v) = DOMAIN f \cup {k}
         /\ Put(f, k, v)[k] = v
         /\ \A x \in DOMAIN f : x # k => Put(f, k, v)[x] = f[x]
  BY DEF Put

\* An allocation keeps the record types.
LEMMA AllocatingType ==
  ASSUME LedgerTypeOK, NEW d \in DonationIds, NEW donation \in Donation, NEW sums \in Totals,
         NEW shares, Allocating(d, donation, sums, shares)
  PROVE  /\ Table(donations', DonationIds, Donation)
         /\ Table(tasks', TaskIds, Task)
         /\ Table(allocations', (DOMAIN tasks') \X (DOMAIN donations'), Nat)
         /\ totals' \in Totals
  <1> PICK moved : moved = Total(shares)
    OBVIOUS
  <1>1. /\ moved \in Nat /\ moved <= donation.available
        /\ \A t \in DOMAIN shares : t \in DOMAIN tasks /\ shares[t] \in Nat
    BY DEF Allocating, SharedOut
  <1>2. Table(donations', DonationIds, Donation)
    <2>1. [donation EXCEPT !.available = @ - moved] \in Donation
      BY <1>1 DEF Donation
    <2>2. donations' = Put(donations, d, [donation EXCEPT !.available = @ - moved])
      BY DEF Allocating
    <2>3. QED
      BY <2>1, <2>2, PutTable DEF LedgerTypeOK
  <1>3. \A t : Entry(shares, t) \in Nat
    BY <1>1 DEF Entry
  <1>4. Table(tasks', TaskIds, Task) /\ DOMAIN tasks' = DOMAIN tasks
    <2>1. ASSUME NEW t \in DOMAIN tasks
          PROVE  [tasks[t] EXCEPT !.allocated = @ + Entry(shares, t)] \in Task
      <3>1. PICK task, n : task = tasks[t] /\ n = Entry(shares, t)
        OBVIOUS
      <3>2. task \in Task /\ n \in Nat
        BY <1>3, <3>1 DEF LedgerTypeOK, Table
      <3>3. [task EXCEPT !.allocated = @ + n] \in Task
        BY <3>2 DEF Task
      <3>4. QED
        BY <3>1, <3>3
    <2>2. QED
      BY <2>1 DEF Allocating, LedgerTypeOK, Table
  <1>5. Table(allocations', (DOMAIN tasks') \X (DOMAIN donations'), Nat)
    <2>1. DOMAIN donations' = DOMAIN donations \cup {d}
      BY DEF Allocating, Put
    <2>2. DOMAIN allocations' \subseteq (DOMAIN tasks') \X (DOMAIN donations')
      BY <1>1, <1>4, <2>1 DEF Allocating, LedgerTypeOK, Table
    <2>3. IsFiniteSet((DOMAIN tasks') \X (DOMAIN donations'))
      BY <1>2, <1>4, FS_Product DEF Table
    <2>4. IsFiniteSet(DOMAIN allocations')
      BY <2>2, <2>3, FS_Subset
    <2>5. \A a \in DOMAIN allocations' :
            Entry(allocations, a) + (IF a[2] = d THEN Entry(shares, a[1]) ELSE 0) \in Nat
      <3>1. \A a : Entry(allocations, a) \in Nat
        BY DEF LedgerTypeOK, Table, Entry
      <3>2. QED
        BY <1>3, <3>1
    <2>6. allocations' \in [DOMAIN allocations' -> Nat]
      BY <2>5 DEF Allocating
    <2>7. QED
      BY <2>2, <2>4, <2>6 DEF Table
  <1>6. totals' \in Totals
    <2>1. totals' = [sums EXCEPT !.available = @ - moved, !.allocated = @ + moved]
      BY DEF Allocating
    <2>2. sums.available - moved \in Int /\ sums.allocated + moved \in Int
      BY <1>1 DEF Totals
    <2>3. QED
      BY <2>1, <2>2 DEF Totals
  <1>7. QED
    BY <1>2, <1>4, <1>5, <1>6

-----------------------------------------------------------------------------
(* How an allocation moves the sums *)

\* What is allocated from a donation or to a task is a number.
LEMMA SumsType ==
  ASSUME LedgerTypeOK, NEW x
  PROVE  AllocatedFrom(x) \in Nat /\ AllocatedTo(x) \in Nat
  <1> PICK f, g : /\ f = [a \in {y \in DOMAIN allocations : y[2] = x} |-> allocations[a]]
                  /\ g = [a \in {y \in DOMAIN allocations : y[1] = x} |-> allocations[a]]
    OBVIOUS
  <1>1. IsFiniteSet(DOMAIN f) /\ IsFiniteSet(DOMAIN g)
    BY FS_Subset DEF LedgerTypeOK, Table
  <1>2. f \in [DOMAIN f -> Nat] /\ g \in [DOMAIN g -> Nat]
    BY DEF LedgerTypeOK, Table
  <1>3. Total(f) \in Nat /\ Total(g) \in Nat
    BY <1>1, <1>2, TotalNat
  <1>4. QED
    BY <1>3 DEF AllocatedFrom, AllocatedTo

\* A donation without allocations has nothing allocated.
LEMMA NothingAllocated ==
  ASSUME LedgerTypeOK, NEW d, d \notin DOMAIN donations
  PROVE  AllocatedFrom(d) = 0
  <1>1. {a \in DOMAIN allocations : a[2] = d} = {}
    BY DEF LedgerTypeOK, Table
  <1>2. QED
    BY <1>1, TotalEmpty DEF AllocatedFrom

\* An allocation from one donation leaves what is allocated from the others.
LEMMA OthersKeep ==
  ASSUME LedgerTypeOK, NEW d, NEW donation, NEW sums, NEW shares,
         Allocating(d, donation, sums, shares), NEW e, e # d
  PROVE  AllocatedFrom(e)' = AllocatedFrom(e)
  <1>1. {a \in DOMAIN allocations' : a[2] = e} = {a \in DOMAIN allocations : a[2] = e}
    BY DEF Allocating
  <1>2. ASSUME NEW a \in {x \in DOMAIN allocations : x[2] = e}
        PROVE  allocations'[a] = allocations[a]
    <2>1. allocations'[a] = Entry(allocations, a) + 0 /\ allocations[a] \in Nat
      BY <1>1 DEF Allocating, LedgerTypeOK, Table
    <2>2. QED
      BY <2>1 DEF Entry
  <1>3. [a \in {x \in DOMAIN allocations' : x[2] = e} |-> allocations'[a]] =
        [a \in {x \in DOMAIN allocations : x[2] = e} |-> allocations[a]]
    BY <1>1, <1>2
  <1>4. QED
    BY <1>3 DEF AllocatedFrom

\* It adds the shares to what is allocated from the donation itself.
LEMMA OwnGrows ==
  ASSUME LedgerTypeOK, NEW d, NEW donation, NEW sums, NEW shares,
         Allocating(d, donation, sums, shares), IsFiniteSet(DOMAIN allocations')
  PROVE  AllocatedFrom(d)' = AllocatedFrom(d) + Total(shares)
  <1> PICK A, B, S : /\ A = {x \in DOMAIN allocations : x[2] = d}
                     /\ B = {x \in DOMAIN allocations' : x[2] = d}
                     /\ S = {<<t, d>> : t \in DOMAIN shares}
    OBVIOUS
  <1>0. PICK f, g, h, k, b :
        /\ f = [a \in B |-> allocations'[a]]
        /\ g = [a \in B |-> Entry(allocations, a)]
        /\ h = [a \in S |-> shares[a[1]]]
        /\ k = [a \in A |-> allocations[a]]
        /\ b = [t \in DOMAIN shares |-> <<t, d>>]
    OBVIOUS
  <1>1. /\ IsFiniteSet(B) /\ A \subseteq B /\ S \subseteq B
        /\ B = A \cup S
    BY FS_Subset DEF Allocating
  <1>2. \A t \in DOMAIN shares : shares[t] \in Nat
    BY DEF Allocating, SharedOut
  <1>3. \A a \in B : a = <<a[1], d>>
    BY <1>1 DEF LedgerTypeOK, Table
  <1>4. \A a : Entry(allocations, a) \in Nat
    BY DEF LedgerTypeOK, Table, Entry
  <1>5. ASSUME NEW a \in B
        PROVE  /\ f[a] = g[a] + (IF a \in DOMAIN h THEN h[a] ELSE 0) /\ f[a] \in Int
    <2>1. f[a] = Entry(allocations, a) + Entry(shares, a[1])
      BY <1>0 DEF Allocating
    <2>2. Entry(shares, a[1]) \in Nat /\ Entry(shares, a[1]) = IF a \in S THEN shares[a[1]] ELSE 0
      BY <1>2, <1>3 DEF Entry
    <2>3. QED
      BY <1>0, <1>4, <2>1, <2>2
  <1>6. Summable(f)
    BY <1>0, <1>1, <1>5 DEF Summable
  <1>7. Summable(g)
    BY <1>0, <1>1, <1>4 DEF Summable
  <1>8. Summable(shares) /\ Total(shares) \in Nat
    BY DEF Allocating, SharedOut
  <1>9. Summable(h) /\ Total(h) = Total(shares)
    <2>1. b \in [DOMAIN shares -> DOMAIN h]
      BY <1>0
    <2>2. \A x, y \in DOMAIN shares : b[x] = b[y] => x = y
      BY <1>0
    <2>3. \A y \in DOMAIN h : \E x \in DOMAIN shares : b[x] = y
      BY <1>0
    <2>4. h = [y \in DOMAIN h |-> h[y]] /\ \A x \in DOMAIN shares : h[b[x]] = shares[x]
      BY <1>0
    <2>5. QED
      BY <1>8, <2>1, <2>2, <2>3, <2>4, TotalReindexed
  <1>10. Total(f) = Total(g) + Total(h)
    <2>1. DOMAIN g = DOMAIN f /\ DOMAIN h \subseteq DOMAIN f /\ DOMAIN f = B
      BY <1>0, <1>1
    <2>2. \A a \in DOMAIN f : f[a] = g[a] + (IF a \in DOMAIN h THEN h[a] ELSE 0)
      BY <1>5, <2>1
    <2>3. QED
      BY <1>6, <1>7, <1>9, <2>1, <2>2, TotalSplit
  <1>11. Summable(k) /\ Total(k) = Total(g)
    <2>1. DOMAIN k \subseteq DOMAIN g /\ \A x \in DOMAIN g \ DOMAIN k : g[x] = 0
      BY <1>0, <1>1 DEF Entry
    <2>2. k = [x \in DOMAIN k |-> g[x]]
      BY <1>0, <1>1 DEF Entry
    <2>3. QED
      BY <1>7, <2>1, <2>2, TotalSupport
  <1>12. AllocatedFrom(d) = Total(k) /\ AllocatedFrom(d)' = Total(f)
    BY <1>0 DEF AllocatedFrom
  <1>13. QED
    BY <1>9, <1>10, <1>11, <1>12

\* And to each task its share.
LEMMA TasksGrow ==
  ASSUME LedgerTypeOK, NEW d, NEW donation, NEW sums, NEW shares,
         Allocating(d, donation, sums, shares), IsFiniteSet(DOMAIN allocations'), NEW t
  PROVE  AllocatedTo(t)' = AllocatedTo(t) + Entry(shares, t)
  <1> PICK f, g, k : /\ f = [a \in {x \in DOMAIN allocations : x[1] = t} |-> allocations[a]]
                     /\ g = [a \in {x \in DOMAIN allocations' : x[1] = t} |-> allocations'[a]]
                     /\ k = <<t, d>>
    OBVIOUS
  <1>1. \A a : Entry(allocations, a) \in Nat
    BY DEF LedgerTypeOK, Table, Entry
  <1>2. \A x : Entry(shares, x) \in Nat
    BY DEF Allocating, SharedOut, Entry
  <1>3. \A a \in DOMAIN allocations' : allocations'[a] =
          Entry(allocations, a) + (IF a[2] = d THEN Entry(shares, a[1]) ELSE 0)
    BY DEF Allocating
  <1>4. \A a \in DOMAIN allocations' : a = <<a[1], a[2]>>
    BY DEF Allocating, LedgerTypeOK, Table
  <1>5. Summable(f) /\ DOMAIN f = {x \in DOMAIN allocations : x[1] = t}
    BY FS_Subset DEF LedgerTypeOK, Table, Summable
  <1>6. Summable(g) /\ DOMAIN g = {x \in DOMAIN allocations' : x[1] = t}
    <2>1. \A a \in DOMAIN allocations' : allocations'[a] \in Int
      BY <1>1, <1>2, <1>3
    <2>2. QED
      BY <2>1, FS_Subset DEF Summable
  <1>7. DOMAIN f \ {k} = DOMAIN g \ {k}
    BY <1>4, <1>5, <1>6 DEF Allocating
  <1>8. ASSUME NEW a \in DOMAIN f \ {k} PROVE g[a] = f[a]
    <2>1. a \in DOMAIN allocations' /\ a \in DOMAIN allocations /\ a[2] # d /\ a[1] = t
      BY <1>4, <1>5, <1>6, <1>7
    <2>2. allocations'[a] = Entry(allocations, a) + 0
      BY <1>3, <2>1
    <2>3. QED
      BY <1>1, <2>1, <2>2 DEF Entry
  <1>9. Entry(f, k) = Entry(allocations, k) /\ Entry(g, k) = Entry(allocations', k)
    BY <1>5, <1>6 DEF Entry
  <1>10. Entry(allocations', k) = Entry(allocations, k) + Entry(shares, t)
    <2>1. CASE k \in DOMAIN allocations'
      BY <1>3, <2>1 DEF Entry
    <2>2. CASE k \notin DOMAIN allocations'
      BY <2>2 DEF Entry, Allocating
    <2>3. QED
      BY <2>1, <2>2
  <1>11. Total(g) = Total(f) - Entry(f, k) + Entry(g, k) /\ Total(f) \in Int
    BY <1>5, <1>6, <1>7, <1>8, TotalChange
  <1>12. AllocatedTo(t) = Total(f) /\ AllocatedTo(t)' = Total(g)
    BY DEF AllocatedTo
  <1>13. QED
    BY <1>1, <1>2, <1>9, <1>10, <1>11, <1>12

-----------------------------------------------------------------------------
(* How the totals follow the row of one donation *)

Fields == {"amount", "gas", "available", "allocated", "refunded"}
Rows == [amount : Int, gas : Int, available : Int, allocated : Int, refunded : Int]
NoRow == [amount |-> 0, gas |-> 0, available |-> 0, allocated |-> 0, refunded |-> 0]
RowOrNone(r, d) == IF d \in DOMAIN r THEN r[d] ELSE NoRow

\* The total of a column of a table of rows.
Column(r, c) == Total([d \in DOMAIN r |-> r[d][c]])

\* A column changes by what it changes in the one row that does.
LEMMA ColumnChange ==
  ASSUME NEW f, NEW g, Summable(f), Summable(g), NEW d \in DOMAIN g,
         DOMAIN g = DOMAIN f \cup {d}, \A e \in DOMAIN f : e # d => g[e] = f[e]
  PROVE  Total(g) = Total(f) - Entry(f, d) + g[d] /\ Total(f) \in Int
  <1>1. DOMAIN f \ {d} = DOMAIN g \ {d} /\ \A e \in DOMAIN f \ {d} : g[e] = f[e]
    OBVIOUS
  <1>2. Entry(g, d) = g[d]
    BY DEF Entry
  <1>3. Total(g) = Total(f) - Entry(f, d) + Entry(g, d) /\ Total(f) \in Int
    BY <1>1, TotalChange
  <1>4. QED
    BY <1>2, <1>3

\* So does every column of the rows.
LEMMA ColumnsChange ==
  ASSUME NEW r, IsFiniteSet(DOMAIN r), r \in [DOMAIN r -> Rows],
         NEW s, s \in [DOMAIN s -> Rows], NEW d \in DOMAIN s,
         DOMAIN s = DOMAIN r \cup {d}, \A e \in DOMAIN r : e # d => s[e] = r[e],
         NEW c \in Fields
  PROVE  Column(s, c) = Column(r, c) - RowOrNone(r, d)[c] + s[d][c]
  <1>1. \A x \in Rows : x[c] \in Int
    BY DEF Rows, Fields
  <1>2. PICK f, g : f = [e \in DOMAIN r |-> r[e][c]] /\ g = [e \in DOMAIN s |-> s[e][c]]
    OBVIOUS
  <1>3. Summable(f) /\ Summable(g) /\ d \in DOMAIN g /\ DOMAIN g = DOMAIN f \cup {d}
    BY <1>1, <1>2, FS_AddElement DEF Summable
  <1>4. \A e \in DOMAIN f : e # d => g[e] = f[e]
    BY <1>2
  <1>5. Entry(f, d) = RowOrNone(r, d)[c] /\ g[d] = s[d][c]
    <2>1. NoRow[c] = 0
      BY DEF NoRow, Fields
    <2>2. QED
      BY <1>2, <2>1 DEF Entry, RowOrNone
  <1>6. Total(g) = Total(f) - Entry(f, d) + g[d]
    BY <1>3, <1>4, ColumnChange
  <1>7. QED
    BY <1>2, <1>5, <1>6 DEF Column

\* The rows are numbers.
LEMMA RowType == ASSUME LedgerTypeOK, NEW d \in DOMAIN donations PROVE Row(d) \in Rows
  <1>1. AllocatedFrom(d) \in Int
    BY SumsType
  <1>2. donations[d] \in Donation
    BY DEF LedgerTypeOK, Table
  <1>3. QED
    BY <1>1, <1>2 DEF Row, Rows, Donation

\* When one row comes or changes, balanced, and the totals with it, the books
\* still balance.
LEMMA BooksFollow ==
  ASSUME LedgerTypeOK, RowsBalance, TotalsBalance, NEW d,
         DOMAIN donations' = DOMAIN donations \cup {d},
         \A e \in DOMAIN donations : e # d => Row(e)' = Row(e),
         NEW before, before = (IF d \in DOMAIN donations THEN Row(d) ELSE NoRow),
         NEW after \in Rows, Row(d)' = after,
         after.amount = after.gas + after.available + after.refunded + after.allocated,
         totals' = [donated |-> totals.donated - before.amount + after.amount,
                    gas |-> totals.gas - before.gas + after.gas,
                    available |-> totals.available - before.available + after.available,
                    allocated |-> totals.allocated - before.allocated + after.allocated,
                    refunded |-> totals.refunded - before.refunded + after.refunded]
  PROVE  RowsBalance' /\ TotalsBalance'
  <1>0. PICK r, s : r = [e \in DOMAIN donations |-> Row(e)] /\ s = [e \in DOMAIN donations' |-> Row(e)']
    OBVIOUS
  <1>1. IsFiniteSet(DOMAIN r) /\ r \in [DOMAIN r -> Rows]
    BY <1>0, RowType DEF LedgerTypeOK, Table
  <1>2. /\ DOMAIN s = DOMAIN r \cup {d} /\ d \in DOMAIN s /\ s[d] = after
        /\ \A e \in DOMAIN r : e # d => s[e] = r[e]
    BY <1>0
  <1>3. s \in [DOMAIN s -> Rows]
    <2>1. \A e \in DOMAIN s : s[e] \in Rows
      BY <1>1, <1>2
    <2>2. QED
      BY <1>0, <2>1
  <1>4. RowOrNone(r, d) = before
    BY <1>0 DEF RowOrNone
  <1>5. totals = [donated |-> Column(r, "amount"), gas |-> Column(r, "gas"),
                  available |-> Column(r, "available"), allocated |-> Column(r, "allocated"),
                  refunded |-> Column(r, "refunded")]
    BY <1>0 DEF TotalsBalance, Donated, Reserved, Available, Allocated, Refunded, Column
  <1>6. totals' = [donated |-> Column(s, "amount"), gas |-> Column(s, "gas"),
                   available |-> Column(s, "available"), allocated |-> Column(s, "allocated"),
                   refunded |-> Column(s, "refunded")]
    <2>1. \A c \in Fields : Column(s, c) = Column(r, c) - RowOrNone(r, d)[c] + s[d][c]
      BY <1>1, <1>2, <1>3, ColumnsChange
    <2>2. /\ Column(s, "amount") = totals.donated - before.amount + after.amount
          /\ Column(s, "gas") = totals.gas - before.gas + after.gas
          /\ Column(s, "available") = totals.available - before.available + after.available
          /\ Column(s, "allocated") = totals.allocated - before.allocated + after.allocated
          /\ Column(s, "refunded") = totals.refunded - before.refunded + after.refunded
      BY <1>2, <1>4, <1>5, <2>1 DEF Fields
    <2>3. QED
      BY <2>2
  <1>7. TotalsBalance'
    BY <1>0, <1>6 DEF TotalsBalance, Donated, Reserved, Available, Allocated, Refunded, Column
  <1>8. ASSUME NEW e \in DOMAIN donations'
        PROVE  Row(e)'.amount = Row(e)'.gas + Row(e)'.available + Row(e)'.refunded + Row(e)'.allocated
    <2>1. CASE e = d
      BY <2>1
    <2>2. CASE e # d
      BY <1>8, <2>2 DEF RowsBalance
    <2>3. QED
      BY <2>1, <2>2
  <1>9. QED
    BY <1>7, <1>8 DEF RowsBalance

-----------------------------------------------------------------------------
(* Allocations keep the books *)

\* The parts of the invariant about tasks, slots and money.
BooksInv ==
  /\ Table(donations, DonationIds, Donation)
  /\ Table(tasks, TaskIds, Task)
  /\ Table(allocations, (DOMAIN tasks) \X (DOMAIN donations), Nat)
  /\ totals \in Totals
  /\ TasksInOrder /\ SlotsMirrorActivity /\ RowsBalance /\ TasksBalance /\ TotalsBalance

\* An allocation moves money within one row and to the tasks it is for.
LEMMA AllocatingBooks ==
  ASSUME LedgerInv, NEW d \in DonationIds, NEW donation \in Donation, NEW sums \in Totals,
         NEW shares, Allocating(d, donation, sums, shares),
         NEW before \in Rows, before = (IF d \in DOMAIN donations THEN Row(d) ELSE NoRow),
         donation.amount = donation.gasReserved + donation.available + donation.refunded
                             + before.allocated,
         sums = [donated |-> totals.donated - before.amount + donation.amount,
                 gas |-> totals.gas - before.gas + donation.gasReserved,
                 available |-> totals.available - before.available + donation.available,
                 allocated |-> totals.allocated,
                 refunded |-> totals.refunded - before.refunded + donation.refunded]
  PROVE  BooksInv'
  <1>1. LedgerTypeOK /\ RowsBalance /\ TasksBalance /\ TotalsBalance
    BY DEF LedgerInv
  <1>2. /\ Table(donations', DonationIds, Donation) /\ Table(tasks', TaskIds, Task)
        /\ Table(allocations', (DOMAIN tasks') \X (DOMAIN donations'), Nat) /\ totals' \in Totals
    BY <1>1, AllocatingType
  <1>3. PICK moved : moved = Total(shares)
    OBVIOUS
  <1>4. moved \in Nat
    BY <1>3 DEF Allocating, SharedOut
  <1>5. PICK new : new = [donation EXCEPT !.available = @ - moved]
    OBVIOUS
  <1>6. /\ DOMAIN donations' = DOMAIN donations \cup {d} /\ donations'[d] = new
        /\ \A e \in DOMAIN donations : e # d => donations'[e] = donations[e]
    <2>1. donations' = Put(donations, d, new)
      BY <1>3, <1>5 DEF Allocating
    <2>2. QED
      BY <2>1 DEF Put
  <1>7. \A e \in DOMAIN donations : e # d => Row(e)' = Row(e)
    <2>1. \A e \in DOMAIN donations : e # d => AllocatedFrom(e)' = AllocatedFrom(e)
      BY <1>1, OthersKeep
    <2>2. QED
      BY <1>6, <2>1 DEF Row
  <1>8. AllocatedFrom(d)' = before.allocated + moved
    <2>1. AllocatedFrom(d)' = AllocatedFrom(d) + moved
      BY <1>1, <1>2, <1>3, OwnGrows DEF Table
    <2>2. AllocatedFrom(d) = before.allocated
      BY <1>1, NothingAllocated DEF Row, NoRow
    <2>3. QED
      BY <2>1, <2>2
  <1>9. PICK after : after = [amount |-> donation.amount, gas |-> donation.gasReserved,
                              available |-> donation.available - moved,
                              allocated |-> before.allocated + moved,
                              refunded |-> donation.refunded]
    OBVIOUS
  <1>10. /\ donation.amount \in Int /\ donation.gasReserved \in Int
         /\ donation.available \in Int /\ donation.refunded \in Int /\ before.allocated \in Int
    BY DEF Donation, Rows
  <1>11. /\ after \in Rows
         /\ after.amount = after.gas + after.available + after.refunded + after.allocated
    BY <1>4, <1>9, <1>10 DEF Rows
  <1>12. Row(d)' = after
    <2>1. /\ new.amount = donation.amount /\ new.gasReserved = donation.gasReserved
          /\ new.available = donation.available - moved /\ new.refunded = donation.refunded
      BY <1>5 DEF Donation
    <2>2. QED
      BY <1>6, <1>8, <1>9, <2>1 DEF Row
  <1>13. totals' = [donated |-> totals.donated - before.amount + after.amount,
                    gas |-> totals.gas - before.gas + after.gas,
                    available |-> totals.available - before.available + after.available,
                    allocated |-> totals.allocated - before.allocated + after.allocated,
                    refunded |-> totals.refunded - before.refunded + after.refunded]
    <2>1. totals' = [sums EXCEPT !.available = @ - moved, !.allocated = @ + moved]
      BY <1>3 DEF Allocating
    <2>2. /\ sums.available - moved = totals.available - before.available + after.available
          /\ sums.allocated + moved = totals.allocated - before.allocated + after.allocated
      <3>1. totals.available \in Int /\ totals.allocated \in Int /\ before.available \in Int
        BY <1>1 DEF LedgerTypeOK, Totals, Rows
      <3>2. QED
        BY <1>4, <1>9, <1>10, <3>1
    <2>3. QED
      BY <1>9, <2>1, <2>2
  <1>14. RowsBalance' /\ TotalsBalance'
    BY <1>1, <1>6, <1>7, <1>11, <1>12, <1>13, BooksFollow
  <1>15. /\ DOMAIN tasks' = DOMAIN tasks
         /\ \A t \in DOMAIN tasks : /\ tasks'[t].allocated = tasks[t].allocated + Entry(shares, t)
                                    /\ tasks'[t].target = tasks[t].target
                                    /\ tasks'[t].active = tasks[t].active
                                    /\ tasks'[t].sequence = tasks[t].sequence
    <2>1. ASSUME NEW t \in DOMAIN tasks
          PROVE  /\ tasks'[t].allocated = tasks[t].allocated + Entry(shares, t)
                 /\ tasks'[t].target = tasks[t].target
                 /\ tasks'[t].active = tasks[t].active
                 /\ tasks'[t].sequence = tasks[t].sequence
      <3>1. tasks[t] \in Task
        BY <1>1 DEF LedgerTypeOK, Table
      <3>2. tasks'[t] = [tasks[t] EXCEPT !.allocated = @ + Entry(shares, t)]
        BY DEF Allocating
      <3>3. QED
        BY <3>1, <3>2 DEF Task
    <2>2. QED
      BY <2>1 DEF Allocating
  <1>16. TasksBalance'
    <2>1. ASSUME NEW t \in DOMAIN tasks PROVE AllocatedTo(t)' = tasks'[t].allocated
      <3>1. AllocatedTo(t)' = AllocatedTo(t) + Entry(shares, t)
        BY <1>1, <1>2, TasksGrow DEF Table
      <3>2. QED
        BY <1>1, <1>15, <3>1 DEF TasksBalance
    <2>2. ASSUME NEW t \in DOMAIN tasks PROVE tasks'[t].allocated <= tasks'[t].target
      <3>1. t \in DOMAIN shares => tasks[t].allocated + shares[t] <= tasks[t].target
        BY DEF Allocating, SharedOut
      <3>2. tasks[t].allocated \in Nat /\ tasks[t].allocated <= tasks[t].target
        BY <1>1 DEF TasksBalance, LedgerTypeOK, Table, Task
      <3>3. QED
        BY <1>15, <3>1, <3>2 DEF Entry
    <2>3. QED
      BY <1>15, <2>1, <2>2 DEF TasksBalance
  <1>17. TasksInOrder' /\ SlotsMirrorActivity'
    <2>1. TasksInOrder /\ SlotsMirrorActivity /\ UNCHANGED slots
      BY DEF LedgerInv, Allocating
    <2>2. TasksInOrder'
      BY <1>15, <2>1 DEF TasksInOrder
    <2>3. SlotsMirrorActivity'
      BY <1>15, <2>1 DEF SlotsMirrorActivity
    <2>4. QED
      BY <2>2, <2>3
  <1>18. QED
    BY <1>2, <1>14, <1>16, <1>17 DEF BooksInv

\* allocateRemaining keeps the books.
LEMMA AllocateRemainingBooks ==
  ASSUME LedgerInv, NEW d \in DonationIds, AllocateRemaining(d)
  PROVE  BooksInv'
  <1>1. LedgerTypeOK /\ RowsBalance /\ TasksInOrder /\ SlotsMirrorActivity
    BY DEF LedgerInv
  <1>2. PICK donation, sums, before : donation = donations[d] /\ sums = totals /\ before = Row(d)
    OBVIOUS
  <1>3. /\ d \in DOMAIN donations /\ UNCHANGED slots
        /\ Allocate("allocateRemaining", d, donation, sums, <<>>)
    BY <1>2 DEF AllocateRemaining
  <1>4. donation \in Donation /\ sums \in Totals /\ before \in Rows /\ donation.available \in Nat
    BY <1>1, <1>2, <1>3, RowType DEF LedgerTypeOK, Table, Donation
  <1>5. PICK shares : Allocating(d, donation, sums, shares)
    BY <1>1, <1>3, <1>4, AllocateEffect
  <1>6. /\ before.amount = donation.amount /\ before.gas = donation.gasReserved
        /\ before.available = donation.available /\ before.refunded = donation.refunded
    BY <1>2 DEF Row
  <1>7. donation.amount = donation.gasReserved + donation.available + donation.refunded
                            + before.allocated
    BY <1>1, <1>2, <1>3, <1>6 DEF RowsBalance
  <1>8. sums = [donated |-> totals.donated - before.amount + donation.amount,
                gas |-> totals.gas - before.gas + donation.gasReserved,
                available |-> totals.available - before.available + donation.available,
                allocated |-> totals.allocated,
                refunded |-> totals.refunded - before.refunded + donation.refunded]
    <2>1. totals \in Totals
      BY <1>1 DEF LedgerTypeOK
    <2>2. /\ totals.donated - before.amount + donation.amount = totals.donated
          /\ totals.gas - before.gas + donation.gasReserved = totals.gas
          /\ totals.available - before.available + donation.available = totals.available
          /\ totals.refunded - before.refunded + donation.refunded = totals.refunded
      BY <1>4, <1>6, <2>1 DEF Totals, Rows
    <2>3. QED
      BY <1>2, <2>1, <2>2 DEF Totals
  <1>9. before = (IF d \in DOMAIN donations THEN Row(d) ELSE NoRow)
    BY <1>2, <1>3
  <1>10. QED
    BY <1>4, <1>5, <1>7, <1>8, <1>9, AllocatingBooks

\* A donation comes in balanced, whatever it gives away at once.
LEMMA DonateBooks ==
  ASSUME LedgerInv, NEW permit \in Permit, NEW sender, NEW value, Donate(permit, sender, value)
  PROVE  BooksInv'
  <1>1. LedgerTypeOK /\ TasksInOrder /\ SlotsMirrorActivity
    BY DEF LedgerInv
  <1>2. PICK d, offer, n : /\ d = permit.donation /\ offer = permit.offer
                           /\ n = Cardinality(DOMAIN donations) + 1
    OBVIOUS
  <1>3. PICK donation :
          donation = [donor |-> sender, purpose |-> offer.purpose, project |-> offer.project,
                      amount |-> offer.amount, gasReserved |-> offer.gasReserved,
                      available |-> offer.amount - offer.gasReserved, refunded |-> 0,
                      sequence |-> n, permit |-> permit]
    OBVIOUS
  <1>4. PICK sums : sums = [totals EXCEPT !.donated = @ + offer.amount,
                                          !.gas = @ + offer.gasReserved,
                                          !.available = @ + donation.available]
    OBVIOUS
  <1>5. PICK first : first = <<[call |-> "donate", type |-> "DonationReceived", donation |-> d,
                                gift |-> offer]>>
    OBVIOUS
  <1>6. /\ d \notin DOMAIN donations /\ sender = offer.donor
        /\ offer.gasReserved <= offer.amount /\ UNCHANGED slots
        /\ Allocate("donate", d, donation, sums, first)
    BY <1>2, <1>3, <1>4, <1>5 DEF Donate
  <1>7. /\ d \in DonationIds /\ offer.donor \in Donors
        /\ offer.purpose \in Purposes \cup {AnyPurpose}
        /\ offer.project \in Projects \cup {None}
        /\ offer.amount \in Nat /\ offer.gasReserved \in Nat
    BY <1>2, LedgerAssumption DEF Permit
  <1>8. n \in Nat
    BY <1>1, <1>2, FS_CardinalityType DEF LedgerTypeOK, Table
  <1>9. donation \in Donation
    BY <1>3, <1>6, <1>7, <1>8 DEF Donation
  <1>10. /\ donation.amount = offer.amount /\ donation.gasReserved = offer.gasReserved
         /\ donation.available = offer.amount - offer.gasReserved /\ donation.refunded = 0
         /\ donation.available \in Nat
    BY <1>3, <1>6, <1>7
  <1>11. totals \in Totals
    BY <1>1 DEF LedgerTypeOK
  <1>12. /\ sums = [donated |-> totals.donated + donation.amount,
                    gas |-> totals.gas + donation.gasReserved,
                    available |-> totals.available + donation.available,
                    allocated |-> totals.allocated, refunded |-> totals.refunded]
         /\ totals.donated \in Int /\ totals.gas \in Int /\ totals.available \in Int
         /\ totals.allocated \in Int /\ totals.refunded \in Int
    BY <1>4, <1>10, <1>11 DEF Totals
  <1>13. sums \in Totals
    BY <1>7, <1>10, <1>12 DEF Totals
  <1>14. PICK shares : Allocating(d, donation, sums, shares)
    BY <1>1, <1>6, <1>10, AllocateEffect
  <1>15. PICK before : before = NoRow
    OBVIOUS
  <1>16. before \in Rows /\ before = (IF d \in DOMAIN donations THEN Row(d) ELSE NoRow)
    BY <1>6, <1>15 DEF NoRow, Rows
  <1>17. /\ before.amount = 0 /\ before.gas = 0 /\ before.available = 0
         /\ before.allocated = 0 /\ before.refunded = 0
    BY <1>15 DEF NoRow
  <1>18. donation.amount = donation.gasReserved + donation.available + donation.refunded
                             + before.allocated
    BY <1>7, <1>10, <1>17
  <1>19. sums = [donated |-> totals.donated - before.amount + donation.amount,
                 gas |-> totals.gas - before.gas + donation.gasReserved,
                 available |-> totals.available - before.available + donation.available,
                 allocated |-> totals.allocated,
                 refunded |-> totals.refunded - before.refunded + donation.refunded]
    <2>1. /\ totals.donated - before.amount + donation.amount = totals.donated + donation.amount
          /\ totals.gas - before.gas + donation.gasReserved = totals.gas + donation.gasReserved
          /\ totals.available - before.available + donation.available
               = totals.available + donation.available
          /\ totals.refunded - before.refunded + donation.refunded = totals.refunded
      BY <1>7, <1>10, <1>12, <1>17
    <2>2. QED
      BY <1>12, <2>1
  <1>20. QED
    BY <1>7, <1>9, <1>13, <1>14, <1>16, <1>18, <1>19, AllocatingBooks

\* A refund moves money within its donation's row.
LEMMA RefundBooks ==
  ASSUME LedgerInv, NEW f, NEW d \in DonationIds, NEW sender, NEW amount \in Amounts,
         RefundUnallocated(f, d, sender, amount)
  PROVE  BooksInv'
  <1>1. LedgerTypeOK /\ RowsBalance /\ TasksBalance /\ TotalsBalance
    BY DEF LedgerInv
  <1>2. /\ d \in DOMAIN donations /\ amount <= donations[d].available /\ amount \in Nat
        /\ donations' = [donations EXCEPT ![d].available = @ - amount, ![d].refunded = @ + amount]
        /\ totals' = [totals EXCEPT !.available = @ - amount, !.refunded = @ + amount]
        /\ UNCHANGED <<tasks, allocations, slots>>
    BY LedgerAssumption DEF RefundUnallocated
  <1>3. PICK old, new : /\ old = donations[d]
                        /\ new = [old EXCEPT !.available = @ - amount, !.refunded = @ + amount]
    OBVIOUS
  <1>4. old \in Donation
    BY <1>1, <1>2, <1>3 DEF LedgerTypeOK, Table
  <1>5. /\ new \in Donation
        /\ new.amount = old.amount /\ new.gasReserved = old.gasReserved
        /\ new.available = old.available - amount /\ new.refunded = old.refunded + amount
    BY <1>2, <1>3, <1>4 DEF Donation
  <1>6. /\ DOMAIN donations' = DOMAIN donations /\ donations'[d] = new
        /\ \A e \in DOMAIN donations : e # d => donations'[e] = donations[e]
        /\ donations' = [e \in DOMAIN donations |-> donations'[e]]
    BY <1>2, <1>3
  <1>7. Table(donations', DonationIds, Donation)
    BY <1>1, <1>2, <1>5, <1>6 DEF LedgerTypeOK, Table
  <1>8. \A e : AllocatedFrom(e)' = AllocatedFrom(e) /\ AllocatedTo(e)' = AllocatedTo(e)
    BY <1>2 DEF AllocatedFrom, AllocatedTo
  <1>9. \A e \in DOMAIN donations : e # d => Row(e)' = Row(e)
    BY <1>6, <1>8 DEF Row
  <1>10. PICK before, after :
           /\ before = Row(d)
           /\ after = [amount |-> before.amount, gas |-> before.gas,
                       available |-> before.available - amount,
                       allocated |-> before.allocated, refunded |-> before.refunded + amount]
    OBVIOUS
  <1>11. before \in Rows
    BY <1>1, <1>2, <1>10, RowType
  <1>12. /\ after \in Rows
         /\ after.amount = before.amount /\ after.gas = before.gas
         /\ after.available = before.available - amount
         /\ after.allocated = before.allocated /\ after.refunded = before.refunded + amount
    BY <1>2, <1>10, <1>11 DEF Rows
  <1>13. Row(d)' = after
    <2>1. before = [amount |-> old.amount, gas |-> old.gasReserved, available |-> old.available,
                    allocated |-> AllocatedFrom(d), refunded |-> old.refunded]
      BY <1>3, <1>10 DEF Row
    <2>2. Row(d)' = [amount |-> new.amount, gas |-> new.gasReserved,
                     available |-> new.available, allocated |-> AllocatedFrom(d),
                     refunded |-> new.refunded]
      BY <1>6, <1>8 DEF Row
    <2>3. QED
      BY <1>5, <1>10, <2>1, <2>2
  <1>14. after.amount = after.gas + after.available + after.refunded + after.allocated
    <2>1. before.amount = before.gas + before.available + before.refunded + before.allocated
      BY <1>1, <1>2, <1>10 DEF RowsBalance
    <2>2. QED
      BY <1>2, <1>11, <1>12, <2>1 DEF Rows
  <1>15. totals' = [donated |-> totals.donated - before.amount + after.amount,
                    gas |-> totals.gas - before.gas + after.gas,
                    available |-> totals.available - before.available + after.available,
                    allocated |-> totals.allocated - before.allocated + after.allocated,
                    refunded |-> totals.refunded - before.refunded + after.refunded]
    <2>1. totals \in Totals
      BY <1>1 DEF LedgerTypeOK
    <2>2. totals' = [donated |-> totals.donated, gas |-> totals.gas,
                     available |-> totals.available - amount,
                     allocated |-> totals.allocated, refunded |-> totals.refunded + amount]
      BY <1>2, <2>1 DEF Totals
    <2>3. /\ totals.donated - before.amount + after.amount = totals.donated
          /\ totals.gas - before.gas + after.gas = totals.gas
          /\ totals.available - before.available + after.available = totals.available - amount
          /\ totals.allocated - before.allocated + after.allocated = totals.allocated
          /\ totals.refunded - before.refunded + after.refunded = totals.refunded + amount
      BY <1>2, <1>11, <1>12, <2>1 DEF Totals, Rows
    <2>4. QED
      BY <2>2, <2>3
  <1>16. RowsBalance' /\ TotalsBalance'
    <2>1. before = (IF d \in DOMAIN donations THEN Row(d) ELSE NoRow)
      BY <1>2, <1>10
    <2>2. DOMAIN donations' = DOMAIN donations \cup {d}
      BY <1>2, <1>6
    <2>3. QED
      BY <1>1, <1>9, <1>12, <1>13, <1>14, <1>15, <2>1, <2>2, BooksFollow
  <1>17. totals' \in Totals
    <2>1. totals \in Totals
      BY <1>1 DEF LedgerTypeOK
    <2>2. QED
      <3>1. totals.available - amount \in Int /\ totals.refunded + amount \in Int
        BY <1>2, <2>1 DEF Totals
      <3>2. QED
        BY <1>2, <2>1, <3>1 DEF Totals
  <1>18. TasksBalance'
    BY <1>1, <1>2, <1>8 DEF TasksBalance
  <1>19. TasksInOrder' /\ SlotsMirrorActivity'
    BY <1>2 DEF LedgerInv, TasksInOrder, SlotsMirrorActivity
  <1>20. Table(tasks', TaskIds, Task) /\ Table(allocations', (DOMAIN tasks') \X (DOMAIN donations'), Nat)
    BY <1>1, <1>2, <1>6 DEF LedgerTypeOK
  <1>21. QED
    BY <1>7, <1>16, <1>17, <1>18, <1>19, <1>20 DEF BooksInv

-----------------------------------------------------------------------------
(* Registering, pausing and re-activating keep the slots and the books *)

\* A non-empty set of numbers has a least one.
LEMMA LeastMember ==
  ASSUME NEW S \in SUBSET Nat, S # {}
  PROVE  \E i \in S : \A j \in S : i <= j
  <1>1. PICK m \in S : \A n \in S : <<n, m>> \notin OpToRel(<, Nat)
    BY NatLessThanWellFounded, WFMin
  <1>2. \A n \in S : ~(n < m)
    BY <1>1 DEF OpToRel
  <1>3. QED
    BY <1>2

Holding(x) == {i \in DOMAIN slots : slots[i] = x}

\* Taking a free slot gives a task without one exactly that.
LEMMA SlotTaken ==
  ASSUME LedgerTypeOK, NEW t \in TaskIds, NEW i \in Holding(None), Holding(t) = {},
         slots' = [slots EXCEPT ![i] = t]
  PROVE  /\ slots' \in [1..MaxActiveTasks -> TaskIds \cup {None}]
         /\ Cardinality(Holding(t)') = 1
         /\ \A x \in TaskIds : x # t => Holding(x)' = Holding(x)
         /\ Range(slots') \ {None} \subseteq Range(slots) \cup {t}
  <1>1. \A x \in TaskIds : x # None
    BY LedgerAssumption
  <1>2. /\ slots \in [1..MaxActiveTasks -> TaskIds \cup {None}]
        /\ i \in DOMAIN slots /\ slots[i] = None
    BY DEF LedgerTypeOK, Holding
  <1>3. Holding(t)' = {i}
    BY <1>1, <1>2 DEF Holding
  <1>4. \A x \in TaskIds : x # t => Holding(x)' = Holding(x)
    BY <1>1, <1>2 DEF Holding
  <1>5. QED
    BY <1>2, <1>3, <1>4, FS_Singleton DEF Range

\* Giving up its slot leaves a task without one.
LEMMA SlotFreed ==
  ASSUME LedgerTypeOK, NEW t \in TaskIds, NEW i, Holding(t) = {i},
         slots' = [slots EXCEPT ![i] = None]
  PROVE  /\ slots' \in [1..MaxActiveTasks -> TaskIds \cup {None}]
         /\ Cardinality(Holding(t)') = 0
         /\ \A x \in TaskIds : x # t => Holding(x)' = Holding(x)
         /\ Range(slots') \ {None} \subseteq Range(slots) \cup {t}
  <1>1. \A x \in TaskIds : x # None
    BY LedgerAssumption
  <1>2. /\ slots \in [1..MaxActiveTasks -> TaskIds \cup {None}]
        /\ i \in DOMAIN slots /\ slots[i] = t
    BY DEF LedgerTypeOK, Holding
  <1>3. Holding(t)' = {}
    BY <1>1, <1>2 DEF Holding
  <1>4. \A x \in TaskIds : x # t => Holding(x)' = Holding(x)
    BY <1>1, <1>2 DEF Holding
  <1>5. QED
    BY <1>2, <1>3, <1>4, FS_EmptySet DEF Range

\* A task's slots, in the words of SlotsMirrorActivity.
LEMMA ActivityHolds ==
  ASSUME SlotsMirrorActivity, NEW t \in DOMAIN tasks
  PROVE  Cardinality(Holding(t)) = IF tasks[t].active THEN 1 ELSE 0
  BY DEF SlotsMirrorActivity, Holding

\* A task that is not active, or not there, is in no slot, and one that is in one.
LEMMA HoldsOne ==
  ASSUME LedgerTypeOK, SlotsMirrorActivity, NEW t \in TaskIds
  PROVE  /\ t \notin DOMAIN tasks \/ ~tasks[t].active => Holding(t) = {}
         /\ t \in DOMAIN tasks /\ tasks[t].active => \E i : Holding(t) = {i}
  <1>1. IsFiniteSet(Holding(t))
    <2>1. IsFiniteSet(1..MaxActiveTasks)
      BY FS_Interval, LedgerAssumption
    <2>2. Holding(t) \subseteq 1..MaxActiveTasks
      BY DEF LedgerTypeOK, Holding
    <2>3. QED
      BY <2>1, <2>2, FS_Subset
  <1>2. t # None
    BY LedgerAssumption
  <1>3. ASSUME t \notin DOMAIN tasks PROVE Holding(t) = {}
    BY <1>2, <1>3 DEF SlotsMirrorActivity, Holding, Range
  <1>4. ASSUME t \in DOMAIN tasks, ~tasks[t].active PROVE Holding(t) = {}
    <2>1. Cardinality(Holding(t)) = 0
      BY <1>4, ActivityHolds
    <2>2. QED
      BY <1>1, <2>1, FS_EmptySet
  <1>5. ASSUME t \in DOMAIN tasks, tasks[t].active PROVE \E i : Holding(t) = {i}
    <2>1. Cardinality(Holding(t)) = 1
      BY <1>5, ActivityHolds
    <2>2. QED
      BY <1>1, <2>1, FS_Singleton
  <1>6. QED
    BY <1>3, <1>4, <1>5

\* A task stored with its account right and in its place leaves the books.
LEMMA TaskPut ==
  ASSUME LedgerInv, NEW t \in TaskIds, NEW task \in Task, tasks' = Put(tasks, t, task),
         task.allocated = AllocatedTo(t), task.allocated <= task.target,
         \/ t \in DOMAIN tasks /\ task.sequence = tasks[t].sequence
         \/ t \notin DOMAIN tasks /\ task.sequence = Cardinality(DOMAIN tasks) + 1,
         UNCHANGED <<donations, allocations, totals>>
  PROVE  /\ DOMAIN tasks' = DOMAIN tasks \cup {t} /\ tasks'[t] = task
         /\ \A x \in DOMAIN tasks : x # t => tasks'[x] = tasks[x]
         /\ Table(donations', DonationIds, Donation) /\ Table(tasks', TaskIds, Task)
         /\ Table(allocations', (DOMAIN tasks') \X (DOMAIN donations'), Nat)
         /\ totals' \in Totals
         /\ TasksInOrder' /\ RowsBalance' /\ TasksBalance' /\ TotalsBalance'
  <1>1. LedgerTypeOK /\ TasksInOrder /\ RowsBalance /\ TasksBalance /\ TotalsBalance
    BY DEF LedgerInv
  <1>2. /\ DOMAIN tasks' = DOMAIN tasks \cup {t} /\ tasks'[t] = task
        /\ \A x \in DOMAIN tasks : x # t => tasks'[x] = tasks[x]
    BY DEF Put
  <1>3. Table(tasks', TaskIds, Task)
    BY <1>1, PutTable DEF LedgerTypeOK
  <1>4. /\ Table(donations', DonationIds, Donation) /\ totals' \in Totals
        /\ Table(allocations', (DOMAIN tasks') \X (DOMAIN donations'), Nat)
    BY <1>1, <1>2 DEF LedgerTypeOK, Table
  <1>5. TasksInOrder'
    <2>1. PICK n, m : n = Cardinality(DOMAIN tasks) /\ m = Cardinality(DOMAIN tasks')
      OBVIOUS
    <2>2. /\ n \in Nat /\ m \in Nat
          /\ IF t \in DOMAIN tasks THEN m = n ELSE m = n + 1
      BY <1>1, <1>2, <2>1, FS_AddElement, FS_CardinalityType DEF LedgerTypeOK, Table
    <2>3. \A x \in DOMAIN tasks : tasks[x].sequence \in Nat /\ tasks[x].sequence <= n
      BY <1>1, <2>1 DEF TasksInOrder, LedgerTypeOK, Table, Task
    <2>4. \A x, y \in DOMAIN tasks : x # y => tasks[x].sequence # tasks[y].sequence
      BY <1>1 DEF TasksInOrder
    <2>5. CASE t \in DOMAIN tasks /\ task.sequence = tasks[t].sequence
      <3>1. DOMAIN tasks' = DOMAIN tasks /\ m = n
        BY <1>2, <2>2, <2>5
      <3>2. \A x \in DOMAIN tasks : tasks'[x].sequence = tasks[x].sequence
        BY <1>2, <2>5
      <3>3. QED
        BY <2>1, <2>3, <2>4, <3>1, <3>2 DEF TasksInOrder
    <2>6. CASE t \notin DOMAIN tasks /\ task.sequence = Cardinality(DOMAIN tasks) + 1
      <3>1. \A x \in DOMAIN tasks : tasks'[x].sequence = tasks[x].sequence
        BY <1>2, <2>6
      <3>2. tasks'[t].sequence = n + 1 /\ m = n + 1
        BY <1>2, <2>1, <2>2, <2>6
      <3>3. \A x \in DOMAIN tasks' : tasks'[x].sequence <= m
        BY <1>2, <2>2, <2>3, <3>1, <3>2
      <3>4. \A x, y \in DOMAIN tasks' : x # y => tasks'[x].sequence # tasks'[y].sequence
        BY <1>2, <2>2, <2>3, <2>4, <3>1, <3>2
      <3>5. QED
        BY <2>1, <3>3, <3>4 DEF TasksInOrder
    <2>7. QED
      BY <2>5, <2>6
  <1>6. \A e : AllocatedFrom(e)' = AllocatedFrom(e) /\ AllocatedTo(e)' = AllocatedTo(e)
    BY DEF AllocatedFrom, AllocatedTo
  <1>7. \A e \in DOMAIN donations : Row(e)' = Row(e)
    BY <1>6 DEF Row
  <1>8. RowsBalance'
    BY <1>1, <1>7 DEF RowsBalance
  <1>9. TotalsBalance'
    BY <1>1, <1>7 DEF TotalsBalance, Donated, Reserved, Available, Allocated, Refunded
  <1>10. TasksBalance'
    BY <1>1, <1>2, <1>6 DEF TasksBalance
  <1>11. QED
    BY <1>2, <1>3, <1>4, <1>5, <1>8, <1>9, <1>10

\* Slots follow when one task's change of activity changes its slot alone.
LEMMA SlotsFollow ==
  ASSUME LedgerTypeOK, SlotsMirrorActivity, NEW t \in TaskIds,
         DOMAIN tasks' = DOMAIN tasks \cup {t},
         \A x \in DOMAIN tasks : x # t => tasks'[x] = tasks[x],
         Cardinality(Holding(t)') = (IF tasks'[t].active THEN 1 ELSE 0),
         \A x \in TaskIds : x # t => Holding(x)' = Holding(x),
         Range(slots') \ {None} \subseteq Range(slots) \cup {t}
  PROVE  SlotsMirrorActivity'
  <1>1. ASSUME NEW x \in DOMAIN tasks'
        PROVE  Cardinality(Holding(x)') = IF tasks'[x].active THEN 1 ELSE 0
    <2>1. CASE x = t
      BY <2>1
    <2>2. CASE x # t
      <3>1. x \in DOMAIN tasks /\ x \in TaskIds
        BY <1>1, <2>2 DEF LedgerTypeOK, Table
      <3>2. Cardinality(Holding(x)) = IF tasks[x].active THEN 1 ELSE 0
        BY <3>1, ActivityHolds
      <3>3. QED
        BY <2>2, <3>1, <3>2
    <2>3. QED
      BY <2>1, <2>2
  <1>2. Range(slots') \ {None} \subseteq DOMAIN tasks'
    BY DEF SlotsMirrorActivity
  <1>3. QED
    BY <1>1, <1>2 DEF SlotsMirrorActivity, Holding

\* The slot _setTaskActive stops at is one that fits.
LEMMA FirstFits ==
  ASSUME LedgerTypeOK, NEW t, NEW active, Fitting(t, active) # {}
  PROVE  (CHOOSE i \in Fitting(t, active) : \A j \in Fitting(t, active) : i <= j)
           \in Fitting(t, active)
  <1>1. Fitting(t, active) \subseteq Nat
    BY DEF Fitting, LedgerTypeOK
  <1>2. \E i \in Fitting(t, active) : \A j \in Fitting(t, active) : i <= j
    BY <1>1, LeastMember
  <1>3. QED
    BY <1>2

\* _setTaskActive keeps the slots and the books of a task whose account is right.
LEMMA SetActivityBooks ==
  ASSUME LedgerInv, NEW call, NEW t \in TaskIds, NEW task \in Task, NEW active \in BOOLEAN,
         NEW before, SetActivity(call, t, task, active, before),
         task.allocated = AllocatedTo(t), task.allocated <= task.target,
         \/ t \in DOMAIN tasks /\ task = tasks[t]
         \/ /\ t \notin DOMAIN tasks /\ task.sequence = Cardinality(DOMAIN tasks) + 1
            /\ task.active = FALSE /\ active = TRUE,
         UNCHANGED <<donations, allocations, totals>>
  PROVE  BooksInv' /\ slots' \in [1..MaxActiveTasks -> TaskIds \cup {None}]
  <1>1. LedgerTypeOK /\ SlotsMirrorActivity
    BY DEF LedgerInv
  <1>2. task.active \in BOOLEAN
    BY DEF Task
  <1>3. \/ t \in DOMAIN tasks /\ task.sequence = tasks[t].sequence
        \/ t \notin DOMAIN tasks /\ task.sequence = Cardinality(DOMAIN tasks) + 1
    OBVIOUS
  <1>4. CASE task.active = active
    <2>1. tasks' = Put(tasks, t, task) /\ UNCHANGED slots
      BY <1>4 DEF SetActivity
    <2>2. /\ DOMAIN tasks' = DOMAIN tasks \cup {t} /\ tasks'[t] = task
          /\ \A x \in DOMAIN tasks : x # t => tasks'[x] = tasks[x]
          /\ Table(donations', DonationIds, Donation) /\ Table(tasks', TaskIds, Task)
          /\ Table(allocations', (DOMAIN tasks') \X (DOMAIN donations'), Nat)
          /\ totals' \in Totals
          /\ TasksInOrder' /\ RowsBalance' /\ TasksBalance' /\ TotalsBalance'
      BY <1>3, <2>1, TaskPut
    <2>3. t \in DOMAIN tasks /\ task = tasks[t]
      BY <1>4
    <2>4. SlotsMirrorActivity'
      BY <1>1, <2>1, <2>2, <2>3 DEF SlotsMirrorActivity
    <2>5. QED
      BY <1>1, <2>1, <2>2, <2>4 DEF BooksInv, LedgerTypeOK
  <1>5. CASE task.active # active
    <2>1. PICK slot, new :
            /\ slot = CHOOSE i \in Fitting(t, active) : \A j \in Fitting(t, active) : i <= j
            /\ new = [task EXCEPT !.active = active]
      OBVIOUS
    <2>2. /\ Fitting(t, active) # {}
          /\ slots' = [slots EXCEPT ![slot] = IF active THEN t ELSE None]
          /\ tasks' = Put(tasks, t, new)
      BY <1>5, <2>1 DEF SetActivity
    <2>3. slot \in Fitting(t, active)
      BY <1>1, <2>1, <2>2, FirstFits
    <2>4. /\ new \in Task /\ new.allocated = task.allocated /\ new.target = task.target
          /\ new.sequence = task.sequence /\ new.active = active
      BY <2>1 DEF Task
    <2>5. /\ DOMAIN tasks' = DOMAIN tasks \cup {t} /\ tasks'[t] = new
          /\ \A x \in DOMAIN tasks : x # t => tasks'[x] = tasks[x]
          /\ Table(donations', DonationIds, Donation) /\ Table(tasks', TaskIds, Task)
          /\ Table(allocations', (DOMAIN tasks') \X (DOMAIN donations'), Nat)
          /\ totals' \in Totals
          /\ TasksInOrder' /\ RowsBalance' /\ TasksBalance' /\ TotalsBalance'
      <3>1. /\ new.allocated = AllocatedTo(t) /\ new.allocated <= new.target
            /\ \/ t \in DOMAIN tasks /\ new.sequence = tasks[t].sequence
               \/ t \notin DOMAIN tasks /\ new.sequence = Cardinality(DOMAIN tasks) + 1
        BY <1>3, <2>4
      <3>2. QED
        BY <2>2, <2>4, <3>1, TaskPut
    <2>6. CASE active
      <3>1. t \notin DOMAIN tasks \/ ~tasks[t].active
        BY <1>2, <1>5, <2>6
      <3>2. Holding(t) = {}
        BY <1>1, <3>1, HoldsOne
      <3>3. slot \in Holding(None) /\ slots' = [slots EXCEPT ![slot] = t]
        BY <2>2, <2>3, <2>6 DEF Fitting, Holding
      <3>4. /\ slots' \in [1..MaxActiveTasks -> TaskIds \cup {None}]
            /\ Cardinality(Holding(t)') = 1
            /\ \A x \in TaskIds : x # t => Holding(x)' = Holding(x)
            /\ Range(slots') \ {None} \subseteq Range(slots) \cup {t}
        BY <1>1, <3>2, <3>3, SlotTaken
      <3>5. Cardinality(Holding(t)') = IF tasks'[t].active THEN 1 ELSE 0
        BY <2>4, <2>5, <2>6, <3>4
      <3>6. SlotsMirrorActivity'
        BY <1>1, <2>5, <3>4, <3>5, SlotsFollow
      <3>7. QED
        BY <2>5, <3>4, <3>6 DEF BooksInv
    <2>7. CASE ~active
      <3>1. t \in DOMAIN tasks /\ tasks[t].active
        BY <1>2, <1>5, <2>7
      <3>2. PICK i : Holding(t) = {i}
        BY <1>1, <3>1, HoldsOne
      <3>3. slot = i /\ slots' = [slots EXCEPT ![i] = None]
        BY <2>2, <2>3, <2>7, <3>2 DEF Fitting, Holding
      <3>4. /\ slots' \in [1..MaxActiveTasks -> TaskIds \cup {None}]
            /\ Cardinality(Holding(t)') = 0
            /\ \A x \in TaskIds : x # t => Holding(x)' = Holding(x)
            /\ Range(slots') \ {None} \subseteq Range(slots) \cup {t}
        BY <1>1, <3>2, <3>3, SlotFreed
      <3>5. Cardinality(Holding(t)') = IF tasks'[t].active THEN 1 ELSE 0
        BY <2>4, <2>5, <2>7, <3>4
      <3>6. SlotsMirrorActivity'
        BY <1>1, <2>5, <3>4, <3>5, SlotsFollow
      <3>7. QED
        BY <2>5, <3>4, <3>6 DEF BooksInv
    <2>8. QED
      BY <2>6, <2>7
  <1>6. QED
    BY <1>4, <1>5

\* A new task starts with nothing allocated.
LEMMA RegisterTaskBooks ==
  ASSUME LedgerInv, NEW t \in TaskIds, NEW input \in TaskInputs, RegisterTask(t, input)
  PROVE  BooksInv' /\ slots' \in [1..MaxActiveTasks -> TaskIds \cup {None}]
  <1>1. LedgerTypeOK
    BY DEF LedgerInv
  <1>2. PICK n, task, first :
          /\ n = Cardinality(DOMAIN tasks) + 1
          /\ task = [purpose |-> input.purpose, project |-> input.project,
                     urgency |-> input.urgency, target |-> input.target, allocated |-> 0,
                     sequence |-> n, active |-> FALSE]
          /\ first = <<[call |-> "registerTask", type |-> "TaskRegistered", task |-> t,
                        input |-> [purpose |-> input.purpose, project |-> input.project]]>>
    OBVIOUS
  <1>3. /\ t \notin DOMAIN tasks /\ SetActivity("registerTask", t, task, TRUE, first)
        /\ UNCHANGED <<donations, allocations, totals>>
    BY <1>2 DEF RegisterTask
  <1>4. n \in Nat
    BY <1>1, <1>2, FS_CardinalityType DEF LedgerTypeOK, Table
  <1>5. /\ input.purpose \in Purposes /\ input.project \in Projects
        /\ input.urgency \in 1..3 /\ input.target \in Nat \ {0}
    BY LedgerAssumption
  <1>6. task \in Task
    BY <1>2, <1>4, <1>5 DEF Task
  <1>7. /\ task.allocated = 0 /\ task.allocated <= task.target /\ task.active = FALSE
        /\ task.sequence = n
    BY <1>2, <1>5
  <1>8. AllocatedTo(t) = 0
    <2>1. {a \in DOMAIN allocations : a[1] = t} = {}
      BY <1>1, <1>3 DEF LedgerTypeOK, Table
    <2>2. QED
      BY <2>1, TotalEmpty DEF AllocatedTo
  <1>9. task.sequence = Cardinality(DOMAIN tasks) + 1
    BY <1>2, <1>7
  <1>10. QED
    BY <1>3, <1>6, <1>7, <1>8, <1>9, SetActivityBooks

\* Pausing and re-activating keep a task's account.
LEMMA SetTaskActiveBooks ==
  ASSUME LedgerInv, NEW t \in TaskIds, NEW active \in BOOLEAN, SetTaskActive(t, active)
  PROVE  BooksInv' /\ slots' \in [1..MaxActiveTasks -> TaskIds \cup {None}]
  <1>1. LedgerTypeOK /\ TasksBalance
    BY DEF LedgerInv
  <1>2. PICK task : task = tasks[t]
    OBVIOUS
  <1>3. /\ t \in DOMAIN tasks /\ SetActivity("setTaskActive", t, task, active, <<>>)
        /\ UNCHANGED <<donations, allocations, totals>>
    BY <1>2 DEF SetTaskActive
  <1>4. task \in Task
    BY <1>1, <1>2, <1>3 DEF LedgerTypeOK, Table
  <1>5. task.allocated = AllocatedTo(t) /\ task.allocated <= task.target
    BY <1>1, <1>2, <1>3 DEF TasksBalance
  <1>6. QED
    BY <1>2, <1>3, <1>4, <1>5, SetActivityBooks

-----------------------------------------------------------------------------
(* Permits *)

\* The parts of the invariant about permits.
PermitsInv ==
  /\ registrars \subseteq Registrars /\ epochs \in [Registrars -> Nat]
  /\ signed \subseteq Permit /\ dead \subseteq Permit
  /\ PermitsInOrder

\* A permit is signed for the epoch of the moment, and alive.
LEMMA SignPermits ==
  ASSUME PermitsInv, NEW r \in Registrars, NEW d \in DonationIds, NEW offer \in Offers,
         NEW n \in Nonces, SignPermit(r, d, offer, n)
  PROVE  PermitsInv'
  <1>1. PICK permit : permit = [registrar |-> r, donation |-> d, offer |-> offer, nonce |-> n,
                                epoch |-> epochs[r]]
    OBVIOUS
  <1>2. /\ permit \notin dead /\ signed' = signed \cup {permit}
        /\ UNCHANGED <<registrars, epochs, dead, usedNonces>>
    BY <1>1 DEF SignPermit
  <1>3. epochs[r] \in Nat /\ permit.epoch = epochs[r] /\ permit.registrar = r
    BY <1>1 DEF PermitsInv
  <1>4. permit \in Permit
    BY <1>1, <1>3 DEF Permit
  <1>5. PermitsInOrder'
    BY <1>2, <1>3 DEF PermitsInv, PermitsInOrder
  <1>6. QED
    BY <1>2, <1>4, <1>5 DEF PermitsInv

\* A permit whose deadline passes is no longer among the signed.
LEMMA ExpirePermits ==
  ASSUME PermitsInv, NEW permit \in signed, Expire(permit)
  PROVE  PermitsInv'
  BY DEF Expire, PermitsInv, PermitsInOrder

\* A nonce is spent with the permits it was for.
LEMMA SpendPermits ==
  ASSUME PermitsInv, NEW donor, NEW n, usedNonces' = usedNonces \cup {<<donor, n>>},
         dead' = dead \cup PermitsFor(donor, n), UNCHANGED <<registrars, epochs, signed>>
  PROVE  PermitsInv'
  <1>1. PermitsFor(donor, n) \subseteq signed
    BY DEF PermitsFor
  <1>2. \A p \in PermitsFor(donor, n) : <<p.offer.donor, p.nonce>> \in usedNonces'
    BY DEF PermitsFor
  <1>3. PermitsInOrder'
    BY <1>1, <1>2 DEF PermitsInv, PermitsInOrder
  <1>4. QED
    BY <1>1, <1>3 DEF PermitsInv

\* A registrar's revocation ends the epoch of its permits.
LEMMA RevokePermits ==
  ASSUME PermitsInv, NEW r \in Registrars, RevokeRegistrar(r)
  PROVE  PermitsInv'
  <1>1. /\ epochs' = [epochs EXCEPT ![r] = @ + 1] /\ registrars' = registrars \ {r}
        /\ dead' = dead \cup {p \in signed : p.registrar = r}
        /\ UNCHANGED <<signed, usedNonces>>
    BY DEF RevokeRegistrar, NextEpochs
  <1>2. epochs' \in [Registrars -> Nat]
    BY <1>1 DEF PermitsInv
  <1>3. \A x \in Registrars : /\ epochs[x] \in Nat
                              /\ epochs'[x] = IF x = r THEN epochs[x] + 1 ELSE epochs[x]
    BY <1>1 DEF PermitsInv
  <1>4. \A p \in signed \cup dead : p.registrar \in Registrars /\ p.epoch \in Nat
    BY DEF PermitsInv, Permit
  <1>5. \A p \in signed' \cup dead' : p \in signed \cup dead
    BY <1>1
  <1>6. ASSUME NEW p \in signed \cup dead PROVE p.epoch <= epochs'[p.registrar]
    <2>1. p.epoch <= epochs[p.registrar]
      BY DEF PermitsInv, PermitsInOrder
    <2>2. QED
      BY <1>3, <1>4, <2>1
  <1>7. ASSUME NEW p \in dead'
        PROVE  \/ p \notin signed
               \/ <<p.offer.donor, p.nonce>> \in usedNonces
               \/ p.epoch < epochs'[p.registrar]
    <2>1. CASE p.registrar = r /\ p \in signed
      <3>1. p.epoch <= epochs[r] /\ p.epoch \in Nat
        BY <1>4, <2>1 DEF PermitsInv, PermitsInOrder
      <3>2. QED
        BY <1>3, <2>1, <3>1
    <2>2. CASE ~(p.registrar = r /\ p \in signed)
      <3>1. p \in dead
        BY <1>1, <2>2
      <3>2. \/ p \notin signed
            \/ <<p.offer.donor, p.nonce>> \in usedNonces
            \/ p.epoch < epochs[p.registrar]
        BY <3>1 DEF PermitsInv, PermitsInOrder
      <3>3. QED
        BY <1>3, <1>4, <2>2, <3>1, <3>2
    <2>3. QED
      BY <2>1, <2>2
  <1>8. PermitsInOrder'
    BY <1>1, <1>5, <1>6, <1>7 DEF PermitsInOrder
  <1>9. QED
    BY <1>1, <1>2, <1>8 DEF PermitsInv

\* Nothing else touches them.
LEMMA SamePermits ==
  ASSUME PermitsInv, UNCHANGED <<registrars, epochs, signed, dead, usedNonces>>
  PROVE  PermitsInv'
  BY DEF PermitsInv, PermitsInOrder

-----------------------------------------------------------------------------
(* The invariant *)

\* Its two halves make the whole.
LEMMA Halves ==
  LedgerInv <=> /\ BooksInv /\ PermitsInv
                /\ slots \in [1..MaxActiveTasks -> TaskIds \cup {None}]
  BY DEF LedgerInv, BooksInv, PermitsInv, LedgerTypeOK

\* Books nothing touched are kept.
LEMMA SameBooks ==
  ASSUME BooksInv, UNCHANGED <<donations, tasks, allocations, slots, totals>>
  PROVE  BooksInv'
  <1>1. \A e : AllocatedFrom(e)' = AllocatedFrom(e) /\ AllocatedTo(e)' = AllocatedTo(e)
    BY DEF AllocatedFrom, AllocatedTo
  <1>2. \A e : Row(e)' = Row(e)
    BY <1>1 DEF Row
  <1>3. RowsBalance' /\ TasksBalance'
    BY <1>1, <1>2 DEF BooksInv, RowsBalance, TasksBalance
  <1>4. TotalsBalance'
    BY <1>2 DEF BooksInv, TotalsBalance, Donated, Reserved, Available, Allocated, Refunded
  <1>5. TasksInOrder' /\ SlotsMirrorActivity'
    BY DEF BooksInv, TasksInOrder, SlotsMirrorActivity
  <1>6. QED
    BY <1>3, <1>4, <1>5 DEF BooksInv

\* The empty contract has it.
LEMMA InitInv == Init => LedgerInv
  <1> SUFFICES ASSUME Init PROVE LedgerInv
    OBVIOUS
  <1>1. DOMAIN donations = {} /\ DOMAIN tasks = {} /\ DOMAIN allocations = {}
    BY DEF Init
  <1>2. /\ Table(donations, DonationIds, Donation) /\ Table(tasks, TaskIds, Task)
        /\ Table(allocations, (DOMAIN tasks) \X (DOMAIN donations), Nat)
    BY FS_EmptySet DEF Init, Table
  <1>3. totals \in Totals /\ slots \in [1..MaxActiveTasks -> TaskIds \cup {None}]
    BY DEF Init, Totals
  <1>4. TasksInOrder /\ RowsBalance /\ TasksBalance
    BY <1>1 DEF TasksInOrder, RowsBalance, TasksBalance
  <1>5. TotalsBalance
    <2>1. /\ Donated = 0 /\ Reserved = 0 /\ Available = 0 /\ Allocated = 0 /\ Refunded = 0
      BY <1>1, TotalEmpty DEF Donated, Reserved, Available, Allocated, Refunded
    <2>2. QED
      BY <2>1 DEF Init, TotalsBalance
  <1>6. SlotsMirrorActivity
    BY <1>1 DEF Init, SlotsMirrorActivity, Range
  <1>7. PermitsInv
    BY DEF Init, PermitsInv, PermitsInOrder
  <1>8. QED
    BY <1>2, <1>3, <1>4, <1>5, <1>6, <1>7, Halves DEF BooksInv

\* Every call keeps it.
LEMMA NextInv == LedgerInv /\ [LedgerNext]_ledgerVars => LedgerInv'
  <1> SUFFICES ASSUME LedgerInv, [LedgerNext]_ledgerVars PROVE LedgerInv'
    OBVIOUS
  <1>0. /\ BooksInv /\ PermitsInv /\ slots \in [1..MaxActiveTasks -> TaskIds \cup {None}]
        /\ LedgerTypeOK
    BY Halves DEF LedgerInv
  <1>1. ASSUME UNCHANGED <<donations, tasks, allocations, slots, totals>>, PermitsInv'
        PROVE  LedgerInv'
    <2>1. BooksInv'
      BY <1>0, <1>1, SameBooks
    <2>2. QED
      BY <1>0, <1>1, <2>1 DEF LedgerInv, BooksInv, PermitsInv, LedgerTypeOK
  <1>2. ASSUME BooksInv', slots' \in [1..MaxActiveTasks -> TaskIds \cup {None}], PermitsInv'
        PROVE  LedgerInv'
    BY <1>2 DEF LedgerInv, BooksInv, PermitsInv, LedgerTypeOK
  <1>3. ASSUME NEW r \in Registrars, NEW d \in DonationIds, NEW offer \in Offers,
               NEW n \in Nonces, SignPermit(r, d, offer, n)
        PROVE  LedgerInv'
    BY <1>0, <1>1, <1>3, SignPermits DEF SignPermit
  <1>4. ASSUME NEW permit \in signed, Expire(permit) PROVE LedgerInv'
    BY <1>0, <1>1, <1>4, ExpirePermits DEF Expire
  <1>5. ASSUME NEW permit \in signed, NEW sender, NEW value, Donate(permit, sender, value)
        PROVE  LedgerInv'
    <2>1. permit \in Permit
      BY <1>0, <1>5 DEF PermitsInv
    <2>2. BooksInv'
      BY <1>5, <2>1, DonateBooks
    <2>3. PICK n : n = permit.nonce
      OBVIOUS
    <2>4. /\ usedNonces' = usedNonces \cup {<<sender, n>>}
          /\ dead' = dead \cup PermitsFor(sender, n)
          /\ UNCHANGED <<registrars, epochs, signed, slots>>
      BY <1>5, <2>3 DEF Donate
    <2>5. PermitsInv'
      BY <1>0, <2>4, SpendPermits
    <2>6. QED
      BY <1>0, <1>2, <2>2, <2>4, <2>5
  <1>6. ASSUME NEW sender \in Donors, NEW n \in Nonces, CancelDonationNonce(sender, n)
        PROVE  LedgerInv'
    <2>1. PermitsInv'
      BY <1>0, <1>6, SpendPermits DEF CancelDonationNonce
    <2>2. QED
      BY <1>1, <1>6, <2>1 DEF CancelDonationNonce
  <1>7. ASSUME NEW r \in Registrars, RevokeRegistrar(r) PROVE LedgerInv'
    BY <1>0, <1>1, <1>7, RevokePermits DEF RevokeRegistrar
  <1>8. ASSUME NEW r \in Registrars, GrantRegistrar(r) PROVE LedgerInv'
    <2>1. PermitsInv'
      BY <1>0, <1>8 DEF GrantRegistrar, PermitsInv, PermitsInOrder
    <2>2. QED
      BY <1>1, <1>8, <2>1 DEF GrantRegistrar
  <1>9. ASSUME NEW t \in TaskIds, NEW input \in TaskInputs, RegisterTask(t, input)
        PROVE  LedgerInv'
    <2>1. PermitsInv'
      BY <1>0, <1>9, SamePermits DEF RegisterTask
    <2>2. QED
      BY <1>2, <1>9, <2>1, RegisterTaskBooks
  <1>10. ASSUME NEW t \in TaskIds, NEW active \in BOOLEAN, SetTaskActive(t, active)
         PROVE  LedgerInv'
    <2>1. PermitsInv'
      BY <1>0, <1>10, SamePermits DEF SetTaskActive
    <2>2. QED
      BY <1>2, <1>10, <2>1, SetTaskActiveBooks
  <1>11. ASSUME NEW d \in DonationIds, AllocateRemaining(d) PROVE LedgerInv'
    <2>1. PermitsInv' /\ UNCHANGED slots
      BY <1>0, <1>11, SamePermits DEF AllocateRemaining
    <2>2. QED
      BY <1>0, <1>2, <1>11, <2>1, AllocateRemainingBooks
  <1>12. ASSUME NEW f \in RefundIds, NEW d \in DonationIds, NEW sender \in Donors,
                NEW amount \in Amounts, RefundUnallocated(f, d, sender, amount)
         PROVE  LedgerInv'
    <2>1. PermitsInv' /\ UNCHANGED slots
      BY <1>0, <1>12, SamePermits DEF RefundUnallocated
    <2>2. QED
      BY <1>0, <1>2, <1>12, <2>1, RefundBooks
  <1>13. ASSUME NEW value \in BOOLEAN, SetPaused(value) PROVE LedgerInv'
    BY <1>0, <1>1, <1>13, SamePermits DEF SetPaused
  <1>14. CASE UNCHANGED ledgerVars
    BY <1>0, <1>1, <1>14, SamePermits DEF ledgerVars
  <1>15. QED
    BY <1>3, <1>4, <1>5, <1>6, <1>7, <1>8, <1>9, <1>10, <1>11, <1>12, <1>13, <1>14
       DEF LedgerNext

\* Reading takes an event away and leaves the contract.
LEMMA ReadLeaves ==
  LedgerInv /\ Read => LedgerInv'
  <1> SUFFICES ASSUME LedgerInv, Read PROVE LedgerInv'
    OBVIOUS
  <1>1. UNCHANGED <<donations, tasks, allocations, slots, usedNonces, registrars, epochs,
                    signed, dead, refundIds, totals, paused>>
    BY DEF Read
  <1>2. BooksInv /\ PermitsInv /\ slots \in [1..MaxActiveTasks -> TaskIds \cup {None}]
    BY Halves
  <1>3. BooksInv' /\ PermitsInv'
    BY <1>1, <1>2, SameBooks, SamePermits
  <1>4. QED
    BY <1>1, <1>2, <1>3 DEF LedgerInv, BooksInv, PermitsInv, LedgerTypeOK

\* The contract's collections stay well formed, its task numbers unique, its
\* slots in step with activity and its books balanced, with the reader beside it.
LEMMA PipelineInv == Spec => []LedgerInv
  <1>1. PipelineInit => LedgerInv
    BY InitInv DEF PipelineInit
  <1>2. LedgerInv /\ [PipelineNext]_<<ledgerVars, projectionVars>> => LedgerInv'
    <2>1. ASSUME LedgerInv, PipelineNext PROVE LedgerInv'
      BY <2>1, NextInv, ReadLeaves DEF PipelineNext
    <2>2. ASSUME LedgerInv, UNCHANGED <<ledgerVars, projectionVars>> PROVE LedgerInv'
      BY <2>2, NextInv
    <2>3. QED
      BY <2>1, <2>2
  <1>3. QED
    BY <1>1, <1>2, PTL DEF Spec

\* Every active task has one slot and every slot an active task, money is never
\* created or lost, no task is overfunded and the five running totals are right,
\* however donations, registrations, pauses, refunds and revocations interleave.
THEOREM BooksAlwaysKept == Spec => []BooksKept
  <1>1. LedgerInv => BooksKept
    BY RowsAreBooks DEF LedgerInv, BooksKept
  <1>2. QED
    BY <1>1, PipelineInv, PTL

-----------------------------------------------------------------------------
(* Money goes to the task that comes first *)

\* An allocation serves tasks by rank, until the money or the need ends.
LEMMA AllocatingRank ==
  ASSUME LedgerInv, LedgerInv', NEW d, NEW donation \in Donation, NEW sums, NEW shares,
         Allocating(d, donation, sums, shares)
  PROVE  /\ FollowsRank(d)
         /\ \A e \in DOMAIN donations' : e = d \/ (Served(e) = {} /\ e \in DOMAIN donations)
  <1>1. LedgerTypeOK /\ TasksBalance'
    BY DEF LedgerInv
  <1>2. PICK moved, new : moved = Total(shares) /\ new = [donation EXCEPT !.available = @ - moved]
    OBVIOUS
  <1>3. donations' = Put(donations, d, new)
    BY <1>2 DEF Allocating
  <1>4. DOMAIN donations' = DOMAIN donations \cup {d} /\ donations'[d] = new
    BY <1>3 DEF Put
  <1>5. /\ new.purpose = donation.purpose /\ new.project = donation.project
        /\ new.available = donation.available - moved
    BY <1>2 DEF Donation
  <1>6. SharedOut(donation, shares)
    BY DEF Allocating
  <1>7. /\ DOMAIN shares \subseteq DOMAIN tasks /\ moved \in Nat /\ moved <= donation.available
        /\ \A t \in DOMAIN shares : shares[t] \in Nat \ {0}
    BY <1>2, <1>6 DEF SharedOut
  <1>8. \A a : Entry(allocations, a) \in Nat
    BY <1>1 DEF LedgerTypeOK, Table, Entry
  <1>9. \A t : Entry(shares, t) \in Nat /\ (Entry(shares, t) > 0 <=> t \in DOMAIN shares)
    BY <1>7 DEF Entry
  <1>10. \A t, e : Held(t, e) = Entry(allocations, <<t, e>>)
    BY DEF Held, Entry
  <1>11. ASSUME NEW t, NEW e
         PROVE  Held(t, e)' = Held(t, e) + (IF e = d THEN Entry(shares, t) ELSE 0)
    <2>1. PICK k : k = <<t, e>>
      OBVIOUS
    <2>2. k[1] = t /\ k[2] = e
      BY <2>1
    <2>3. CASE k \in DOMAIN allocations'
      <3>1. allocations'[k] = Entry(allocations, k) + (IF k[2] = d THEN Entry(shares, k[1]) ELSE 0)
        BY <2>3 DEF Allocating
      <3>2. Held(t, e)' = allocations'[k]
        BY <2>1, <2>3 DEF Held
      <3>3. QED
        BY <1>10, <2>1, <2>2, <3>1, <3>2
    <2>4. CASE k \notin DOMAIN allocations'
      <3>1. k \notin DOMAIN allocations /\ (e = d => t \notin DOMAIN shares)
        BY <2>1, <2>4 DEF Allocating
      <3>2. Held(t, e)' = 0 /\ Held(t, e) = 0
        BY <2>1, <2>4, <3>1 DEF Held
      <3>3. QED
        BY <3>1, <3>2 DEF Entry
    <2>5. QED
      BY <2>3, <2>4
  <1>12. \A t, e : Given(e, t) = IF e = d THEN Entry(shares, t) ELSE 0
    <2>1. ASSUME NEW t, NEW e PROVE Given(e, t) = IF e = d THEN Entry(shares, t) ELSE 0
      <3>1. Held(t, e) \in Nat /\ Entry(shares, t) \in Nat
        BY <1>8, <1>9, <1>10
      <3>2. QED
        BY <1>11, <3>1 DEF Given
    <2>2. QED
      BY <2>1
  <1>13. Served(d) = DOMAIN shares
    BY <1>7, <1>9, <1>12 DEF Served
  <1>14. ASSUME NEW e \in DOMAIN donations', e # d PROVE Served(e) = {} /\ e \in DOMAIN donations
    BY <1>4, <1>12, <1>14 DEF Served
  <1>15. \A t \in DOMAIN tasks :
           /\ tasks'[t].allocated = tasks[t].allocated + Entry(shares, t)
           /\ tasks'[t].target = tasks[t].target /\ tasks'[t].active = tasks[t].active
           /\ tasks'[t].allocated \in Nat /\ tasks'[t].allocated <= tasks[t].target
    <2>1. ASSUME NEW t \in DOMAIN tasks
          PROVE  /\ tasks'[t].allocated = tasks[t].allocated + Entry(shares, t)
                 /\ tasks'[t].target = tasks[t].target /\ tasks'[t].active = tasks[t].active
      <3>1. PICK task : task = tasks[t]
        OBVIOUS
      <3>2. task \in Task
        BY <1>1, <3>1 DEF LedgerTypeOK, Table
      <3>3. tasks'[t] = [task EXCEPT !.allocated = @ + Entry(shares, t)]
        BY <3>1 DEF Allocating
      <3>4. QED
        BY <3>1, <3>2, <3>3 DEF Task
    <2>2. \A t \in DOMAIN tasks : t \in DOMAIN tasks'
      BY DEF Allocating
    <2>3. \A t \in DOMAIN tasks' : tasks'[t].allocated <= tasks'[t].target
      BY <1>1 DEF TasksBalance
    <2>4. \A t \in DOMAIN tasks : tasks[t].allocated \in Nat
      BY <1>1 DEF LedgerTypeOK, Table, Task
    <2>5. QED
      BY <1>9, <2>1, <2>2, <2>3, <2>4
  <1>16. \A t \in DOMAIN tasks : tasks[t].target \in Nat
    BY <1>1 DEF LedgerTypeOK, Table, Task
  <1>17. Eligible(d) = {t \in DOMAIN tasks : tasks[t].active /\ Serves(donation, tasks[t])}
    BY <1>4, <1>5, <1>15 DEF Eligible, Serves
  <1>18. ASSUME NEW t \in DOMAIN tasks, tasks[t].allocated + Entry(shares, t) >= tasks[t].target
         PROVE  t \in Funded
    BY <1>15, <1>16, <1>18 DEF Funded
  <1>19. Served(d) \subseteq Eligible(d)
    BY <1>6, <1>7, <1>13, <1>17 DEF SharedOut
  <1>20. ASSUME NEW t \in Served(d), NEW s \in Eligible(d), Outranks(s, t) PROVE s \in Funded
    <2>1. /\ t \in DOMAIN shares /\ s \in DOMAIN tasks /\ tasks[s].active
          /\ Serves(donation, tasks[s])
      BY <1>13, <1>17, <1>20
    <2>2. tasks[s].allocated + Entry(shares, s) >= tasks[s].target
      BY <1>6, <1>20, <2>1 DEF SharedOut
    <2>3. QED
      BY <1>18, <2>1, <2>2
  <1>21. ASSUME donations'[d].available # 0, NEW s \in Eligible(d) PROVE s \in Funded
    <2>1. donation.available \in Nat
      BY DEF Donation
    <2>2. Total(shares) < donation.available
      BY <1>2, <1>4, <1>5, <1>7, <1>21, <2>1
    <2>3. s \in DOMAIN tasks /\ tasks[s].active /\ Serves(donation, tasks[s])
      BY <1>17, <1>21
    <2>4. tasks[s].allocated + Entry(shares, s) >= tasks[s].target
      BY <1>6, <2>2, <2>3 DEF SharedOut
    <2>5. QED
      BY <1>18, <2>3, <2>4
  <1>22. FollowsRank(d)
    BY <1>19, <1>20, <1>21 DEF FollowsRank
  <1>23. QED
    BY <1>14, <1>22

\* A step that allocates nothing serves nobody.
LEMMA QuietRank ==
  ASSUME LedgerTypeOK, UNCHANGED allocations, DOMAIN donations' = DOMAIN donations
  PROVE  \A e \in DOMAIN donations' : FollowsRank(e)
  <1>1. \A t, e : Held(t, e) \in Int /\ Held(t, e)' = Held(t, e)
    BY DEF Held, LedgerTypeOK, Table
  <1>2. \A t, e : Given(e, t) = 0
    BY <1>1 DEF Given
  <1>3. \A e : Served(e) = {}
    BY <1>2 DEF Served
  <1>4. QED
    BY <1>3 DEF FollowsRank

\* Where only d is served, its rank is everyone's.
LEMMA RankOfOne ==
  ASSUME NEW d, FollowsRank(d),
         \A e \in DOMAIN donations' : e = d \/ (Served(e) = {} /\ e \in DOMAIN donations)
  PROVE  \A e \in DOMAIN donations' : FollowsRank(e)
  <1>1. ASSUME NEW e \in DOMAIN donations', e # d PROVE FollowsRank(e)
    <2>1. Served(e) = {} /\ e \in DOMAIN donations
      BY <1>1
    <2>2. QED
      BY <2>1 DEF FollowsRank
  <1>2. QED
    BY <1>1

\* Every call of the contract allocates by rank.
LEMMA NextRank ==
  ASSUME LedgerInv, LedgerInv', LedgerNext
  PROVE  \A e \in DOMAIN donations' : FollowsRank(e)
  <1>0. LedgerTypeOK /\ TasksInOrder /\ SlotsMirrorActivity
    BY DEF LedgerInv
  <1>1. ASSUME UNCHANGED <<donations, allocations>>
        PROVE  \A e \in DOMAIN donations' : FollowsRank(e)
    BY <1>0, <1>1, QuietRank
  <1>2. ASSUME NEW permit \in signed, NEW sender, NEW value, Donate(permit, sender, value)
        PROVE  \A e \in DOMAIN donations' : FollowsRank(e)
    <2>1. PICK d, donation, sums, first :
            /\ donation \in Donation /\ UNCHANGED slots
            /\ Allocate("donate", d, donation, sums, first)
      <3>1. PICK d, offer, n : /\ d = permit.donation /\ offer = permit.offer
                               /\ n = Cardinality(DOMAIN donations) + 1
        OBVIOUS
      <3>2. PICK donation :
              donation = [donor |-> sender, purpose |-> offer.purpose,
                          project |-> offer.project, amount |-> offer.amount,
                          gasReserved |-> offer.gasReserved,
                          available |-> offer.amount - offer.gasReserved, refunded |-> 0,
                          sequence |-> n, permit |-> permit]
        OBVIOUS
      <3>3. PICK sums : sums = [totals EXCEPT !.donated = @ + offer.amount,
                                              !.gas = @ + offer.gasReserved,
                                              !.available = @ + donation.available]
        OBVIOUS
      <3>4. PICK first : first = <<[call |-> "donate", type |-> "DonationReceived",
                                    donation |-> d, gift |-> offer]>>
        OBVIOUS
      <3>5. /\ sender = offer.donor /\ offer.gasReserved <= offer.amount /\ UNCHANGED slots
            /\ Allocate("donate", d, donation, sums, first)
        BY <1>2, <3>1, <3>2, <3>3, <3>4 DEF Donate
      <3>6. permit \in Permit
        BY <1>0, <1>2 DEF LedgerTypeOK
      <3>7. /\ offer.donor \in Donors /\ offer.purpose \in Purposes \cup {AnyPurpose}
            /\ offer.project \in Projects \cup {None}
            /\ offer.amount \in Nat /\ offer.gasReserved \in Nat
        BY <3>1, <3>6, LedgerAssumption DEF Permit
      <3>8. n \in Nat
        BY <1>0, <3>1, FS_CardinalityType DEF LedgerTypeOK, Table
      <3>9. donation \in Donation
        BY <3>2, <3>5, <3>6, <3>7, <3>8 DEF Donation
      <3>10. QED
        BY <3>5, <3>9
    <2>2. donation.available \in Nat
      BY <2>1 DEF Donation
    <2>3. PICK shares : Allocating(d, donation, sums, shares)
      BY <1>0, <2>1, <2>2, AllocateEffect
    <2>4. QED
      BY <2>1, <2>3, AllocatingRank, RankOfOne
  <1>3. ASSUME NEW d \in DonationIds, AllocateRemaining(d)
        PROVE  \A e \in DOMAIN donations' : FollowsRank(e)
    <2>1. PICK donation, sums : donation = donations[d] /\ sums = totals
      OBVIOUS
    <2>2. /\ d \in DOMAIN donations /\ UNCHANGED slots
          /\ Allocate("allocateRemaining", d, donation, sums, <<>>)
      BY <1>3, <2>1 DEF AllocateRemaining
    <2>3. donation \in Donation /\ donation.available \in Nat
      BY <1>0, <2>1, <2>2 DEF LedgerTypeOK, Table, Donation
    <2>4. PICK shares : Allocating(d, donation, sums, shares)
      BY <1>0, <2>2, <2>3, AllocateEffect
    <2>5. QED
      BY <2>3, <2>4, AllocatingRank, RankOfOne
  <1>4. ASSUME NEW f \in RefundIds, NEW d \in DonationIds, NEW sender \in Donors,
               NEW amount \in Amounts, RefundUnallocated(f, d, sender, amount)
        PROVE  \A e \in DOMAIN donations' : FollowsRank(e)
    <2>1. UNCHANGED allocations /\ DOMAIN donations' = DOMAIN donations
      BY <1>4 DEF RefundUnallocated
    <2>2. QED
      BY <1>0, <2>1, QuietRank
  <1>5. ASSUME NEW r \in Registrars, NEW d \in DonationIds, NEW offer \in Offers,
               NEW n \in Nonces, SignPermit(r, d, offer, n)
        PROVE  UNCHANGED <<donations, allocations>>
    BY <1>5 DEF SignPermit
  <1>6. ASSUME NEW permit \in signed, Expire(permit) PROVE UNCHANGED <<donations, allocations>>
    BY <1>6 DEF Expire
  <1>7. ASSUME NEW sender \in Donors, NEW n \in Nonces, CancelDonationNonce(sender, n)
        PROVE  UNCHANGED <<donations, allocations>>
    BY <1>7 DEF CancelDonationNonce
  <1>8. ASSUME NEW r \in Registrars, RevokeRegistrar(r) \/ GrantRegistrar(r)
        PROVE  UNCHANGED <<donations, allocations>>
    BY <1>8 DEF RevokeRegistrar, GrantRegistrar
  <1>9. ASSUME NEW t \in TaskIds,
               \/ \E input \in TaskInputs : RegisterTask(t, input)
               \/ \E active \in BOOLEAN : SetTaskActive(t, active)
        PROVE  UNCHANGED <<donations, allocations>>
    BY <1>9 DEF RegisterTask, SetTaskActive
  <1>10. ASSUME NEW value \in BOOLEAN, SetPaused(value) PROVE UNCHANGED <<donations, allocations>>
    BY <1>10 DEF SetPaused
  <1>11. QED
    BY <1>1, <1>2, <1>3, <1>4, <1>5, <1>6, <1>7, <1>8, <1>9, <1>10 DEF LedgerNext

\* Money reaches a task only when every active task of its donation that comes
\* before is fully funded, and stays with the donation only when all are.
THEOREM UrgentAlwaysFirst == Spec => UrgentFirst
  <1> DEFINE A == \A d \in DOMAIN donations' : FollowsRank(d)
  <1>1. LedgerInv /\ LedgerInv' /\ [PipelineNext]_<<ledgerVars, projectionVars>> => [A]_ledgerVars
    <2>1. ASSUME LedgerInv, LedgerInv', LedgerNext PROVE A
      BY <2>1, NextRank
    <2>2. ASSUME LedgerInv, Read PROVE A
      <3>1. LedgerTypeOK /\ UNCHANGED <<donations, allocations>>
        BY <2>2 DEF LedgerInv, Read
      <3>2. QED
        BY <3>1, QuietRank
    <2> HIDE DEF A
    <2>3. QED
      BY <2>1, <2>2 DEF PipelineNext
  <1>2. QED
    BY <1>1, PipelineInv, PTL DEF Spec, UrgentFirst

-----------------------------------------------------------------------------
(* Dead permits *)

\* A permit that gives a donation is alive.
LEMMA DonateAlive ==
  ASSUME LedgerInv, NEW permit \in signed, NEW sender, NEW value, Donate(permit, sender, value)
  PROVE  \A d \in DOMAIN donations' \ DOMAIN donations : donations'[d].permit \notin dead
  <1>1. /\ <<permit.offer.donor, permit.nonce>> \notin usedNonces
        /\ permit.epoch = epochs[permit.registrar]
    BY DEF Donate
  <1>2. permit \in Permit /\ epochs \in [Registrars -> Nat]
    BY DEF LedgerInv, LedgerTypeOK
  <1>3. ~(permit.epoch < epochs[permit.registrar])
    BY <1>1, <1>2 DEF Permit
  <1>4. permit \notin dead
    BY <1>1, <1>3 DEF LedgerInv, PermitsInOrder
  <1>5. \A d \in DOMAIN donations' \ DOMAIN donations : donations'[d].permit = permit
    BY DEF Donate, Allocate, Put
  <1>6. QED
    BY <1>4, <1>5

\* Only donate adds a donation.
LEMMA NextAlive ==
  ASSUME LedgerInv, LedgerNext
  PROVE  \A d \in DOMAIN donations' \ DOMAIN donations : donations'[d].permit \notin dead
  <1>1. ASSUME NEW d \in DonationIds, AllocateRemaining(d)
        PROVE  DOMAIN donations' = DOMAIN donations
    BY <1>1 DEF AllocateRemaining, Allocate, Put
  <1>2. ASSUME NEW f \in RefundIds, NEW d \in DonationIds, NEW sender \in Donors,
               NEW amount \in Amounts, RefundUnallocated(f, d, sender, amount)
        PROVE  DOMAIN donations' = DOMAIN donations
    BY <1>2 DEF RefundUnallocated
  <1>3. ASSUME NEW r \in Registrars, NEW d \in DonationIds, NEW offer \in Offers,
               NEW n \in Nonces, SignPermit(r, d, offer, n)
        PROVE  DOMAIN donations' = DOMAIN donations
    BY <1>3 DEF SignPermit
  <1>4. ASSUME NEW permit \in signed, Expire(permit)
        PROVE  DOMAIN donations' = DOMAIN donations
    BY <1>4 DEF Expire
  <1>5. ASSUME NEW sender \in Donors, NEW n \in Nonces, CancelDonationNonce(sender, n)
        PROVE  DOMAIN donations' = DOMAIN donations
    BY <1>5 DEF CancelDonationNonce
  <1>6. ASSUME NEW r \in Registrars, RevokeRegistrar(r) \/ GrantRegistrar(r)
        PROVE  DOMAIN donations' = DOMAIN donations
    BY <1>6 DEF RevokeRegistrar, GrantRegistrar
  <1>7. ASSUME NEW t \in TaskIds,
               \/ \E input \in TaskInputs : RegisterTask(t, input)
               \/ \E active \in BOOLEAN : SetTaskActive(t, active)
        PROVE  DOMAIN donations' = DOMAIN donations
    BY <1>7 DEF RegisterTask, SetTaskActive
  <1>8. ASSUME NEW value \in BOOLEAN, SetPaused(value)
        PROVE  DOMAIN donations' = DOMAIN donations
    BY <1>8 DEF SetPaused
  <1>9. ASSUME DOMAIN donations' = DOMAIN donations
        PROVE  \A d \in DOMAIN donations' \ DOMAIN donations : donations'[d].permit \notin dead
    BY <1>9
  <1>10. QED
    BY <1>1, <1>2, <1>3, <1>4, <1>5, <1>6, <1>7, <1>8, <1>9, DonateAlive DEF LedgerNext

\* No donation is made on a permit that was expired, cancelled or spent, or
\* whose registrar was revoked since it was signed, also once the role is
\* granted again.
THEOREM DeadPermitsGiveNothing == Spec => PermitsStayDead
  <1> DEFINE A == \A d \in DOMAIN donations' \ DOMAIN donations : donations'[d].permit \notin dead
  <1>1. LedgerInv /\ [PipelineNext]_<<ledgerVars, projectionVars>> => [A]_ledgerVars
    <2>1. ASSUME LedgerInv, LedgerNext PROVE A
      BY <2>1, NextAlive
    <2>2. ASSUME Read PROVE A
      BY <2>2 DEF Read
    <2> HIDE DEF A
    <2>3. QED
      BY <2>1, <2>2 DEF PipelineNext
  <1>2. QED
    BY <1>1, PipelineInv, PTL DEF Spec, PermitsStayDead
-----------------------------------------------------------------------------
(* Enumerations *)

\* The members of a finite linear order can be listed in its order.
LEMMA Enumeration ==
  ASSUME NEW D, NEW r, LinearOrder(r, D), IsFiniteSet(D)
  PROVE  \E s \in [1..Cardinality(D) -> D] :
           \A i, j \in 1..Cardinality(D) : i < j => <<s[i], s[j]>> \in r
  <1> DEFINE T == {A \in SUBSET D : \E s \in [1..Cardinality(A) -> A] :
                     \A i, j \in 1..Cardinality(A) : i < j => <<s[i], s[j]>> \in r}
  <1>1. ASSUME NEW A \in SUBSET D, \A B \in SUBSET A : B # A => B \in T PROVE A \in T
    <2> PICK n : n = Cardinality(A)
      OBVIOUS
    <2>1. IsFiniteSet(A) /\ n \in Nat
      BY FS_Subset, FS_CardinalityType
    <2> SUFFICES \E s \in [1..n -> A] : \A i, j \in 1..n : i < j => <<s[i], s[j]>> \in r
      OBVIOUS
    <2>2. CASE A = {}
      <3>1. n = 0
        BY <2>2, FS_EmptySet
      <3>2. [i \in {} |-> i] \in [1..n -> A] /\ 1..n = {}
        BY <2>2, <3>1
      <3>3. QED
        BY <3>2
    <2>3. CASE A # {}
      <3>1. PICK m \in A : \A x \in A \ {m} : <<x, m>> \in r
        BY <2>1, <2>3, LastMember
      <3>2. PICK B : B = A \ {m}
        OBVIOUS
      <3>3. Cardinality(B) = n - 1
        BY <2>1, <3>2, FS_RemoveElement
      <3>4. PICK s \in [1..(n - 1) -> B] : \A i, j \in 1..(n - 1) : i < j => <<s[i], s[j]>> \in r
        BY <1>1, <3>2, <3>3
      <3> DEFINE u == [i \in 1..n |-> IF i = n THEN m ELSE s[i]]
      <3>5. \A i \in 1..n : i # n => i \in 1..(n - 1) /\ s[i] \in A \ {m}
        BY <2>1, <3>2, <3>4
      <3>6. u \in [1..n -> A]
        BY <3>5
      <3>7. ASSUME NEW i \in 1..n, NEW j \in 1..n, i < j PROVE <<u[i], u[j]>> \in r
        <4>1. i # n /\ u[i] = s[i]
          BY <2>1, <3>7
        <4>2. CASE j = n
          BY <3>1, <3>5, <4>1, <4>2
        <4>3. CASE j # n
          BY <3>4, <3>5, <3>7, <4>1, <4>3
        <4>4. QED
          BY <4>2, <4>3
      <3>8. QED
        BY <3>6, <3>7
    <2>4. QED
      BY <2>2, <2>3
  <1> HIDE DEF T
  <1>2. D \in T
    BY <1>1, SmallerSetInduction
  <1>3. QED
    BY <1>2 DEF T

\* Such a list has each member once.
Ascends(s, n, D, r) ==
  s \in [1..n -> D] /\ \A i, j \in 1..n : i < j => <<s[i], s[j]>> \in r
Lists(s, n, D) ==
  /\ \A i, j \in 1..n : s[i] = s[j] => i = j
  /\ \A x \in D : \E i \in 1..n : s[i] = x
LEMMA ListsAll ==
  ASSUME NEW D, NEW r, LinearOrder(r, D), IsFiniteSet(D), NEW n, n = Cardinality(D),
         NEW s, Ascends(s, n, D, r)
  PROVE  Lists(s, n, D)
  <1>0. s \in [1..n -> D] /\ \A i, j \in 1..n : i < j => <<s[i], s[j]>> \in r
    BY DEF Ascends
  <1>1. n \in Nat /\ IsFiniteSet(1..n) /\ Cardinality(1..n) = n
    BY FS_CardinalityType, FS_Interval
  <1>2. ASSUME NEW i \in 1..n, NEW j \in 1..n, s[i] = s[j], i # j PROVE FALSE
    <2>1. i < j \/ j < i
      BY <1>1, <1>2
    <2>2. <<s[i], s[i]>> \in r /\ s[i] \in D
      BY <1>0, <1>2, <2>1
    <2>3. QED
      BY <2>2 DEF LinearOrder, StrictOrder
  <1>3. s \in Injection(1..n, D)
    BY <1>0, <1>2 DEF Injection, IsInjective
  <1>4. s \in Surjection(1..n, D)
    BY <1>1, <1>3, FS_Injection
  <1>5. QED
    BY <1>2, <1>4 DEF Surjection, Lists
-----------------------------------------------------------------------------
(* What the events tell *)

\* What the reader's ledger and the contract are compared by.
Seen ==
  [donations |-> [d \in DOMAIN pDonations |->
                    [donor |-> pDonations[d].donor, purpose |-> pDonations[d].purpose,
                     project |-> pDonations[d].project, available |-> pDonations[d].available,
                     at |-> pDonations[d].at]],
   tasks |-> [t \in DOMAIN pTasks |->
                [purpose |-> pTasks[t].purpose, project |-> pTasks[t].project,
                 open |-> pTasks[t].status = "OPEN"]],
   allocations |-> pAllocations, refunds |-> DOMAIN pRefunds]
Gist(x) == [donor |-> x.donor, purpose |-> x.purpose, project |-> x.project,
            available |-> x.available, at |-> x.sequence - 1]
Written ==
  [donations |-> [d \in DOMAIN donations |-> Gist(donations[d])],
   tasks |-> [t \in DOMAIN tasks |->
                [purpose |-> tasks[t].purpose, project |-> tasks[t].project,
                 open |-> tasks[t].active]],
   allocations |-> allocations, refunds |-> refundIds]

\* A donation with less left.
Less(x, amount) ==
  [donor |-> x.donor, purpose |-> x.purpose, project |-> x.project,
   available |-> x.available - amount, at |-> x.at]

\* Event e is acceptable at v and makes it w.
TellsDonation(e, v, w) ==
  /\ e.type = "DonationReceived"
  /\ e.donation \notin DOMAIN v.donations
  /\ e.gift.amount > 0 /\ e.gift.gasReserved <= e.gift.amount
  /\ w = [donations |-> Put(v.donations, e.donation,
                            [donor |-> e.gift.donor, purpose |-> e.gift.purpose,
                             project |-> e.gift.project,
                             available |-> e.gift.amount - e.gift.gasReserved,
                             at |-> Cardinality(DOMAIN v.donations)]),
          tasks |-> v.tasks, allocations |-> v.allocations, refunds |-> v.refunds]
TellsTask(e, v, w) ==
  /\ e.type = "TaskRegistered"
  /\ e.task \notin DOMAIN v.tasks
  /\ w = [donations |-> v.donations,
          tasks |-> Put(v.tasks, e.task, [purpose |-> e.input.purpose,
                                          project |-> e.input.project, open |-> TRUE]),
          allocations |-> v.allocations, refunds |-> v.refunds]
TellsActivity(e, v, w) ==
  /\ e.type = "TaskActivityChanged" /\ e.call = "setTaskActive"
  /\ e.task \in DOMAIN v.tasks
  /\ w = [donations |-> v.donations,
          tasks |-> Put(v.tasks, e.task, [purpose |-> v.tasks[e.task].purpose,
                                          project |-> v.tasks[e.task].project,
                                          open |-> e.active]),
          allocations |-> v.allocations, refunds |-> v.refunds]
TellsAgain(e, v, w) == e.type = "TaskActivityChanged" /\ e.call = "registerTask" /\ w = v
TellsShare(e, v, w) ==
  /\ e.type = "DonationAllocated"
  /\ e.donation \in DOMAIN v.donations /\ e.task \in DOMAIN v.tasks
  /\ v.tasks[e.task].open
  /\ Serves(v.donations[e.donation], v.tasks[e.task])
  /\ e.amount > 0 /\ e.amount <= v.donations[e.donation].available
  /\ w = [donations |-> Put(v.donations, e.donation, Less(v.donations[e.donation], e.amount)),
          tasks |-> v.tasks,
          allocations |-> Put(v.allocations, <<e.task, e.donation>>,
                              Entry(v.allocations, <<e.task, e.donation>>) + e.amount),
          refunds |-> v.refunds]
TellsRefund(e, v, w) ==
  /\ e.type = "DonationRefunded"
  /\ e.refund \notin v.refunds
  /\ e.donation \in DOMAIN v.donations
  /\ e.recipient = v.donations[e.donation].donor
  /\ e.amount > 0 /\ e.amount <= v.donations[e.donation].available
  /\ w = [donations |-> Put(v.donations, e.donation, Less(v.donations[e.donation], e.amount)),
          tasks |-> v.tasks, allocations |-> v.allocations,
          refunds |-> v.refunds \cup {e.refund}]
Tells(e, v, w) ==
  \/ TellsDonation(e, v, w) \/ TellsTask(e, v, w) \/ TellsActivity(e, v, w)
  \/ TellsAgain(e, v, w) \/ TellsShare(e, v, w) \/ TellsRefund(e, v, w)

\* The events lead from v to w.
Told(v, es, w) ==
  \E u : u[0] = v /\ u[Len(es)] = w /\ \A i \in 1..Len(es) : Tells(es[i], u[i - 1], u[i])

\* No event tells nothing.
LEMMA ToldNone == ASSUME NEW v PROVE Told(v, <<>>, v)
  <1> DEFINE u == [i \in {0} |-> v]
  <1>1. u[0] = v /\ u[Len(<<>>)] = v /\ \A i \in 1..Len(<<>>) : Tells(<<>>[i], u[i - 1], u[i])
    OBVIOUS
  <1>2. QED
    BY <1>1 DEF Told

\* Nothing is told by no event.
LEMMA NoneTold == ASSUME NEW v, NEW w, Told(v, <<>>, w) PROVE v = w
  BY DEF Told

\* One event.
LEMMA ToldOne == ASSUME NEW v, NEW w, NEW e, Tells(e, v, w) PROVE Told(v, <<e>>, w)
  <1> DEFINE u == [i \in {0, 1} |-> IF i = 0 THEN v ELSE w]
  <1>1. Len(<<e>>) = 1 /\ <<e>>[1] = e
    OBVIOUS
  <1>2. u[0] = v /\ u[1] = w
    OBVIOUS
  <1> HIDE DEF u
  <1>3. \A i \in 1..1 : Tells(<<e>>[i], u[i - 1], u[i])
    <2>1. ASSUME NEW i \in 1..1 PROVE Tells(<<e>>[i], u[i - 1], u[i])
      <3>1. i = 1 /\ i - 1 = 0
        OBVIOUS
      <3>2. QED
        BY <1>1, <1>2, <3>1
    <2>2. QED
      BY <2>1
  <1>4. QED
    BY <1>1, <1>2, <1>3 DEF Told

\* What is told after what was told.
LEMMA ToldOn ==
  ASSUME NEW R, NEW s \in Seq(R), NEW t \in Seq(R), NEW v, NEW y, NEW w,
         Told(v, s, y), Told(y, t, w)
  PROVE  Told(v, s \o t, w)
  <1> PICK m, n : m = Len(s) /\ n = Len(t)
    OBVIOUS
  <1>1. PICK f : f[0] = v /\ f[m] = y /\ \A i \in 1..m : Tells(s[i], f[i - 1], f[i])
    BY DEF Told
  <1>2. PICK g : g[0] = y /\ g[n] = w /\ \A i \in 1..n : Tells(t[i], g[i - 1], g[i])
    BY DEF Told
  <1> DEFINE u == [i \in 0..(m + n) |-> IF i <= m THEN f[i] ELSE g[i - m]]
  <1>3. m \in Nat /\ n \in Nat /\ Len(s \o t) = m + n
    OBVIOUS
  <1>4. u[0] = v
    BY <1>1, <1>3
  <1>5. \A i \in 0..n : u[m + i] = g[i]
    <2>1. ASSUME NEW i \in 0..n PROVE u[m + i] = g[i]
      <3>1. m + i \in 0..(m + n) /\ (m + i) - m = i
        BY <1>3
      <3>2. CASE i = 0
        BY <1>1, <1>2, <1>3, <3>1, <3>2
      <3>3. CASE i # 0
        BY <1>3, <3>1, <3>3
      <3>4. QED
        BY <3>2, <3>3
    <2>2. QED
      BY <2>1
  <1>6. \A i \in 0..m : u[i] = f[i]
    BY <1>3
  <1>7. \A i \in 1..m : (s \o t)[i] = s[i]
    OBVIOUS
  <1>8. \A i \in 1..n : (s \o t)[m + i] = t[i]
    OBVIOUS
  <1> HIDE DEF u
  <1>9. ASSUME NEW i \in 1..(m + n) PROVE Tells((s \o t)[i], u[i - 1], u[i])
    <2>1. CASE i <= m
      <3>1. i \in 1..m /\ i - 1 \in 0..m /\ i \in 0..m
        BY <1>3, <2>1
      <3>2. Tells(s[i], f[i - 1], f[i])
        BY <1>1, <3>1
      <3>3. QED
        BY <1>6, <1>7, <3>1, <3>2
    <2>2. CASE i > m
      <3>1. PICK k : k = i - m
        OBVIOUS
      <3>2. k \in 1..n /\ k - 1 \in 0..n /\ k \in 0..n /\ i = m + k /\ i - 1 = m + (k - 1)
        BY <1>3, <2>2, <3>1
      <3>3. Tells(t[k], g[k - 1], g[k])
        BY <1>2, <3>2
      <3>4. (s \o t)[i] = t[k] /\ u[i - 1] = g[k - 1] /\ u[i] = g[k]
        BY <1>5, <1>8, <3>2
      <3>5. QED
        BY <3>3, <3>4
    <2>3. QED
      BY <1>3, <2>1, <2>2
  <1>10. u[m + n] = w
    <2>1. n \in 0..n
      BY <1>3
    <2>2. QED
      BY <1>2, <1>5, <2>1
  <1>11. QED
    BY <1>3, <1>4, <1>9, <1>10 DEF Told

\* The first event, and what the others tell.
LEMMA ToldFirst ==
  ASSUME NEW R, NEW s \in Seq(R), s # <<>>, NEW v, NEW w, Told(v, s, w)
  PROVE  \E y : Tells(Head(s), v, y) /\ Told(y, Tail(s), w)
  <1> PICK n : n = Len(s)
    OBVIOUS
  <1>1. PICK f : f[0] = v /\ f[n] = w /\ \A i \in 1..n : Tells(s[i], f[i - 1], f[i])
    BY DEF Told
  <1>2. /\ n \in Nat \ {0} /\ Len(Tail(s)) = n - 1 /\ Head(s) = s[1]
        /\ \A i \in 1..(n - 1) : Tail(s)[i] = s[i + 1]
    OBVIOUS
  <1> DEFINE u == [i \in 0..(n - 1) |-> f[i + 1]]
  <1>3. Tells(Head(s), v, f[1])
    <2>1. 1 \in 1..n /\ 1 - 1 = 0
      BY <1>2
    <2>2. Tells(s[1], f[1 - 1], f[1])
      BY <1>1, <2>1
    <2>3. QED
      BY <1>1, <1>2, <2>1, <2>2
  <1>4. \A i \in 0..(n - 1) : u[i] = f[i + 1]
    OBVIOUS
  <1> HIDE DEF u
  <1>5. u[0] = f[1] /\ u[n - 1] = w
    BY <1>1, <1>2, <1>4
  <1>6. ASSUME NEW i \in 1..(n - 1) PROVE Tells(Tail(s)[i], u[i - 1], u[i])
    <2>1. i + 1 \in 1..n /\ (i + 1) - 1 = i /\ i - 1 \in 0..(n - 1) /\ i \in 0..(n - 1)
          /\ (i - 1) + 1 = i
      BY <1>2
    <2>2. Tells(s[i + 1], f[(i + 1) - 1], f[i + 1])
      BY <1>1, <2>1
    <2>3. Tells(s[i + 1], f[i], f[i + 1])
      BY <2>1, <2>2
    <2>4. u[i - 1] = f[i] /\ u[i] = f[i + 1]
      BY <1>4, <2>1
    <2>5. QED
      BY <1>2, <2>3, <2>4
  <1>7. Told(f[1], Tail(s), w)
    BY <1>2, <1>5, <1>6 DEF Told
  <1>8. QED
    BY <1>3, <1>7
-----------------------------------------------------------------------------
(* The reader does what the events tell *)

\* The events the contract emits.
Event ==
  [call : {"donate"}, type : {"DonationReceived"}, donation : DonationIds, gift : Offers]
    \cup [call : {"registerTask"}, type : {"TaskRegistered"}, task : TaskIds,
          input : [purpose : Purposes, project : Projects]]
    \cup [call : {"registerTask", "setTaskActive"}, type : {"TaskActivityChanged"},
          task : TaskIds, active : BOOLEAN]
    \cup [call : {"donate", "allocateRemaining"}, type : {"DonationAllocated"},
          donation : DonationIds, task : TaskIds, amount : Nat]
    \cup [call : {"refundUnallocated"}, type : {"DonationRefunded"}, refund : RefundIds,
          donation : DonationIds, recipient : Donors, amount : Nat]

\* The reader's donations and tasks; nothing closes a task of this contract.
PDonation == [donor : Donors, purpose : Purposes \cup {AnyPurpose},
              project : Projects \cup {None}, amount : Nat, gasReserved : Nat,
              available : Nat, at : Nat]
PTask == [purpose : Purposes, project : Projects, status : {"OPEN", "PAUSED"}]
ReaderTypeOK ==
  /\ Table(pDonations, DonationIds, PDonation)
  /\ Table(pTasks, TaskIds, PTask)

\* A donation the event tells of is taken over.
LEMMA ReadsDonation ==
  ASSUME ReaderTypeOK, NEW e \in Event, NEW w, TellsDonation(e, Seen, w)
  PROVE  /\ Projection!CanReceive(e.donation, e.gift)
         /\ Projection!DonationReceived(e.donation, e.gift) => ReaderTypeOK' /\ Seen' = w
  <1> PICK d, gift : d = e.donation /\ gift = e.gift
    OBVIOUS
  <1>1. d \in DonationIds /\ gift \in Offers
    BY DEF Event, TellsDonation
  <1>2. gift \in [donor : Donors, purpose : Purposes \cup {AnyPurpose},
                  project : Projects \cup {None}, amount : Nat, gasReserved : Nat]
    BY <1>1, LedgerAssumption
  <1>3. /\ d \notin DOMAIN pDonations /\ gift.amount > 0 /\ gift.gasReserved <= gift.amount
        /\ w = [donations |-> Put(Seen.donations, d,
                            [donor |-> gift.donor, purpose |-> gift.purpose,
                             project |-> gift.project,
                             available |-> gift.amount - gift.gasReserved,
                             at |-> Cardinality(DOMAIN pDonations)]),
                tasks |-> Seen.tasks, allocations |-> Seen.allocations,
                refunds |-> Seen.refunds]
    BY DEF TellsDonation, Seen
  <1>4. Projection!CanReceive(d, gift)
    BY <1>3 DEF Projection!CanReceive
  <1>5. ASSUME Projection!DonationReceived(d, gift) PROVE ReaderTypeOK' /\ Seen' = w
    <2>1. PICK x : x = [donor |-> gift.donor, purpose |-> gift.purpose,
                        project |-> gift.project, amount |-> gift.amount,
                        gasReserved |-> gift.gasReserved,
                        available |-> gift.amount - gift.gasReserved,
                        at |-> Cardinality(DOMAIN pDonations)]
      OBVIOUS
    <2>2. Cardinality(DOMAIN pDonations) \in Nat
      BY FS_CardinalityType DEF ReaderTypeOK, Table
    <2>3. x \in PDonation
      BY <1>2, <1>3, <2>1, <2>2 DEF PDonation
    <2>4. /\ pDonations' = Put(pDonations, d, x)
          /\ UNCHANGED <<pTasks, pAllocations, pRefunds>>
      BY <1>5, <2>1 DEF Projection!DonationReceived, Projection!Spendable, Projection!Put, Put,
                        Projection!Cardinality, Cardinality
    <2>5. ReaderTypeOK'
      BY <1>1, <2>3, <2>4, PutTable DEF ReaderTypeOK
    <2>6. Seen'.donations = Put(Seen.donations, d,
                            [donor |-> gift.donor, purpose |-> gift.purpose,
                             project |-> gift.project,
                             available |-> gift.amount - gift.gasReserved,
                             at |-> Cardinality(DOMAIN pDonations)])
      BY <2>1, <2>4 DEF Seen, Put
    <2>7. Seen' = w
      BY <1>3, <2>4, <2>6 DEF Seen
    <2>8. QED
      BY <2>5, <2>7
  <1>6. QED
    BY <1>4, <1>5

\* A task the event tells of is registered.
LEMMA ReadsTask ==
  ASSUME ReaderTypeOK, NEW e \in Event, NEW w, TellsTask(e, Seen, w)
  PROVE  /\ Projection!CanRegister(e.task)
         /\ Projection!TaskRegistered(e.task, e.input) => ReaderTypeOK' /\ Seen' = w
  <1> PICK t, input : t = e.task /\ input = e.input
    OBVIOUS
  <1>1. t \in TaskIds /\ input \in [purpose : Purposes, project : Projects]
    BY DEF Event, TellsTask
  <1>2. /\ t \notin DOMAIN pTasks
        /\ w = [donations |-> Seen.donations,
                tasks |-> Put(Seen.tasks, t, [purpose |-> input.purpose,
                                              project |-> input.project, open |-> TRUE]),
                allocations |-> Seen.allocations, refunds |-> Seen.refunds]
    BY DEF TellsTask, Seen
  <1>3. Projection!CanRegister(t)
    BY <1>2 DEF Projection!CanRegister
  <1>4. ASSUME Projection!TaskRegistered(t, input) PROVE ReaderTypeOK' /\ Seen' = w
    <2>1. PICK x : x = [purpose |-> input.purpose, project |-> input.project, status |-> "OPEN"]
      OBVIOUS
    <2>2. x \in PTask
      BY <1>1, <2>1 DEF PTask
    <2>3. /\ pTasks' = Put(pTasks, t, x)
          /\ UNCHANGED <<pDonations, pAllocations, pRefunds>>
      BY <1>4, <2>1 DEF Projection!TaskRegistered, Projection!Put, Put
    <2>4. ReaderTypeOK'
      BY <1>1, <2>2, <2>3, PutTable DEF ReaderTypeOK
    <2>5. Seen'.tasks = Put(Seen.tasks, t, [purpose |-> input.purpose,
                                            project |-> input.project, open |-> TRUE])
      BY <2>1, <2>3 DEF Seen, Put
    <2>6. Seen' = w
      BY <1>2, <2>3, <2>5 DEF Seen
    <2>7. QED
      BY <2>4, <2>6
  <1>5. QED
    BY <1>3, <1>4

\* A task that is paused or resumed is so for the reader.
LEMMA ReadsActivity ==
  ASSUME ReaderTypeOK, NEW e \in Event, NEW w, TellsActivity(e, Seen, w)
  PROVE  /\ Projection!CanChange(e.task)
         /\ Projection!TaskActivityChanged(e.task, e.active) => ReaderTypeOK' /\ Seen' = w
  <1> PICK t, active : t = e.task /\ active = e.active
    OBVIOUS
  <1>1. t \in TaskIds /\ active \in BOOLEAN
    BY DEF Event, TellsActivity
  <1>2. /\ t \in DOMAIN pTasks
        /\ Seen.tasks[t].purpose = pTasks[t].purpose /\ Seen.tasks[t].project = pTasks[t].project
        /\ w = [donations |-> Seen.donations,
                tasks |-> Put(Seen.tasks, t, [purpose |-> Seen.tasks[t].purpose,
                                              project |-> Seen.tasks[t].project,
                                              open |-> active]),
                allocations |-> Seen.allocations, refunds |-> Seen.refunds]
    BY DEF TellsActivity, Seen
  <1>3. pTasks[t] \in PTask
    BY <1>2 DEF ReaderTypeOK, Table
  <1>4. Projection!CanChange(t)
    BY <1>2, <1>3 DEF Projection!CanChange, PTask
  <1>5. ASSUME Projection!TaskActivityChanged(t, active) PROVE ReaderTypeOK' /\ Seen' = w
    <2>1. PICK x : x = [purpose |-> pTasks[t].purpose, project |-> pTasks[t].project,
                        status |-> IF active THEN "OPEN" ELSE "PAUSED"]
      OBVIOUS
    <2>2. x \in PTask /\ (x.status = "OPEN" <=> active)
      BY <1>1, <1>3, <2>1 DEF PTask
    <2>3. [pTasks[t] EXCEPT !.status = IF active THEN "OPEN" ELSE "PAUSED"] = x
      BY <1>3, <2>1 DEF PTask
    <2>4. /\ pTasks' = Put(pTasks, t, x)
          /\ UNCHANGED <<pDonations, pAllocations, pRefunds>>
      BY <1>2, <1>5, <2>3 DEF Projection!TaskActivityChanged, Put
    <2>5. ReaderTypeOK'
      BY <1>1, <2>2, <2>4, PutTable DEF ReaderTypeOK
    <2>6. PICK y : y = [purpose |-> Seen.tasks[t].purpose, project |-> Seen.tasks[t].project,
                        open |-> active]
      OBVIOUS
    <2>7. y = [purpose |-> x.purpose, project |-> x.project, open |-> x.status = "OPEN"]
      BY <1>1, <1>2, <2>1, <2>2, <2>6
    <2>8. Seen'.tasks = Put(Seen.tasks, t, y)
      BY <2>4, <2>7 DEF Seen, Put
    <2>9. Seen' = w
      BY <1>2, <2>4, <2>6, <2>8 DEF Seen
    <2>10. QED
      BY <2>5, <2>9
  <1>6. QED
    BY <1>4, <1>5

\* Money the event moves leaves the donation.
LEMMA ReaderPays ==
  ASSUME ReaderTypeOK, NEW d \in DOMAIN pDonations, NEW amount \in Nat,
         amount <= pDonations[d].available,
         pDonations' = [pDonations EXCEPT ![d].available = @ - amount]
  PROVE  /\ Table(pDonations', DonationIds, PDonation)
         /\ Seen'.donations = Put(Seen.donations, d, Less(Seen.donations[d], amount))
  <1> PICK x, y : /\ x = pDonations[d]
                  /\ y = [donor |-> x.donor, purpose |-> x.purpose, project |-> x.project,
                          amount |-> x.amount, gasReserved |-> x.gasReserved,
                          available |-> x.available - amount, at |-> x.at]
    OBVIOUS
  <1>1. x \in PDonation /\ d \in DonationIds
    BY DEF ReaderTypeOK, Table
  <1>2. y \in PDonation /\ [x EXCEPT !.available = @ - amount] = y
    BY <1>1 DEF PDonation
  <1>3. pDonations' = Put(pDonations, d, y)
    BY <1>2 DEF Put
  <1>4. Table(pDonations', DonationIds, PDonation)
    <2>1. Table(pDonations, DonationIds, PDonation)
      BY DEF ReaderTypeOK
    <2>2. Table(Put(pDonations, d, y), DonationIds, PDonation)
      BY <1>1, <1>2, <2>1, PutTable
    <2>3. QED
      BY <1>3, <2>2
  <1>5. Less(Seen.donations[d], amount)
          = [donor |-> y.donor, purpose |-> y.purpose, project |-> y.project,
             available |-> y.available, at |-> y.at]
    BY DEF Less, Seen
  <1>6. Seen'.donations = Put(Seen.donations, d, Less(Seen.donations[d], amount))
    BY <1>3, <1>5 DEF Seen, Put
  <1>7. QED
    BY <1>4, <1>6

\* An allocation the event tells of is made.
LEMMA ReadsShare ==
  ASSUME ReaderTypeOK, NEW e \in Event, NEW w, TellsShare(e, Seen, w)
  PROVE  /\ Projection!CanAllocate(e.donation, e.task, e.amount)
         /\ Projection!DonationAllocated(e.donation, e.task, e.amount)
              => ReaderTypeOK' /\ Seen' = w
  <1> PICK d, t, amount : d = e.donation /\ t = e.task /\ amount = e.amount
    OBVIOUS
  <1>1. d \in DonationIds /\ t \in TaskIds /\ amount \in Nat
    BY DEF Event, TellsShare
  <1>2. /\ d \in DOMAIN pDonations /\ t \in DOMAIN pTasks
        /\ pTasks[t].status = "OPEN"
        /\ pDonations[d].purpose \in {AnyPurpose, pTasks[t].purpose}
        /\ pDonations[d].project \in {None, pTasks[t].project}
        /\ amount > 0 /\ amount <= pDonations[d].available
        /\ w = [donations |-> Put(Seen.donations, d, Less(Seen.donations[d], amount)),
                tasks |-> Seen.tasks,
                allocations |-> Put(pAllocations, <<t, d>>, Entry(pAllocations, <<t, d>>) + amount),
                refunds |-> Seen.refunds]
    BY DEF TellsShare, Seen, Serves
  <1>3. Projection!CanAllocate(d, t, amount)
    BY <1>2 DEF Projection!CanAllocate, Projection!Allocatable, Projection!Matches
  <1>4. ASSUME Projection!DonationAllocated(d, t, amount) PROVE ReaderTypeOK' /\ Seen' = w
    <2>1. /\ pDonations' = [pDonations EXCEPT ![d].available = @ - amount]
          /\ pAllocations' = Put(pAllocations, <<t, d>>, Entry(pAllocations, <<t, d>>) + amount)
          /\ UNCHANGED <<pTasks, pRefunds>>
      BY <1>4 DEF Projection!DonationAllocated, Projection!Put, Put, Entry
    <2>2. /\ Table(pDonations', DonationIds, PDonation)
          /\ Seen'.donations = Put(Seen.donations, d, Less(Seen.donations[d], amount))
      BY <1>1, <1>2, <2>1, ReaderPays
    <2>3. ReaderTypeOK'
      BY <2>1, <2>2 DEF ReaderTypeOK
    <2>4. Seen' = [donations |-> Seen'.donations, tasks |-> Seen.tasks,
                   allocations |-> pAllocations', refunds |-> Seen.refunds]
      BY <2>1 DEF Seen
    <2>5. Seen' = w
      BY <1>2, <2>1, <2>2, <2>4
    <2>6. QED
      BY <2>3, <2>5
  <1>5. QED
    BY <1>3, <1>4

\* A refund the event tells of is booked.
LEMMA ReadsRefund ==
  ASSUME ReaderTypeOK, NEW e \in Event, NEW w, TellsRefund(e, Seen, w)
  PROVE  /\ Projection!CanRefund(e.refund, e.donation, e.recipient, e.amount)
         /\ Projection!DonationRefunded(e.refund, e.donation, e.recipient, e.amount)
              => ReaderTypeOK' /\ Seen' = w
  <1> PICK f, d, recipient, amount :
        f = e.refund /\ d = e.donation /\ recipient = e.recipient /\ amount = e.amount
    OBVIOUS
  <1>1. amount \in Nat
    BY DEF Event, TellsRefund
  <1>2. /\ d \in DOMAIN pDonations /\ f \notin DOMAIN pRefunds
        /\ recipient = pDonations[d].donor
        /\ amount > 0 /\ amount <= pDonations[d].available
        /\ w = [donations |-> Put(Seen.donations, d, Less(Seen.donations[d], amount)),
                tasks |-> Seen.tasks, allocations |-> Seen.allocations,
                refunds |-> Seen.refunds \cup {f}]
    BY DEF TellsRefund, Seen
  <1>3. Projection!CanRefund(f, d, recipient, amount)
    BY <1>2 DEF Projection!CanRefund
  <1>4. ASSUME Projection!DonationRefunded(f, d, recipient, amount)
        PROVE  ReaderTypeOK' /\ Seen' = w
    <2>1. /\ pDonations' = [pDonations EXCEPT ![d].available = @ - amount]
          /\ DOMAIN pRefunds' = DOMAIN pRefunds \cup {f}
          /\ UNCHANGED <<pTasks, pAllocations>>
      BY <1>4 DEF Projection!DonationRefunded, Projection!Put
    <2>2. /\ Table(pDonations', DonationIds, PDonation)
          /\ Seen'.donations = Put(Seen.donations, d, Less(Seen.donations[d], amount))
      BY <1>1, <1>2, <2>1, ReaderPays
    <2>3. ReaderTypeOK'
      BY <2>1, <2>2 DEF ReaderTypeOK
    <2>4. Seen' = [donations |-> Seen'.donations, tasks |-> Seen.tasks,
                   allocations |-> Seen.allocations, refunds |-> Seen.refunds \cup {f}]
      BY <2>1 DEF Seen
    <2>5. Seen' = w
      BY <1>2, <2>2, <2>4
    <2>6. QED
      BY <2>3, <2>5
  <1>5. QED
    BY <1>3, <1>4

\* What an event tells is accepted, and reading it makes it so.
LEMMA ReadsTold ==
  ASSUME ReaderTypeOK, NEW e \in Event, NEW w, Tells(e, Seen, w)
  PROVE  Accepts(e) /\ (Handle(e) => ReaderTypeOK' /\ Seen' = w)
  <1>1. CASE TellsDonation(e, Seen, w)
    <2>1. e.type = "DonationReceived"
      BY <1>1 DEF TellsDonation
    <2>2. Accepts(e)
      BY <1>1, <2>1, ReadsDonation DEF Accepts
    <2>3. Handle(e) => Projection!DonationReceived(e.donation, e.gift)
      BY <2>1 DEF Handle
    <2>4. QED
      BY <1>1, <2>2, <2>3, ReadsDonation
  <1>2. CASE TellsTask(e, Seen, w)
    <2>1. e.type = "TaskRegistered"
      BY <1>2 DEF TellsTask
    <2>2. Accepts(e)
      BY <1>2, <2>1, ReadsTask DEF Accepts
    <2>3. Handle(e) => Projection!TaskRegistered(e.task, e.input)
      BY <2>1 DEF Handle
    <2>4. QED
      BY <1>2, <2>2, <2>3, ReadsTask
  <1>3. CASE TellsActivity(e, Seen, w)
    <2>1. e.type = "TaskActivityChanged" /\ e.call = "setTaskActive"
      BY <1>3 DEF TellsActivity
    <2>2. Accepts(e)
      BY <1>3, <2>1, ReadsActivity DEF Accepts
    <2>3. Handle(e) => Projection!TaskActivityChanged(e.task, e.active)
      BY <2>1 DEF Handle
    <2>4. QED
      BY <1>3, <2>2, <2>3, ReadsActivity
  <1>4. CASE TellsAgain(e, Seen, w)
    <2>1. e.type = "TaskActivityChanged" /\ e.call = "registerTask" /\ w = Seen
      BY <1>4 DEF TellsAgain
    <2>2. Accepts(e)
      BY <2>1 DEF Accepts
    <2>3. Handle(e) => UNCHANGED projectionVars
      BY <2>1 DEF Handle
    <2>4. UNCHANGED projectionVars => ReaderTypeOK' /\ Seen' = Seen
      BY DEF projectionVars, ReaderTypeOK, Seen
    <2>5. QED
      BY <2>1, <2>2, <2>3, <2>4
  <1>5. CASE TellsShare(e, Seen, w)
    <2>1. e.type = "DonationAllocated"
      BY <1>5 DEF TellsShare
    <2>2. Accepts(e)
      BY <1>5, <2>1, ReadsShare DEF Accepts
    <2>3. Handle(e) => Projection!DonationAllocated(e.donation, e.task, e.amount)
      BY <2>1 DEF Handle
    <2>4. QED
      BY <1>5, <2>2, <2>3, ReadsShare
  <1>6. CASE TellsRefund(e, Seen, w)
    <2>1. e.type = "DonationRefunded"
      BY <1>6 DEF TellsRefund
    <2>2. Accepts(e)
      BY <1>6, <2>1, ReadsRefund DEF Accepts
    <2>3. Handle(e) => Projection!DonationRefunded(e.refund, e.donation, e.recipient, e.amount)
      BY <2>1 DEF Handle
    <2>4. QED
      BY <1>6, <2>2, <2>3, ReadsRefund
  <1>7. QED
    BY <1>1, <1>2, <1>3, <1>4, <1>5, <1>6 DEF Tells
-----------------------------------------------------------------------------
(* The contract tells what it does *)

\* The ranked shares list each task that gets one, once.
LEMMA RankedLists ==
  ASSUME LedgerTypeOK, TasksInOrder, NEW shares, DOMAIN shares \subseteq DOMAIN tasks,
         IsFiniteSet(DOMAIN shares), NEW n, n = Cardinality(DOMAIN shares)
  PROVE  /\ n \in Nat /\ Ranked(shares) \in [1..n -> DOMAIN shares]
         /\ \A i, j \in 1..n : Ranked(shares)[i] = Ranked(shares)[j] => i = j
         /\ \A t \in DOMAIN shares : \E i \in 1..n : Ranked(shares)[i] = t
  <1> PICK D, r, s : D = DOMAIN shares /\ r = Ranking(D, Outranks) /\ s = Ranked(shares)
    OBVIOUS
  <1>1. LinearOrder(r, D) /\ n \in Nat
    BY RankingLinear, FS_CardinalityType
  <1>2. \A x, y \in D : <<x, y>> \in r <=> Outranks(x, y)
    BY DEF Ranking
  <1>3. \E q \in [1..n -> D] : \A i, j \in 1..n : i < j => <<q[i], q[j]>> \in r
    BY <1>1, Enumeration
  <1>4. PICK q \in [1..n -> D] : \A i, j \in DOMAIN q : i < j => Outranks(q[i], q[j])
    BY <1>2, <1>3
  <1>5. s \in [1..n -> D] /\ \A i, j \in DOMAIN s : i < j => Outranks(s[i], s[j])
    BY <1>4 DEF Ranked
  <1>6. \A i, j \in 1..n : i < j => <<s[i], s[j]>> \in r
    BY <1>2, <1>5
  <1>7. Ascends(s, n, D, r)
    BY <1>5, <1>6 DEF Ascends
  <1>8. Lists(s, n, D)
    BY <1>1, <1>7, ListsAll
  <1>9. QED
    BY <1>1, <1>5, <1>8 DEF Lists

\* The contract once the tasks of F have their shares of donation d.
GivenTo(F, shares) == [t \in F |-> shares[t]]
Partly(d, donation, shares, F) ==
  [donations |-> Put(Written.donations, d, Less(Gist(donation), Total(GivenTo(F, shares)))),
   tasks |-> Written.tasks,
   allocations |-> [a \in DOMAIN allocations \cup {<<t, d>> : t \in F} |->
                      Entry(allocations, a)
                        + (IF a[2] = d /\ a[1] \in F THEN shares[a[1]] ELSE 0)],
   refunds |-> refundIds]

\* A task that gets its share is told of.
LEMMA ShareTold ==
  ASSUME LedgerTypeOK, NEW d, NEW donation \in Donation, NEW shares,
         SharedOut(donation, shares), NEW F \in SUBSET DOMAIN shares,
         NEW t \in DOMAIN shares, t \notin F, NEW e, e.type = "DonationAllocated",
         e.donation = d, e.task = t, e.amount = shares[t]
  PROVE  TellsShare(e, Partly(d, donation, shares, F), Partly(d, donation, shares, F \cup {t}))
  <1> PICK v, w, G, m, n, amount :
        /\ v = Partly(d, donation, shares, F) /\ w = Partly(d, donation, shares, F \cup {t})
        /\ G = Gist(donation) /\ m = Total(GivenTo(F, shares))
        /\ n = Total(GivenTo(F \cup {t}, shares)) /\ amount = shares[t]
    OBVIOUS
  <1>1. /\ shares \in [DOMAIN shares -> Nat] /\ IsFiniteSet(DOMAIN shares)
        /\ t \in DOMAIN tasks /\ tasks[t].active /\ Serves(donation, tasks[t])
        /\ amount \in Nat \ {0} /\ Total(shares) \in Nat /\ Total(shares) <= donation.available
    BY DEF SharedOut, Summable
  <1>2. m \in Nat /\ n \in Nat /\ n <= Total(shares)
    <2>1. Capacity(shares)
      BY <1>1 DEF Capacity
    <2>2. F \in SUBSET DOMAIN shares /\ (F \cup {t}) \in SUBSET DOMAIN shares
      OBVIOUS
    <2>3. QED
      BY <2>1, <2>2, TotalPart DEF GivenTo
  <1>3. n = m + amount
    <2>1. PICK f, g : f = GivenTo(F, shares) /\ g = GivenTo(F \cup {t}, shares)
      OBVIOUS
    <2>2. IsFiniteSet(F) /\ DOMAIN f = F /\ t \notin DOMAIN f /\ g[t] = amount
      BY <1>1, <2>1, FS_Subset DEF GivenTo
    <2>3. Summable(f)
      BY <1>1, <2>1, <2>2 DEF GivenTo, Summable
    <2>4. g = [x \in DOMAIN f \cup {t} |-> IF x = t THEN g[t] ELSE f[x]]
      BY <2>1, <2>2 DEF GivenTo
    <2>5. Total(g) = Total(f) + g[t]
      BY <1>1, <2>2, <2>3, <2>4, TotalGrows
    <2>6. QED
      BY <2>1, <2>2, <2>5
  <1>4. donation.available \in Nat
    BY DEF Donation
  <1>5. d \in DOMAIN v.donations /\ v.donations[d] = Less(G, m)
    BY DEF Partly, Put
  <1>6. t \in DOMAIN v.tasks /\ v.tasks[t].open /\ Serves(v.donations[d], v.tasks[t])
    BY <1>1, <1>5 DEF Partly, Written, Serves, Less, Gist
  <1>7. amount > 0 /\ amount <= v.donations[d].available
    BY <1>1, <1>2, <1>3, <1>4, <1>5 DEF Less, Gist
  <1>8. w.donations = Put(v.donations, d, Less(v.donations[d], amount))
    <2>1. Less(Less(G, m), amount) = Less(G, n)
      BY <1>1, <1>2, <1>3, <1>4 DEF Less, Gist
    <2>2. v.donations = Put(Written.donations, d, Less(G, m))
          /\ w.donations = Put(Written.donations, d, Less(G, n))
      BY DEF Partly
    <2>3. QED
      BY <1>5, <2>1, <2>2 DEF Put
  <1>9. w.allocations = Put(v.allocations, <<t, d>>, Entry(v.allocations, <<t, d>>) + amount)
    <2> PICK A : A = DOMAIN allocations \cup {<<s, d>> : s \in F}
      OBVIOUS
    <2>1. v.allocations = [a \in A |-> Entry(allocations, a)
                            + (IF a[2] = d /\ a[1] \in F THEN shares[a[1]] ELSE 0)]
      BY DEF Partly
    <2>2. w.allocations = [a \in A \cup {<<t, d>>} |-> Entry(allocations, a)
                            + (IF a[2] = d /\ a[1] \in F \cup {t} THEN shares[a[1]] ELSE 0)]
      <3>1. DOMAIN allocations \cup {<<s, d>> : s \in F \cup {t}} = A \cup {<<t, d>>}
        OBVIOUS
      <3>2. QED
        BY <3>1 DEF Partly
    <2>3. \A a \in A : a = <<a[1], a[2]>>
      BY DEF LedgerTypeOK, Table
    <2>4. \A a : Entry(allocations, a) \in Nat
      BY DEF LedgerTypeOK, Table, Entry
    <2>5. Entry(v.allocations, <<t, d>>) = Entry(allocations, <<t, d>>)
      <3>1. CASE <<t, d>> \in A
        BY <2>1, <2>4, <3>1 DEF Entry
      <3>2. CASE <<t, d>> \notin A
        BY <2>1, <3>2 DEF Entry
      <3>3. QED
        BY <3>1, <3>2
    <2>6. ASSUME NEW a \in A \cup {<<t, d>>}
          PROVE  w.allocations[a] = IF a = <<t, d>> THEN Entry(allocations, <<t, d>>) + amount
                                                    ELSE v.allocations[a]
      <3>1. CASE a = <<t, d>>
        BY <2>2, <3>1
      <3>2. CASE a # <<t, d>>
        <4>1. a \in A /\ ~(a[2] = d /\ a[1] = t)
          BY <2>3, <3>2
        <4>2. QED
          BY <2>1, <2>2, <3>2, <4>1
      <3>3. QED
        BY <3>1, <3>2
    <2>7. DOMAIN v.allocations = A /\ DOMAIN w.allocations = A \cup {<<t, d>>}
          /\ w.allocations = [a \in A \cup {<<t, d>>} |-> w.allocations[a]]
      BY <2>1, <2>2
    <2>8. QED
      BY <2>5, <2>6, <2>7 DEF Put
  <1>10. w = [donations |-> w.donations, tasks |-> v.tasks, allocations |-> w.allocations,
              refunds |-> v.refunds]
    BY DEF Partly
  <1>11. TellsShare(e, v, w)
    BY <1>5, <1>6, <1>7, <1>8, <1>9, <1>10 DEF TellsShare
  <1>12. QED
    BY <1>11

\* Before the first share and after the last.
LEMMA SharesBegin ==
  ASSUME LedgerTypeOK, NEW d, NEW donation \in Donation, NEW shares
  PROVE  Partly(d, donation, shares, {}) =
           [donations |-> Put(Written.donations, d, Gist(donation)), tasks |-> Written.tasks,
            allocations |-> allocations, refunds |-> refundIds]
  <1>1. Total(GivenTo({}, shares)) = 0
    BY TotalEmpty DEF GivenTo
  <1>2. Less(Gist(donation), 0) = Gist(donation)
    BY DEF Less, Gist, Donation
  <1>3. \A a \in DOMAIN allocations : Entry(allocations, a) + 0 = allocations[a]
    BY DEF LedgerTypeOK, Table, Entry
  <1>4. [a \in DOMAIN allocations \cup {<<t, d>> : t \in {}} |->
           Entry(allocations, a) + (IF a[2] = d /\ a[1] \in {} THEN shares[a[1]] ELSE 0)]
          = allocations
    <2>1. DOMAIN allocations \cup {<<t, d>> : t \in {}} = DOMAIN allocations
      OBVIOUS
    <2>2. allocations = [a \in DOMAIN allocations |-> allocations[a]]
      BY DEF LedgerTypeOK, Table
    <2>3. QED
      BY <1>3, <2>1, <2>2
  <1>5. QED
    BY <1>1, <1>2, <1>4 DEF Partly

LEMMA SharesEnd ==
  ASSUME LedgerTypeOK, NEW d, NEW donation \in Donation, NEW sums, NEW shares,
         Allocating(d, donation, sums, shares), refundIds' = refundIds
  PROVE  Partly(d, donation, shares, DOMAIN shares) = Written'
  <1> PICK m : m = Total(shares)
    OBVIOUS
  <1>1. GivenTo(DOMAIN shares, shares) = shares
    BY DEF GivenTo, Allocating, SharedOut
  <1>2. Written'.donations = Put(Written.donations, d, Less(Gist(donation), m))
    <2>1. PICK x : x = [donation EXCEPT !.available = @ - m]
      OBVIOUS
    <2>2. Gist(x) = Less(Gist(donation), m)
      BY <2>1 DEF Gist, Less, Donation
    <2>3. donations' = Put(donations, d, x)
      BY <2>1 DEF Allocating
    <2>4. Written'.donations = Put(Written.donations, d, Gist(x))
      BY <2>3 DEF Written, Put
    <2>5. QED
      BY <2>2, <2>4
  <1>3. Written'.tasks = Written.tasks
    <2>1. DOMAIN tasks' = DOMAIN tasks
      BY DEF Allocating
    <2>2. ASSUME NEW t \in DOMAIN tasks
          PROVE  /\ tasks'[t].purpose = tasks[t].purpose
                 /\ tasks'[t].project = tasks[t].project /\ tasks'[t].active = tasks[t].active
      <3>1. PICK x, n : x = tasks[t] /\ n = Entry(shares, t)
        OBVIOUS
      <3>2. x \in Task
        BY <3>1 DEF LedgerTypeOK, Table
      <3>3. tasks'[t] = [x EXCEPT !.allocated = @ + n]
        BY <3>1 DEF Allocating
      <3>4. QED
        BY <3>1, <3>2, <3>3 DEF Task
    <2>3. QED
      BY <2>1, <2>2 DEF Written
  <1>4. allocations' = [a \in DOMAIN allocations \cup {<<t, d>> : t \in DOMAIN shares} |->
                          Entry(allocations, a)
                            + (IF a[2] = d /\ a[1] \in DOMAIN shares THEN shares[a[1]] ELSE 0)]
    BY DEF Allocating, Entry
  <1>5. Written' = [donations |-> Written'.donations, tasks |-> Written'.tasks,
                    allocations |-> allocations', refunds |-> refundIds]
    BY DEF Written
  <1>6. QED
    BY <1>1, <1>2, <1>3, <1>4, <1>5 DEF Partly

\* The allocation's events, one for each share, lead to what the contract has
\* afterwards.
LEMMA AllocateTold ==
  ASSUME LedgerTypeOK, TasksInOrder, SlotsMirrorActivity,
         NEW call \in {"donate", "allocateRemaining"}, NEW d \in DonationIds,
         NEW donation \in Donation, NEW sums, NEW before,
         Allocate(call, d, donation, sums, before), UNCHANGED <<slots, refundIds>>
  PROVE  \E es \in Seq(Event) :
           /\ emitted' = emitted \o before \o es
           /\ Told([donations |-> Put(Written.donations, d, Gist(donation)),
                    tasks |-> Written.tasks, allocations |-> allocations,
                    refunds |-> refundIds], es, Written')
  <1> PICK shares, n, order, v :
        /\ shares = Shares(d, donation) /\ n = Cardinality(DOMAIN shares)
        /\ order = Ranked(shares)
        /\ v = [donations |-> Put(Written.donations, d, Gist(donation)),
                tasks |-> Written.tasks, allocations |-> allocations, refunds |-> refundIds]
    OBVIOUS
  <1>1. donation.available \in Nat
    BY DEF Donation
  <1>2. Allocating(d, donation, sums, shares)
    BY <1>1, AllocateShares
  <1>3. /\ SharedOut(donation, shares) /\ DOMAIN shares \subseteq DOMAIN tasks
        /\ IsFiniteSet(DOMAIN shares)
        /\ \A t \in DOMAIN shares : shares[t] \in Nat /\ t \in TaskIds
    BY <1>2 DEF Allocating, SharedOut, Summable, LedgerTypeOK, Table
  <1>4. /\ n \in Nat /\ order \in [1..n -> DOMAIN shares]
        /\ \A i, j \in 1..n : order[i] = order[j] => i = j
        /\ \A t \in DOMAIN shares : \E i \in 1..n : order[i] = t
    BY <1>3, RankedLists
  <1>5. PICK es : es = [i \in 1..n |-> [call |-> call, type |-> "DonationAllocated",
                                        donation |-> d, task |-> order[i],
                                        amount |-> shares[order[i]]]]
    OBVIOUS
  <1>6. emitted' = emitted \o before \o es
    <2>1. DOMAIN order = 1..n
      BY <1>4
    <2>2. QED
      BY <1>5, <2>1 DEF Allocate
  <1>7. es \in Seq(Event) /\ Len(es) = n
    <2>1. \A i \in 1..n : es[i] \in Event
      <3>1. ASSUME NEW i \in 1..n PROVE es[i] \in Event
        <4>1. order[i] \in TaskIds /\ shares[order[i]] \in Nat
          BY <1>3, <1>4
        <4>2. es[i] \in [call : {"donate", "allocateRemaining"}, type : {"DonationAllocated"},
                         donation : DonationIds, task : TaskIds, amount : Nat]
          BY <1>5, <4>1
        <4>3. QED
          BY <4>2 DEF Event
      <3>2. QED
        BY <3>1
    <2>2. es \in [1..n -> Event]
      BY <1>5, <2>1
    <2>3. QED
      BY <1>4, <2>2
  <1> DEFINE F(k) == {order[i] : i \in 1..k}
             u == [k \in 0..n |-> Partly(d, donation, shares, F(k))]
  <1>8. u[0] = v
    <2>1. F(0) = {} /\ 0 \in 0..n
      BY <1>4
    <2>2. QED
      BY <2>1, SharesBegin
  <1>9. u[n] = Written'
    <2>1. n \in 0..n /\ F(n) \subseteq DOMAIN shares
      BY <1>4
    <2>2. ASSUME NEW t \in DOMAIN shares PROVE t \in F(n)
      <3>1. PICK i \in 1..n : order[i] = t
        BY <1>4
      <3>2. QED
        BY <3>1
    <2>3. F(n) = DOMAIN shares
      BY <2>1, <2>2
    <2>4. QED
      BY <1>2, <2>1, <2>3, SharesEnd
  <1>10. ASSUME NEW k \in 1..n PROVE Tells(es[k], u[k - 1], u[k])
    <2>1. /\ k \in 0..n /\ k - 1 \in 0..n
          /\ order[k] \in DOMAIN shares /\ order[k] \notin F(k - 1)
          /\ F(k) = F(k - 1) \cup {order[k]} /\ F(k - 1) \in SUBSET DOMAIN shares
      BY <1>4
    <2>2. u[k - 1] = Partly(d, donation, shares, F(k - 1)) /\ u[k] = Partly(d, donation, shares, F(k))
      BY <2>1
    <2>3. /\ es[k].type = "DonationAllocated" /\ es[k].donation = d /\ es[k].task = order[k]
          /\ es[k].amount = shares[order[k]]
      BY <1>5
    <2> HIDE DEF F, u
    <2>4. TellsShare(es[k], Partly(d, donation, shares, F(k - 1)),
                     Partly(d, donation, shares, F(k - 1) \cup {order[k]}))
      BY <1>3, <2>1, <2>3, ShareTold
    <2>5. QED
      BY <2>1, <2>2, <2>4 DEF Tells
  <1> HIDE DEF u
  <1>11. Told(v, es, Written')
    BY <1>7, <1>8, <1>9, <1>10 DEF Told
  <1>12. QED
    BY <1>6, <1>7, <1>11

\* The step of the contract is told by the events it emits.
Telling == \E es \in Seq(Event) : emitted' = emitted \o es /\ Told(Written, es, Written')

\* A step that moves nothing the reader follows.
LEMMA QuietTells ==
  ASSUME emitted \in Seq(Event), UNCHANGED <<donations, tasks, allocations, refundIds, emitted>>
  PROVE  Telling
  <1>1. Written' = Written
    BY DEF Written
  <1>2. <<>> \in Seq(Event) /\ emitted' = emitted \o <<>>
    OBVIOUS
  <1>3. Told(Written, <<>>, Written')
    BY <1>1, ToldNone
  <1>4. QED
    BY <1>2, <1>3 DEF Telling

\* One event.
LEMMA OneTells ==
  ASSUME emitted \in Seq(Event), NEW e \in Event, emitted' = emitted \o <<e>>,
         Tells(e, Written, Written')
  PROVE  Telling
  <1>1. <<e>> \in Seq(Event)
    OBVIOUS
  <1>2. Told(Written, <<e>>, Written')
    BY ToldOne
  <1>3. QED
    BY <1>1, <1>2 DEF Telling

\* A donation and what it gives away at once.
LEMMA DonateTells ==
  ASSUME LedgerInv, emitted \in Seq(Event), NEW permit \in Permit, NEW sender, NEW value,
         Donate(permit, sender, value)
  PROVE  Telling
  <1>1. LedgerTypeOK /\ TasksInOrder /\ SlotsMirrorActivity
    BY DEF LedgerInv
  <1>2. PICK d, offer, n : /\ d = permit.donation /\ offer = permit.offer
                           /\ n = Cardinality(DOMAIN donations) + 1
    OBVIOUS
  <1>3. PICK donation :
          donation = [donor |-> sender, purpose |-> offer.purpose, project |-> offer.project,
                      amount |-> offer.amount, gasReserved |-> offer.gasReserved,
                      available |-> offer.amount - offer.gasReserved, refunded |-> 0,
                      sequence |-> n, permit |-> permit]
    OBVIOUS
  <1>4. PICK sums, e :
          /\ sums = [totals EXCEPT !.donated = @ + offer.amount, !.gas = @ + offer.gasReserved,
                                   !.available = @ + donation.available]
          /\ e = [call |-> "donate", type |-> "DonationReceived", donation |-> d, gift |-> offer]
    OBVIOUS
  <1>5. /\ d \notin DOMAIN donations /\ sender = offer.donor /\ offer.amount > 0
        /\ offer.gasReserved <= offer.amount /\ UNCHANGED <<slots, refundIds>>
        /\ Allocate("donate", d, donation, sums, <<e>>)
    BY <1>2, <1>3, <1>4 DEF Donate
  <1>6. /\ d \in DonationIds /\ offer \in Offers /\ offer.donor \in Donors
        /\ offer.purpose \in Purposes \cup {AnyPurpose}
        /\ offer.project \in Projects \cup {None}
        /\ offer.amount \in Nat /\ offer.gasReserved \in Nat
    BY <1>2, LedgerAssumption DEF Permit
  <1>7. Cardinality(DOMAIN donations) \in Nat /\ n \in Nat
    BY <1>1, <1>2, FS_CardinalityType DEF LedgerTypeOK, Table
  <1>8. donation \in Donation
    BY <1>3, <1>5, <1>6, <1>7 DEF Donation
  <1>9. PICK v : v = [donations |-> Put(Written.donations, d, Gist(donation)),
                      tasks |-> Written.tasks, allocations |-> allocations,
                      refunds |-> refundIds]
    OBVIOUS
  <1>10. PICK es \in Seq(Event) : /\ emitted' = emitted \o <<e>> \o es
                                  /\ Told(v, es, Written')
    BY <1>1, <1>5, <1>6, <1>8, <1>9, AllocateTold
  <1>11. e \in Event
    <2>1. e \in [call : {"donate"}, type : {"DonationReceived"}, donation : DonationIds,
                 gift : Offers]
      BY <1>4, <1>6
    <2>2. QED
      BY <2>1 DEF Event
  <1>12. TellsDonation(e, Written, v)
    <2>1. DOMAIN Written.donations = DOMAIN donations
      BY DEF Written
    <2>2. Gist(donation) = [donor |-> offer.donor, purpose |-> offer.purpose,
                            project |-> offer.project,
                            available |-> offer.amount - offer.gasReserved,
                            at |-> Cardinality(DOMAIN Written.donations)]
      BY <1>2, <1>3, <1>5, <1>7, <2>1 DEF Gist
    <2>3. e.type = "DonationReceived" /\ e.donation = d /\ e.gift = offer
      BY <1>4
    <2>4. Written.allocations = allocations /\ Written.refunds = refundIds
      BY DEF Written
    <2>5. QED
      BY <1>5, <1>9, <2>1, <2>2, <2>3, <2>4 DEF TellsDonation
  <1>13. Told(Written, <<e>>, v)
    BY <1>12, ToldOne DEF Tells
  <1>14. <<e>> \in Seq(Event) /\ <<e>> \o es \in Seq(Event)
    BY <1>11
  <1>15. Told(Written, <<e>> \o es, Written')
    BY <1>10, <1>13, <1>14, ToldOn
  <1>16. emitted' = emitted \o (<<e>> \o es)
    BY <1>10, <1>14
  <1>17. QED
    BY <1>14, <1>15, <1>16 DEF Telling

\* What a later allocation gives.
LEMMA AllocateRemainingTells ==
  ASSUME LedgerInv, emitted \in Seq(Event), NEW d \in DonationIds, AllocateRemaining(d)
  PROVE  Telling
  <1>1. LedgerTypeOK /\ TasksInOrder /\ SlotsMirrorActivity
    BY DEF LedgerInv
  <1>2. PICK donation, sums, before : donation = donations[d] /\ sums = totals /\ before = <<>>
    OBVIOUS
  <1>3. /\ d \in DOMAIN donations /\ UNCHANGED <<slots, refundIds>>
        /\ Allocate("allocateRemaining", d, donation, sums, before)
    BY <1>2 DEF AllocateRemaining
  <1>4. donation \in Donation
    BY <1>1, <1>2, <1>3 DEF LedgerTypeOK, Table
  <1>5. [donations |-> Put(Written.donations, d, Gist(donation)), tasks |-> Written.tasks,
         allocations |-> allocations, refunds |-> refundIds] = Written
    <2>1. Put(Written.donations, d, Gist(donation)) = Written.donations
      BY <1>2, <1>3 DEF Written, Put
    <2>2. QED
      BY <2>1 DEF Written
  <1>6. PICK es \in Seq(Event) : emitted' = emitted \o before \o es /\ Told(Written, es, Written')
    BY <1>1, <1>3, <1>4, <1>5, AllocateTold
  <1>7. emitted \o before = emitted
    BY <1>2
  <1>8. QED
    BY <1>6, <1>7 DEF Telling

\* A refund.
LEMMA RefundTells ==
  ASSUME LedgerInv, emitted \in Seq(Event), NEW f \in RefundIds, NEW d \in DonationIds,
         NEW sender \in Donors, NEW amount \in Amounts, RefundUnallocated(f, d, sender, amount)
  PROVE  Telling
  <1>1. LedgerTypeOK
    BY DEF LedgerInv
  <1>2. PICK e : e = [call |-> "refundUnallocated", type |-> "DonationRefunded", refund |-> f,
                      donation |-> d, recipient |-> sender, amount |-> amount]
    OBVIOUS
  <1>3. /\ amount \in Nat /\ amount > 0 /\ f \notin refundIds /\ d \in DOMAIN donations
        /\ sender = donations[d].donor /\ amount <= donations[d].available
        /\ refundIds' = refundIds \cup {f}
        /\ donations' = [donations EXCEPT ![d].available = @ - amount,
                                          ![d].refunded = @ + amount]
        /\ UNCHANGED <<tasks, allocations>>
    BY LedgerAssumption DEF RefundUnallocated
  <1>4. emitted' = emitted \o <<e>>
    BY <1>2 DEF RefundUnallocated
  <1>5. e \in Event
    <2>1. e \in [call : {"refundUnallocated"}, type : {"DonationRefunded"}, refund : RefundIds,
                 donation : DonationIds, recipient : Donors, amount : Nat]
      BY <1>2, <1>3
    <2>2. QED
      BY <2>1 DEF Event
  <1>6. Written'.donations = Put(Written.donations, d, Less(Written.donations[d], amount))
    <2>1. PICK x, y : /\ x = donations[d]
                      /\ y = [x EXCEPT !.available = @ - amount, !.refunded = @ + amount]
      OBVIOUS
    <2>2. x \in Donation
      BY <1>1, <1>3, <2>1 DEF LedgerTypeOK, Table
    <2>3. Gist(y) = Less(Gist(x), amount)
      BY <2>1, <2>2 DEF Gist, Less, Donation
    <2>4. donations' = Put(donations, d, y)
      BY <1>3, <2>1, <2>2 DEF Put, Donation
    <2>5. Written'.donations = Put(Written.donations, d, Gist(y))
      BY <2>4 DEF Written, Put
    <2>6. Written.donations[d] = Gist(x)
      BY <1>3, <2>1 DEF Written
    <2>7. QED
      BY <2>3, <2>5, <2>6
  <1>7. Written' = [donations |-> Written'.donations, tasks |-> Written.tasks,
                    allocations |-> Written.allocations, refunds |-> Written.refunds \cup {f}]
    BY <1>3 DEF Written
  <1>8. /\ d \in DOMAIN Written.donations /\ Written.refunds = refundIds
        /\ Written.donations[d].donor = sender
        /\ Written.donations[d].available = donations[d].available
    BY <1>3 DEF Written, Gist
  <1>9. e.type = "DonationRefunded" /\ e.refund = f /\ e.donation = d /\ e.recipient = sender
        /\ e.amount = amount
    BY <1>2
  <1>10. TellsRefund(e, Written, Written')
    BY <1>3, <1>6, <1>7, <1>8, <1>9 DEF TellsRefund
  <1>11. QED
    BY <1>4, <1>5, <1>10, OneTells DEF Tells

\* A task, and once more that it is active.
LEMMA RegisterTaskTells ==
  ASSUME LedgerInv, emitted \in Seq(Event), NEW t \in TaskIds, NEW input \in TaskInputs,
         RegisterTask(t, input)
  PROVE  Telling
  <1>1. PICK task, e1, e2 :
          /\ task = [purpose |-> input.purpose, project |-> input.project,
                     urgency |-> input.urgency, target |-> input.target, allocated |-> 0,
                     sequence |-> Cardinality(DOMAIN tasks) + 1, active |-> FALSE]
          /\ e1 = [call |-> "registerTask", type |-> "TaskRegistered", task |-> t,
                   input |-> [purpose |-> input.purpose, project |-> input.project]]
          /\ e2 = [call |-> "registerTask", type |-> "TaskActivityChanged", task |-> t,
                   active |-> TRUE]
    OBVIOUS
  <1>2. PICK x : x = [task EXCEPT !.active = TRUE]
    OBVIOUS
  <1>3. /\ t \notin DOMAIN tasks /\ tasks' = Put(tasks, t, x)
        /\ emitted' = emitted \o <<e1>> \o <<e2>>
        /\ UNCHANGED <<donations, allocations, refundIds>>
    <2>1. SetActivity("registerTask", t, task, TRUE, <<e1>>)
      BY <1>1 DEF RegisterTask
    <2>2. task.active # TRUE
      BY <1>1
    <2>3. tasks' = Put(tasks, t, x) /\ emitted' = emitted \o <<e1>> \o <<e2>>
      BY <1>1, <1>2, <2>1, <2>2 DEF SetActivity
    <2>4. QED
      BY <2>3 DEF RegisterTask
  <1>4. input.purpose \in Purposes /\ input.project \in Projects
    BY LedgerAssumption
  <1>5. e1 \in Event
    <2>1. e1 \in [call : {"registerTask"}, type : {"TaskRegistered"}, task : TaskIds,
                  input : [purpose : Purposes, project : Projects]]
      BY <1>1, <1>4
    <2>2. QED
      BY <2>1 DEF Event
  <1>6. e2 \in Event
    <2>1. e2 \in [call : {"registerTask", "setTaskActive"}, type : {"TaskActivityChanged"},
                  task : TaskIds, active : BOOLEAN]
      BY <1>1
    <2>2. QED
      BY <2>1 DEF Event
  <1>7. TellsTask(e1, Written, Written')
    <2>1. /\ e1.type = "TaskRegistered" /\ e1.task = t
          /\ e1.input.purpose = x.purpose /\ e1.input.project = x.project /\ x.active = TRUE
      BY <1>1, <1>2
    <2>2. Written'.tasks = Put(Written.tasks, t, [purpose |-> x.purpose, project |-> x.project,
                                                  open |-> TRUE])
      BY <1>3, <2>1 DEF Written, Put
    <2>3. Written' = [donations |-> Written.donations, tasks |-> Written'.tasks,
                      allocations |-> Written.allocations, refunds |-> Written.refunds]
      BY <1>3 DEF Written
    <2>4. DOMAIN Written.tasks = DOMAIN tasks
      BY DEF Written
    <2>5. QED
      BY <1>3, <2>1, <2>2, <2>3, <2>4 DEF TellsTask
  <1>8. Told(Written, <<e1>>, Written')
    BY <1>7, ToldOne DEF Tells
  <1>9. Told(Written', <<e2>>, Written')
    <2>1. TellsAgain(e2, Written', Written')
      BY <1>1 DEF TellsAgain
    <2>2. QED
      BY <2>1, ToldOne DEF Tells
  <1>10. <<e1>> \in Seq(Event) /\ <<e2>> \in Seq(Event) /\ <<e1>> \o <<e2>> \in Seq(Event)
    BY <1>5, <1>6
  <1>11. Told(Written, <<e1>> \o <<e2>>, Written')
    BY <1>8, <1>9, <1>10, ToldOn
  <1>12. emitted' = emitted \o (<<e1>> \o <<e2>>)
    BY <1>3, <1>10
  <1>13. QED
    BY <1>10, <1>11, <1>12 DEF Telling

\* A task that is paused or active again.
LEMMA SetTaskActiveTells ==
  ASSUME LedgerInv, emitted \in Seq(Event), NEW t \in TaskIds, NEW active \in BOOLEAN,
         SetTaskActive(t, active)
  PROVE  Telling
  <1>1. Table(tasks, TaskIds, Task)
    BY DEF LedgerInv, LedgerTypeOK
  <1>2. PICK task, before : task = tasks[t] /\ before = <<>>
    OBVIOUS
  <1>3. /\ t \in DOMAIN tasks /\ SetActivity("setTaskActive", t, task, active, before)
        /\ UNCHANGED <<donations, allocations, refundIds>>
    BY <1>2 DEF SetTaskActive
  <1>4. task \in Task
    BY <1>1, <1>2, <1>3 DEF Table
  <1>5. emitted \o before = emitted
    BY <1>2
  <1>6. CASE task.active = active
    <2>1. tasks' = Put(tasks, t, task) /\ emitted' = emitted \o before
      BY <1>3, <1>6 DEF SetActivity
    <2>2. Put(tasks, t, task) = tasks
      BY <1>1, <1>2, <1>3 DEF Put, Table
    <2>3. UNCHANGED <<tasks, emitted>>
      BY <1>5, <2>1, <2>2
    <2>4. QED
      BY <1>3, <2>3, QuietTells
  <1>7. CASE task.active # active
    <2>1. PICK x, e : /\ x = [task EXCEPT !.active = active]
                      /\ e = [call |-> "setTaskActive", type |-> "TaskActivityChanged",
                              task |-> t, active |-> active]
      OBVIOUS
    <2>2. tasks' = Put(tasks, t, x) /\ emitted' = emitted \o before \o <<e>>
      BY <1>3, <1>7, <2>1 DEF SetActivity
    <2>3. emitted' = emitted \o <<e>>
      BY <1>5, <2>2
    <2>4. e \in Event
      <3>1. e \in [call : {"registerTask", "setTaskActive"}, type : {"TaskActivityChanged"},
                   task : TaskIds, active : BOOLEAN]
        BY <2>1
      <3>2. QED
        BY <3>1 DEF Event
    <2>5. TellsActivity(e, Written, Written')
      <3>1. /\ e.type = "TaskActivityChanged" /\ e.call = "setTaskActive" /\ e.task = t
            /\ e.active = active
        BY <2>1
      <3>2. x.purpose = task.purpose /\ x.project = task.project /\ x.active = active
        BY <1>4, <2>1 DEF Task
      <3>3. Written'.tasks = Put(Written.tasks, t, [purpose |-> x.purpose,
                                                    project |-> x.project, open |-> x.active])
        BY <2>2 DEF Written, Put
      <3>4. /\ t \in DOMAIN Written.tasks
            /\ Written.tasks[t].purpose = task.purpose
            /\ Written.tasks[t].project = task.project
        BY <1>2, <1>3 DEF Written
      <3>5. Written' = [donations |-> Written.donations, tasks |-> Written'.tasks,
                        allocations |-> Written.allocations, refunds |-> Written.refunds]
        BY <1>3 DEF Written
      <3>6. QED
        BY <3>1, <3>2, <3>3, <3>4, <3>5 DEF TellsActivity
    <2>6. QED
      BY <2>3, <2>4, <2>5, OneTells DEF Tells
  <1>8. QED
    BY <1>6, <1>7

\* What each step of the contract does is told by what it emits.
LEMMA NextTells == ASSUME LedgerInv, emitted \in Seq(Event), LedgerNext PROVE Telling
  <1>1. ASSUME NEW permit \in signed, NEW sender \in Donors, NEW value,
               Donate(permit, sender, value)
        PROVE  Telling
    <2>1. permit \in Permit
      BY DEF LedgerInv, LedgerTypeOK
    <2>2. QED
      BY <1>1, <2>1, DonateTells
  <1>2. ASSUME NEW r \in Registrars, NEW d \in DonationIds, NEW offer \in Offers,
               NEW n \in Nonces, SignPermit(r, d, offer, n)
        PROVE  Telling
    BY <1>2, QuietTells DEF SignPermit
  <1>3. ASSUME NEW permit \in signed, Expire(permit) PROVE Telling
    BY <1>3, QuietTells DEF Expire
  <1>4. ASSUME NEW sender \in Donors, NEW n \in Nonces, CancelDonationNonce(sender, n)
        PROVE  Telling
    BY <1>4, QuietTells DEF CancelDonationNonce
  <1>5. ASSUME NEW r \in Registrars, RevokeRegistrar(r) \/ GrantRegistrar(r) PROVE Telling
    BY <1>5, QuietTells DEF RevokeRegistrar, GrantRegistrar
  <1>6. ASSUME NEW value \in BOOLEAN, SetPaused(value) PROVE Telling
    BY <1>6, QuietTells DEF SetPaused
  <1>7. QED
    BY <1>1, <1>2, <1>3, <1>4, <1>5, <1>6, RegisterTaskTells, SetTaskActiveTells,
       AllocateRemainingTells, RefundTells DEF LedgerNext

-----------------------------------------------------------------------------
(* The projection follows *)

\* What is not read yet leads from what the reader has to what is written.
FollowInv == emitted \in Seq(Event) /\ ReaderTypeOK /\ Told(Seen, emitted, Written)

LEMMA FollowInit == PipelineInit => FollowInv
  <1> SUFFICES ASSUME PipelineInit PROVE FollowInv
    OBVIOUS
  <1>1. /\ donations = <<>> /\ tasks = <<>> /\ allocations = <<>> /\ refundIds = {}
        /\ emitted = <<>>
    BY DEF PipelineInit, Init
  <1>2. pDonations = <<>> /\ pTasks = <<>> /\ pAllocations = <<>> /\ pRefunds = <<>>
    BY DEF PipelineInit, Projection!Init
  <1>3. DOMAIN <<>> = {} /\ IsFiniteSet({})
    BY FS_EmptySet
  <1>4. Seen = Written
    BY <1>1, <1>2, <1>3 DEF Seen, Written
  <1>5. Told(Seen, emitted, Written)
    BY <1>1, <1>4, ToldNone
  <1>6. ReaderTypeOK
    BY <1>2, <1>3 DEF ReaderTypeOK, Table
  <1>7. QED
    BY <1>1, <1>5, <1>6 DEF FollowInv

\* The contract writes: the events grow by those of the step.
LEMMA FollowWrite ==
  ASSUME LedgerInv, FollowInv, LedgerNext, UNCHANGED projectionVars
  PROVE  FollowInv'
  <1>1. emitted \in Seq(Event) /\ ReaderTypeOK /\ Told(Seen, emitted, Written)
    BY DEF FollowInv
  <1>2. PICK es \in Seq(Event) : emitted' = emitted \o es /\ Told(Written, es, Written')
    BY <1>1, NextTells DEF Telling
  <1>3. Told(Seen, emitted', Written')
    BY <1>1, <1>2, ToldOn
  <1>4. Seen' = Seen /\ ReaderTypeOK'
    BY <1>1 DEF projectionVars, Seen, ReaderTypeOK
  <1>5. emitted' \in Seq(Event)
    BY <1>1, <1>2
  <1>6. Told(Seen', emitted', Written') => Told(Seen, emitted, Written)'
    BY DEF Told
  <1>7. QED
    BY <1>3, <1>4, <1>5, <1>6 DEF FollowInv

\* The reader reads: the first event is done as it tells.
LEMMA FollowRead == ASSUME FollowInv, Read PROVE FollowInv'
  <1>1. emitted \in Seq(Event) /\ ReaderTypeOK /\ Told(Seen, emitted, Written)
    BY DEF FollowInv
  <1>2. emitted # <<>> /\ Handle(Head(emitted)) /\ emitted' = Tail(emitted) /\ Written' = Written
    BY DEF Read, Written
  <1>3. Head(emitted) \in Event /\ Tail(emitted) \in Seq(Event)
    BY <1>1, <1>2
  <1>4. PICK y : Tells(Head(emitted), Seen, y) /\ Told(y, Tail(emitted), Written)
    BY <1>1, <1>2, ToldFirst
  <1>5. ReaderTypeOK' /\ Seen' = y
    BY <1>1, <1>2, <1>3, <1>4, ReadsTold
  <1>6. Told(Seen', emitted', Written')
    BY <1>2, <1>4, <1>5
  <1>7. Told(Seen', emitted', Written') => Told(Seen, emitted, Written)'
    BY DEF Told
  <1>8. QED
    BY <1>2, <1>3, <1>5, <1>6, <1>7 DEF FollowInv

\* A reader that follows refuses nothing, and agrees once it has read all.
LEMMA FollowsIt == ASSUME LedgerInv, FollowInv PROVE ProjectionFollows
  <1>1. emitted \in Seq(Event) /\ ReaderTypeOK /\ Told(Seen, emitted, Written)
    BY DEF FollowInv
  <1>2. NoEventRefused
    <2>1. ASSUME emitted # <<>> PROVE Accepts(Head(emitted))
      <3>1. Head(emitted) \in Event
        BY <1>1, <2>1
      <3>2. PICK y : Tells(Head(emitted), Seen, y)
        BY <1>1, <2>1, ToldFirst
      <3>3. QED
        BY <1>1, <3>1, <3>2, ReadsTold
    <2>2. QED
      BY <2>1 DEF NoEventRefused
  <1>3. ProjectionAgrees
    <2>1. SUFFICES ASSUME emitted = <<>>
                   PROVE  /\ DOMAIN pDonations = DOMAIN donations
                          /\ DOMAIN pTasks = DOMAIN tasks
                          /\ \A d \in DOMAIN donations :
                               /\ pDonations[d].available = donations[d].available
                               /\ pDonations[d].at + 1 = donations[d].sequence
                          /\ \A t \in DOMAIN tasks :
                               (pTasks[t].status = "OPEN") <=> tasks[t].active
                          /\ pAllocations = allocations
                          /\ DOMAIN pRefunds = refundIds
      BY DEF ProjectionAgrees
    <2>2. Seen = Written
      BY <1>1, <2>1, NoneTold
    <2>3. /\ Seen.donations = Written.donations /\ Seen.tasks = Written.tasks
          /\ Seen.allocations = Written.allocations /\ Seen.refunds = Written.refunds
      BY <2>2
    <2>4. pAllocations = allocations /\ DOMAIN pRefunds = refundIds
      BY <2>3 DEF Seen, Written
    <2>5. /\ DOMAIN Seen.donations = DOMAIN pDonations
          /\ DOMAIN Written.donations = DOMAIN donations
          /\ DOMAIN Seen.tasks = DOMAIN pTasks /\ DOMAIN Written.tasks = DOMAIN tasks
      BY DEF Seen, Written
    <2>6. DOMAIN pDonations = DOMAIN donations /\ DOMAIN pTasks = DOMAIN tasks
      BY <2>3, <2>5
    <2>7. ASSUME NEW d \in DOMAIN donations
          PROVE  /\ pDonations[d].available = donations[d].available
                 /\ pDonations[d].at + 1 = donations[d].sequence
      <3>1. Seen.donations[d].available = pDonations[d].available
            /\ Seen.donations[d].at = pDonations[d].at
        BY <2>6, <2>7 DEF Seen
      <3>2. Written.donations[d].available = donations[d].available
            /\ Written.donations[d].at = donations[d].sequence - 1
        BY DEF Written, Gist
      <3>3. donations[d].sequence \in Nat
        BY DEF LedgerInv, LedgerTypeOK, Table, Donation
      <3>4. Seen.donations[d] = Written.donations[d]
        BY <2>3
      <3>5. pDonations[d].at = donations[d].sequence - 1
        BY <3>1, <3>2, <3>4
      <3>6. pDonations[d].at + 1 = donations[d].sequence
        BY <3>3, <3>5
      <3>7. QED
        BY <3>1, <3>2, <3>4, <3>6
    <2>8. ASSUME NEW t \in DOMAIN tasks
          PROVE  (pTasks[t].status = "OPEN") <=> tasks[t].active
      <3>1. Seen.tasks[t].open = (pTasks[t].status = "OPEN")
        BY <2>6, <2>8 DEF Seen
      <3>2. Written.tasks[t].open = tasks[t].active
        BY DEF Written
      <3>3. Seen.tasks[t] = Written.tasks[t]
        BY <2>3
      <3>4. tasks[t].active \in BOOLEAN
        BY DEF LedgerInv, LedgerTypeOK, Table, Task
      <3>5. QED
        BY <3>1, <3>2, <3>3, <3>4
    <2>9. QED
      BY <2>4, <2>6, <2>7, <2>8
  <1>4. QED
    BY <1>2, <1>3 DEF ProjectionFollows

\* The backend's ledger follows the contract: its checks refuse no event, and
\* whenever it has read them all the two agree on donations, tasks, allocations
\* and refunds.
THEOREM ProjectionAlwaysFollows == Spec => []ProjectionFollows
  <1>1. PipelineInit => FollowInv
    BY FollowInit
  <1>2. LedgerInv /\ FollowInv /\ [PipelineNext]_<<ledgerVars, projectionVars>> => FollowInv'
    <2>1. ASSUME LedgerInv, FollowInv, LedgerNext, UNCHANGED projectionVars PROVE FollowInv'
      BY <2>1, FollowWrite
    <2>2. ASSUME FollowInv, Read PROVE FollowInv'
      BY <2>2, FollowRead
    <2>3. ASSUME FollowInv, UNCHANGED <<ledgerVars, projectionVars>> PROVE FollowInv'
      <3>1. Seen' = Seen /\ emitted' = emitted /\ Written' = Written /\ ReaderTypeOK'
        BY <2>3 DEF ledgerVars, projectionVars, Seen, Written, FollowInv, ReaderTypeOK
      <3>2. Told(Seen', emitted', Written')
        BY <2>3, <3>1 DEF FollowInv
      <3>3. Told(Seen', emitted', Written') => Told(Seen, emitted, Written)'
        BY DEF Told
      <3>4. QED
        BY <2>3, <3>1, <3>2, <3>3 DEF FollowInv
    <2>4. QED
      BY <2>1, <2>2, <2>3 DEF PipelineNext
  <1>3. LedgerInv /\ FollowInv => ProjectionFollows
    BY FollowsIt
  <1>4. QED
    BY <1>1, <1>2, <1>3, PipelineInv, PTL DEF Spec
-----------------------------------------------------------------------------
(* The pool and the log of a chain *)

\* The history of blocks b up to k.
Start == [pool |-> NoPool, log |-> <<>>]
Runs(h, b, k) ==
  h = [n \in 0..k |-> IF n = 0 THEN Start ELSE Block(h[n - 1], n, b[n].call)]

Alike(b, c, k) == \A n \in 1..k : b[n] = c[n]

\* There is one.
LEMMA RunsUpTo == ASSUME NEW b, NEW k \in Nat PROVE \E h : Runs(h, b, k)
  <1> DEFINE T == {m \in Nat : \E h : Runs(h, b, m)}
  <1>1. 0 \in T
    <2>1. Runs([n \in 0..0 |-> Start], b, 0)
      BY DEF Runs
    <2>2. QED
      BY <2>1
  <1>2. ASSUME NEW m \in Nat, m \in T PROVE m + 1 \in T
    <2>1. PICK h : Runs(h, b, m)
      BY <1>2
    <2> DEFINE g == [n \in 0..(m + 1) |-> IF n = m + 1 THEN Block(h[m], m + 1, b[m + 1].call)
                                                      ELSE h[n]]
    <2>2. \A n \in 0..m : h[n] = IF n = 0 THEN Start ELSE Block(h[n - 1], n, b[n].call)
      BY <2>1 DEF Runs
    <2>3. ASSUME NEW n \in 0..(m + 1)
          PROVE  g[n] = IF n = 0 THEN Start ELSE Block(g[n - 1], n, b[n].call)
      <3>1. CASE n = m + 1
        <4>1. n # 0 /\ n - 1 = m /\ m \in 0..(m + 1) /\ m # m + 1
          BY <1>2, <3>1
        <4>2. g[n - 1] = h[m]
          BY <4>1
        <4>3. g[n] = Block(h[m], m + 1, b[m + 1].call)
          BY <3>1
        <4>4. QED
          BY <3>1, <4>1, <4>2, <4>3
      <3>2. CASE n # m + 1
        <4>1. n \in 0..m /\ g[n] = h[n]
          BY <1>2, <2>3, <3>2
        <4>2. n # 0 => n - 1 \in 0..(m + 1) /\ n - 1 # m + 1
          BY <1>2, <2>3, <3>2
        <4>3. n # 0 => g[n - 1] = h[n - 1]
          BY <4>2
        <4>4. QED
          BY <2>2, <4>1, <4>3
      <3>3. QED
        BY <3>1, <3>2
    <2>4. g = [n \in 0..(m + 1) |-> g[n]]
      OBVIOUS
    <2> HIDE DEF g
    <2>5. Runs(g, b, m + 1)
      BY <2>3, <2>4 DEF Runs
    <2>6. QED
      BY <1>2, <2>5
  <1> HIDE DEF T
  <1>3. k \in T
    BY <1>1, <1>2, NatSetInduction
  <1>4. QED
    BY <1>3 DEF T

\* Histories of the same calls are the same.
LEMMA RunsAgree ==
  ASSUME NEW b, NEW c, NEW g, NEW h, NEW k \in Nat, NEW m \in Nat,
         k <= m, Runs(g, b, k), Runs(h, c, m), Alike(b, c, k)
  PROVE  \A n \in 0..k : g[n] = h[n]
  <1> DEFINE T == {n \in Nat : n <= k => g[n] = h[n]}
  <1>1. /\ \A n \in 0..k : g[n] = IF n = 0 THEN Start ELSE Block(g[n - 1], n, b[n].call)
        /\ \A n \in 0..m : h[n] = IF n = 0 THEN Start ELSE Block(h[n - 1], n, c[n].call)
    BY DEF Runs
  <1>2. 0 \in T
    BY <1>1
  <1>3. ASSUME NEW n \in Nat, n \in T PROVE n + 1 \in T
    <2> SUFFICES ASSUME n + 1 <= k PROVE g[n + 1] = h[n + 1]
      OBVIOUS
    <2>1. n + 1 \in 0..k /\ n + 1 \in 0..m /\ n + 1 \in 1..k /\ n + 1 # 0 /\ (n + 1) - 1 = n
      OBVIOUS
    <2>2. g[n] = h[n]
      BY <1>3
    <2>3. g[n + 1] = Block(g[(n + 1) - 1], n + 1, b[n + 1].call)
      BY <1>1, <2>1
    <2>4. h[n + 1] = Block(h[(n + 1) - 1], n + 1, c[n + 1].call)
      BY <1>1, <2>1
    <2>5. b[n + 1] = c[n + 1]
      BY <2>1 DEF Alike
    <2>6. QED
      BY <2>1, <2>2, <2>3, <2>4, <2>5
  <1> HIDE DEF T
  <1>4. Nat \subseteq T
    BY <1>2, <1>3, NatSetInduction
  <1>5. QED
    BY <1>4 DEF T

\* Mined is the end of the history.
LEMMA MinedEnds ==
  ASSUME NEW b, NEW k \in Nat, k = Len(b)
  PROVE  \E h : Runs(h, b, k) /\ Mined(b) = h[k]
  <1>1. PICK h : h = CHOOSE g : Runs(g, b, k)
    OBVIOUS
  <1>2. Runs(h, b, k)
    BY <1>1, RunsUpTo
  <1>3. Mined(b) = h[k]
    BY <1>1 DEF Mined, Runs, Start
  <1>4. QED
    BY <1>2, <1>3

LEMMA MinedNone == Mined(<<>>) = Start
  <1>1. Len(<<>>) = 0 /\ 0 \in Nat
    OBVIOUS
  <1>2. PICK h : Runs(h, <<>>, 0) /\ Mined(<<>>) = h[0]
    BY <1>1, MinedEnds
  <1>3. h[0] = Start
    BY <1>2 DEF Runs
  <1>4. QED
    BY <1>2, <1>3

\* One block more.
LEMMA MinedNext ==
  ASSUME NEW R, NEW b \in Seq(R), NEW n \in Nat, n < Len(b)
  PROVE  Mined(SubSeq(b, 1, n + 1)) = Block(Mined(SubSeq(b, 1, n)), n + 1, b[n + 1].call)
  <1> PICK c, d : c = SubSeq(b, 1, n) /\ d = SubSeq(b, 1, n + 1)
    OBVIOUS
  <1>1. /\ Len(c) = n /\ Len(d) = n + 1
        /\ \A i \in 1..n : c[i] = b[i]
        /\ \A i \in 1..(n + 1) : d[i] = b[i]
    OBVIOUS
  <1>2. PICK g : Runs(g, c, n) /\ Mined(c) = g[n]
    BY <1>1, MinedEnds
  <1>4. n + 1 \in Nat /\ n <= n + 1 /\ n \in 0..n
    OBVIOUS
  <1>3. PICK h : Runs(h, d, n + 1) /\ Mined(d) = h[n + 1]
    BY <1>1, <1>4, MinedEnds
  <1>5. Alike(c, d, n)
    BY <1>1 DEF Alike
  <1>6. \A i \in 0..n : g[i] = h[i]
    <2>1. PICK m \in Nat : m = n + 1
      OBVIOUS
    <2>2. m \in Nat /\ n <= m /\ Runs(h, d, m) /\ Runs(g, c, n)
      BY <1>2, <1>3, <1>4, <2>1
    <2>3. QED
      BY <1>5, <2>2, RunsAgree
  <1>7. h[n + 1] = Block(h[n], n + 1, d[n + 1].call)
    <2>1. n + 1 \in 0..(n + 1) /\ n + 1 # 0 /\ (n + 1) - 1 = n
      OBVIOUS
    <2>2. h[n + 1] = Block(h[(n + 1) - 1], n + 1, d[n + 1].call)
      BY <1>3, <2>1 DEF Runs
    <2>3. QED
      BY <2>1, <2>2
  <1>8. d[n + 1] = b[n + 1]
    BY <1>1
  <1>9. QED
    BY <1>2, <1>3, <1>4, <1>6, <1>7, <1>8
-----------------------------------------------------------------------------
(* Sums over a log *)

Made == Calls \cup {FirstCalls[n] : n \in DOMAIN FirstCalls}
TaskNames == {c.task : c \in Made}
PoolEvent ==
  [name : {"DonationReceived"}, donation : Donations, purpose : 0..5, amount : Nat]
    \cup [name : {"DonationAllocated"}, donation : Donations, task : TaskNames, amount : Nat]
    \cup [name : {"TaskReleased"}, task : TaskNames, amount : Nat]
    \cup [name : {"DonationRefunded"}, donation : Donations, amount : Nat]
LogRow == [block : Nat, event : PoolEvent]

\* What the events `name` come to, over all and for one donation.
Paid(log, name) == Amount(log, Named(log, name))
PaidFor(log, name, d) == Amount(log, About(log, name, d))

\* The amounts of a log can be summed.
LEMMA AmountType ==
  ASSUME NEW log \in Seq(LogRow), NEW A \in SUBSET DOMAIN log
  PROVE  /\ Summable([i \in A |-> log[i].event.amount]) /\ Amount(log, A) \in Nat
         /\ \A i \in A : log[i].event.amount \in Nat
  <1> DEFINE f == [i \in A |-> log[i].event.amount]
  <1>1. \A i \in A : log[i] \in LogRow
    OBVIOUS
  <1>2. \A i \in A : log[i].event.amount \in Nat
    BY <1>1 DEF LogRow, PoolEvent
  <1>3. IsFiniteSet(A)
    <2>1. PICK n \in Nat : DOMAIN log = 1..n
      OBVIOUS
    <2>2. IsFiniteSet(1..n)
      BY FS_Interval
    <2>3. QED
      BY <2>1, <2>2, FS_Subset
  <1>4. DOMAIN f = A /\ f \in [DOMAIN f -> Nat]
    BY <1>2
  <1>5. Summable(f) /\ Total(f) \in Nat
    BY <1>3, <1>4, TotalNat
  <1>6. QED
    BY <1>2, <1>5 DEF Amount

\* Rows of one log and of what follows it.
LEMMA AmountJoin ==
  ASSUME NEW log \in Seq(LogRow), NEW es \in Seq(LogRow), NEW n, n = Len(log),
         NEW A \in SUBSET DOMAIN log, NEW B \in SUBSET DOMAIN es, NEW C,
         C = A \cup {n + i : i \in B}
  PROVE  Amount(log \o es, C) = Amount(log, A) + Amount(es, B)
  <1> PICK both : both = log \o es
    OBVIOUS
  <1>1. /\ both \in Seq(LogRow) /\ n \in Nat /\ DOMAIN log = 1..n
        /\ \A i \in DOMAIN log : i \in DOMAIN both /\ both[i] = log[i]
        /\ \A i \in DOMAIN es : n + i \in DOMAIN both /\ both[n + i] = es[i] /\ n + i > n /\ i \in Nat
    OBVIOUS
  <1>2. C \subseteq DOMAIN both /\ \A i \in B : n + i \notin A
    BY <1>1
  <1> DEFINE f == [i \in C |-> both[i].event.amount]
             g == [i \in C |-> IF i \in A THEN f[i] ELSE 0]
             h == [i \in C \ A |-> f[i]]
             a == [i \in A |-> log[i].event.amount]
             b == [i \in B |-> es[i].event.amount]
  <1>3. Summable(f) /\ \A i \in C : f[i] \in Nat
    BY <1>1, <1>2, AmountType
  <1>4. Summable(a) /\ Summable(b)
    BY AmountType
  <1>5. IsFiniteSet(C) /\ IsFiniteSet(C \ A)
    BY <1>3, FS_Subset DEF Summable
  <1>6. Summable(g) /\ Summable(h)
    BY <1>3, <1>5 DEF Summable
  <1>7. Total(f) = Total(g) + Total(h)
    <2>0. DOMAIN f = C
      OBVIOUS
    <2> HIDE DEF f
    <2>1. /\ DOMAIN g = DOMAIN f /\ DOMAIN h \subseteq DOMAIN f
          /\ \A i \in DOMAIN f : f[i] = g[i] + (IF i \in DOMAIN h THEN h[i] ELSE 0)
      BY <1>3, <2>0
    <2> HIDE DEF g, h
    <2>2. QED
      BY <1>3, <1>6, <2>1, TotalSplit
  <1>8. Total(a) = Total(g)
    <2>1. /\ DOMAIN a \subseteq DOMAIN g /\ a = [i \in DOMAIN a |-> g[i]]
          /\ \A i \in DOMAIN g \ DOMAIN a : g[i] = 0
      BY <1>1
    <2> HIDE DEF f, g, h, a
    <2>2. QED
      BY <1>6, <2>1, TotalSupport
  <1>9. Total(h) = Total(b)
    <2> DEFINE m == [i \in B |-> n + i]
    <2>1. /\ m \in [DOMAIN b -> DOMAIN h]
          /\ \A i \in DOMAIN b : h[m[i]] = b[i]
      BY <1>1, <1>2
    <2>2. \A i, j \in DOMAIN b : m[i] = m[j] => i = j
      BY <1>1
    <2>3. \A j \in DOMAIN h : \E i \in DOMAIN b : m[i] = j
      OBVIOUS
    <2>4. h = [j \in DOMAIN h |-> h[j]]
      OBVIOUS
    <2> HIDE DEF b, h, m
    <2>5. QED
      BY <1>4, <2>1, <2>2, <2>3, <2>4, TotalReindexed
  <1>10. Total(f) = Total(a) + Total(b)
    BY <1>7, <1>8, <1>9
  <1>11. QED
    BY <1>10 DEF Amount

\* What follows a log adds to its sums.
LEMMA PaidJoin ==
  ASSUME NEW log \in Seq(LogRow), NEW es \in Seq(LogRow)
  PROVE  /\ \A name : Paid(log \o es, name) = Paid(log, name) + Paid(es, name)
         /\ \A name, d : PaidFor(log \o es, name, d) = PaidFor(log, name, d) + PaidFor(es, name, d)
  <1> PICK both, n : both = log \o es /\ n = Len(log)
    OBVIOUS
  <1>1. /\ n \in Nat /\ DOMAIN log = 1..n
        /\ DOMAIN both = DOMAIN log \cup {n + i : i \in DOMAIN es}
        /\ \A i \in DOMAIN log : both[i] = log[i]
        /\ \A i \in DOMAIN es : both[n + i] = es[i]
    <2>1. /\ n \in Nat /\ DOMAIN log = 1..n /\ Len(es) \in Nat /\ DOMAIN es = 1..Len(es)
          /\ DOMAIN both = 1..(n + Len(es))
          /\ \A i \in DOMAIN log : both[i] = log[i]
          /\ \A i \in DOMAIN es : both[n + i] = es[i]
      OBVIOUS
    <2>2. ASSUME NEW j \in 1..(n + Len(es)), j \notin 1..n
          PROVE  \E i \in 1..Len(es) : j = n + i
      <3>1. j - n \in 1..Len(es) /\ j = n + (j - n)
        BY <2>1, <2>2
      <3>2. QED
        BY <3>1
    <2>3. \A i \in 1..n : i \in 1..(n + Len(es))
      BY <2>1
    <2>4. \A i \in 1..Len(es) : n + i \in 1..(n + Len(es))
      BY <2>1
    <2>5. DOMAIN both = DOMAIN log \cup {n + i : i \in DOMAIN es}
      <3>1. \A j \in DOMAIN both : j \in DOMAIN log \/ \E i \in DOMAIN es : j = n + i
        BY <2>1, <2>2
      <3>2. \A j \in DOMAIN log : j \in DOMAIN both
        BY <2>1, <2>3
      <3>3. \A i \in DOMAIN es : n + i \in DOMAIN both
        BY <2>1, <2>4
      <3>4. QED
        BY <3>1, <3>2, <3>3
    <2>6. QED
      BY <2>1, <2>5
  <1>2. ASSUME NEW name PROVE Paid(both, name) = Paid(log, name) + Paid(es, name)
    <2>1. Named(both, name) = Named(log, name) \cup {n + i : i \in Named(es, name)}
      BY <1>1 DEF Named
    <2>2. Named(log, name) \subseteq DOMAIN log /\ Named(es, name) \subseteq DOMAIN es
      BY DEF Named
    <2>3. QED
      BY <2>1, <2>2, AmountJoin DEF Paid
  <1>3. ASSUME NEW name, NEW d PROVE PaidFor(both, name, d) = PaidFor(log, name, d) + PaidFor(es, name, d)
    <2>1. About(both, name, d) = About(log, name, d) \cup {n + i : i \in About(es, name, d)}
      BY <1>1 DEF About, Named
    <2>2. About(log, name, d) \subseteq DOMAIN log /\ About(es, name, d) \subseteq DOMAIN es
      BY DEF About, Named
    <2>3. QED
      BY <2>1, <2>2, AmountJoin DEF PaidFor
  <1>4. QED
    BY <1>2, <1>3

\* What one row comes to.
LEMMA PaidOne ==
  ASSUME NEW r \in LogRow
  PROVE  /\ \A name : Paid(<<r>>, name) = IF r.event.name = name THEN r.event.amount ELSE 0
         /\ \A name, d : PaidFor(<<r>>, name, d) =
              IF r.event.name = name /\ r.event.donation = d THEN r.event.amount ELSE 0
  <1> PICK s : s = <<r>>
    OBVIOUS
  <1>1. s \in Seq(LogRow) /\ DOMAIN s = {1} /\ s[1] = r
    OBVIOUS
  <1>2. ASSUME NEW A \in SUBSET {1}
        PROVE  Amount(s, A) = IF 1 \in A THEN r.event.amount ELSE 0
    <2> DEFINE f == [i \in A |-> s[i].event.amount]
    <2>1. Summable(f)
      BY <1>1, AmountType
    <2>2. CASE 1 \in A
      <3>1. A = {1} /\ r.event.amount \in Nat
        BY <1>1, <2>2, AmountType
      <3>2. DOMAIN Drop(f, 1) = {} /\ f[1] = r.event.amount /\ 1 \in DOMAIN f
        BY <1>1, <3>1 DEF Drop
      <3> HIDE DEF f
      <3>3. Total(f) = r.event.amount + Total(Drop(f, 1)) /\ Total(Drop(f, 1)) = 0
        BY <2>1, <3>2, TotalDrop, TotalEmpty
      <3>4. Total(f) = r.event.amount
        BY <3>1, <3>3
      <3>5. QED
        BY <2>2, <3>4 DEF Amount, f
    <2>3. CASE 1 \notin A
      <3>1. DOMAIN f = {}
        BY <2>3
      <3> HIDE DEF f
      <3>2. Total(f) = 0
        BY <3>1, TotalEmpty
      <3>3. QED
        BY <2>3, <3>2 DEF Amount, f
    <2>4. QED
      BY <2>2, <2>3
  <1>3. ASSUME NEW name PROVE Paid(s, name) = IF r.event.name = name THEN r.event.amount ELSE 0
    <2>1. Named(s, name) \in SUBSET {1} /\ (1 \in Named(s, name) <=> r.event.name = name)
      BY <1>1 DEF Named
    <2>2. QED
      BY <1>2, <2>1 DEF Paid
  <1>4. ASSUME NEW name, NEW d
        PROVE  PaidFor(s, name, d) =
                 IF r.event.name = name /\ r.event.donation = d THEN r.event.amount ELSE 0
    <2>1. /\ About(s, name, d) \in SUBSET {1}
          /\ 1 \in About(s, name, d) <=> r.event.name = name /\ r.event.donation = d
      BY <1>1 DEF About, Named
    <2>2. QED
      BY <1>2, <2>1 DEF PaidFor
  <1>5. QED
    BY <1>3, <1>4
-----------------------------------------------------------------------------
(* The books of the pool contract *)

PoolTask == [id : TaskNames, purpose : 1..5, urgency : 1..3, target : Nat, allocated : Nat,
             released : Nat, active : BOOLEAN]
PoolDonation == [purpose : 0..5, amount : Nat, unallocated : Nat]

\* What the tasks hold, and what is left of the donations.
Kept(pool) == Total([i \in DOMAIN pool.tasks |->
                       pool.tasks[i].allocated - pool.tasks[i].released])
Left(pool) == Total([d \in DOMAIN pool.donations |-> pool.donations[d].unallocated])

\* The tasks and the donations add up to the pool's totals.
PoolTypeOK(pool) ==
  /\ pool \in [tasks : Seq(PoolTask), donations : {pool.donations}, donated : Nat,
               allocated : Nat, released : Nat, refunded : Nat]
  /\ Table(pool.donations, Donations, PoolDonation)
TasksOK(pool) ==
  /\ \A i, j \in DOMAIN pool.tasks : pool.tasks[i].id = pool.tasks[j].id => i = j
  /\ \A i \in DOMAIN pool.tasks : /\ pool.tasks[i].released <= pool.tasks[i].allocated
                                  /\ pool.tasks[i].allocated <= pool.tasks[i].target
PoolOK(pool) ==
  /\ PoolTypeOK(pool) /\ TasksOK(pool)
  /\ Kept(pool) = pool.allocated - pool.released
  /\ Left(pool) = pool.donated - pool.allocated - pool.refunded

\* The contract never holds less than nothing of a total.
LEMMA PoolSolvent ==
  ASSUME NEW pool, PoolOK(pool)
  PROVE  pool.donated >= pool.allocated + pool.refunded /\ pool.allocated >= pool.released
  <1> DEFINE f == [i \in DOMAIN pool.tasks |-> pool.tasks[i].allocated - pool.tasks[i].released]
             g == [d \in DOMAIN pool.donations |-> pool.donations[d].unallocated]
  <1>1. \A i \in DOMAIN pool.tasks : pool.tasks[i] \in PoolTask
    BY DEF PoolOK, PoolTypeOK
  <1>2. f \in [DOMAIN f -> Nat] /\ IsFiniteSet(DOMAIN f)
    <2>1. \A i \in DOMAIN pool.tasks : pool.tasks[i].allocated - pool.tasks[i].released \in Nat
      BY <1>1 DEF PoolOK, TasksOK, PoolTask
    <2>2. PICK n \in Nat : DOMAIN pool.tasks = 1..n
      BY DEF PoolOK, PoolTypeOK
    <2>3. IsFiniteSet(1..n)
      BY FS_Interval
    <2>4. QED
      BY <2>1, <2>2, <2>3
  <1>3. g \in [DOMAIN g -> Nat] /\ IsFiniteSet(DOMAIN g)
    BY DEF PoolOK, PoolTypeOK, Table, PoolDonation
  <1> HIDE DEF f, g
  <1>4. Total(f) \in Nat /\ Total(g) \in Nat
    BY <1>2, <1>3, TotalNat
  <1>5. Kept(pool) \in Nat /\ Left(pool) \in Nat
    BY <1>4 DEF Kept, Left, f, g
  <1>6. QED
    BY <1>5 DEF PoolOK, PoolTypeOK

\* What the tasks hold can be summed.
LEMMA KeptSums ==
  ASSUME NEW tasks2 \in Seq(PoolTask)
  PROVE  /\ Summable([i \in DOMAIN tasks2 |-> tasks2[i].allocated - tasks2[i].released])
         /\ \A i \in DOMAIN tasks2 : tasks2[i] \in PoolTask
  <1>1. \A i \in DOMAIN tasks2 : tasks2[i] \in PoolTask
    OBVIOUS
  <1>2. \A i \in DOMAIN tasks2 : tasks2[i].allocated - tasks2[i].released \in Int
    BY <1>1 DEF PoolTask
  <1>3. PICK n \in Nat : DOMAIN tasks2 = 1..n
    OBVIOUS
  <1>4. IsFiniteSet(1..n)
    BY FS_Interval
  <1>5. QED
    BY <1>1, <1>2, <1>3, <1>4 DEF Summable

\* Configuring a task moves no money.
LEMMA ConfiguredOK ==
  ASSUME SyncAssumption, NEW pool, PoolOK(pool), NEW call \in Made, CallOK(call),
         call.name = "configureTask", Admitted(pool, call),
         NEW after, after = Configured(pool, call)
  PROVE  /\ PoolOK(after)
         /\ after.donations = pool.donations /\ after.donated = pool.donated
         /\ after.allocated = pool.allocated /\ after.released = pool.released
         /\ after.refunded = pool.refunded
  <1> PICK t, n, c, fresh :
        /\ t = pool.tasks /\ n = Len(t) /\ c = call
        /\ fresh = [id |-> c.task, purpose |-> c.purpose, urgency |-> c.urgency,
                    target |-> c.target, allocated |-> 0, released |-> 0,
                    active |-> c.active]
    OBVIOUS
  <1> DEFINE Held2(s) == [i \in DOMAIN s |-> s[i].allocated - s[i].released]
  <1>1. t \in Seq(PoolTask) /\ n \in Nat /\ DOMAIN t = 1..n /\ \A i \in 1..n : t[i] \in PoolTask
    BY DEF PoolOK, PoolTypeOK
  <1>2. /\ fresh \in PoolTask
        /\ c.target \in Nat
        /\ fresh.id = c.task /\ fresh.allocated = 0 /\ fresh.released = 0
        /\ fresh.target = c.target
    BY DEF CallOK, PoolTask, TaskNames
  <1>3. /\ pool \in [tasks : Seq(PoolTask), donations : {pool.donations}, donated : Nat,
                     allocated : Nat, released : Nat, refunded : Nat]
        /\ Table(pool.donations, Donations, PoolDonation)
        /\ pool.donated \in Nat /\ pool.allocated \in Nat
        /\ pool.released \in Nat /\ pool.refunded \in Nat
        /\ Kept(pool) = pool.allocated - pool.released
        /\ Left(pool) = pool.donated - pool.allocated - pool.refunded
    BY DEF PoolOK, PoolTypeOK
  <1>4. /\ \A i, j \in 1..n : t[i].id = t[j].id => i = j
        /\ \A i \in 1..n : t[i].released <= t[i].allocated /\ t[i].allocated <= t[i].target
    BY <1>1 DEF PoolOK, TasksOK
  <1> DEFINE With(s) == [tasks |-> s, donations |-> pool.donations, donated |-> pool.donated,
                         allocated |-> pool.allocated, released |-> pool.released,
                         refunded |-> pool.refunded]
  <1>5. ASSUME NEW s \in Seq(PoolTask), TasksOK(With(s)), Total(Held2(s)) = Total(Held2(t)),
               after = With(s)
        PROVE  PoolOK(after)
    <2>1. Kept(after) = Kept(pool) /\ Left(after) = Left(pool)
      BY <1>5 DEF Kept, Left
    <2>2. QED
      BY <1>3, <1>5, <2>1 DEF PoolOK, PoolTypeOK
  <1>6. ASSUME IndexOf(pool, call.task) = {} PROVE PoolOK(after)
    <2>1. PICK s : s = Append(t, fresh)
      OBVIOUS
    <2>2. /\ s \in Seq(PoolTask) /\ DOMAIN s = 1..(n + 1) /\ s[n + 1] = fresh
          /\ \A i \in 1..n : s[i] = t[i]
      BY <1>1, <1>2, <2>1
    <2>3. after = [pool EXCEPT !.tasks = Append(@, fresh)]
      BY <1>6 DEF Configured
    <2>4. after = With(s)
      <3>1. after = [pool EXCEPT !.tasks = s]
        BY <1>3, <2>1, <2>3
      <3>2. QED
        BY <1>3, <3>1
    <2>5. \A i \in 1..n : t[i].id # c.task
      BY <1>1, <1>6 DEF IndexOf
    <2>6. TasksOK(With(s))
      <3>1. \A i \in 1..(n + 1) : i = n + 1 \/ i \in 1..n
        <4>1. n \in Nat
          BY <1>1
        <4>2. QED
          BY <4>1
      <3>2. ASSUME NEW i \in 1..(n + 1), NEW j \in 1..(n + 1), s[i].id = s[j].id PROVE i = j
        <4>1. CASE i = n + 1 /\ j \in 1..n
          BY <1>2, <2>2, <2>5, <3>2, <4>1
        <4>2. CASE j = n + 1 /\ i \in 1..n
          BY <1>2, <2>2, <2>5, <3>2, <4>2
        <4>3. CASE i \in 1..n /\ j \in 1..n
          BY <1>4, <2>2, <3>2, <4>3
        <4>4. QED
          BY <3>1, <4>1, <4>2, <4>3
      <3>3. ASSUME NEW i \in 1..(n + 1)
            PROVE s[i].released <= s[i].allocated /\ s[i].allocated <= s[i].target
        <4>1. CASE i = n + 1
          BY <1>2, <2>2, <4>1
        <4>2. CASE i \in 1..n
          BY <1>4, <2>2, <4>2
        <4>3. QED
          BY <3>1, <4>1, <4>2
      <3>4. QED
        BY <2>2, <3>2, <3>3 DEF TasksOK
    <2>7. Total(Held2(s)) = Total(Held2(t))
      <3>1. PICK f, g : f = Held2(t) /\ g = Held2(s)
        OBVIOUS
      <3>2. /\ Summable(f) /\ DOMAIN f = 1..n /\ DOMAIN g = 1..(n + 1)
        BY <1>1, <2>2, <3>1, KeptSums
      <3>3. Summable(g) /\ \A i \in 1..n : g[i] = f[i]
        <4>1. Summable(g)
          BY <2>2, <3>1, KeptSums
        <4>2. \A i \in 1..n : g[i] = s[i].allocated - s[i].released
          BY <2>2, <3>1, <3>2
        <4>3. \A i \in 1..n : f[i] = t[i].allocated - t[i].released
          BY <1>1, <3>1
        <4>4. \A i \in 1..n : s[i] = t[i]
          BY <2>2
        <4>5. \A i \in 1..n : g[i] = f[i]
          BY <4>2, <4>3, <4>4
        <4>6. QED
          BY <4>1, <4>5
      <3>4. PICK k : k = n + 1
        OBVIOUS
      <3>5. /\ k \notin DOMAIN f /\ DOMAIN g = DOMAIN f \cup {k} /\ k \in DOMAIN g
            /\ \A i \in DOMAIN f : i # k => g[i] = f[i]
        BY <1>1, <3>2, <3>3, <3>4
      <3>6. g[k] = 0
        BY <1>2, <2>2, <3>1, <3>4, <3>5
      <3> HIDE DEF Held2
      <3>7. Total(g) = Total(f) - Entry(f, k) + g[k] /\ Total(f) \in Int
        BY <3>2, <3>3, <3>5, ColumnChange
      <3>8. QED
        BY <3>1, <3>5, <3>6, <3>7 DEF Entry
    <2> HIDE DEF With, Held2
    <2>8. QED
      BY <1>5, <2>2, <2>4, <2>6, <2>7
  <1>7. ASSUME IndexOf(pool, call.task) # {} PROVE PoolOK(after)
    <2> DEFINE Changed(i) == [id |-> c.task, purpose |-> c.purpose, urgency |-> c.urgency,
                              target |-> c.target, allocated |-> t[i].allocated,
                              released |-> t[i].released, active |-> c.active]
    <2>1. PICK s : s = [i \in DOMAIN t |-> IF t[i].id # c.task THEN t[i] ELSE Changed(i)]
      OBVIOUS
    <2>2. /\ DOMAIN s = 1..n
          /\ \A i \in 1..n : s[i] = IF t[i].id # c.task THEN t[i] ELSE Changed(i)
          /\ \A i \in 1..n : Changed(i) \in PoolTask
      BY <1>1, <1>2, <2>1 DEF PoolTask
    <2>3. s \in Seq(PoolTask)
      BY <1>1, <2>1, <2>2
    <2>4. after = With(s)
      <3>1. after = [pool EXCEPT !.tasks = s]
        BY <1>3, <1>7, <2>1 DEF Configured
      <3>2. QED
        BY <1>3, <3>1
    <2>5. \A i \in 1..n : t[i].id = c.task => t[i].allocated <= c.target
      <3>1. \A i \in IndexOf(pool, call.task) : call.target >= pool.tasks[i].allocated
        BY <1>7 DEF Admitted
      <3>2. QED
        BY <1>1, <1>2, <3>1 DEF IndexOf, PoolTask
    <2>6. /\ \A i \in 1..n : s[i].id = t[i].id /\ s[i].allocated = t[i].allocated
                              /\ s[i].released = t[i].released
          /\ \A i \in 1..n : s[i].allocated <= s[i].target
      <3>1. ASSUME NEW i \in 1..n
            PROVE  /\ s[i].id = t[i].id /\ s[i].allocated = t[i].allocated
                   /\ s[i].released = t[i].released /\ s[i].allocated <= s[i].target
        <4>1. CASE t[i].id # c.task
          BY <1>4, <2>2, <4>1
        <4>2. CASE t[i].id = c.task
          <5>1. s[i] = Changed(i) /\ t[i].allocated <= c.target
            BY <2>2, <2>5, <4>2
          <5>2. QED
            BY <4>2, <5>1
        <4>3. QED
          BY <4>1, <4>2
      <3>2. QED
        BY <3>1
    <2>7. TasksOK(With(s))
      <3>1. /\ \A i, j \in DOMAIN s : s[i].id = s[j].id => i = j
            /\ \A i \in DOMAIN s : s[i].released <= s[i].allocated /\ s[i].allocated <= s[i].target
        BY <1>4, <2>2, <2>6
      <3>2. QED
        BY <3>1 DEF TasksOK
    <2>8. Held2(s) = Held2(t)
      BY <1>1, <2>2, <2>6
    <2> HIDE DEF With, Held2
    <2>9. QED
      BY <1>5, <2>3, <2>4, <2>7, <2>8
  <1>8. after.donations = pool.donations /\ after.donated = pool.donated
        /\ after.allocated = pool.allocated /\ after.released = pool.released
        /\ after.refunded = pool.refunded
    BY <1>3 DEF Configured
  <1>9. QED
    BY <1>6, <1>7, <1>8

\* Urgency and registration rank any tasks linearly.
Order(t, D) == {p \in D \X D : Earlier(t, p[1], p[2])}
LEMMA EarlierLinear ==
  ASSUME NEW t \in Seq(PoolTask), NEW D \in SUBSET DOMAIN t, NEW r, r = Order(t, D)
  PROVE  LinearOrder(r, D) /\ \A i, j \in D : <<i, j>> \in r <=> Earlier(t, i, j)
  <1>1. \A i, j \in D : <<i, j>> \in r <=> Earlier(t, i, j)
    BY DEF Order
  <1>2. \A i \in D : t[i].urgency \in Int /\ i \in Int
    <2>1. PICK n \in Nat : DOMAIN t = 1..n
      OBVIOUS
    <2>2. \A i \in 1..n : t[i] \in PoolTask
      BY <2>1
    <2>3. ASSUME NEW i \in D PROVE t[i].urgency \in Int /\ i \in Int
      <3>1. i \in 1..n /\ t[i] \in PoolTask
        BY <2>1, <2>2
      <3>2. QED
        BY <3>1 DEF PoolTask
    <2>4. QED
      BY <2>3
  <1>3. \A i \in D : <<i, i>> \notin r
    BY <1>1, <1>2 DEF Earlier
  <1>4. \A i, j, k \in D : <<i, j>> \in r /\ <<j, k>> \in r => <<i, k>> \in r
    BY <1>1, <1>2 DEF Earlier
  <1>5. ASSUME NEW i \in D, NEW j \in D, i # j PROVE <<i, j>> \in r \/ <<j, i>> \in r
    <2>1. Earlier(t, i, j) \/ Earlier(t, j, i)
      <3>1. t[i].urgency \in Int /\ t[j].urgency \in Int /\ i \in Int /\ j \in Int
        BY <1>2
      <3>2. QED
        BY <1>5, <3>1 DEF Earlier
    <2>2. QED
      BY <1>1, <2>1
  <1>6. QED
    BY <1>1, <1>3, <1>4, <1>5 DEF LinearOrder, StrictOrder

\* What a donation is split into.
Split(pool, d, portions) ==
  /\ DOMAIN portions \subseteq DOMAIN pool.tasks /\ IsFiniteSet(DOMAIN portions)
  /\ portions = [i \in DOMAIN portions |-> portions[i]]
  /\ Summable(portions) /\ Total(portions) \in Nat
  /\ Total(portions) <= pool.donations[d].unallocated
  /\ \A i \in DOMAIN portions :
       /\ portions[i] \in Nat
       /\ pool.tasks[i].allocated + portions[i] <= pool.tasks[i].target

\* The portions fit the tasks and the donation.
LEMMA PortionsType ==
  ASSUME NEW pool, PoolOK(pool), NEW d \in DOMAIN pool.donations,
         NEW portions, portions = Portions(pool.tasks, pool.donations[d])
  PROVE  Split(pool, d, portions)
  <1> PICK t, n, cap, D, r, amount :
        /\ t = pool.tasks /\ n = Len(t) /\ cap = Budgets(t, pool.donations[d].purpose)
        /\ D = DOMAIN cap /\ r = Order(t, D)
        /\ amount = pool.donations[d].unallocated
    OBVIOUS
  <1>1. /\ t \in Seq(PoolTask) /\ n \in Nat /\ DOMAIN t = 1..n /\ \A i \in 1..n : t[i] \in PoolTask
        /\ \A i \in 1..n : t[i].allocated <= t[i].target
    BY DEF PoolOK, PoolTypeOK, TasksOK
  <1>2. amount \in Nat
    BY DEF PoolOK, PoolTypeOK, Table, PoolDonation
  <1>3. /\ D \subseteq DOMAIN t
        /\ cap = [i \in D |-> t[i].target - t[i].allocated]
    BY DEF Budgets
  <1>4. Capacity(cap)
    <2>1. \A i \in D : cap[i] \in Nat
      BY <1>1, <1>3 DEF PoolTask
    <2>2. IsFiniteSet(D)
      BY <1>1, <1>3, FS_Interval, FS_Subset
    <2>3. QED
      BY <1>3, <2>1, <2>2 DEF Capacity
  <1>5. LinearOrder(r, D)
    BY <1>1, <1>3, EarlierLinear
  <1>6. portions = Greedy(amount, cap, r)
    BY DEF Portions, Ranking, Order
  <1>7. /\ Summable(portions) /\ Total(portions) \in Nat /\ Total(portions) <= amount
    BY <1>2, <1>4, <1>5, <1>6, GreedyBound
  <1>8. \A i \in DOMAIN portions : /\ i \in DOMAIN cap /\ portions[i] \in Nat
                                   /\ portions[i] <= cap[i]
    BY <1>2, <1>4, <1>6, GreedyType
  <1>9. portions = [i \in DOMAIN portions |-> portions[i]]
    BY <1>6 DEF Greedy
  <1>10. \A i \in DOMAIN portions : t[i].allocated + portions[i] <= t[i].target
    <2>1. ASSUME NEW i \in DOMAIN portions PROVE t[i].allocated + portions[i] <= t[i].target
      <3>1. /\ t[i] \in PoolTask /\ cap[i] = t[i].target - t[i].allocated
            /\ portions[i] \in Nat /\ portions[i] <= cap[i]
        BY <1>1, <1>3, <1>8
      <3>2. QED
        BY <3>1 DEF PoolTask
    <2>2. QED
      BY <2>1
  <1>11. QED
    BY <1>3, <1>7, <1>8, <1>9, <1>10 DEF Split, Summable

\* The portions are handed out one after the other, each once.
LEMMA VisitedLists ==
  ASSUME NEW t \in Seq(PoolTask), NEW portions, DOMAIN portions \subseteq DOMAIN t,
         IsFiniteSet(DOMAIN portions), NEW n, n = Cardinality(DOMAIN portions),
         NEW s, s = Visited(t, portions)
  PROVE  /\ n \in Nat /\ s \in [1..n -> DOMAIN portions]
         /\ \A i, j \in 1..n : s[i] = s[j] => i = j
         /\ \A x \in DOMAIN portions : \E i \in 1..n : s[i] = x
  <1> PICK D, r : D = DOMAIN portions /\ r = Order(t, D)
    OBVIOUS
  <1>1. LinearOrder(r, D) /\ n \in Nat
    BY EarlierLinear, FS_CardinalityType
  <1>2. \A x, y \in D : <<x, y>> \in r <=> Earlier(t, x, y)
    BY EarlierLinear
  <1>3. \E q \in [1..n -> D] : \A i, j \in 1..n : i < j => <<q[i], q[j]>> \in r
    BY <1>1, Enumeration
  <1>4. PICK q \in [1..n -> D] : \A i, j \in DOMAIN q : i < j => Earlier(t, q[i], q[j])
    BY <1>2, <1>3
  <1>5. s \in [1..n -> D] /\ \A i, j \in DOMAIN s : i < j => Earlier(t, s[i], s[j])
    BY <1>4 DEF Visited
  <1>6. \A i, j \in 1..n : i < j => <<s[i], s[j]>> \in r
    BY <1>2, <1>5
  <1>7. IsFiniteSet(D) /\ n = Cardinality(D) /\ s \in [1..n -> D]
    BY <1>5
  <1> HIDE DEF Visited
  <1>8. Ascends(s, n, D, r)
    BY <1>6, <1>7 DEF Ascends
  <1>9. Lists(s, n, D)
    BY <1>1, <1>7, <1>8, ListsAll
  <1>10. QED
    BY <1>1, <1>7, <1>9 DEF Lists

\* The pool once donation d was split.
SplitPool(pool, d, portions) ==
  [tasks |-> [i \in DOMAIN pool.tasks |->
     IF i \in DOMAIN portions
     THEN [id |-> pool.tasks[i].id, purpose |-> pool.tasks[i].purpose,
           urgency |-> pool.tasks[i].urgency, target |-> pool.tasks[i].target,
           allocated |-> pool.tasks[i].allocated + portions[i],
           released |-> pool.tasks[i].released, active |-> pool.tasks[i].active]
     ELSE pool.tasks[i]],
   donations |-> [e \in DOMAIN pool.donations |->
     IF e = d THEN [purpose |-> pool.donations[d].purpose, amount |-> pool.donations[d].amount,
                    unallocated |-> pool.donations[d].unallocated - Total(portions)]
              ELSE pool.donations[e]],
   donated |-> pool.donated, allocated |-> pool.allocated + Total(portions),
   released |-> pool.released, refunded |-> pool.refunded]

LEMMA DistributedIs ==
  ASSUME NEW pool, PoolOK(pool), NEW d \in DOMAIN pool.donations,
         NEW portions, portions = Portions(pool.tasks, pool.donations[d])
  PROVE  Distributed(pool, d).pool = SplitPool(pool, d, portions)
  <1> PICK moved, t, ds : /\ moved = Total(portions) /\ t = pool.tasks
                          /\ ds = pool.donations
    OBVIOUS
  <1>1. /\ \A i \in DOMAIN t : t[i] \in PoolTask
        /\ \A e \in DOMAIN ds : ds[e] \in PoolDonation
        /\ ds = [e \in DOMAIN ds |-> ds[e]]
        /\ pool \in [tasks : Seq(PoolTask), donations : {pool.donations}, donated : Nat,
                     allocated : Nat, released : Nat, refunded : Nat]
    BY DEF PoolOK, PoolTypeOK, Table
  <1> DEFINE tasks2 == [i \in DOMAIN t |-> IF i \in DOMAIN portions
                                           THEN [t[i] EXCEPT !.allocated = @ + portions[i]]
                                           ELSE t[i]]
             tasks3 == [i \in DOMAIN t |->
               IF i \in DOMAIN portions
               THEN [id |-> t[i].id, purpose |-> t[i].purpose, urgency |-> t[i].urgency,
                     target |-> t[i].target, allocated |-> t[i].allocated + portions[i],
                     released |-> t[i].released, active |-> t[i].active]
               ELSE t[i]]
             ds2 == [ds EXCEPT ![d].unallocated = @ - moved]
             ds3 == [e \in DOMAIN ds |->
               IF e = d THEN [purpose |-> ds[d].purpose, amount |-> ds[d].amount,
                              unallocated |-> ds[d].unallocated - moved]
                        ELSE ds[e]]
  <1>2. tasks2 = tasks3
    <2>1. ASSUME NEW x \in PoolTask, NEW v
          PROVE  [x EXCEPT !.allocated = v] =
                   [id |-> x.id, purpose |-> x.purpose, urgency |-> x.urgency,
                    target |-> x.target, allocated |-> v,
                    released |-> x.released, active |-> x.active]
      BY DEF PoolTask
    <2>2. QED
      BY <1>1, <2>1
  <1>3. ds2 = ds3
    <2>1. ASSUME NEW x \in PoolDonation, NEW v
          PROVE  [x EXCEPT !.unallocated = v] =
                   [purpose |-> x.purpose, amount |-> x.amount, unallocated |-> v]
      BY DEF PoolDonation
    <2>2. ds2 = [e \in DOMAIN ds |-> IF e = d THEN [ds[d] EXCEPT !.unallocated = @ - moved]
                                              ELSE ds[e]]
      BY <1>1
    <2>3. QED
      BY <1>1, <2>1, <2>2
  <1>4. Distributed(pool, d).pool =
          [pool EXCEPT !.tasks = tasks2, !.donations = ds2, !.allocated = @ + moved]
    <2>1. Distributed(pool, d).pool = SplitUp(pool, d, portions)
      BY DEF Distributed, HandedOut
    <2>2. SplitUp(pool, d, portions) =
            [pool EXCEPT
               !.tasks = [i \in DOMAIN pool.tasks |->
                 IF i \in DOMAIN portions
                 THEN [pool.tasks[i] EXCEPT !.allocated = @ + portions[i]] ELSE pool.tasks[i]],
               !.donations = [pool.donations EXCEPT ![d].unallocated = @ - Total(portions)],
               !.allocated = @ + Total(portions)]
      BY DEF SplitUp
    <2>3. QED
      BY <1>1, <2>1, <2>2
  <1>5. SplitPool(pool, d, portions) =
          [tasks |-> tasks3, donations |-> ds3, donated |-> pool.donated,
           allocated |-> pool.allocated + moved, released |-> pool.released,
           refunded |-> pool.refunded]
    BY DEF SplitPool
  <1> HIDE DEF tasks2, tasks3, ds2, ds3
  <1>6. QED
    BY <1>1, <1>2, <1>3, <1>4, <1>5

\* Splitting a donation keeps the books.
LEMMA SplitOK ==
  ASSUME NEW pool, PoolOK(pool), NEW d \in DOMAIN pool.donations,
         NEW portions, Split(pool, d, portions),
         NEW after, after = SplitPool(pool, d, portions)
  PROVE  PoolOK(after)
  <1> PICK t, n, s, ds, es, moved :
        /\ t = pool.tasks /\ n = Len(t) /\ s = after.tasks /\ ds = pool.donations
        /\ es = after.donations /\ moved = Total(portions)
    OBVIOUS
  <1>1. /\ t \in Seq(PoolTask) /\ n \in Nat /\ DOMAIN t = 1..n /\ \A i \in 1..n : t[i] \in PoolTask
        /\ Table(ds, Donations, PoolDonation) /\ d \in DOMAIN ds
        /\ pool.donated \in Nat /\ pool.allocated \in Nat
        /\ pool.released \in Nat /\ pool.refunded \in Nat
        /\ Kept(pool) = pool.allocated - pool.released
        /\ Left(pool) = pool.donated - pool.allocated - pool.refunded
    BY DEF PoolOK, PoolTypeOK
  <1>2. /\ \A i, j \in 1..n : t[i].id = t[j].id => i = j
        /\ \A i \in 1..n : t[i].released <= t[i].allocated /\ t[i].allocated <= t[i].target
    BY <1>1 DEF PoolOK, TasksOK
  <1>3. /\ DOMAIN portions \subseteq 1..n /\ Summable(portions) /\ moved \in Nat
        /\ moved <= ds[d].unallocated
        /\ \A i \in DOMAIN portions : portions[i] \in Nat /\ t[i].allocated + portions[i] <= t[i].target
    BY <1>1 DEF Split
  <1>4. /\ after.donated = pool.donated /\ after.allocated = pool.allocated + moved
        /\ after.released = pool.released /\ after.refunded = pool.refunded
        /\ after = [tasks |-> after.tasks, donations |-> after.donations,
                    donated |-> after.donated, allocated |-> after.allocated,
                    released |-> after.released, refunded |-> after.refunded]
        /\ s = [i \in 1..n |-> s[i]] /\ es = [e \in DOMAIN ds |-> es[e]]
    BY <1>1 DEF SplitPool
  <1>5. ASSUME NEW i \in 1..n
        PROVE  /\ s[i] \in PoolTask /\ s[i].id = t[i].id /\ s[i].released = t[i].released
               /\ s[i].target = t[i].target
               /\ s[i].allocated = t[i].allocated + Entry(portions, i)
               /\ s[i].released <= s[i].allocated /\ s[i].allocated <= s[i].target
    <2>1. CASE i \in DOMAIN portions
      <3>1. s[i] = [id |-> t[i].id, purpose |-> t[i].purpose, urgency |-> t[i].urgency,
                    target |-> t[i].target, allocated |-> t[i].allocated + portions[i],
                    released |-> t[i].released, active |-> t[i].active]
        BY <1>1, <2>1 DEF SplitPool
      <3>2. t[i] \in PoolTask /\ portions[i] \in Nat /\ t[i].allocated + portions[i] <= t[i].target
        BY <1>1, <1>3, <2>1
      <3>3. t[i].released <= t[i].allocated
        BY <1>2
      <3>4. QED
        BY <2>1, <3>1, <3>2, <3>3 DEF PoolTask, Entry
    <2>2. CASE i \notin DOMAIN portions
      <3>1. s[i] = t[i]
        BY <1>1, <2>2 DEF SplitPool
      <3>2. t[i] \in PoolTask
        BY <1>1
      <3>3. QED
        BY <1>2, <2>2, <3>1, <3>2 DEF PoolTask, Entry
    <2>3. QED
      BY <2>1, <2>2
  <1>6. /\ \A e \in DOMAIN ds : e # d => es[e] = ds[e]
        /\ es[d] = [purpose |-> ds[d].purpose, amount |-> ds[d].amount,
                    unallocated |-> ds[d].unallocated - moved]
    BY <1>1 DEF SplitPool
  <1>7. Table(es, Donations, PoolDonation)
    <2>1. ds[d] \in PoolDonation
      BY <1>1 DEF Table
    <2>2. es[d] \in PoolDonation
      BY <1>3, <1>6, <2>1 DEF PoolDonation
    <2>3. QED
      BY <1>1, <1>4, <1>6, <2>2 DEF Table
  <1>8. s \in Seq(PoolTask)
    <2>1. s \in [1..n -> PoolTask]
      BY <1>4, <1>5
    <2>2. QED
      BY <1>1, <2>1
  <1>9. DOMAIN s = 1..n
    BY <1>4
  <1>10. TasksOK(after)
    BY <1>2, <1>5, <1>9 DEF TasksOK
  <1>11. Kept(after) = Kept(pool) + moved
    <2>1. PICK f, g : f = [i \in DOMAIN t |-> t[i].allocated - t[i].released]
                    /\ g = [i \in DOMAIN s |-> s[i].allocated - s[i].released]
      OBVIOUS
    <2>2. Summable(f) /\ Summable(g) /\ DOMAIN f = 1..n /\ DOMAIN g = 1..n
      BY <1>1, <1>8, <1>9, <2>1, KeptSums
    <2>3. \A i \in 1..n : g[i] = f[i] + (IF i \in DOMAIN portions THEN portions[i] ELSE 0)
      <3>1. ASSUME NEW i \in 1..n
            PROVE g[i] = f[i] + (IF i \in DOMAIN portions THEN portions[i] ELSE 0)
        <4>1. f[i] = t[i].allocated - t[i].released /\ g[i] = s[i].allocated - s[i].released
          BY <1>1, <1>9, <2>1
        <4>2. /\ s[i].allocated = t[i].allocated + Entry(portions, i)
              /\ s[i].released = t[i].released
          BY <1>5
        <4>3. t[i].allocated \in Int /\ t[i].released \in Int
          <5>1. t[i] \in PoolTask
            BY <1>1
          <5>2. QED
            BY <5>1 DEF PoolTask
        <4>4. Entry(portions, i) \in Int
          BY <1>3 DEF Entry
        <4>5. g[i] = f[i] + Entry(portions, i)
          BY <4>1, <4>2, <4>3, <4>4
        <4>6. QED
          BY <4>5 DEF Entry
      <3>2. QED
        BY <3>1
    <2>4. Total(g) = Total(f) + Total(portions)
      BY <1>3, <2>2, <2>3, TotalSplit
    <2>5. QED
      BY <2>1, <2>4 DEF Kept
  <1>12. Left(after) = Left(pool) - moved /\ Left(pool) \in Int
    <2>1. PICK f, g : f = [e \in DOMAIN ds |-> ds[e].unallocated]
                    /\ g = [e \in DOMAIN es |-> es[e].unallocated]
      OBVIOUS
    <2>2. Summable(f)
      BY <1>1, <2>1 DEF Summable, Table, PoolDonation
    <2>3. /\ d \in DOMAIN f /\ f[d] = ds[d].unallocated /\ f[d] \in Int
          /\ g[d] = f[d] - moved /\ g[d] \in Int
          /\ g = [x \in DOMAIN f |-> IF x = d THEN g[d] ELSE f[x]]
      <3>1. ds[d].unallocated \in Int
        BY <1>1 DEF Table, PoolDonation
      <3>2. DOMAIN es = DOMAIN ds
        BY <1>4
      <3>3. QED
        BY <1>1, <1>3, <1>6, <2>1, <3>1, <3>2
    <2>4. Total(g) = Total(f) - f[d] + g[d]
      BY <2>2, <2>3, TotalUpdate
    <2>5. Total(f) \in Int
      BY <2>2, TotalType
    <2>6. QED
      BY <1>3, <2>1, <2>3, <2>4, <2>5 DEF Left
  <1>13. after.allocated \in Nat /\ Kept(after) = after.allocated - after.released
         /\ Left(after) = after.donated - after.allocated - after.refunded
    <2>1. PICK a, r, o, u, k, l :
            /\ a = pool.allocated /\ r = pool.released /\ o = pool.donated
            /\ u = pool.refunded /\ k = Kept(pool) /\ l = Left(pool)
      OBVIOUS
    <2>2. a \in Nat /\ r \in Nat /\ o \in Nat /\ u \in Nat /\ moved \in Nat
      BY <1>1, <1>3, <2>1
    <2>3. after.allocated = a + moved /\ after.released = r /\ after.donated = o
          /\ after.refunded = u
      BY <1>4, <2>1
    <2>4. k = a - r /\ l = o - a - u
      BY <1>1, <2>1 DEF PoolOK
    <2>5. Kept(after) = k + moved /\ Left(after) = l - moved
      BY <1>11, <1>12, <2>1
    <2>6. QED
      BY <2>2, <2>3, <2>4, <2>5
  <1>14. PoolTypeOK(after)
    BY <1>1, <1>4, <1>7, <1>8, <1>13 DEF PoolTypeOK
  <1>15. QED
    BY <1>10, <1>13, <1>14 DEF PoolOK

\* A new donation is left whole.
LEMMA WithDonationOK ==
  ASSUME NEW pool, PoolOK(pool), NEW call, CallOK(call), call.name = "donate",
         Admitted(pool, call), NEW after, after = WithDonation(pool, call)
  PROVE  /\ PoolOK(after) /\ call.donation \in DOMAIN after.donations
         /\ after = [tasks |-> pool.tasks, donations |-> after.donations,
                     donated |-> pool.donated + call.amount, allocated |-> pool.allocated,
                     released |-> pool.released, refunded |-> pool.refunded]
         /\ DOMAIN after.donations = DOMAIN pool.donations \cup {call.donation}
         /\ call.donation \notin DOMAIN pool.donations
         /\ \A e \in DOMAIN pool.donations : after.donations[e] = pool.donations[e]
         /\ after.donations[call.donation].unallocated = call.amount
  <1> PICK d, ds, es : d = call.donation /\ ds = pool.donations /\ es = after.donations
    OBVIOUS
  <1>1. /\ pool \in [tasks : Seq(PoolTask), donations : {pool.donations}, donated : Nat,
                     allocated : Nat, released : Nat, refunded : Nat]
        /\ pool.tasks \in Seq(PoolTask) /\ Table(ds, Donations, PoolDonation)
        /\ pool.donated \in Nat /\ pool.allocated \in Nat
        /\ pool.released \in Nat /\ pool.refunded \in Nat
        /\ Kept(pool) = pool.allocated - pool.released
        /\ Left(pool) = pool.donated - pool.allocated - pool.refunded
    BY DEF PoolOK, PoolTypeOK
  <1>2. d \notin DOMAIN ds /\ d \in Donations /\ call.purpose \in 0..5 /\ call.amount \in Nat
    BY DEF Admitted, CallOK
  <1>3. after = [tasks |-> pool.tasks,
                 donations |-> [e \in DOMAIN ds \cup {d} |->
                   IF e = d THEN [purpose |-> call.purpose, amount |-> call.amount,
                                  unallocated |-> call.amount]
                            ELSE ds[e]],
                 donated |-> pool.donated + call.amount, allocated |-> pool.allocated,
                 released |-> pool.released, refunded |-> pool.refunded]
    BY <1>1 DEF WithDonation
  <1>4. /\ es = [e \in DOMAIN ds \cup {d} |-> es[e]]
        /\ es[d] = [purpose |-> call.purpose, amount |-> call.amount,
                    unallocated |-> call.amount]
        /\ \A e \in DOMAIN ds : es[e] = ds[e]
        /\ after.tasks = pool.tasks /\ after.donated = pool.donated + call.amount
        /\ after.allocated = pool.allocated /\ after.released = pool.released
        /\ after.refunded = pool.refunded
        /\ after = [tasks |-> after.tasks, donations |-> after.donations,
                    donated |-> after.donated, allocated |-> after.allocated,
                    released |-> after.released, refunded |-> after.refunded]
    BY <1>2, <1>3
  <1>5. Table(es, Donations, PoolDonation)
    <2>1. es[d] \in PoolDonation
      BY <1>2, <1>4 DEF PoolDonation
    <2>2. IsFiniteSet(DOMAIN ds \cup {d})
      BY <1>1, FS_AddElement DEF Table
    <2>3. QED
      BY <1>1, <1>2, <1>4, <2>1, <2>2 DEF Table
  <1>6. PoolTypeOK(after)
    BY <1>1, <1>2, <1>4, <1>5 DEF PoolTypeOK
  <1>7. TasksOK(after) /\ Kept(after) = Kept(pool)
    BY <1>4 DEF PoolOK, TasksOK, Kept
  <1>8. Left(after) = Left(pool) + call.amount
    <2>1. PICK f, g : f = [e \in DOMAIN ds |-> ds[e].unallocated]
                    /\ g = [e \in DOMAIN es |-> es[e].unallocated]
      OBVIOUS
    <2>2. Summable(f) /\ Summable(g) /\ DOMAIN f = DOMAIN ds /\ DOMAIN g = DOMAIN ds \cup {d}
      BY <1>1, <1>4, <1>5, <2>1 DEF Summable, Table, PoolDonation
    <2>3. /\ d \in DOMAIN g /\ Entry(f, d) = 0 /\ g[d] = call.amount
          /\ \A e \in DOMAIN f : e # d => g[e] = f[e]
      <3>1. g[d] = es[d].unallocated /\ d \in DOMAIN g
        BY <2>1, <2>2
      <3>2. Entry(f, d) = 0
        BY <1>2, <2>2 DEF Entry
      <3>3. \A e \in DOMAIN f : e # d => g[e] = f[e]
        BY <1>4, <2>1, <2>2
      <3>4. QED
        BY <1>4, <3>1, <3>2, <3>3
    <2>4. Total(g) = Total(f) - Entry(f, d) + g[d] /\ Total(f) \in Int
      BY <2>2, <2>3, ColumnChange
    <2>5. QED
      BY <1>2, <2>1, <2>3, <2>4 DEF Left
  <1>9. PoolOK(after)
    BY <1>1, <1>2, <1>4, <1>6, <1>7, <1>8 DEF PoolOK
  <1>10. /\ call.donation \in DOMAIN es /\ DOMAIN es = DOMAIN ds \cup {call.donation}
         /\ es[call.donation].unallocated = call.amount
    BY <1>4
  <1>11. after = [tasks |-> pool.tasks, donations |-> after.donations,
                  donated |-> pool.donated + call.amount, allocated |-> pool.allocated,
                  released |-> pool.released, refunded |-> pool.refunded]
    BY <1>4
  <1>12. QED
    BY <1>2, <1>4, <1>9, <1>10, <1>11

\* Money released leaves the task.
LEMMA ReleasedOK ==
  ASSUME NEW pool, PoolOK(pool), NEW call, CallOK(call), call.name = "releaseTask",
         Admitted(pool, call), NEW after, after = Done(pool, call).pool
  PROVE  /\ PoolOK(after)
         /\ after.donations = pool.donations /\ after.donated = pool.donated
         /\ after.allocated = pool.allocated /\ after.refunded = pool.refunded
         /\ after.released = pool.released + call.amount
         /\ call.amount \in Nat /\ call.task \in {pool.tasks[i].id : i \in DOMAIN pool.tasks}
  <1> PICK t, n, amount : t = pool.tasks /\ n = Len(t) /\ amount = call.amount
    OBVIOUS
  <1>1. /\ pool \in [tasks : Seq(PoolTask), donations : {pool.donations}, donated : Nat,
                     allocated : Nat, released : Nat, refunded : Nat]
        /\ Kept(pool) = pool.allocated - pool.released
        /\ Left(pool) = pool.donated - pool.allocated - pool.refunded
        /\ Table(pool.donations, Donations, PoolDonation)
    BY DEF PoolOK, PoolTypeOK
  <1>2. t \in Seq(PoolTask) /\ n \in Nat /\ DOMAIN t = 1..n /\ \A i \in 1..n : t[i] \in PoolTask
    BY <1>1
  <1>3. /\ \A i, j \in 1..n : t[i].id = t[j].id => i = j
        /\ \A i \in 1..n : t[i].released <= t[i].allocated /\ t[i].allocated <= t[i].target
    BY <1>2 DEF PoolOK, TasksOK
  <1>4. amount \in Nat
    BY DEF CallOK
  <1>5. PICK k \in 1..n : t[k].id = call.task /\ amount <= t[k].allocated - t[k].released
    <2>1. \E i \in IndexOf(pool, call.task) :
            call.amount > 0 /\ call.amount <= pool.tasks[i].allocated - pool.tasks[i].released
      BY DEF Admitted
    <2>2. QED
      BY <1>2, <2>1 DEF IndexOf
  <1> DEFINE Paid2(x) == [id |-> x.id, purpose |-> x.purpose, urgency |-> x.urgency,
                          target |-> x.target, allocated |-> x.allocated,
                          released |-> x.released + amount, active |-> x.active]
  <1>6. PICK s : s = [i \in DOMAIN t |-> IF t[i].id # call.task THEN t[i] ELSE Paid2(t[i])]
    OBVIOUS
  <1>7. after = [tasks |-> s, donations |-> pool.donations, donated |-> pool.donated,
                 allocated |-> pool.allocated, released |-> pool.released + amount,
                 refunded |-> pool.refunded]
    <2>1. PICK u : u = [i \in DOMAIN pool.tasks |->
              IF pool.tasks[i].id # call.task THEN pool.tasks[i]
              ELSE [pool.tasks[i] EXCEPT !.released = @ + call.amount]]
      OBVIOUS
    <2>2. Done(pool, call).pool = [pool EXCEPT !.released = @ + call.amount, !.tasks = u]
      BY <2>1 DEF Done
    <2>3. u = s
      <3>1. ASSUME NEW x \in PoolTask PROVE [x EXCEPT !.released = @ + call.amount] = Paid2(x)
        BY DEF PoolTask
      <3> HIDE DEF Paid2
      <3>2. QED
        BY <1>2, <1>6, <2>1, <3>1
    <2>4. QED
      BY <1>1, <2>2, <2>3
  <1>8. /\ DOMAIN s = 1..n /\ \A i \in 1..n : i # k => s[i] = t[i]
        /\ s[k] = Paid2(t[k])
    <2> HIDE DEF Paid2
    <2>1. QED
      BY <1>2, <1>3, <1>5, <1>6
  <1>9. /\ s[k] \in PoolTask /\ s[k].id = t[k].id
        /\ s[k].released = t[k].released + amount /\ s[k].allocated = t[k].allocated
        /\ s[k].released <= s[k].allocated /\ s[k].allocated <= s[k].target
    <2>1. t[k] \in PoolTask
      BY <1>2
    <2>2. QED
      BY <1>3, <1>4, <1>5, <1>8, <2>1 DEF PoolTask
  <1> HIDE DEF Paid2
  <1>10. s \in Seq(PoolTask)
    <2>1. s \in [1..n -> PoolTask]
      BY <1>2, <1>6, <1>8, <1>9
    <2>2. QED
      BY <1>2, <2>1
  <1>11. TasksOK(after)
    <2>1. /\ \A i \in 1..n : s[i].id = t[i].id
          /\ \A i \in 1..n : s[i].released <= s[i].allocated /\ s[i].allocated <= s[i].target
      BY <1>3, <1>8, <1>9
    <2>2. after.tasks = s
      BY <1>7
    <2>3. QED
      BY <1>3, <1>8, <2>1, <2>2 DEF TasksOK
  <1>12. Kept(after) = Kept(pool) - amount
    <2>1. PICK f, g : f = [i \in DOMAIN t |-> t[i].allocated - t[i].released]
                    /\ g = [i \in DOMAIN s |-> s[i].allocated - s[i].released]
      OBVIOUS
    <2>2. Summable(f) /\ Summable(g)
      BY <1>2, <1>10, <2>1, KeptSums
    <2>3. DOMAIN f = 1..n /\ DOMAIN g = 1..n /\ DOMAIN g = DOMAIN f \cup {k} /\ k \in DOMAIN g
      BY <1>2, <1>8, <2>1
    <2>4. \A i \in DOMAIN f : i # k => g[i] = f[i]
      BY <1>8, <2>1, <2>3
    <2>5. Total(g) = Total(f) - Entry(f, k) + g[k] /\ Total(f) \in Int
      BY <2>2, <2>3, <2>4, ColumnChange
    <2>6. Entry(f, k) = t[k].allocated - t[k].released /\ g[k] = s[k].allocated - s[k].released
      BY <2>1, <2>3 DEF Entry
    <2>7. t[k].allocated \in Int /\ t[k].released \in Int
      BY <1>2 DEF PoolTask
    <2>8. Total(g) = Total(f) - amount
      BY <1>4, <1>9, <2>5, <2>6, <2>7
    <2>9. after.tasks = s
      BY <1>7
    <2>10. QED
      BY <2>1, <2>8, <2>9 DEF Kept
  <1>13. Left(after) = Left(pool)
    BY <1>7 DEF Left
  <1>14. /\ after.tasks = s /\ after.donations = pool.donations /\ after.donated = pool.donated
         /\ after.allocated = pool.allocated /\ after.refunded = pool.refunded
         /\ after.released = pool.released + amount
    BY <1>7
  <1>15. PoolTypeOK(after)
    <2>1. after \in [tasks : Seq(PoolTask), donations : {after.donations}, donated : Nat,
                     allocated : Nat, released : Nat, refunded : Nat]
      BY <1>1, <1>4, <1>7, <1>10
    <2>2. QED
      BY <1>1, <1>14, <2>1 DEF PoolTypeOK
  <1>16. Kept(after) = after.allocated - after.released
         /\ Left(after) = after.donated - after.allocated - after.refunded
    BY <1>1, <1>4, <1>12, <1>13, <1>14
  <1>17. PoolOK(after)
    BY <1>11, <1>15, <1>16 DEF PoolOK
  <1>18. QED
    BY <1>2, <1>4, <1>5, <1>14, <1>17

\* What was left of a donation goes back.
LEMMA RefundedOK ==
  ASSUME NEW pool, PoolOK(pool), NEW call, call.name = "refundUnallocated",
         Admitted(pool, call), NEW after, after = Done(pool, call).pool,
         NEW d, d = call.donation, NEW rest, rest = pool.donations[d].unallocated
  PROVE  /\ PoolOK(after) /\ d \in DOMAIN pool.donations /\ rest \in Nat
         /\ after.tasks = pool.tasks /\ after.donated = pool.donated
         /\ after.allocated = pool.allocated /\ after.released = pool.released
         /\ after.refunded = pool.refunded + rest
         /\ DOMAIN after.donations = DOMAIN pool.donations
         /\ \A e \in DOMAIN pool.donations : e # d => after.donations[e] = pool.donations[e]
         /\ after.donations[d].unallocated = 0
  <1> PICK ds : ds = pool.donations
    OBVIOUS
  <1>1. /\ pool \in [tasks : Seq(PoolTask), donations : {pool.donations}, donated : Nat,
                     allocated : Nat, released : Nat, refunded : Nat]
        /\ Table(ds, Donations, PoolDonation)
        /\ Kept(pool) = pool.allocated - pool.released
        /\ Left(pool) = pool.donated - pool.allocated - pool.refunded
    BY DEF PoolOK, PoolTypeOK
  <1>2. d \in DOMAIN ds /\ ds[d] \in PoolDonation /\ ds = [e \in DOMAIN ds |-> ds[e]]
    BY <1>1 DEF Admitted, Table
  <1>3. rest \in Nat
    BY <1>2 DEF PoolDonation
  <1>4. PICK es : es = [e \in DOMAIN ds |->
          IF e = d THEN [purpose |-> ds[d].purpose, amount |-> ds[d].amount, unallocated |-> 0]
                   ELSE ds[e]]
    OBVIOUS
  <1>5. after = [tasks |-> pool.tasks, donations |-> es, donated |-> pool.donated,
                 allocated |-> pool.allocated, released |-> pool.released,
                 refunded |-> pool.refunded + rest]
    <2>1. PICK u : u = [pool.donations EXCEPT ![call.donation].unallocated = 0]
      OBVIOUS
    <2>2. Done(pool, call).pool =
            [pool EXCEPT !.refunded = @ + pool.donations[call.donation].unallocated,
                         !.donations = u]
      BY <2>1 DEF Done
    <2>3. u = es
      <3>1. ASSUME NEW x \in PoolDonation
            PROVE  [x EXCEPT !.unallocated = 0] =
                     [purpose |-> x.purpose, amount |-> x.amount, unallocated |-> 0]
        BY DEF PoolDonation
      <3>2. u = [e \in DOMAIN ds |-> IF e = d THEN [ds[d] EXCEPT !.unallocated = 0] ELSE ds[e]]
        BY <1>2, <2>1
      <3>3. QED
        BY <1>2, <1>4, <3>1, <3>2
    <2>4. QED
      BY <1>1, <2>2, <2>3
  <1>6. /\ DOMAIN es = DOMAIN ds /\ \A e \in DOMAIN ds : e # d => es[e] = ds[e]
        /\ es[d] = [purpose |-> ds[d].purpose, amount |-> ds[d].amount, unallocated |-> 0]
        /\ es = [e \in DOMAIN es |-> es[e]]
    BY <1>2, <1>4
  <1>7. /\ after.tasks = pool.tasks /\ after.donations = es /\ after.donated = pool.donated
        /\ after.allocated = pool.allocated /\ after.released = pool.released
        /\ after.refunded = pool.refunded + rest
    BY <1>5
  <1>8. Table(es, Donations, PoolDonation)
    <2>1. es[d] \in PoolDonation
      BY <1>2, <1>6 DEF PoolDonation
    <2>2. QED
      BY <1>1, <1>6, <2>1 DEF Table
  <1>9. Kept(after) = Kept(pool) /\ (TasksOK(pool) => TasksOK(after))
    BY <1>7 DEF Kept, TasksOK
  <1>10. Left(after) = Left(pool) - rest
    <2>1. PICK f, g : f = [e \in DOMAIN ds |-> ds[e].unallocated]
                    /\ g = [e \in DOMAIN es |-> es[e].unallocated]
      OBVIOUS
    <2>2. Summable(f) /\ Summable(g)
      BY <1>1, <1>8, <2>1 DEF Summable, Table, PoolDonation
    <2>3. /\ d \in DOMAIN g /\ DOMAIN g = DOMAIN f \cup {d}
          /\ \A e \in DOMAIN f : e # d => g[e] = f[e]
      BY <1>2, <1>6, <2>1
    <2>4. Entry(f, d) = rest /\ g[d] = 0
      BY <1>2, <1>6, <2>1 DEF Entry
    <2>5. Total(g) = Total(f) - Entry(f, d) + g[d] /\ Total(f) \in Int
      BY <2>2, <2>3, ColumnChange
    <2>6. Total(g) = Total(f) - rest
      BY <1>3, <2>4, <2>5
    <2>7. QED
      BY <1>7, <2>1, <2>6 DEF Left
  <1>11. PoolTypeOK(after)
    <2>1. after \in [tasks : Seq(PoolTask), donations : {after.donations}, donated : Nat,
                     allocated : Nat, released : Nat, refunded : Nat]
      BY <1>1, <1>3, <1>5
    <2>2. QED
      BY <1>7, <1>8, <2>1 DEF PoolTypeOK
  <1>12. Kept(after) = after.allocated - after.released
         /\ Left(after) = after.donated - after.allocated - after.refunded
    BY <1>1, <1>3, <1>7, <1>9, <1>10
  <1>13. PoolOK(after)
    BY <1>9, <1>11, <1>12 DEF PoolOK
  <1>14. QED
    BY <1>2, <1>3, <1>6, <1>7, <1>13
-----------------------------------------------------------------------------
(* The log keeps the books *)

\* The rows are about donations of ds, and each was received once.
Origins(ds, log) ==
  /\ \A i \in DOMAIN log : log[i].event.name # "TaskReleased" => log[i].event.donation \in ds
  /\ \A i, j \in DOMAIN log :
       (/\ log[i].event.name = "DonationReceived" /\ log[j].event.name = "DonationReceived"
        /\ log[i].event.donation = log[j].event.donation) => i = j
\* Its sums are the contract's.
BooksOf(pool, log) ==
  /\ \A d \in DOMAIN pool.donations :
       pool.donations[d].unallocated =
         PaidFor(log, "DonationReceived", d) - PaidFor(log, "DonationAllocated", d)
           - PaidFor(log, "DonationRefunded", d)
  /\ Paid(log, "DonationReceived") = pool.donated
  /\ Paid(log, "DonationAllocated") = pool.allocated
  /\ Paid(log, "TaskReleased") = pool.released
  /\ Paid(log, "DonationRefunded") = pool.refunded
LogOK(pool, log) ==
  log \in Seq(LogRow) /\ Origins(DOMAIN pool.donations, log) /\ BooksOf(pool, log)

\* Amounts are numbers.
LEMMA PaidType ==
  ASSUME NEW log \in Seq(LogRow)
  PROVE  /\ \A name : Paid(log, name) \in Nat
         /\ \A name, d : PaidFor(log, name, d) \in Nat
  <1>1. \A name : Named(log, name) \subseteq DOMAIN log
    BY DEF Named
  <1>2. \A name, d : About(log, name, d) \subseteq DOMAIN log
    BY DEF About, Named
  <1>3. \A A \in SUBSET DOMAIN log : Amount(log, A) \in Nat
    BY AmountType
  <1>4. QED
    BY <1>1, <1>2, <1>3 DEF Paid, PaidFor

\* No rows, no amount.
LEMMA AmountNone == ASSUME NEW log PROVE Amount(log, {}) = 0
  <1>1. PICK f : f = [i \in {} |-> log[i].event.amount]
    OBVIOUS
  <1>2. DOMAIN f = {}
    BY <1>1
  <1>3. Total(f) = 0
    BY <1>2, TotalEmpty
  <1>4. QED
    BY <1>1, <1>3 DEF Amount

\* A log says nothing of a donation that is not there.
LEMMA NothingPaid ==
  ASSUME NEW log, NEW ds, Origins(ds, log), NEW d, d \notin ds, NEW name,
         name # "TaskReleased"
  PROVE  PaidFor(log, name, d) = 0
  <1>1. About(log, name, d) = {}
    BY DEF About, Named, Origins
  <1>2. QED
    BY <1>1, AmountNone DEF PaidFor

\* What the pool moved and what the rows `es` say of it.
Tallies(pool, after, es) ==
  /\ DOMAIN pool.donations \subseteq DOMAIN after.donations
  /\ Origins(DOMAIN after.donations, es)
  /\ \A i \in DOMAIN es : es[i].event.name = "DonationReceived" =>
                            es[i].event.donation \notin DOMAIN pool.donations
  /\ \A d \in DOMAIN after.donations :
       after.donations[d].unallocated =
         (IF d \in DOMAIN pool.donations THEN pool.donations[d].unallocated ELSE 0)
           + PaidFor(es, "DonationReceived", d) - PaidFor(es, "DonationAllocated", d)
           - PaidFor(es, "DonationRefunded", d)
  /\ after.donated = pool.donated + Paid(es, "DonationReceived")
  /\ after.allocated = pool.allocated + Paid(es, "DonationAllocated")
  /\ after.released = pool.released + Paid(es, "TaskReleased")
  /\ after.refunded = pool.refunded + Paid(es, "DonationRefunded")

\* Rows that tally keep the log the contract's.
LEMMA LogJoin ==
  ASSUME NEW pool, NEW after, NEW log, NEW es \in Seq(LogRow), LogOK(pool, log),
         Tallies(pool, after, es)
  PROVE  LogOK(after, log \o es)
  <1> PICK both, ds, ds2, n :
        /\ both = log \o es /\ ds = DOMAIN pool.donations /\ ds2 = DOMAIN after.donations
        /\ n = Len(log)
    OBVIOUS
  <1>1. /\ log \in Seq(LogRow) /\ Origins(ds, log) /\ Origins(ds2, es) /\ ds \subseteq ds2
        /\ both \in Seq(LogRow)
        /\ \A i \in DOMAIN es : es[i].event.name = "DonationReceived" =>
                                  es[i].event.donation \notin ds
    BY DEF LogOK, Tallies
  <1>2. Origins(ds2, both)
    <2>1. /\ n \in Nat /\ DOMAIN log = 1..n /\ Len(es) \in Nat /\ DOMAIN es = 1..Len(es)
          /\ DOMAIN both = 1..(n + Len(es))
          /\ \A i \in DOMAIN log : both[i] = log[i]
          /\ \A i \in DOMAIN es : both[n + i] = es[i]
      BY <1>1
    <2>2. ASSUME NEW i \in DOMAIN both
          PROVE  \/ i \in DOMAIN log /\ both[i] = log[i]
                 \/ i - n \in DOMAIN es /\ both[i] = es[i - n]
      <3>1. CASE i \in 1..n
        BY <2>1, <3>1
      <3>2. CASE i \notin 1..n
        <4>1. i - n \in 1..Len(es) /\ n + (i - n) = i
          BY <2>1, <3>2
        <4>2. QED
          BY <2>1, <4>1
      <3>3. QED
        BY <3>1, <3>2
    <2>3. ASSUME NEW i \in DOMAIN both, both[i].event.name # "TaskReleased"
          PROVE  both[i].event.donation \in ds2
      BY <1>1, <2>2, <2>3 DEF Origins
    <2>4. ASSUME NEW i \in DOMAIN both, NEW j \in DOMAIN both,
                 both[i].event.name = "DonationReceived", both[j].event.name = "DonationReceived",
                 both[i].event.donation = both[j].event.donation
          PROVE  i = j
      <3>0. "DonationReceived" # "TaskReleased"
        OBVIOUS
      <3>1. CASE i \in DOMAIN log /\ both[i] = log[i] /\ j \in DOMAIN log /\ both[j] = log[j]
        BY <1>1, <2>4, <3>1 DEF Origins
      <3>2. CASE i - n \in DOMAIN es /\ both[i] = es[i - n]
                 /\ j - n \in DOMAIN es /\ both[j] = es[j - n]
        <4>1. i - n = j - n
          BY <1>1, <2>4, <3>2 DEF Origins
        <4>2. i \in Int /\ j \in Int /\ n \in Int
          BY <2>1
        <4>3. QED
          BY <4>1, <4>2
      <3>3. CASE i \in DOMAIN log /\ both[i] = log[i]
                 /\ j - n \in DOMAIN es /\ both[j] = es[j - n]
        BY <1>1, <2>4, <3>0, <3>3 DEF Origins
      <3>4. CASE i - n \in DOMAIN es /\ both[i] = es[i - n]
                 /\ j \in DOMAIN log /\ both[j] = log[j]
        BY <1>1, <2>4, <3>0, <3>4 DEF Origins
      <3>5. QED
        BY <2>2, <3>1, <3>2, <3>3, <3>4
    <2>5. QED
      BY <2>3, <2>4 DEF Origins
  <1>3. /\ \A name : Paid(both, name) = Paid(log, name) + Paid(es, name)
        /\ \A name, d : PaidFor(both, name, d) = PaidFor(log, name, d) + PaidFor(es, name, d)
    BY <1>1, PaidJoin
  <1>4. /\ \A name : Paid(log, name) \in Nat /\ Paid(es, name) \in Nat
        /\ \A name, d : PaidFor(log, name, d) \in Nat /\ PaidFor(es, name, d) \in Nat
    BY <1>1, PaidType
  <1>5. ASSUME NEW d \in ds2
        PROVE  after.donations[d].unallocated =
                 PaidFor(both, "DonationReceived", d) - PaidFor(both, "DonationAllocated", d)
                   - PaidFor(both, "DonationRefunded", d)
    <2>1. after.donations[d].unallocated =
            (IF d \in ds THEN pool.donations[d].unallocated ELSE 0)
              + PaidFor(es, "DonationReceived", d) - PaidFor(es, "DonationAllocated", d)
              - PaidFor(es, "DonationRefunded", d)
      BY <1>5 DEF Tallies
    <2>2. (IF d \in ds THEN pool.donations[d].unallocated ELSE 0) =
            PaidFor(log, "DonationReceived", d) - PaidFor(log, "DonationAllocated", d)
              - PaidFor(log, "DonationRefunded", d)
      <3>1. CASE d \in ds
        BY <3>1 DEF LogOK, BooksOf
      <3>2. CASE d \notin ds
        <4>1. PaidFor(log, "DonationReceived", d) = 0 /\ PaidFor(log, "DonationAllocated", d) = 0
              /\ PaidFor(log, "DonationRefunded", d) = 0
          BY <1>1, <3>2, NothingPaid
        <4>2. QED
          BY <3>2, <4>1
      <3>3. QED
        BY <3>1, <3>2
    <2>3. QED
      BY <1>3, <1>4, <2>1, <2>2
  <1>6. /\ Paid(both, "DonationReceived") = after.donated
        /\ Paid(both, "DonationAllocated") = after.allocated
        /\ Paid(both, "TaskReleased") = after.released
        /\ Paid(both, "DonationRefunded") = after.refunded
    BY <1>3 DEF LogOK, BooksOf, Tallies
  <1>7. BooksOf(after, both)
    BY <1>5, <1>6 DEF BooksOf
  <1>8. QED
    BY <1>1, <1>2, <1>7 DEF LogOK

\* The rows of a call in block n.
Stamped(n, events) == [i \in DOMAIN events |-> [block |-> n, event |-> events[i]]]

LEMMA StampedType ==
  ASSUME NEW events \in Seq(PoolEvent), NEW n \in Nat
  PROVE  /\ Stamped(n, events) \in Seq(LogRow) /\ DOMAIN Stamped(n, events) = DOMAIN events
         /\ \A i \in DOMAIN events : Stamped(n, events)[i].event = events[i]
  <1>1. PICK k \in Nat : DOMAIN events = 1..k /\ \A i \in 1..k : events[i] \in PoolEvent
    OBVIOUS
  <1>2. Stamped(n, events) \in [1..k -> LogRow]
    BY <1>1 DEF Stamped, LogRow
  <1>3. QED
    BY <1>1, <1>2 DEF Stamped

\* The second of two sequences joined comes after the first.
LEMMA Joined ==
  ASSUME NEW R, NEW a \in Seq(R), NEW b \in Seq(R), NEW n, n = Len(a)
  PROVE  \A i \in DOMAIN b : (a \o b)[n + i] = b[i]
  OBVIOUS

\* The rows of one call after the rows of another.
LEMMA StampedFirst ==
  ASSUME NEW e \in PoolEvent, NEW events \in Seq(PoolEvent), NEW n \in Nat
  PROVE  /\ <<e>> \o events \in Seq(PoolEvent)
         /\ Stamped(n, <<e>> \o events) = Stamped(n, <<e>>) \o Stamped(n, events)
  <1> PICK both, k : both = <<e>> \o events /\ k = Len(events)
    OBVIOUS
  <1>1. /\ k \in Nat /\ DOMAIN events = 1..k /\ both \in Seq(PoolEvent) /\ DOMAIN both = 1..(k + 1)
        /\ both[1] = e /\ \A i \in 2..(k + 1) : both[i] = events[i - 1]
    OBVIOUS
  <1>2. PICK a : a = Stamped(n, <<e>>)
    OBVIOUS
  <1>3. a \in Seq(LogRow) /\ Len(a) = 1 /\ a[1] = [block |-> n, event |-> e]
    <2>1. PICK s : s = <<e>>
      OBVIOUS
    <2>2. s \in Seq(PoolEvent) /\ DOMAIN s = {1} /\ s[1] = e
      BY <2>1
    <2>3. a = [i \in {1} |-> [block |-> n, event |-> s[i]]]
      BY <1>2, <2>1, <2>2 DEF Stamped
    <2>4. a \in Seq(LogRow) /\ DOMAIN a = {1}
      BY <1>2, <2>1, <2>2, StampedType
    <2>5. Len(a) = 1
      BY <2>4
    <2>6. QED
      BY <2>2, <2>3, <2>4, <2>5
  <1>4. PICK b : b = Stamped(n, events)
    OBVIOUS
  <1>5. b \in Seq(LogRow) /\ Len(b) = k /\ \A i \in 1..k : b[i] = [block |-> n, event |-> events[i]]
    <2>1. b \in Seq(LogRow) /\ DOMAIN b = 1..k
      BY <1>1, <1>4, StampedType
    <2>2. \A i \in 1..k : b[i] = [block |-> n, event |-> events[i]]
      BY <1>1, <1>4 DEF Stamped
    <2>3. QED
      BY <1>1, <2>1, <2>2
  <1>6. PICK c : c = a \o b
    OBVIOUS
  <1>7. /\ c \in Seq(LogRow) /\ DOMAIN c = 1..(k + 1) /\ c[1] = a[1]
        /\ \A i \in 2..(k + 1) : c[i] = b[i - 1]
    <2>1. /\ c \in Seq(LogRow) /\ Len(c) = 1 + k
          /\ c[1] = a[1] /\ \A i \in 1..k : c[1 + i] = b[i]
      <3>1. PICK m : m = Len(a)
        OBVIOUS
      <3>2. m \in Nat /\ a \in Seq(LogRow) /\ b \in Seq(LogRow) /\ k = Len(b) /\ m = 1
        BY <1>1, <1>3, <1>5, <3>1
      <3>3. /\ c \in Seq(LogRow) /\ Len(c) = m + k
            /\ \A i \in 1..m : c[i] = a[i]
            /\ \A i \in 1..k : c[m + i] = b[i]
        <4>1. c \in Seq(LogRow) /\ Len(c) = Len(a) + Len(b)
          BY <1>6, <3>2
        <4>2. \A i \in 1..Len(a) : c[i] = a[i]
          BY <1>6, <3>2
        <4>3. \A i \in 1..Len(b) : c[Len(a) + i] = b[i]
          BY <1>6, <3>2, Joined
        <4>4. QED
          BY <3>1, <3>2, <4>1, <4>2, <4>3
      <3>4. QED
        BY <3>2, <3>3
    <2>2. DOMAIN c = 1..(k + 1)
      BY <1>1, <2>1
    <2>3. c[1] = a[1]
      BY <1>1, <2>1
    <2>4. ASSUME NEW i \in 2..(k + 1) PROVE c[i] = b[i - 1]
      <3>1. i - 1 \in 1..k /\ 1 + (i - 1) = i
        BY <1>1
      <3>2. QED
        BY <2>1, <3>1
    <2>5. QED
      BY <2>1, <2>2, <2>3, <2>4
  <1>8. ASSUME NEW i \in 1..(k + 1) PROVE c[i] = [block |-> n, event |-> both[i]]
    <2>1. CASE i = 1
      BY <1>1, <1>3, <1>7, <2>1
    <2>2. CASE i # 1
      <3>1. i \in 2..(k + 1) /\ i - 1 \in 1..k
        BY <1>1, <2>2
      <3>2. QED
        BY <1>1, <1>5, <1>7, <3>1
    <2>3. QED
      BY <2>1, <2>2
  <1>9. c = [i \in 1..(k + 1) |-> c[i]]
    BY <1>7
  <1>10. c = [i \in 1..(k + 1) |-> [block |-> n, event |-> both[i]]]
    BY <1>8, <1>9
  <1>11. Stamped(n, both) = c
    BY <1>1, <1>10 DEF Stamped
  <1>12. QED
    BY <1>1, <1>2, <1>4, <1>6, <1>11

\* Splitting a donation tells what each task got.
LEMMA DistributedTells ==
  ASSUME NEW pool, PoolOK(pool), NEW d \in DOMAIN pool.donations, NEW n \in Nat,
         NEW done, done = Distributed(pool, d), NEW es, es = Stamped(n, done.events)
  PROVE  /\ PoolOK(done.pool) /\ DOMAIN done.pool.donations = DOMAIN pool.donations
         /\ done.events \in Seq(PoolEvent) /\ es \in Seq(LogRow)
         /\ Tallies(pool, done.pool, es)
         /\ \A i \in DOMAIN es : es[i].event.name = "DonationAllocated"
  <1> PICK portions, order, k, after, moved :
        /\ portions = Portions(pool.tasks, pool.donations[d])
        /\ order = Visited(pool.tasks, portions) /\ k = Cardinality(DOMAIN portions)
        /\ after = done.pool /\ moved = Total(portions)
    OBVIOUS
  <1>1. Split(pool, d, portions)
    BY PortionsType
  <1>2. /\ after = SplitPool(pool, d, portions)
        /\ PoolOK(after)
    BY <1>1, DistributedIs, SplitOK
  <1>3. /\ pool.tasks \in Seq(PoolTask) /\ Table(pool.donations, Donations, PoolDonation)
        /\ DOMAIN portions \subseteq DOMAIN pool.tasks /\ IsFiniteSet(DOMAIN portions)
        /\ Summable(portions) /\ moved \in Nat
        /\ portions = [i \in DOMAIN portions |-> portions[i]]
        /\ \A i \in DOMAIN portions : portions[i] \in Nat
    BY <1>1 DEF PoolOK, PoolTypeOK, Split
  <1>4. /\ k \in Nat /\ order \in [1..k -> DOMAIN portions]
        /\ \A i, j \in 1..k : order[i] = order[j] => i = j
        /\ \A x \in DOMAIN portions : \E i \in 1..k : order[i] = x
    <2>1. PICK t : t = pool.tasks
      OBVIOUS
    <2>2. t \in Seq(PoolTask) /\ DOMAIN portions \subseteq DOMAIN t /\ IsFiniteSet(DOMAIN portions)
      BY <1>3, <2>1
    <2>3. order = Visited(t, portions) /\ k = Cardinality(DOMAIN portions)
      BY <2>1
    <2>4. QED
      BY <2>2, <2>3, VisitedLists
  <1>5. done.events = [i \in 1..k |-> [name |-> "DonationAllocated", donation |-> d,
                                       task |-> pool.tasks[order[i]].id,
                                       amount |-> portions[order[i]]]]
    BY <1>4 DEF Distributed, HandedOut
  <1>6. d \in Donations /\ \A i \in DOMAIN pool.tasks : pool.tasks[i].id \in TaskNames
    <2>1. \A i \in DOMAIN pool.tasks : pool.tasks[i] \in PoolTask
      BY <1>3
    <2>2. QED
      BY <1>3, <2>1 DEF Table, PoolTask
  <1>7. done.events \in Seq(PoolEvent)
    <2>1. ASSUME NEW i \in 1..k PROVE done.events[i] \in PoolEvent
      <3>1. order[i] \in DOMAIN portions /\ portions[order[i]] \in Nat
            /\ pool.tasks[order[i]].id \in TaskNames
        BY <1>3, <1>4, <1>6
      <3>2. QED
        <4>1. PICK task, a : task = pool.tasks[order[i]].id /\ a = portions[order[i]]
          OBVIOUS
        <4>2. done.events[i] = [name |-> "DonationAllocated", donation |-> d, task |-> task,
                                amount |-> a]
          BY <1>5, <4>1
        <4>3. d \in Donations /\ task \in TaskNames /\ a \in Nat
          BY <1>6, <3>1, <4>1
        <4>4. QED
          BY <4>2, <4>3 DEF PoolEvent
    <2>2. done.events \in [1..k -> PoolEvent]
      BY <1>5, <2>1
    <2>3. QED
      BY <1>4, <2>2
  <1>8. /\ es \in Seq(LogRow) /\ DOMAIN es = 1..k
        /\ \A i \in 1..k : /\ es[i].event.name = "DonationAllocated"
                           /\ es[i].event.donation = d
                           /\ es[i].event.amount = portions[order[i]]
    <2>1. /\ es \in Seq(LogRow) /\ DOMAIN es = DOMAIN done.events
          /\ \A i \in DOMAIN done.events : es[i].event = done.events[i]
      BY <1>7, StampedType
    <2>2. ASSUME NEW i \in 1..k
          PROVE  /\ es[i].event.name = "DonationAllocated" /\ es[i].event.donation = d
                 /\ es[i].event.amount = portions[order[i]]
      <3>1. done.events[i] = [name |-> "DonationAllocated", donation |-> d,
                              task |-> pool.tasks[order[i]].id, amount |-> portions[order[i]]]
            /\ i \in DOMAIN done.events
        BY <1>5
      <3>2. es[i].event = done.events[i]
        BY <2>1, <3>1
      <3>3. QED
        BY <3>1, <3>2
    <2>3. QED
      BY <1>5, <2>1, <2>2
  <1>9. Amount(es, 1..k) = moved
    <2> DEFINE f == [i \in 1..k |-> es[i].event.amount]
    <2>1. Summable(f) /\ DOMAIN f = 1..k
      BY <1>8, AmountType
    <2>2. \A i \in DOMAIN f : portions[order[i]] = f[i]
      BY <1>8
    <2> HIDE DEF f
    <2>3. /\ order \in [DOMAIN f -> DOMAIN portions]
          /\ \A i, j \in DOMAIN f : order[i] = order[j] => i = j
          /\ \A x \in DOMAIN portions : \E i \in DOMAIN f : order[i] = x
      BY <1>4, <2>1
    <2>4. portions = [i \in DOMAIN portions |-> portions[i]]
      BY <1>3
    <2>5. Summable(f)
      BY <2>1
    <2>6. Total(portions) = Total(f)
      BY <2>2, <2>3, <2>4, <2>5, TotalReindexed
    <2>7. QED
      BY <2>6 DEF Amount, f
  <1>10. /\ Named(es, "DonationAllocated") = 1..k
         /\ \A name : name # "DonationAllocated" => Named(es, name) = {}
    BY <1>8 DEF Named
  <1>11. /\ Paid(es, "DonationAllocated") = moved
         /\ \A name : name # "DonationAllocated" => Paid(es, name) = 0
    BY <1>9, <1>10, AmountNone DEF Paid
  <1>12. /\ PaidFor(es, "DonationAllocated", d) = moved
         /\ \A e : e # d => PaidFor(es, "DonationAllocated", e) = 0
         /\ \A name, e : name # "DonationAllocated" => PaidFor(es, name, e) = 0
    <2>1. /\ About(es, "DonationAllocated", d) = 1..k
          /\ \A e : e # d => About(es, "DonationAllocated", e) = {}
          /\ \A name, e : name # "DonationAllocated" => About(es, name, e) = {}
      BY <1>8, <1>10 DEF About
    <2>2. QED
      BY <1>9, <2>1, AmountNone DEF PaidFor
  <1>13. /\ DOMAIN after.donations = DOMAIN pool.donations
         /\ \A e \in DOMAIN pool.donations : e # d => after.donations[e] = pool.donations[e]
         /\ after.donations[d].unallocated = pool.donations[d].unallocated - moved
         /\ after.donated = pool.donated /\ after.allocated = pool.allocated + moved
         /\ after.released = pool.released /\ after.refunded = pool.refunded
    BY <1>2 DEF SplitPool
  <1>14. /\ \A e \in DOMAIN pool.donations : pool.donations[e].unallocated \in Nat
         /\ pool.donated \in Nat /\ pool.released \in Nat /\ pool.refunded \in Nat
    BY DEF PoolOK, PoolTypeOK, Table, PoolDonation
  <1>15. Tallies(pool, after, es)
    <2>1. ASSUME NEW e \in DOMAIN after.donations
          PROVE  after.donations[e].unallocated =
                   (IF e \in DOMAIN pool.donations THEN pool.donations[e].unallocated ELSE 0)
                     + PaidFor(es, "DonationReceived", e) - PaidFor(es, "DonationAllocated", e)
                     - PaidFor(es, "DonationRefunded", e)
      <3>1. PaidFor(es, "DonationReceived", e) = 0 /\ PaidFor(es, "DonationRefunded", e) = 0
        BY <1>12
      <3>2. CASE e = d
        BY <1>3, <1>12, <1>13, <1>14, <3>1, <3>2
      <3>3. CASE e # d
        BY <1>3, <1>12, <1>13, <1>14, <3>1, <3>3
      <3>4. QED
        BY <3>2, <3>3
    <2>2. Origins(DOMAIN after.donations, es)
      BY <1>8, <1>13 DEF Origins
    <2>3. \A i \in DOMAIN es : es[i].event.name # "DonationReceived"
      BY <1>8
    <2>4. /\ after.donated = pool.donated + Paid(es, "DonationReceived")
          /\ after.allocated = pool.allocated + Paid(es, "DonationAllocated")
          /\ after.released = pool.released + Paid(es, "TaskReleased")
          /\ after.refunded = pool.refunded + Paid(es, "DonationRefunded")
      <3>1. /\ Paid(es, "DonationReceived") = 0 /\ Paid(es, "TaskReleased") = 0
            /\ Paid(es, "DonationRefunded") = 0
        BY <1>11
      <3>2. QED
        BY <1>11, <1>13, <1>14, <3>1
    <2>5. QED
      BY <1>13, <2>1, <2>2, <2>3, <2>4 DEF Tallies
  <1>16. QED
    BY <1>2, <1>7, <1>8, <1>13, <1>15

LEMMA ConcatAssoc ==
  ASSUME NEW a \in Seq(LogRow), NEW b \in Seq(LogRow), NEW c \in Seq(LogRow)
  PROVE  a \o (b \o c) = (a \o b) \o c
  OBVIOUS

\* No rows pay nothing.
LEMMA PaidNone ==
  /\ \A name : Paid(<<>>, name) = 0
  /\ \A name, d : PaidFor(<<>>, name, d) = 0
  <1>1. PICK s : s = <<>>
    OBVIOUS
  <1>2. DOMAIN s = {}
    BY <1>1
  <1>3. \A name : Named(s, name) = {}
    BY <1>2 DEF Named
  <1>4. \A name, d : About(s, name, d) = {}
    BY <1>3 DEF About
  <1>5. QED
    BY <1>1, <1>3, <1>4, AmountNone DEF Paid, PaidFor

\* The rows of a call: none, or one.
LEMMA StampedOne ==
  ASSUME NEW e \in PoolEvent, NEW n \in Nat, NEW r, r = [block |-> n, event |-> e]
  PROVE  Stamped(n, <<e>>) = <<r>> /\ r \in LogRow /\ <<r>> \in Seq(LogRow) /\ r.event = e
  <1>1. PICK s, q : s = <<e>> /\ q = <<r>>
    OBVIOUS
  <1>2. DOMAIN s = {1} /\ s[1] = e /\ q = [i \in {1} |-> r]
    BY <1>1
  <1>3. Stamped(n, s) = q
    BY <1>2 DEF Stamped
  <1>4. r \in LogRow
    BY DEF LogRow
  <1>5. QED
    BY <1>1, <1>3, <1>4

\* Configuring a task tells nothing.
LEMMA ConfiguredTells ==
  ASSUME NEW pool, NEW after, PoolOK(pool), after.donations = pool.donations,
         after.donated = pool.donated, after.allocated = pool.allocated,
         after.released = pool.released, after.refunded = pool.refunded
  PROVE  Tallies(pool, after, <<>>)
  <1>1. PICK s : s = <<>>
    OBVIOUS
  <1>2. DOMAIN s = {}
    BY <1>1
  <1>3. /\ \A name : Paid(s, name) = 0
        /\ \A name, d : PaidFor(s, name, d) = 0
    BY <1>1, PaidNone
  <1>4. /\ \A e \in DOMAIN pool.donations : pool.donations[e].unallocated \in Nat
        /\ pool.donated \in Nat /\ pool.released \in Nat /\ pool.refunded \in Nat
        /\ pool.allocated \in Nat
    BY DEF PoolOK, PoolTypeOK, Table, PoolDonation
  <1>5. Tallies(pool, after, s)
    <2>1. Origins(DOMAIN after.donations, s)
      BY <1>2 DEF Origins
    <2>2. \A d \in DOMAIN after.donations :
            after.donations[d].unallocated =
              (IF d \in DOMAIN pool.donations THEN pool.donations[d].unallocated ELSE 0)
                + PaidFor(s, "DonationReceived", d) - PaidFor(s, "DonationAllocated", d)
                - PaidFor(s, "DonationRefunded", d)
      BY <1>3, <1>4
    <2>3. QED
      BY <1>2, <1>3, <1>4, <2>1, <2>2 DEF Tallies
  <1>6. QED
    BY <1>1, <1>5

\* A donation is told as it arrives.
LEMMA ReceivedTells ==
  ASSUME NEW pool, NEW after, PoolOK(pool), NEW r \in LogRow, NEW d,
         r.event.name = "DonationReceived", r.event.donation = d, d \notin DOMAIN pool.donations,
         DOMAIN after.donations = DOMAIN pool.donations \cup {d},
         \A e \in DOMAIN pool.donations : after.donations[e] = pool.donations[e],
         after.donations[d].unallocated = r.event.amount,
         after.donated = pool.donated + r.event.amount, after.allocated = pool.allocated,
         after.released = pool.released, after.refunded = pool.refunded,
         r.event.amount \in Nat
  PROVE  Tallies(pool, after, <<r>>)
  <1>1. PICK s : s = <<r>>
    OBVIOUS
  <1>2. DOMAIN s = {1} /\ s[1] = r
    BY <1>1
  <1>3. /\ \A name : Paid(s, name) = IF r.event.name = name THEN r.event.amount ELSE 0
        /\ \A name, e : PaidFor(s, name, e) =
             IF r.event.name = name /\ r.event.donation = e THEN r.event.amount ELSE 0
    BY <1>1, PaidOne
  <1>4. /\ \A e \in DOMAIN pool.donations : pool.donations[e].unallocated \in Nat
        /\ pool.donated \in Nat /\ pool.released \in Nat /\ pool.refunded \in Nat
        /\ pool.allocated \in Nat
    BY DEF PoolOK, PoolTypeOK, Table, PoolDonation
  <1>5. ASSUME NEW e \in DOMAIN after.donations
        PROVE  after.donations[e].unallocated =
                 (IF e \in DOMAIN pool.donations THEN pool.donations[e].unallocated ELSE 0)
                   + PaidFor(s, "DonationReceived", e) - PaidFor(s, "DonationAllocated", e)
                   - PaidFor(s, "DonationRefunded", e)
    <2>1. PaidFor(s, "DonationAllocated", e) = 0 /\ PaidFor(s, "DonationRefunded", e) = 0
      BY <1>3
    <2>2. CASE e = d
      <3>1. PaidFor(s, "DonationReceived", e) = r.event.amount
        BY <1>3, <2>2
      <3>2. QED
        BY <2>1, <2>2, <3>1
    <2>3. CASE e # d
      <3>1. PaidFor(s, "DonationReceived", e) = 0
        BY <1>3, <2>3
      <3>2. e \in DOMAIN pool.donations
        BY <2>3
      <3>3. QED
        BY <1>4, <2>1, <3>1, <3>2
    <2>4. QED
      BY <2>2, <2>3
  <1>6. Origins(DOMAIN after.donations, s)
    BY <1>2 DEF Origins
  <1>7. /\ Paid(s, "DonationReceived") = r.event.amount /\ Paid(s, "DonationAllocated") = 0
        /\ Paid(s, "TaskReleased") = 0 /\ Paid(s, "DonationRefunded") = 0
    BY <1>3
  <1>8. Tallies(pool, after, s)
    BY <1>2, <1>4, <1>5, <1>6, <1>7 DEF Tallies
  <1>9. QED
    BY <1>1, <1>8

\* So is money released.
LEMMA ReleasedTells ==
  ASSUME NEW pool, NEW after, PoolOK(pool), NEW r \in LogRow, r.event.name = "TaskReleased",
         after.donations = pool.donations, after.donated = pool.donated,
         after.allocated = pool.allocated, after.released = pool.released + r.event.amount,
         after.refunded = pool.refunded
  PROVE  Tallies(pool, after, <<r>>)
  <1>1. PICK s : s = <<r>>
    OBVIOUS
  <1>2. DOMAIN s = {1} /\ s[1] = r
    BY <1>1
  <1>3. /\ \A name : Paid(s, name) = IF r.event.name = name THEN r.event.amount ELSE 0
        /\ \A name, e : PaidFor(s, name, e) =
             IF r.event.name = name /\ r.event.donation = e THEN r.event.amount ELSE 0
    BY <1>1, PaidOne
  <1>4. /\ \A e \in DOMAIN pool.donations : pool.donations[e].unallocated \in Nat
        /\ pool.donated \in Nat /\ pool.released \in Nat /\ pool.refunded \in Nat
        /\ pool.allocated \in Nat
    BY DEF PoolOK, PoolTypeOK, Table, PoolDonation
  <1>5. \A e : /\ PaidFor(s, "DonationReceived", e) = 0 /\ PaidFor(s, "DonationAllocated", e) = 0
               /\ PaidFor(s, "DonationRefunded", e) = 0
    BY <1>3
  <1>6. Origins(DOMAIN after.donations, s)
    BY <1>2 DEF Origins
  <1>7. /\ Paid(s, "DonationReceived") = 0 /\ Paid(s, "DonationAllocated") = 0
        /\ Paid(s, "TaskReleased") = r.event.amount /\ Paid(s, "DonationRefunded") = 0
    BY <1>3
  <1>8. Tallies(pool, after, s)
    BY <1>2, <1>4, <1>5, <1>6, <1>7 DEF Tallies
  <1>9. QED
    BY <1>1, <1>8

\* And what goes back.
LEMMA RefundedTells ==
  ASSUME NEW pool, NEW after, PoolOK(pool), NEW r \in LogRow, NEW d \in DOMAIN pool.donations,
         r.event.name = "DonationRefunded", r.event.donation = d,
         r.event.amount = pool.donations[d].unallocated,
         DOMAIN after.donations = DOMAIN pool.donations,
         \A e \in DOMAIN pool.donations : e # d => after.donations[e] = pool.donations[e],
         after.donations[d].unallocated = 0,
         after.donated = pool.donated, after.allocated = pool.allocated,
         after.released = pool.released, after.refunded = pool.refunded + r.event.amount
  PROVE  Tallies(pool, after, <<r>>)
  <1>1. PICK s : s = <<r>>
    OBVIOUS
  <1>2. DOMAIN s = {1} /\ s[1] = r
    BY <1>1
  <1>3. /\ \A name : Paid(s, name) = IF r.event.name = name THEN r.event.amount ELSE 0
        /\ \A name, e : PaidFor(s, name, e) =
             IF r.event.name = name /\ r.event.donation = e THEN r.event.amount ELSE 0
    BY <1>1, PaidOne
  <1>4. /\ \A e \in DOMAIN pool.donations : pool.donations[e].unallocated \in Nat
        /\ pool.donated \in Nat /\ pool.released \in Nat /\ pool.refunded \in Nat
        /\ pool.allocated \in Nat
    BY DEF PoolOK, PoolTypeOK, Table, PoolDonation
  <1>5. ASSUME NEW e \in DOMAIN after.donations
        PROVE  after.donations[e].unallocated =
                 (IF e \in DOMAIN pool.donations THEN pool.donations[e].unallocated ELSE 0)
                   + PaidFor(s, "DonationReceived", e) - PaidFor(s, "DonationAllocated", e)
                   - PaidFor(s, "DonationRefunded", e)
    <2>1. PaidFor(s, "DonationAllocated", e) = 0 /\ PaidFor(s, "DonationReceived", e) = 0
      BY <1>3
    <2>2. CASE e = d
      <3>1. PaidFor(s, "DonationRefunded", e) = r.event.amount
        BY <1>3, <2>2
      <3>2. QED
        BY <1>4, <2>1, <2>2, <3>1
    <2>3. CASE e # d
      <3>1. PaidFor(s, "DonationRefunded", e) = 0
        BY <1>3, <2>3
      <3>3. QED
        BY <1>4, <2>1, <2>3, <3>1
    <2>4. QED
      BY <2>2, <2>3
  <1>6. Origins(DOMAIN after.donations, s)
    BY <1>2 DEF Origins
  <1>7. /\ Paid(s, "DonationReceived") = 0 /\ Paid(s, "DonationAllocated") = 0
        /\ Paid(s, "TaskReleased") = 0 /\ Paid(s, "DonationRefunded") = r.event.amount
    BY <1>3
  <1>8. Tallies(pool, after, s)
    BY <1>2, <1>4, <1>5, <1>6, <1>7 DEF Tallies
  <1>9. QED
    BY <1>1, <1>8
-----------------------------------------------------------------------------
(* The books of a chain *)

\* The pool and the log agree, and only donations of K were made.
Account(st, K) ==
  /\ PoolOK(st.pool) /\ LogOK(st.pool, st.log) /\ DOMAIN st.pool.donations \subseteq K

\* What the calls of a chain may be, when K are the donations that were announced.
Callable(call, K) ==
  call = NoCall \/ (/\ call \in Made /\ CallOK(call)
                    /\ call.name = "donate" => call.donation \in K)

\* A call that is admitted keeps the account.
LEMMA CallKeeps ==
  ASSUME SyncAssumption, NEW st, NEW K, Account(st, K), NEW call, call # NoCall,
         Callable(call, K), Admitted(st.pool, call), NEW n \in Nat,
         NEW done, done = Done(st.pool, call), NEW es, es = Stamped(n, done.events)
  PROVE  /\ es \in Seq(LogRow) /\ PoolOK(done.pool) /\ LogOK(done.pool, st.log \o es)
         /\ DOMAIN done.pool.donations \subseteq K
  <1> PICK pool, log : pool = st.pool /\ log = st.log
    OBVIOUS
  <1>1. PoolOK(pool) /\ LogOK(pool, log) /\ log \in Seq(LogRow) /\ DOMAIN pool.donations \subseteq K
    BY DEF Account, LogOK
  <1>0. call \in Made /\ CallOK(call) /\ (call.name = "donate" => call.donation \in K)
    BY DEF Callable
  <1>2. CASE call.name = "configureTask"
    <2>1. PICK after, s : after = Configured(pool, call) /\ s = <<>>
      OBVIOUS
    <2>2. done.pool = after /\ done.events = s
      BY <1>2, <2>1 DEF Done, Unchanged
    <2>3. /\ PoolOK(after)
          /\ after.donations = pool.donations /\ after.donated = pool.donated
          /\ after.allocated = pool.allocated /\ after.released = pool.released
          /\ after.refunded = pool.refunded
      BY <1>0, <1>1, <1>2, <2>1, ConfiguredOK
    <2>4. Tallies(pool, after, s)
      BY <1>1, <2>1, <2>3, ConfiguredTells
    <2>5. es = s /\ s \in Seq(LogRow)
      <3>1. Stamped(n, s) = s
        BY <2>1 DEF Stamped
      <3>2. QED
        BY <2>1, <2>2, <3>1
    <2>6. LogOK(after, log \o s)
      BY <1>1, <2>4, <2>5, LogJoin
    <2>7. QED
      BY <1>1, <2>2, <2>3, <2>5, <2>6
  <1>3. CASE call.name = "donate"
    <2>1. PICK given, after, r, e, rows :
            /\ given = WithDonation(pool, call) /\ after = Distributed(given, call.donation)
            /\ e = [name |-> "DonationReceived", donation |-> call.donation,
                    purpose |-> call.purpose, amount |-> call.amount]
            /\ r = [block |-> n, event |-> e] /\ rows = Stamped(n, after.events)
      OBVIOUS
    <2>2. done = [pool |-> after.pool, events |-> <<e>> \o after.events]
      BY <1>3, <2>1 DEF Done, Announced
    <2>3. /\ PoolOK(given) /\ call.donation \in DOMAIN given.donations
          /\ given = [tasks |-> pool.tasks, donations |-> given.donations,
                      donated |-> pool.donated + call.amount, allocated |-> pool.allocated,
                      released |-> pool.released, refunded |-> pool.refunded]
          /\ DOMAIN given.donations = DOMAIN pool.donations \cup {call.donation}
          /\ call.donation \notin DOMAIN pool.donations
          /\ \A x \in DOMAIN pool.donations : given.donations[x] = pool.donations[x]
          /\ given.donations[call.donation].unallocated = call.amount
      BY <1>0, <1>1, <1>3, <2>1, WithDonationOK
    <2>4. call.amount \in Nat /\ e \in PoolEvent
      BY <1>0, <1>3, <2>1 DEF CallOK, PoolEvent
    <2>5. Stamped(n, <<e>>) = <<r>> /\ r \in LogRow /\ <<r>> \in Seq(LogRow) /\ r.event = e
      BY <2>1, <2>4, StampedOne
    <2>6. /\ r.event.name = "DonationReceived" /\ r.event.donation = call.donation
          /\ r.event.amount = call.amount
      BY <2>1, <2>5
    <2>7. Tallies(pool, given, <<r>>)
      <3>1. /\ given.donated = pool.donated + r.event.amount /\ given.allocated = pool.allocated
            /\ given.released = pool.released /\ given.refunded = pool.refunded
        BY <2>3, <2>6
      <3>2. r.event.amount \in Nat /\ given.donations[call.donation].unallocated = r.event.amount
        BY <2>3, <2>4, <2>6
      <3>3. QED
        BY <1>1, <2>3, <2>5, <2>6, <3>1, <3>2, ReceivedTells
    <2>0. PICK q, both : q = <<r>> /\ both = log \o q
      OBVIOUS
    <2>8. LogOK(given, both) /\ q \in Seq(LogRow) /\ both \in Seq(LogRow)
      <3>1. q \in Seq(LogRow) /\ Tallies(pool, given, q)
        BY <2>0, <2>5, <2>7
      <3>2. LogOK(given, both)
        BY <1>1, <2>0, <3>1, LogJoin
      <3>3. QED
        BY <1>1, <2>0, <3>1, <3>2
    <2>9. /\ PoolOK(after.pool) /\ DOMAIN after.pool.donations = DOMAIN given.donations
          /\ after.events \in Seq(PoolEvent) /\ rows \in Seq(LogRow)
          /\ Tallies(given, after.pool, rows)
      <3>1. PICK d : d = call.donation
        OBVIOUS
      <3>2. PoolOK(given) /\ d \in DOMAIN given.donations /\ after = Distributed(given, d)
            /\ rows = Stamped(n, after.events)
        BY <2>1, <2>3, <3>1
      <3>3. QED
        BY <3>2, DistributedTells
    <2>10. LogOK(after.pool, both \o rows)
      BY <2>8, <2>9, LogJoin
    <2>11. es = q \o rows
      <3>1. PICK events, s : events = after.events /\ s = <<e>>
        OBVIOUS
      <3>2. Stamped(n, s \o events) = Stamped(n, s) \o Stamped(n, events)
        BY <2>4, <2>9, <3>1, StampedFirst
      <3>3. done.events = s \o events
        BY <2>2, <3>1
      <3>4. Stamped(n, s) = q /\ Stamped(n, events) = rows
        BY <2>0, <2>1, <2>5, <3>1
      <3>5. QED
        BY <3>2, <3>3, <3>4
    <2>12. log \o es = both \o rows
      <3>1. log \in Seq(LogRow) /\ q \in Seq(LogRow) /\ rows \in Seq(LogRow)
        BY <1>1, <2>8, <2>9
      <3>2. log \o (q \o rows) = (log \o q) \o rows
        BY <3>1, ConcatAssoc, Zenon
      <3>3. QED
        BY <2>0, <2>11, <3>2
    <2>13. es \in Seq(LogRow)
      BY <2>8, <2>9, <2>11
    <2>14. done.pool = after.pool
      BY <2>2
    <2>15. DOMAIN after.pool.donations \subseteq K
      BY <1>0, <1>1, <1>3, <2>3, <2>9
    <2>16. QED
      BY <2>9, <2>10, <2>12, <2>13, <2>14, <2>15
  <1>4. CASE call.name = "allocateRemaining"
    <2>1. PICK d : d = call.donation
      OBVIOUS
    <2>2. d \in DOMAIN pool.donations
      BY <1>4, <2>1 DEF Admitted
    <2>3. done = Distributed(pool, d)
      BY <1>4, <2>1 DEF Done
    <2>4. /\ PoolOK(done.pool) /\ DOMAIN done.pool.donations = DOMAIN pool.donations
          /\ es \in Seq(LogRow) /\ Tallies(pool, done.pool, es)
      BY <1>1, <2>2, <2>3, DistributedTells
    <2>5. LogOK(done.pool, log \o es)
      BY <1>1, <2>4, LogJoin
    <2>6. QED
      BY <1>1, <2>4, <2>5
  <1>5. CASE call.name = "releaseTask"
    <2>1. PICK after, r, e :
            /\ after = done.pool
            /\ e = [name |-> "TaskReleased", task |-> call.task, amount |-> call.amount]
            /\ r = [block |-> n, event |-> e]
      OBVIOUS
    <2>2. done.events = <<e>>
      BY <1>5, <2>1 DEF Done
    <2>3. /\ PoolOK(after)
          /\ after.donations = pool.donations /\ after.donated = pool.donated
          /\ after.allocated = pool.allocated /\ after.refunded = pool.refunded
          /\ after.released = pool.released + call.amount /\ call.amount \in Nat
      BY <1>0, <1>1, <1>5, <2>1, ReleasedOK
    <2>4. e \in PoolEvent
      BY <1>0, <2>1, <2>3 DEF PoolEvent, TaskNames
    <2>5. es = <<r>> /\ r \in LogRow /\ <<r>> \in Seq(LogRow) /\ r.event = e
      BY <2>1, <2>2, <2>4, StampedOne
    <2>6. r.event.name = "TaskReleased" /\ r.event.amount = call.amount
      BY <2>1, <2>5
    <2>7. Tallies(pool, after, <<r>>)
      BY <1>1, <2>3, <2>5, <2>6, ReleasedTells
    <2>8. LogOK(after, log \o <<r>>)
      BY <1>1, <2>5, <2>7, LogJoin
    <2>9. QED
      BY <1>1, <2>1, <2>3, <2>5, <2>8
  <1>6. CASE call.name = "refundUnallocated"
    <2>1. PICK after, r, e, d, rest :
            /\ after = done.pool /\ d = call.donation /\ rest = pool.donations[d].unallocated
            /\ e = [name |-> "DonationRefunded", donation |-> d, amount |-> rest]
            /\ r = [block |-> n, event |-> e]
      OBVIOUS
    <2>2. done.events = <<e>>
      BY <1>6, <2>1 DEF Done
    <2>3. /\ PoolOK(after) /\ d \in DOMAIN pool.donations /\ rest \in Nat
          /\ after.donated = pool.donated
          /\ after.allocated = pool.allocated /\ after.released = pool.released
          /\ after.refunded = pool.refunded + rest
          /\ DOMAIN after.donations = DOMAIN pool.donations
          /\ \A x \in DOMAIN pool.donations : x # d => after.donations[x] = pool.donations[x]
          /\ after.donations[d].unallocated = 0
      BY <1>1, <1>6, <2>1, RefundedOK
    <2>4. e \in PoolEvent
      <3>1. d \in Donations
        BY <1>1, <2>3 DEF PoolOK, PoolTypeOK, Table
      <3>2. QED
        BY <2>1, <2>3, <3>1 DEF PoolEvent
    <2>5. es = <<r>> /\ r \in LogRow /\ <<r>> \in Seq(LogRow) /\ r.event = e
      BY <2>1, <2>2, <2>4, StampedOne
    <2>6. /\ r.event.name = "DonationRefunded" /\ r.event.donation = d
          /\ r.event.amount = pool.donations[d].unallocated
          /\ after.refunded = pool.refunded + r.event.amount
      BY <2>1, <2>3, <2>5
    <2>7. Tallies(pool, after, <<r>>)
      BY <1>1, <2>3, <2>5, <2>6, RefundedTells
    <2>8. LogOK(after, log \o <<r>>)
      BY <1>1, <2>5, <2>7, LogJoin
    <2>9. QED
      BY <1>1, <2>1, <2>3, <2>5, <2>8
  <1>7. QED
    BY <1>0, <1>2, <1>3, <1>4, <1>5, <1>6 DEF CallOK

\* Log `b` begins with `a`.
Continues(a, b) == \E es \in Seq(LogRow) : b = a \o es

\* So does a block, which only adds to the log.
LEMMA BlockKeeps ==
  ASSUME SyncAssumption, NEW st, NEW K, Account(st, K), NEW call, Callable(call, K),
         NEW n \in Nat, NEW next, next = Block(st, n, call)
  PROVE  Account(next, K) /\ Continues(st.log, next.log)
  <1>1. CASE call = NoCall \/ ~Admitted(st.pool, call)
    <2>1. next = st
      BY <1>1 DEF Block
    <2>2. st.log \in Seq(LogRow)
      BY DEF Account, LogOK
    <2>3. PICK es : es = <<>>
      OBVIOUS
    <2>4. es \in Seq(LogRow) /\ st.log = st.log \o es
      BY <2>2, <2>3
    <2>5. QED
      BY <2>1, <2>4 DEF Continues
  <1>2. CASE call # NoCall /\ Admitted(st.pool, call)
    <2>2. PICK done, es : done = Done(st.pool, call) /\ es = Stamped(n, done.events)
      OBVIOUS
    <2>3. next = [pool |-> done.pool, log |-> st.log \o es]
      BY <1>2, <2>2 DEF Block, LogWith, Stamped
    <2>4. /\ es \in Seq(LogRow) /\ PoolOK(done.pool) /\ LogOK(done.pool, st.log \o es)
          /\ DOMAIN done.pool.donations \subseteq K
      BY <1>2, <2>2, CallKeeps
    <2>5. next.pool = done.pool /\ next.log = st.log \o es
      BY <2>3
    <2>6. QED
      BY <2>4, <2>5 DEF Account, Continues
  <1>3. QED
    BY <1>1, <1>2

BlockRow == [call : Made \cup {NoCall}, fork : Nat]
Chain(b, K) == b \in Seq(BlockRow) /\ \A n \in DOMAIN b : Callable(b[n].call, K)

\* Before the first block.
LEMMA StartAccount == ASSUME NEW K PROVE Account(Start, K)
  <1> PICK pool, e : pool = NoPool /\ e = <<>>
    OBVIOUS
  <1>1. /\ pool = [tasks |-> e, donations |-> e, donated |-> 0, allocated |-> 0,
                   released |-> 0, refunded |-> 0]
        /\ DOMAIN e = {} /\ e \in Seq(PoolTask) /\ e \in Seq(LogRow)
    BY DEF NoPool
  <1>2. Total([i \in {} |-> 0]) = 0
    BY TotalEmpty
  <1>3. Kept(pool) = 0
    <2>1. PICK f : f = [i \in DOMAIN pool.tasks |-> pool.tasks[i].allocated - pool.tasks[i].released]
      OBVIOUS
    <2>2. DOMAIN f = {}
      BY <1>1, <2>1
    <2>3. Total(f) = 0
      BY <2>2, TotalEmpty
    <2>4. QED
      BY <2>1, <2>3 DEF Kept
  <1>4. Left(pool) = 0
    <2>1. PICK f : f = [d \in DOMAIN pool.donations |-> pool.donations[d].unallocated]
      OBVIOUS
    <2>2. DOMAIN f = {}
      BY <1>1, <2>1
    <2>3. Total(f) = 0
      BY <2>2, TotalEmpty
    <2>4. QED
      BY <2>1, <2>3 DEF Left
  <1>5. Table(e, Donations, PoolDonation)
    <2>1. e \in [{} -> PoolDonation]
      BY <1>1
    <2>2. QED
      BY <1>1, <2>1, FS_EmptySet DEF Table
  <1>6. PoolTypeOK(pool)
    BY <1>1, <1>5 DEF PoolTypeOK
  <1>7. TasksOK(pool)
    BY <1>1 DEF TasksOK
  <1>8. PoolOK(pool)
    BY <1>1, <1>3, <1>4, <1>6, <1>7 DEF PoolOK
  <1>9. /\ \A name : Paid(e, name) = 0
        /\ \A name, d : PaidFor(e, name, d) = 0
    BY PaidNone
  <1>10. Origins(DOMAIN pool.donations, e) /\ BooksOf(pool, e)
    BY <1>1, <1>9 DEF Origins, BooksOf
  <1>11. LogOK(pool, e)
    BY <1>1, <1>10 DEF LogOK
  <1>12. Start.pool = pool /\ Start.log = e /\ DOMAIN pool.donations = {}
    BY <1>1 DEF Start
  <1>13. QED
    BY <1>8, <1>11, <1>12 DEF Account

\* The first blocks of a chain.
LEMMA FirstBlocks ==
  ASSUME NEW K, NEW b, Chain(b, K), NEW n \in Nat, n <= Len(b)
  PROVE  /\ Chain(SubSeq(b, 1, n), K) /\ Len(SubSeq(b, 1, n)) = n
         /\ \A m \in 0..n : SubSeq(SubSeq(b, 1, n), 1, m) = SubSeq(b, 1, m)
  <1> PICK c : c = SubSeq(b, 1, n)
    OBVIOUS
  <1>1. b \in Seq(BlockRow)
    BY DEF Chain
  <1>2. c \in Seq(BlockRow) /\ Len(c) = n /\ \A i \in 1..n : c[i] = b[i]
    BY <1>1
  <1>3. Chain(c, K)
    BY <1>1, <1>2 DEF Chain
  <1>4. ASSUME NEW m \in 0..n PROVE SubSeq(c, 1, m) = SubSeq(b, 1, m)
    <2>1. m \in Nat /\ m <= Len(c) /\ m <= Len(b)
      BY <1>2
    <2>2. PICK x, y : x = SubSeq(c, 1, m) /\ y = SubSeq(b, 1, m)
      OBVIOUS
    <2>3. x = [i \in 1..m |-> x[i]] /\ y = [i \in 1..m |-> y[i]]
      BY <1>1, <1>2, <2>1, <2>2
    <2>4. \A i \in 1..m : x[i] = y[i]
      BY <1>1, <1>2, <2>1, <2>2
    <2>5. QED
      BY <2>2, <2>3, <2>4
  <1>5. QED
    BY <1>2, <1>3, <1>4

\* The books of a chain hold, however long it is.
LEMMA ChainAccount ==
  ASSUME SyncAssumption, NEW K, NEW b, Chain(b, K)
  PROVE  /\ Account(Mined(b), K)
         /\ \A n \in 0..Len(b) : Account(Mined(SubSeq(b, 1, n)), K)
  <1> DEFINE T == {n \in Nat : n <= Len(b) => Account(Mined(SubSeq(b, 1, n)), K)}
  <1>1. b \in Seq(BlockRow) /\ Len(b) \in Nat /\ \A n \in 1..Len(b) : Callable(b[n].call, K)
    BY DEF Chain
  <1>2. 0 \in T
    <2>1. SubSeq(b, 1, 0) = <<>>
      BY <1>1
    <2>2. Account(Mined(SubSeq(b, 1, 0)), K)
      BY <2>1, MinedNone, StartAccount
    <2>3. QED
      BY <2>2
  <1>3. ASSUME NEW n \in Nat, n \in T PROVE n + 1 \in T
    <2> SUFFICES ASSUME n + 1 <= Len(b) PROVE Account(Mined(SubSeq(b, 1, n + 1)), K)
      OBVIOUS
    <2>1. n < Len(b) /\ n + 1 \in 1..Len(b) /\ n + 1 \in Nat
      BY <1>1
    <2>2. Account(Mined(SubSeq(b, 1, n)), K)
      BY <1>1, <1>3, <2>1
    <2>3. Mined(SubSeq(b, 1, n + 1)) = Block(Mined(SubSeq(b, 1, n)), n + 1, b[n + 1].call)
      BY <1>1, <2>1, MinedNext
    <2>4. PICK st, next, call, m : /\ st = Mined(SubSeq(b, 1, n)) /\ call = b[n + 1].call
                                   /\ m = n + 1 /\ next = Block(st, m, call)
      OBVIOUS
    <2>5. Account(st, K) /\ Callable(call, K) /\ m \in Nat
      BY <1>1, <2>1, <2>2, <2>4
    <2>6. Account(next, K)
      BY <2>4, <2>5, BlockKeeps
    <2>7. QED
      BY <2>3, <2>4, <2>6
  <1> HIDE DEF T
  <1>4. Nat \subseteq T
    BY <1>2, <1>3, NatSetInduction
  <1>5. \A n \in 0..Len(b) : Account(Mined(SubSeq(b, 1, n)), K)
    BY <1>1, <1>4 DEF T
  <1>6. SubSeq(b, 1, Len(b)) = b
    BY <1>1
  <1>7. Account(Mined(b), K)
    <2>1. PICK n : n = Len(b)
      OBVIOUS
    <2>2. n \in 0..Len(b)
      BY <1>1, <2>1
    <2>3. Account(Mined(SubSeq(b, 1, n)), K)
      BY <1>5, <2>2
    <2>4. SubSeq(b, 1, n) = b
      BY <1>6, <2>1
    <2>5. QED
      BY <2>3, <2>4
  <1>8. QED
    BY <1>5, <1>7

\* A longer chain has the log of a shorter one, and more.
LEMMA LogGrows ==
  ASSUME SyncAssumption, NEW K, NEW b, Chain(b, K), NEW m \in Nat, NEW k \in Nat,
         m <= k, k <= Len(b)
  PROVE  Continues(Mined(SubSeq(b, 1, m)).log, Mined(SubSeq(b, 1, k)).log)
  <1> DEFINE L(n) == Mined(SubSeq(b, 1, n)).log
             T == {n \in Nat : m + n <= Len(b) => Continues(L(m), L(m + n))}
  <1>1. b \in Seq(BlockRow) /\ Len(b) \in Nat /\ \A n \in 1..Len(b) : Callable(b[n].call, K)
    BY DEF Chain
  <1>2. \A n \in 0..Len(b) : Account(Mined(SubSeq(b, 1, n)), K) /\ L(n) \in Seq(LogRow)
    BY ChainAccount DEF Account, LogOK
  <1>3. 0 \in T
    <2>1. m + 0 = m /\ m \in 0..Len(b) /\ L(m) \in Seq(LogRow)
      BY <1>1, <1>2
    <2>2. PICK l, e : l = L(m) /\ e = <<>>
      OBVIOUS
    <2>3. l = l \o e /\ e \in Seq(LogRow)
      BY <2>1, <2>2
    <2>4. Continues(L(m), L(m + 0))
      BY <2>1, <2>2, <2>3 DEF Continues
    <2>5. QED
      BY <2>4
  <1>4. ASSUME NEW n \in Nat, n \in T PROVE n + 1 \in T
    <2> SUFFICES ASSUME m + (n + 1) <= Len(b) PROVE Continues(L(m), L(m + (n + 1)))
      OBVIOUS
    <2>1. PICK p : p = m + n
      OBVIOUS
    <2>2. p \in Nat /\ p < Len(b) /\ p + 1 \in 1..Len(b) /\ m + (n + 1) = p + 1 /\ p \in 0..Len(b)
          /\ m \in 0..Len(b)
      BY <1>1, <2>1
    <2>0. Continues(L(m), L(p))
      BY <1>4, <2>1, <2>2
    <2>3. PICK fs \in Seq(LogRow) : L(p) = L(m) \o fs
      BY <2>0 DEF Continues
    <2>4. PICK st, next, call, q :
            /\ st = Mined(SubSeq(b, 1, p)) /\ call = b[p + 1].call /\ q = p + 1
            /\ next = Block(st, q, call)
      OBVIOUS
    <2>5. Mined(SubSeq(b, 1, p + 1)) = next
      BY <1>1, <2>2, <2>4, MinedNext
    <2>6. Account(st, K) /\ Callable(call, K) /\ q \in Nat
      BY <1>1, <1>2, <2>2, <2>4
    <2>7. PICK es \in Seq(LogRow) : next.log = st.log \o es
      <3>1. next = Block(st, q, call)
        BY <2>4
      <3>2. Continues(st.log, next.log)
        BY <2>6, <3>1, BlockKeeps
      <3>3. QED
        BY <3>2 DEF Continues
    <2>8. PICK l, gs : l = L(m) /\ gs = fs \o es
      OBVIOUS
    <2>9. l \in Seq(LogRow) /\ gs \in Seq(LogRow)
      BY <1>2, <2>2, <2>8
    <2>10. L(p + 1) = l \o gs
      <3>1. L(p + 1) = (l \o fs) \o es
        BY <2>3, <2>4, <2>5, <2>7, <2>8
      <3>2. (l \o fs) \o es = l \o (fs \o es)
        BY <2>9, ConcatAssoc, Zenon
      <3>3. QED
        BY <2>8, <3>1, <3>2
    <2>11. QED
      BY <2>2, <2>8, <2>9, <2>10 DEF Continues
  <1> HIDE DEF T
  <1>5. k - m \in T
    <2>1. k - m \in Nat
      OBVIOUS
    <2>2. QED
      BY <1>3, <1>4, <2>1, NatSetInduction
  <1>6. m + (k - m) = k
    OBVIOUS
  <1>7. QED
    BY <1>5, <1>6 DEF T

\* What is appended to a sequence is the stretch after it.
LEMMA TailOf ==
  ASSUME NEW R, NEW a \in Seq(R), NEW b \in Seq(R), NEW ab, ab = a \o b
  PROVE  SubSeq(ab, Len(a) + 1, Len(ab)) = b
  <1>1. PICK n, p, x : n = Len(a) /\ p = Len(b) /\ x = SubSeq(ab, n + 1, n + p)
    OBVIOUS
  <1>2. n \in Nat /\ p \in Nat /\ ab \in Seq(R) /\ Len(ab) = n + p
    BY <1>1
  <1>3. \A i \in DOMAIN b : ab[n + i] = b[i]
    BY <1>1, Joined
  <1>4. DOMAIN b = 1..p /\ b = [i \in 1..p |-> b[i]]
    BY <1>1
  <1>5. x = [i \in 1..p |-> ab[n + i]]
    <2>1. x \in Seq(R) /\ Len(x) = p
      BY <1>1, <1>2
    <2>2. DOMAIN x = 1..p /\ x = [i \in 1..p |-> x[i]]
      BY <2>1
    <2>3. ASSUME NEW i \in 1..p PROVE x[i] = ab[n + i]
      BY <1>1, <1>2
    <2>4. QED
      BY <2>2, <2>3
  <1>6. \A i \in 1..p : ab[n + i] = b[i]
    BY <1>3, <1>4
  <1>7. QED
    BY <1>1, <1>2, <1>4, <1>5, <1>6

\* The logs of the blocks in between continue the log.
Spans(b, m, k) ==
  /\ Logs(b, m + 1, k) \in Seq(LogRow)
  /\ Mined(SubSeq(b, 1, m)).log \in Seq(LogRow)
  /\ Mined(SubSeq(b, 1, k)).log = Mined(SubSeq(b, 1, m)).log \o Logs(b, m + 1, k)

LEMMA LogsContinue ==
  ASSUME SyncAssumption, NEW K, NEW b, Chain(b, K), NEW m \in Nat, NEW k \in Nat,
         m <= k, k <= Len(b)
  PROVE  Spans(b, m, k)
  <1>1. b \in Seq(BlockRow) /\ Len(b) \in Nat
    BY DEF Chain
  <1>2. PICK l, l2 : l = Mined(SubSeq(b, 1, m)).log /\ l2 = Mined(SubSeq(b, 1, k)).log
    OBVIOUS
  <1>3. l \in Seq(LogRow) /\ l2 \in Seq(LogRow)
    <2>1. m \in 0..Len(b) /\ k \in 0..Len(b)
      BY <1>1
    <2>2. QED
      BY <1>2, <2>1, ChainAccount DEF Account, LogOK
  <1>4. PICK es \in Seq(LogRow) : l2 = l \o es
    <2>1. Continues(l, l2)
      BY <1>2, LogGrows
    <2>2. QED
      BY <2>1 DEF Continues
  <1>5. LogTo(b, k) = l2 /\ LogTo(b, m) = l
    BY <1>1, <1>2 DEF LogTo, Smaller
  <1>6. Logs(b, m + 1, k) = SubSeq(l2, Len(l) + 1, Len(l2))
    <2>1. (m + 1) - 1 = m
      OBVIOUS
    <2>2. QED
      BY <1>5, <2>1 DEF Logs
  <1>7. SubSeq(l2, Len(l) + 1, Len(l2)) = es
    BY <1>3, <1>4, TailOf
  <1>8. QED
    BY <1>2, <1>3, <1>4, <1>6, <1>7 DEF Spans

-----------------------------------------------------------------------------
(* What sync() read is the history of one chain *)

\* History `h` is on chain `c`; or one of its blocks was dropped from the chain,
\* which has since had `f` reorganisations, and cannot come back.
OnIn(h, c) == Len(h) <= Len(c) /\ h = SubSeq(c, 1, Len(h))
Dead(h, c, f) ==
  \E i \in 1..Len(h) : h[i].fork < f /\ (i <= Len(c) => c[i].fork > h[i].fork)
History(h, c, f, K) == Chain(h, K) /\ (OnIn(h, c) \/ Dead(h, c, f))

\* What is persisted is the history of its anchor.
DbOK(b, c, f, K) ==
  /\ History(b.anchor, c, f, K) /\ b.through = Len(b.anchor)
  /\ b.events = Mined(b.anchor).log /\ b.tasks = Mined(b.anchor).pool.tasks

\* The block read first continues the anchor, the logs are those in between, and
\* the tasks those of that block, unless it was dropped, which is noticed before
\* "commit".
BatchOK(s, b, c, f, K) ==
  /\ s.to \in Nat /\ b.through < s.to /\ Len(s.checkpoint) = s.to
  /\ History(s.checkpoint, c, f, K)
  /\ (~Dead(b.anchor, c, f) => b.anchor = SubSeq(s.checkpoint, 1, b.through))
Sound(s, c, f) == s.pc = "commit" \/ ~Dead(s.checkpoint, c, f)
LogsOK(s, b, c, f, K) ==
  /\ Chain(s.branch, K) /\ s.logs = Logs(s.branch, b.through + 1, s.to)
  /\ (Sound(s, c, f) => /\ s.to <= Len(s.branch)
                        /\ s.checkpoint = SubSeq(s.branch, 1, s.to))
TasksRead(s, c, f) == Sound(s, c, f) => s.tasks = Mined(s.checkpoint).pool.tasks

\* The variables sync() holds at each of its steps.
ScanShape(s) ==
  /\ s.pc \in {"idle", "anchor", "batch", "logs", "verify", "tasks", "canonical", "commit",
               "inspect", "mark"}
  /\ s.pc # "idle" => s.final \in Int
  /\ s.pc \in {"verify", "tasks"} =>
       s \in [pc : {s.pc}, final : {s.final}, batch : {s.batch}, to : {s.to},
              checkpoint : {s.checkpoint}, branch : {s.branch}, logs : {s.logs}]
  /\ s.pc \in {"canonical", "commit"} =>
       s \in [pc : {s.pc}, final : {s.final}, batch : {s.batch}, to : {s.to},
              checkpoint : {s.checkpoint}, branch : {s.branch}, logs : {s.logs},
              tasks : {s.tasks}]
  /\ s.pc = "inspect" => s \in [pc : {s.pc}, final : {s.final}, todo : {s.todo}]
FetchOK(s, b, c, f, K) ==
  /\ ScanShape(s)
  /\ s.pc \in {"logs", "verify", "tasks", "canonical", "commit"} => BatchOK(s, b, c, f, K)
  /\ s.pc \in {"verify", "tasks", "canonical", "commit"} => LogsOK(s, b, c, f, K)
  /\ s.pc \in {"canonical", "commit"} => TasksRead(s, c, f)

\* The intents that are not in the ledger; only those are marked.
Pending == {d \in DOMAIN intents : ~InLedger(d)}
MarksOK ==
  /\ scan.pc = "inspect" => scan.todo \subseteq Pending
  /\ scan.pc = "mark" => /\ scan.todo \subseteq Pending /\ scan.mark.id \in Pending
                         /\ scan.mark.status # "CONFIRMED"

ChainOK ==
  /\ forks \in Nat /\ Chain(chain, DOMAIN intents)
  /\ \A i \in DOMAIN chain : chain[i].fork <= forks
IntentsOK ==
  /\ intents = [d \in DOMAIN intents |-> intents[d]]
  /\ \A d \in DOMAIN intents :
       intents[d] \in [status : {intents[d].status}, claim : {intents[d].claim}]
  /\ asked \cap DOMAIN intents = {}
SyncInv ==
  /\ ChainOK /\ IntentsOK
  /\ DbOK(db, chain, forks, DOMAIN intents)
  /\ FetchOK(scan, db, chain, forks, DOMAIN intents)
  /\ MarksOK /\ ConfirmedIsIndexed

\* Chain `c2`, after `f2` reorganisations, follows on `c`, after `f`.
Follows(c, f, c2, f2) ==
  \A h \in Seq(BlockRow) : /\ Dead(h, c, f) => Dead(h, c2, f2)
                           /\ OnIn(h, c) => OnIn(h, c2) \/ Dead(h, c2, f2)

\* One block more brings nothing back and takes nothing off.
LEMMA MinedFollows ==
  ASSUME NEW c \in Seq(BlockRow), NEW f \in Nat, NEW r \in BlockRow, r.fork = f,
         NEW c2, c2 = Append(c, r)
  PROVE  Follows(c, f, c2, f)
  <1>1. /\ Len(c) \in Nat /\ Len(c2) = Len(c) + 1 /\ c2[Len(c) + 1] = r
        /\ \A i \in 1..Len(c) : c2[i] = c[i]
        /\ c2 \in Seq(BlockRow)
    OBVIOUS
  <1>2. ASSUME NEW h \in Seq(BlockRow), Dead(h, c, f) PROVE Dead(h, c2, f)
    <2>1. PICK i \in 1..Len(h) : h[i].fork < f /\ (i <= Len(c) => c[i].fork > h[i].fork)
      BY <1>2 DEF Dead
    <2>2. i <= Len(c2) => c2[i].fork > h[i].fork
      <3>1. CASE i <= Len(c)
        <4>1. i \in 1..Len(c)
          BY <1>1, <3>1
        <4>2. QED
          BY <1>1, <2>1, <3>1, <4>1
      <3>2. CASE i = Len(c) + 1
        <4>1. c2[i].fork = f /\ h[i] \in BlockRow
          BY <1>1, <3>2
        <4>2. h[i].fork \in Nat
          BY <4>1 DEF BlockRow
        <4>3. QED
          BY <2>1, <4>1, <4>2
      <3>3. QED
        BY <1>1, <3>1, <3>2
    <2>3. QED
      BY <2>1, <2>2 DEF Dead
  <1>3. ASSUME NEW h \in Seq(BlockRow), OnIn(h, c) PROVE OnIn(h, c2)
    <2>1. PICK n, x, y : n = Len(h) /\ x = SubSeq(c, 1, n) /\ y = SubSeq(c2, 1, n)
      OBVIOUS
    <2>2. n \in Nat /\ n <= Len(c) /\ h = x
      BY <1>3, <2>1 DEF OnIn
    <2>3. /\ x = [i \in 1..n |-> x[i]] /\ y = [i \in 1..n |-> y[i]]
          /\ \A i \in 1..n : x[i] = c[i] /\ y[i] = c2[i]
      BY <1>1, <2>1, <2>2
    <2>4. \A i \in 1..n : x[i] = y[i]
      BY <1>1, <2>2, <2>3
    <2>5. x = y /\ n <= Len(c2)
      BY <1>1, <2>2, <2>3, <2>4
    <2>6. QED
      BY <2>1, <2>2, <2>5 DEF OnIn
  <1>4. QED
    BY <1>2, <1>3 DEF Follows

\* A reorganisation drops for good what was above the block it goes back to.
LEMMA DroppedFollows ==
  ASSUME NEW c \in Seq(BlockRow), NEW f \in Nat, \A i \in DOMAIN c : c[i].fork <= f,
         NEW n \in Nat, n < Len(c), NEW c2, c2 = SubSeq(c, 1, n), NEW f2, f2 = f + 1
  PROVE  Follows(c, f, c2, f2)
  <1>1. /\ Len(c) \in Nat /\ Len(c2) = n /\ c2 \in Seq(BlockRow)
        /\ \A i \in 1..n : c2[i] = c[i]
    OBVIOUS
  <1>2. ASSUME NEW h \in Seq(BlockRow), Dead(h, c, f) PROVE Dead(h, c2, f2)
    <2>1. PICK i \in 1..Len(h) : h[i].fork < f /\ (i <= Len(c) => c[i].fork > h[i].fork)
      BY <1>2 DEF Dead
    <2>2. h[i] \in BlockRow /\ i \in Nat /\ 1 <= i
      BY <1>2, <2>1
    <2>3. h[i].fork \in Nat
      BY <2>2 DEF BlockRow
    <2>4. h[i].fork < f2
      BY <2>1, <2>3
    <2>5. i <= Len(c2) => c2[i].fork > h[i].fork
      BY <1>1, <2>1, <2>2
    <2>6. QED
      BY <2>4, <2>5 DEF Dead
  <1>3. ASSUME NEW h \in Seq(BlockRow), OnIn(h, c) PROVE OnIn(h, c2) \/ Dead(h, c2, f2)
    <2>1. PICK m, x : m = Len(h) /\ x = SubSeq(c, 1, m)
      OBVIOUS
    <2>2. m \in Nat /\ m <= Len(c) /\ h = x
      BY <1>3, <2>1 DEF OnIn
    <2>3. CASE m <= n
      <3>1. PICK y : y = SubSeq(c2, 1, m)
        OBVIOUS
      <3>2. /\ x = [i \in 1..m |-> x[i]] /\ y = [i \in 1..m |-> y[i]]
            /\ \A i \in 1..m : x[i] = c[i] /\ y[i] = c2[i]
        BY <1>1, <2>1, <2>2, <2>3, <3>1
      <3>3. ASSUME NEW i \in 1..m PROVE x[i] = y[i]
        <4>1. i \in 1..n
          BY <2>2, <2>3
        <4>2. QED
          BY <1>1, <3>2, <4>1
      <3>4. x = y
        BY <3>2, <3>3
      <3>5. QED
        BY <1>1, <2>1, <2>2, <2>3, <3>1, <3>4 DEF OnIn
    <2>4. CASE m > n
      <3>1. PICK i : i = n + 1
        OBVIOUS
      <3>2. i \in 1..Len(h) /\ i \in DOMAIN c /\ ~(i <= Len(c2))
        BY <1>1, <2>1, <2>2, <2>4, <3>1
      <3>3. h[i] = c[i]
        BY <2>1, <2>2, <3>2
      <3>4. c[i].fork \in Nat /\ c[i].fork <= f
        <4>1. c[i] \in BlockRow
          BY <3>2
        <4>2. QED
          BY <3>2, <4>1 DEF BlockRow
      <3>5. h[i].fork < f2
        BY <3>3, <3>4
      <3>6. QED
        BY <3>2, <3>5 DEF Dead
    <2>5. QED
      BY <2>2, <2>3, <2>4
  <1>4. QED
    BY <1>2, <1>3 DEF Follows

LEMMA StayedFollows == ASSUME NEW c, NEW f PROVE Follows(c, f, c, f)
  BY DEF Follows

\* More may be called once more was announced.
LEMMA ChainWidens == ASSUME NEW h, NEW K, NEW K2, K \subseteq K2, Chain(h, K) PROVE Chain(h, K2)
  <1>1. \A n \in DOMAIN h : Callable(h[n].call, K2)
    BY DEF Chain, Callable
  <1>2. QED
    BY <1>1 DEF Chain

\* What the environment does keeps what was persisted and read.
LEMMA FollowingKeeps ==
  ASSUME NEW s, NEW b, NEW c, NEW f, NEW K, NEW c2, NEW f2, NEW K2,
         Follows(c, f, c2, f2), K \subseteq K2, DbOK(b, c, f, K)
  PROVE  DbOK(b, c2, f2, K2) /\ (FetchOK(s, b, c, f, K) => FetchOK(s, b, c2, f2, K2))
  <1>1. ASSUME NEW h, History(h, c, f, K) PROVE History(h, c2, f2, K2)
    <2>1. Chain(h, K2) /\ h \in Seq(BlockRow)
      BY <1>1, ChainWidens DEF History, Chain
    <2>2. QED
      BY <1>1, <2>1 DEF History, Follows
  <1>2. ASSUME NEW h, History(h, c, f, K), ~Dead(h, c2, f2) PROVE ~Dead(h, c, f)
    <2>1. h \in Seq(BlockRow)
      BY <1>2 DEF History, Chain
    <2>2. QED
      BY <1>2, <2>1 DEF Follows
  <1>3. DbOK(b, c2, f2, K2)
    BY <1>1 DEF DbOK
  <1>4. ASSUME BatchOK(s, b, c, f, K) PROVE BatchOK(s, b, c2, f2, K2)
    BY <1>1, <1>2, <1>4 DEF BatchOK, DbOK
  <1>5. ASSUME BatchOK(s, b, c, f, K), Sound(s, c2, f2) PROVE Sound(s, c, f)
    BY <1>2, <1>5 DEF BatchOK, Sound
  <1>6. ASSUME BatchOK(s, b, c, f, K), LogsOK(s, b, c, f, K) PROVE LogsOK(s, b, c2, f2, K2)
    BY <1>5, <1>6, ChainWidens DEF LogsOK
  <1>7. ASSUME BatchOK(s, b, c, f, K), TasksRead(s, c, f) PROVE TasksRead(s, c2, f2)
    BY <1>5, <1>7 DEF TasksRead
  <1>8. FetchOK(s, b, c, f, K) => FetchOK(s, b, c2, f2, K2)
    BY <1>4, <1>6, <1>7 DEF FetchOK
  <1>9. QED
    BY <1>3, <1>8

\* A step outside sync().
LEMMA OutsideKeeps ==
  ASSUME SyncInv, UNCHANGED <<db, scan>>, Follows(chain, forks, chain', forks'),
         DOMAIN intents \subseteq DOMAIN intents', ChainOK', IntentsOK',
         \A d \in DOMAIN intents :
           intents'[d].status = "CONFIRMED" <=> intents[d].status = "CONFIRMED",
         \A d \in DOMAIN intents' :
           d \notin DOMAIN intents => ~InLedger(d) /\ intents'[d].status # "CONFIRMED"
  PROVE  SyncInv'
  <1>1. DbOK(db, chain, forks, DOMAIN intents) /\ FetchOK(scan, db, chain, forks, DOMAIN intents)
    BY DEF SyncInv
  <1>2. PICK s, b, c, f, K, c2, f2, K2 :
          /\ s = scan /\ b = db /\ c = chain /\ f = forks /\ K = DOMAIN intents
          /\ c2 = chain' /\ f2 = forks' /\ K2 = DOMAIN intents'
    OBVIOUS
  <1>3. /\ Follows(c, f, c2, f2) /\ K \subseteq K2 /\ DbOK(b, c, f, K) /\ FetchOK(s, b, c, f, K)
    BY <1>1, <1>2
  <1>4. DbOK(b, c2, f2, K2) /\ FetchOK(s, b, c2, f2, K2)
    BY <1>3, FollowingKeeps
  <1>5. DbOK(db, chain, forks, DOMAIN intents)' /\ FetchOK(scan, db, chain, forks, DOMAIN intents)'
    BY <1>2, <1>4
  <1>6. \A d : InLedger(d)' <=> InLedger(d)
    BY DEF InLedger, Received
  <1>7. MarksOK'
    <2>1. Pending \subseteq Pending'
      BY <1>6 DEF Pending
    <2>2. MarksOK
      BY DEF SyncInv
    <2>3. QED
      BY <2>1, <2>2 DEF MarksOK
  <1>8. ConfirmedIsIndexed'
    <2>1. ConfirmedIsIndexed
      BY DEF SyncInv
    <2>2. QED
      BY <1>6, <2>1 DEF ConfirmedIsIndexed
  <1>9. QED
    BY <1>5, <1>7, <1>8 DEF SyncInv

\* Nothing is in the ledger of a donation that was not announced.
LEMMA Unannounced ==
  ASSUME SyncAssumption, SyncInv, NEW d, d \notin DOMAIN intents PROVE ~InLedger(d)
  <1> PICK b, K : b = db.anchor /\ K = DOMAIN intents
    OBVIOUS
  <1>1. Chain(b, K) /\ db.events = Mined(b).log
    BY DEF SyncInv, DbOK, History
  <1>2. Account(Mined(b), K)
    BY <1>1, ChainAccount
  <1>3. \A i \in DOMAIN db.events :
          db.events[i].event.name = "DonationReceived" => db.events[i].event.donation \in K
    BY <1>1, <1>2 DEF Account, LogOK, Origins
  <1>4. QED
    BY <1>3 DEF InLedger, Received

LEMMA MineKeeps ==
  ASSUME SyncAssumption, SyncInv, NEW call \in Calls \cup {NoCall}, Mine(call) PROVE SyncInv'
  <1>1. /\ chain \in Seq(BlockRow) /\ forks \in Nat /\ Chain(chain, DOMAIN intents)
        /\ \A i \in DOMAIN chain : chain[i].fork <= forks
    BY DEF SyncInv, ChainOK, Chain
  <1>2. PICK r : r = [call |-> call, fork |-> forks]
    OBVIOUS
  <1>3. r \in BlockRow /\ r.fork = forks /\ r.call = call
    BY <1>1, <1>2 DEF BlockRow, Made
  <1>4. chain' = Append(chain, r) /\ UNCHANGED <<forks, intents, asked, db, scan>>
    BY <1>2 DEF Mine
  <1>5. Callable(call, DOMAIN intents)
    <2>1. CASE call = NoCall
      BY <2>1 DEF Callable
    <2>2. CASE call # NoCall
      <3>1. call \in Calls /\ CallOK(call)
        BY <2>2, SyncAssumption
      <3>2. call.name = "donate" => call.donation \in DOMAIN intents
        BY <2>2 DEF Mine, Known
      <3>3. QED
        BY <3>1, <3>2 DEF Callable, Made
    <2>3. QED
      BY <2>1, <2>2
  <1>6. PICK c, n : c = chain' /\ n = Len(chain)
    OBVIOUS
  <1>7. /\ n \in Nat /\ c \in Seq(BlockRow) /\ DOMAIN c = 1..(n + 1) /\ c[n + 1] = r
        /\ DOMAIN chain = 1..n /\ \A i \in 1..n : c[i] = chain[i]
    BY <1>1, <1>3, <1>4, <1>6
  <1>8. \A i \in DOMAIN c : (i \in DOMAIN chain /\ c[i] = chain[i]) \/ c[i] = r
    BY <1>7
  <1>9. Chain(c, DOMAIN intents)
    BY <1>1, <1>3, <1>5, <1>7, <1>8 DEF Chain
  <1>10. \A i \in DOMAIN c : c[i].fork <= forks
    BY <1>1, <1>3, <1>8
  <1>11. ChainOK'
    BY <1>1, <1>4, <1>6, <1>9, <1>10 DEF ChainOK
  <1>12. Follows(chain, forks, chain', forks')
    <2>1. PICK h, f : h = chain /\ f = forks
      OBVIOUS
    <2>2. h \in Seq(BlockRow) /\ f \in Nat /\ r.fork = f /\ c = Append(h, r)
      BY <1>1, <1>3, <1>4, <1>6, <2>1
    <2>3. Follows(h, f, c, f)
      BY <1>3, <2>2, MinedFollows
    <2>4. QED
      BY <1>4, <1>6, <2>1, <2>3
  <1>13. IntentsOK'
    BY <1>4 DEF SyncInv, IntentsOK
  <1>14. QED
    BY <1>4, <1>11, <1>12, <1>13, OutsideKeeps

LEMMA ReorganiseKeeps ==
  ASSUME SyncInv, NEW n \in Nat, Reorganise(n) PROVE SyncInv'
  <1>1. /\ chain \in Seq(BlockRow) /\ forks \in Nat /\ Chain(chain, DOMAIN intents)
        /\ \A i \in DOMAIN chain : chain[i].fork <= forks
    BY DEF SyncInv, ChainOK, Chain
  <1>2. /\ chain' = SubSeq(chain, 1, n) /\ forks' = forks + 1 /\ n < Len(chain)
        /\ UNCHANGED <<intents, asked, db, scan>>
    BY DEF Reorganise, Hash
  <1>3. PICK c, h, f, g : c = chain' /\ h = chain /\ f = forks /\ g = forks'
    OBVIOUS
  <1>4. /\ h \in Seq(BlockRow) /\ f \in Nat /\ g = f + 1 /\ c = SubSeq(h, 1, n) /\ n < Len(h)
        /\ \A i \in DOMAIN h : h[i].fork <= f
    BY <1>1, <1>2, <1>3
  <1>5. Follows(h, f, c, g)
    BY <1>4, DroppedFollows
  <1>6. c \in Seq(BlockRow) /\ DOMAIN c \subseteq DOMAIN h /\ \A i \in DOMAIN c : c[i] = h[i]
    BY <1>4
  <1>7. ChainOK'
    <2>1. Chain(c, DOMAIN intents)
      BY <1>1, <1>3, <1>6 DEF Chain
    <2>2. ASSUME NEW i \in DOMAIN c PROVE c[i].fork <= g
      <3>1. h[i] \in BlockRow /\ h[i].fork <= f /\ c[i] = h[i]
        BY <1>4, <1>6
      <3>2. h[i].fork \in Nat
        BY <3>1 DEF BlockRow
      <3>3. QED
        BY <1>4, <3>1, <3>2
    <2>3. QED
      BY <1>2, <1>3, <1>4, <2>1, <2>2 DEF ChainOK
  <1>8. IntentsOK'
    BY <1>2 DEF SyncInv, IntentsOK
  <1>9. QED
    BY <1>2, <1>3, <1>5, <1>7, <1>8, OutsideKeeps

LEMMA AskKeeps == ASSUME SyncInv, NEW d, Ask(d) PROVE SyncInv'
  <1>1. UNCHANGED <<chain, forks, intents, db, scan>> /\ asked' = asked \cup {d}
        /\ d \notin DOMAIN intents
    BY DEF Ask
  <1>2. ChainOK' /\ IntentsOK'
    BY <1>1 DEF SyncInv, ChainOK, IntentsOK
  <1>3. Follows(chain, forks, chain', forks')
    BY <1>1, StayedFollows
  <1>4. QED
    BY <1>1, <1>2, <1>3, OutsideKeeps

LEMMA PrepareKeeps == ASSUME SyncAssumption, SyncInv, NEW d, Prepare(d) PROVE SyncInv'
  <1>1. /\ UNCHANGED <<chain, forks, db, scan>> /\ asked' = asked \ {d} /\ d \in asked
        /\ intents' = [x \in DOMAIN intents \cup {d} |->
             IF x = d THEN [status |-> "AWAITING_SIGNATURE", claim |-> NoCall] ELSE intents[x]]
    BY DEF Prepare
  <1>2. IntentsOK
    BY DEF SyncInv
  <1>3. d \notin DOMAIN intents
    BY <1>1, <1>2 DEF IntentsOK
  <1>4. PICK fresh : fresh = [status |-> "AWAITING_SIGNATURE", claim |-> NoCall]
    OBVIOUS
  <1>5. fresh \in [status : {fresh.status}, claim : {fresh.claim}]
        /\ fresh.status = "AWAITING_SIGNATURE"
    BY <1>4
  <1>6. PICK old, new, K, K2 : /\ old = intents /\ new = intents' /\ K = DOMAIN intents
                               /\ K2 = DOMAIN intents'
    OBVIOUS
  <1>7. new = [x \in K \cup {d} |-> IF x = d THEN fresh ELSE old[x]] /\ d \notin K
    BY <1>1, <1>3, <1>4, <1>6
  <1>8. /\ DOMAIN new = K \cup {d} /\ K2 = DOMAIN new /\ new[d] = fresh
        /\ \A x \in K : new[x] = old[x]
    BY <1>6, <1>7
  <1>9. IntentsOK'
    <2>1. new = [x \in K2 |-> new[x]]
      BY <1>7, <1>8
    <2>2. \A x \in K : old[x] \in [status : {old[x].status}, claim : {old[x].claim}]
      BY <1>2, <1>6 DEF IntentsOK
    <2>3. \A x \in K2 : new[x] \in [status : {new[x].status}, claim : {new[x].claim}]
      BY <1>5, <1>8, <2>2
    <2>4. asked' \cap K2 = {}
      BY <1>1, <1>2, <1>6, <1>8 DEF IntentsOK
    <2>5. QED
      BY <1>6, <2>1, <2>3, <2>4 DEF IntentsOK
  <1>10. ChainOK'
    <2>1. ChainOK /\ K \subseteq K2
      BY <1>8 DEF SyncInv
    <2>2. Chain(chain, K2)
      BY <1>6, <2>1, ChainWidens DEF ChainOK
    <2>3. QED
      BY <1>1, <1>6, <2>1, <2>2 DEF ChainOK
  <1>11. Follows(chain, forks, chain', forks')
    BY <1>1, StayedFollows
  <1>12. ~InLedger(d)
    BY <1>3, Unannounced
  <1>13. QED
    BY <1>1, <1>5, <1>6, <1>8, <1>9, <1>10, <1>11, <1>12, OutsideKeeps

LEMMA SubmitKeeps == ASSUME SyncInv, NEW d, NEW hash, Submit(d, hash) PROVE SyncInv'
  <1>1. /\ UNCHANGED <<chain, forks, asked, db, scan>> /\ d \in DOMAIN intents
        /\ intents' = [intents EXCEPT ![d] =
             [status |-> IF @.status = "AWAITING_SIGNATURE" THEN "SUBMITTED" ELSE @.status,
              claim |-> hash]]
    BY DEF Submit
  <1>2. IntentsOK
    BY DEF SyncInv
  <1>3. PICK old, new, K : old = intents /\ new = intents' /\ K = DOMAIN intents
    OBVIOUS
  <1>4. /\ old = [x \in K |-> old[x]] /\ d \in K
        /\ \A x \in K : old[x] \in [status : {old[x].status}, claim : {old[x].claim}]
    BY <1>1, <1>2, <1>3 DEF IntentsOK
  <1>5. PICK status : status = IF old[d].status = "AWAITING_SIGNATURE" THEN "SUBMITTED"
                               ELSE old[d].status
    OBVIOUS
  <1>6. /\ new = [x \in K |-> new[x]] /\ DOMAIN new = K
        /\ new[d] = [status |-> status, claim |-> hash]
        /\ \A x \in K : x # d => new[x] = old[x]
    <2>1. new = [old EXCEPT ![d] =
             [status |-> IF @.status = "AWAITING_SIGNATURE" THEN "SUBMITTED" ELSE @.status,
              claim |-> hash]]
      BY <1>1, <1>3
    <2>2. new = [old EXCEPT ![d] = [status |-> status, claim |-> hash]]
      BY <1>4, <1>5, <2>1
    <2>3. QED
      BY <1>4, <2>2
  <1>7. IntentsOK'
    <2>1. \A x \in K : new[x] \in [status : {new[x].status}, claim : {new[x].claim}]
      BY <1>4, <1>6
    <2>2. asked' \cap K = {}
      BY <1>1, <1>2, <1>3 DEF IntentsOK
    <2>3. QED
      BY <1>3, <1>6, <2>1, <2>2 DEF IntentsOK
  <1>8. ChainOK'
    BY <1>1, <1>3, <1>6 DEF SyncInv, ChainOK
  <1>9. Follows(chain, forks, chain', forks')
    BY <1>1, StayedFollows
  <1>10. \A x \in K : new[x].status = "CONFIRMED" <=> old[x].status = "CONFIRMED"
    BY <1>4, <1>5, <1>6
  <1>11. QED
    BY <1>1, <1>3, <1>6, <1>7, <1>8, <1>9, <1>10, OutsideKeeps

\* A step of sync() that only moves on.
LEMMA ScanMoves ==
  ASSUME SyncInv, UNCHANGED <<chain, forks, intents, asked, db>>,
         FetchOK(scan', db, chain, forks, DOMAIN intents), MarksOK'
  PROVE  SyncInv'
  <1>1. ChainOK' /\ IntentsOK' /\ ConfirmedIsIndexed'
    BY DEF SyncInv, ChainOK, IntentsOK, ConfirmedIsIndexed, InLedger, Received
  <1>2. DbOK(db, chain, forks, DOMAIN intents)'
    BY DEF SyncInv
  <1>3. FetchOK(scan, db, chain, forks, DOMAIN intents)'
    OBVIOUS
  <1>4. QED
    BY <1>1, <1>2, <1>3 DEF SyncInv

\* Between two scans, and at a step that holds nothing yet.
LEMMA ScanBetween ==
  ASSUME NEW s, s = Idle \/ (s.pc \in {"anchor", "batch"} /\ s.final \in Int),
         NEW b, NEW c, NEW f, NEW K
  PROVE  FetchOK(s, b, c, f, K) /\ s.pc \notin {"inspect", "mark"}
  BY DEF FetchOK, ScanShape, Idle

LEMMA ScanStops ==
  ASSUME SyncInv, UNCHANGED <<chain, forks, intents, asked, db>>, scan' = Idle PROVE SyncInv'
  <1>1. PICK s, b, c, f, K : s = scan' /\ b = db /\ c = chain /\ f = forks /\ K = DOMAIN intents
    OBVIOUS
  <1>2. FetchOK(s, b, c, f, K) /\ s.pc \notin {"inspect", "mark"}
    BY <1>1, ScanBetween
  <1>3. MarksOK'
    BY <1>1, <1>2 DEF MarksOK
  <1>4. QED
    BY <1>1, <1>2, <1>3, ScanMoves

\* A ledger that starts over is the history of no blocks.
LEMMA BlankOK ==
  ASSUME NEW b, b = Blank, NEW c \in Seq(BlockRow), NEW f, NEW K PROVE DbOK(b, c, f, K)
  <1> PICK e : e = <<>>
    OBVIOUS
  <1>1. b.anchor = e /\ b.events = e /\ b.tasks = e /\ b.through = 0
    BY DEF Blank
  <1>2. Len(e) = 0 /\ e \in Seq(BlockRow) /\ DOMAIN e = {}
    OBVIOUS
  <1>3. Len(e) <= Len(c) /\ e = SubSeq(c, 1, Len(e))
    BY <1>2
  <1>4. History(e, c, f, K)
    BY <1>2, <1>3 DEF History, Chain, OnIn
  <1>5. Mined(e).log = e /\ Mined(e).pool.tasks = e
    BY MinedNone DEF Start, NoPool
  <1>6. QED
    BY <1>1, <1>2, <1>4, <1>5 DEF DbOK

LEMMA ResetKeeps ==
  ASSUME SyncInv, ResetChain, UNCHANGED <<chain, forks, asked>>,
         scan' = Idle \/ (scan'.pc \in {"anchor", "batch"} /\ scan'.final \in Int)
  PROVE  SyncInv'
  <1>1. PICK old, new, K : old = intents /\ new = intents' /\ K = DOMAIN intents
    OBVIOUS
  <1>2. /\ db' = Blank
        /\ new = [d \in K |-> IF old[d].status = "CONFIRMED"
                              THEN [old[d] EXCEPT !.status = "REORGED"] ELSE old[d]]
    BY <1>1 DEF ResetChain
  <1>3. \A d \in K : old[d] \in [status : {old[d].status}, claim : {old[d].claim}]
    BY <1>1 DEF SyncInv, IntentsOK
  <1>4. ASSUME NEW d \in K
        PROVE  /\ new[d] \in [status : {new[d].status}, claim : {new[d].claim}]
               /\ new[d].status # "CONFIRMED"
    <2>1. CASE old[d].status = "CONFIRMED"
      <3>1. new[d] = [old[d] EXCEPT !.status = "REORGED"]
        BY <1>2, <2>1
      <3>2. new[d] = [status |-> "REORGED", claim |-> old[d].claim]
        BY <1>3, <3>1
      <3>3. QED
        BY <3>2
    <2>2. CASE old[d].status # "CONFIRMED"
      <3>1. new[d] = old[d]
        BY <1>2, <2>2
      <3>2. QED
        BY <1>3, <2>2, <3>1
    <2>3. QED
      BY <2>1, <2>2
  <1>5. DOMAIN new = K /\ new = [d \in K |-> new[d]]
    BY <1>2
  <1>6. IntentsOK'
    BY <1>1, <1>4, <1>5 DEF SyncInv, IntentsOK
  <1>7. ChainOK'
    BY <1>1, <1>5 DEF SyncInv, ChainOK
  <1>8. PICK e, c, f, b, s : /\ e = <<>> /\ c = chain /\ f = forks /\ b = db' /\ s = scan'
    OBVIOUS
  <1>9. DbOK(b, c, f, K)
    <2>1. c \in Seq(BlockRow) /\ b = Blank
      BY <1>2, <1>8 DEF SyncInv, ChainOK, Chain
    <2>2. QED
      BY <2>1, BlankOK
  <1>10. FetchOK(s, b, c, f, K) /\ s.pc \notin {"inspect", "mark"}
    <2>1. s = Idle \/ (s.pc \in {"anchor", "batch"} /\ s.final \in Int)
      BY <1>8
    <2>2. QED
      BY <2>1, ScanBetween
  <1>11. DbOK(db, chain, forks, DOMAIN intents)' /\ FetchOK(scan, db, chain, forks, DOMAIN intents)'
    BY <1>1, <1>5, <1>8, <1>9, <1>10
  <1>12. MarksOK'
    BY <1>8, <1>10 DEF MarksOK
  <1>13. ConfirmedIsIndexed'
    <2>1. \A d : ~InLedger(d)'
      <3>1. db'.events = e /\ DOMAIN e = {}
        BY <1>2, <1>8 DEF Blank
      <3>2. QED
        BY <3>1 DEF InLedger, Received
    <2>2. QED
      BY <1>1, <1>4, <1>5, <2>1 DEF ConfirmedIsIndexed
  <1>14. QED
    BY <1>6, <1>7, <1>11, <1>12, <1>13 DEF SyncInv

LEMMA ThrowKeeps ==
  ASSUME SyncInv, ResetAndThrow, UNCHANGED <<chain, forks, asked>> PROVE SyncInv'
  BY ResetKeeps DEF ResetAndThrow, Throw

LEMMA BeginKeeps == ASSUME SyncAssumption, SyncInv, Begin PROVE SyncInv'
  <1>1. PICK s, b, c, f, K : s = scan' /\ b = db /\ c = chain /\ f = forks /\ K = DOMAIN intents
    OBVIOUS
  <1>2. /\ s = [pc |-> "anchor", final |-> Len(chain) - Confirmations + 1]
        /\ UNCHANGED <<chain, forks, intents, asked, db>>
    BY <1>1 DEF Begin
  <1>3. Len(chain) - Confirmations + 1 \in Int
    <2>1. Len(chain) \in Nat /\ Confirmations \in Nat
      BY SyncAssumption DEF SyncInv, ChainOK, Chain
    <2>2. QED
      BY <2>1
  <1>4. s.pc \in {"anchor", "batch"} /\ s.final \in Int
    BY <1>2, <1>3
  <1>5. FetchOK(s, b, c, f, K) /\ s.pc \notin {"inspect", "mark"}
    BY <1>4, ScanBetween
  <1>6. MarksOK'
    BY <1>1, <1>5 DEF MarksOK
  <1>7. QED
    BY <1>1, <1>2, <1>5, <1>6, ScanMoves

LEMMA CheckAnchorKeeps == ASSUME SyncInv, CheckAnchor PROVE SyncInv'
  <1>1. PICK s, b, c, f, K : s = scan' /\ b = db /\ c = chain /\ f = forks /\ K = DOMAIN intents
    OBVIOUS
  <1>2. scan.pc = "anchor" /\ UNCHANGED <<chain, forks, asked>>
        /\ s = [pc |-> "batch", final |-> scan.final, batch |-> 0]
    BY <1>1 DEF CheckAnchor
  <1>3. scan.final \in Int
    BY <1>2 DEF SyncInv, FetchOK, ScanShape
  <1>4. s.pc \in {"anchor", "batch"} /\ s.final \in Int
    BY <1>2, <1>3
  <1>5. CASE db.through = 0 \/ On(db.through, db.anchor)
    <2>1. FetchOK(s, b, c, f, K) /\ s.pc \notin {"inspect", "mark"}
      BY <1>4, ScanBetween
    <2>2. MarksOK'
      BY <1>1, <2>1 DEF MarksOK
    <2>3. UNCHANGED <<intents, db>>
      BY <1>5 DEF CheckAnchor
    <2>4. QED
      BY <1>1, <1>2, <2>1, <2>2, <2>3, ScanMoves
  <1>6. CASE ~(db.through = 0 \/ On(db.through, db.anchor))
    <2>1. ResetChain
      BY <1>6 DEF CheckAnchor
    <2>2. QED
      BY <1>1, <1>2, <1>4, <2>1, ResetKeeps
  <1>7. QED
    BY <1>5, <1>6

\* One step of sync() after the other.
LEMMA NextBatchKeeps == ASSUME SyncAssumption, SyncInv, NextBatch PROVE SyncInv'
  <1>1. PICK s, b, c, f, K, final, to, h :
          /\ s = scan' /\ b = db /\ c = chain /\ f = forks /\ K = DOMAIN intents
          /\ final = scan.final /\ to = Smaller(b.through + BatchSize, final)
          /\ h = SubSeq(c, 1, to)
    OBVIOUS
  <1>2. scan.pc = "batch" /\ UNCHANGED <<chain, forks, intents, asked, db>>
    BY DEF NextBatch
  <1>3. final \in Int
    BY <1>1, <1>2 DEF SyncInv, FetchOK, ScanShape
  <1>4. DbOK(b, c, f, K) /\ Chain(c, K) /\ c \in Seq(BlockRow) /\ Len(c) \in Nat
    BY <1>1 DEF SyncInv, ChainOK, Chain
  <1>5. CASE b.through < final /\ scan.batch < MaxBatches /\ to <= Len(c)
    <2>1. s = [pc |-> "logs", final |-> final, batch |-> scan.batch + 1, to |-> to,
               checkpoint |-> h]
      BY <1>1, <1>5 DEF NextBatch, Hash
    <2>2. to \in Nat /\ b.through < to
      <3>1. b.through \in Nat /\ BatchSize \in Nat /\ BatchSize > 0
        BY <1>4, SyncAssumption DEF DbOK, History, Chain
      <3>2. QED
        BY <1>1, <1>3, <1>5, <3>1 DEF Smaller
    <2>3. /\ Chain(h, K) /\ Len(h) = to
          /\ \A m \in 0..to : SubSeq(h, 1, m) = SubSeq(c, 1, m)
      BY <1>1, <1>4, <1>5, <2>2, FirstBlocks
    <2>4. History(h, c, f, K)
      BY <1>1, <1>5, <2>3 DEF History, OnIn
    <2>5. ~Dead(b.anchor, c, f) => b.anchor = SubSeq(h, 1, b.through)
      <3>1. b.through \in 0..to
        BY <1>4, <2>2 DEF DbOK, History, Chain
      <3>2. ~Dead(b.anchor, c, f) => b.anchor = SubSeq(c, 1, b.through)
        BY <1>4 DEF DbOK, History, OnIn
      <3>3. QED
        BY <2>3, <3>1, <3>2
    <2>6. s.pc = "logs" /\ s.to = to /\ s.checkpoint = h /\ s.final = final
      BY <2>1
    <2>7. BatchOK(s, b, c, f, K)
      BY <2>2, <2>3, <2>4, <2>5, <2>6 DEF BatchOK
    <2>8. FetchOK(s, b, c, f, K)
      BY <1>3, <2>6, <2>7 DEF FetchOK, ScanShape
    <2>9. MarksOK'
      BY <1>1, <2>6 DEF MarksOK
    <2>10. QED
      BY <1>1, <1>2, <2>8, <2>9, ScanMoves
  <1>6. CASE b.through < final /\ scan.batch < MaxBatches /\ ~(to <= Len(c))
    <2>1. scan' = Idle
      BY <1>1, <1>6 DEF NextBatch, Throw
    <2>2. QED
      BY <1>2, <2>1, ScanStops
  <1>7. CASE ~(b.through < final /\ scan.batch < MaxBatches)
    <2>1. s = [pc |-> "inspect", final |-> final, todo |-> Candidates]
      BY <1>1, <1>7 DEF NextBatch
    <2>2. s.pc = "inspect" /\ s.final = final /\ s.todo = Candidates
          /\ s \in [pc : {s.pc}, final : {s.final}, todo : {s.todo}]
      BY <2>1
    <2>3. FetchOK(s, b, c, f, K)
      BY <1>3, <2>2 DEF FetchOK, ScanShape
    <2>4. Candidates \subseteq Pending'
      BY <1>2 DEF Candidates, Pending, InLedger, Received
    <2>5. MarksOK'
      BY <1>1, <2>2, <2>4 DEF MarksOK
    <2>6. QED
      BY <1>1, <1>2, <2>3, <2>5, ScanMoves
  <1>8. QED
    BY <1>5, <1>6, <1>7

LEMMA ReadLogsKeeps == ASSUME SyncInv, ReadLogs PROVE SyncInv'
  <1>1. PICK s, t, b, c, f, K :
          s = scan' /\ t = scan /\ b = db /\ c = chain /\ f = forks /\ K = DOMAIN intents
    OBVIOUS
  <1>2. /\ t.pc = "logs" /\ UNCHANGED <<chain, forks, intents, asked, db>>
        /\ s = [pc |-> "verify", final |-> t.final, batch |-> t.batch, to |-> t.to,
                checkpoint |-> t.checkpoint, branch |-> c, logs |-> Logs(c, b.through + 1, t.to)]
    BY <1>1 DEF ReadLogs
  <1>3. BatchOK(t, b, c, f, K) /\ t.final \in Int /\ Chain(c, K)
    BY <1>1, <1>2 DEF SyncInv, FetchOK, ScanShape, ChainOK
  <1>4. PICK logs : logs = Logs(c, b.through + 1, t.to)
    OBVIOUS
  <1>5. /\ s.pc = "verify" /\ s.final = t.final /\ s.to = t.to /\ s.checkpoint = t.checkpoint
        /\ s.branch = c /\ s.logs = logs
        /\ s \in [pc : {s.pc}, final : {s.final}, batch : {s.batch}, to : {s.to},
                  checkpoint : {s.checkpoint}, branch : {s.branch}, logs : {s.logs}]
    BY <1>2, <1>4
  <1>6. BatchOK(s, b, c, f, K)
    BY <1>3, <1>5 DEF BatchOK
  <1>7. LogsOK(s, b, c, f, K)
    BY <1>3, <1>4, <1>5 DEF LogsOK, Sound, BatchOK, History, OnIn
  <1>8. FetchOK(s, b, c, f, K)
    BY <1>3, <1>5, <1>6, <1>7 DEF FetchOK, ScanShape
  <1>9. MarksOK'
    BY <1>1, <1>5 DEF MarksOK
  <1>10. QED
    BY <1>1, <1>2, <1>8, <1>9, ScanMoves

LEMMA VerifyLogsKeeps == ASSUME SyncInv, VerifyLogs PROVE SyncInv'
  <1>1. PICK s, t, b, c, f, K :
          s = scan' /\ t = scan /\ b = db /\ c = chain /\ f = forks /\ K = DOMAIN intents
    OBVIOUS
  <1>2. t.pc = "verify" /\ UNCHANGED <<chain, forks, asked>>
    BY <1>1 DEF VerifyLogs
  <1>3. CASE ResetAndThrow
    BY <1>2, <1>3, ThrowKeeps
  <1>4. CASE s = [t EXCEPT !.pc = "tasks"] /\ UNCHANGED <<intents, db>>
    <2>1. /\ FetchOK(t, b, c, f, K)
          /\ t \in [pc : {t.pc}, final : {t.final}, batch : {t.batch}, to : {t.to},
                    checkpoint : {t.checkpoint}, branch : {t.branch}, logs : {t.logs}]
      BY <1>1, <1>2 DEF SyncInv, FetchOK, ScanShape
    <2>2. s = [pc |-> "tasks", final |-> t.final, batch |-> t.batch, to |-> t.to,
               checkpoint |-> t.checkpoint, branch |-> t.branch, logs |-> t.logs]
      BY <1>4, <2>1
    <2>3. /\ s.pc = "tasks" /\ s.final = t.final /\ s.to = t.to /\ s.checkpoint = t.checkpoint
          /\ s.branch = t.branch /\ s.logs = t.logs
          /\ s \in [pc : {s.pc}, final : {s.final}, batch : {s.batch}, to : {s.to},
                    checkpoint : {s.checkpoint}, branch : {s.branch}, logs : {s.logs}]
      BY <2>2
    <2>4. BatchOK(t, b, c, f, K) /\ LogsOK(t, b, c, f, K) /\ t.final \in Int
      BY <1>2, <2>1 DEF FetchOK, ScanShape
    <2>5. BatchOK(s, b, c, f, K)
      BY <2>3, <2>4 DEF BatchOK
    <2>6. LogsOK(s, b, c, f, K)
      BY <1>2, <2>3, <2>4 DEF LogsOK, Sound
    <2>7. FetchOK(s, b, c, f, K)
      BY <2>3, <2>4, <2>5, <2>6 DEF FetchOK, ScanShape
    <2>8. MarksOK'
      BY <1>1, <2>3 DEF MarksOK
    <2>9. QED
      BY <1>1, <1>2, <1>4, <2>7, <2>8, ScanMoves
  <1>5. QED
    BY <1>1, <1>3, <1>4 DEF VerifyLogs

LEMMA ReadTasksKeeps == ASSUME SyncInv, ReadTasks PROVE SyncInv'
  <1>1. PICK s, t, b, c, f, K, now :
          /\ s = scan' /\ t = scan /\ b = db /\ c = chain /\ f = forks /\ K = DOMAIN intents
          /\ now = Mined(SubSeq(c, 1, t.to)).pool.tasks
    OBVIOUS
  <1>2. t.pc = "tasks" /\ UNCHANGED <<chain, forks, intents, asked, db>>
    BY <1>1 DEF ReadTasks
  <1>3. CASE s = Idle
    BY <1>1, <1>2, <1>3, ScanStops
  <1>4. CASE s # Idle
    <2>1. s = [pc |-> "canonical", final |-> t.final, batch |-> t.batch, to |-> t.to,
               checkpoint |-> t.checkpoint, branch |-> t.branch, logs |-> t.logs,
               tasks |-> now]
      BY <1>1, <1>4 DEF ReadTasks, Throw, Hash
    <2>2. /\ s.pc = "canonical" /\ s.final = t.final /\ s.to = t.to
          /\ s.checkpoint = t.checkpoint
          /\ s.branch = t.branch /\ s.logs = t.logs /\ s.tasks = now
          /\ s \in [pc : {s.pc}, final : {s.final}, batch : {s.batch}, to : {s.to},
                    checkpoint : {s.checkpoint}, branch : {s.branch}, logs : {s.logs},
                    tasks : {s.tasks}]
      BY <2>1
    <2>3. BatchOK(t, b, c, f, K) /\ LogsOK(t, b, c, f, K) /\ t.final \in Int
      BY <1>1, <1>2 DEF SyncInv, FetchOK, ScanShape
    <2>4. BatchOK(s, b, c, f, K)
      BY <2>2, <2>3 DEF BatchOK
    <2>5. LogsOK(s, b, c, f, K)
      BY <1>2, <2>2, <2>3 DEF LogsOK, Sound
    <2>6. TasksRead(s, c, f)
      <3>1. ASSUME Sound(s, c, f) PROVE s.checkpoint = SubSeq(c, 1, t.to)
        <4>1. ~Dead(s.checkpoint, c, f)
          BY <2>2, <3>1 DEF Sound
        <4>2. QED
          BY <2>2, <2>4, <4>1 DEF BatchOK, History, OnIn
      <3>2. QED
        BY <1>1, <2>2, <3>1 DEF TasksRead
    <2>7. FetchOK(s, b, c, f, K)
      BY <2>2, <2>3, <2>4, <2>5, <2>6 DEF FetchOK, ScanShape
    <2>8. MarksOK'
      BY <1>1, <2>2 DEF MarksOK
    <2>9. QED
      BY <1>1, <1>2, <2>7, <2>8, ScanMoves
  <1>5. QED
    BY <1>3, <1>4

\* A block that is still on the chain was not dropped.
LEMMA OnNotDead ==
  ASSUME NEW c \in Seq(BlockRow), NEW f, NEW h, OnIn(h, c), Len(h) \in Nat PROVE ~Dead(h, c, f)
  <1>1. ASSUME NEW i \in 1..Len(h) PROVE i <= Len(c) /\ ~(c[i].fork > h[i].fork)
    <2>1. PICK n, x : n = Len(h) /\ x = SubSeq(c, 1, n)
      OBVIOUS
    <2>2. n \in Nat /\ n <= Len(c) /\ h = x /\ i \in 1..n
      BY <1>1, <2>1 DEF OnIn
    <2>3. x[i] = c[i] /\ c[i] \in BlockRow /\ i <= Len(c)
      BY <2>1, <2>2
    <2>4. c[i].fork \in Nat
      BY <2>3 DEF BlockRow
    <2>5. QED
      BY <2>2, <2>3, <2>4
  <1>2. QED
    BY <1>1 DEF Dead

LEMMA RereadBlockKeeps == ASSUME SyncInv, RereadBlock PROVE SyncInv'
  <1>1. PICK s, t, b, c, f, K :
          s = scan' /\ t = scan /\ b = db /\ c = chain /\ f = forks /\ K = DOMAIN intents
    OBVIOUS
  <1>2. t.pc = "canonical" /\ UNCHANGED <<chain, forks, asked>>
    BY <1>1 DEF RereadBlock
  <1>3. CASE ResetAndThrow
    BY <1>2, <1>3, ThrowKeeps
  <1>4. CASE /\ SameBlock(t.to, t.checkpoint) /\ s = [t EXCEPT !.pc = "commit"]
             /\ UNCHANGED <<intents, db>>
    <2>1. /\ FetchOK(t, b, c, f, K) /\ c \in Seq(BlockRow)
          /\ t \in [pc : {t.pc}, final : {t.final}, batch : {t.batch}, to : {t.to},
                    checkpoint : {t.checkpoint}, branch : {t.branch}, logs : {t.logs},
                    tasks : {t.tasks}]
      BY <1>1, <1>2 DEF SyncInv, FetchOK, ScanShape, ChainOK, Chain
    <2>2. s = [pc |-> "commit", final |-> t.final, batch |-> t.batch, to |-> t.to,
               checkpoint |-> t.checkpoint, branch |-> t.branch, logs |-> t.logs,
               tasks |-> t.tasks]
      BY <1>4, <2>1
    <2>3. /\ s.pc = "commit" /\ s.final = t.final /\ s.to = t.to /\ s.checkpoint = t.checkpoint
          /\ s.branch = t.branch /\ s.logs = t.logs /\ s.tasks = t.tasks
          /\ s \in [pc : {s.pc}, final : {s.final}, batch : {s.batch}, to : {s.to},
                    checkpoint : {s.checkpoint}, branch : {s.branch}, logs : {s.logs},
                    tasks : {s.tasks}]
      BY <2>2
    <2>4. BatchOK(t, b, c, f, K) /\ LogsOK(t, b, c, f, K) /\ TasksRead(t, c, f) /\ t.final \in Int
      BY <1>2, <2>1 DEF FetchOK, ScanShape
    <2>5. Sound(t, c, f)
      <3>1. PICK h : h = t.checkpoint
        OBVIOUS
      <3>2. OnIn(h, c) /\ Len(h) \in Nat
        BY <1>1, <1>4, <2>4, <3>1 DEF SameBlock, On, Hash, OnIn, BatchOK
      <3>3. ~Dead(h, c, f)
        BY <2>1, <3>2, OnNotDead
      <3>4. QED
        BY <3>1, <3>3 DEF Sound
    <2>6. BatchOK(s, b, c, f, K)
      BY <2>3, <2>4 DEF BatchOK
    <2>7. LogsOK(s, b, c, f, K)
      BY <2>3, <2>4, <2>5 DEF LogsOK
    <2>8. TasksRead(s, c, f)
      BY <2>3, <2>4, <2>5 DEF TasksRead
    <2>9. FetchOK(s, b, c, f, K)
      BY <2>3, <2>4, <2>6, <2>7, <2>8 DEF FetchOK, ScanShape
    <2>10. MarksOK'
      BY <1>1, <2>3 DEF MarksOK
    <2>11. QED
      BY <1>1, <1>2, <1>4, <2>9, <2>10, ScanMoves
  <1>5. QED
    BY <1>1, <1>3, <1>4 DEF RereadBlock

\* The rows about a donation in one log after another.
Together(a, b, c, d) ==
  /\ \A i \in Received(a, d) : i \in Received(c, d) /\ c[i] = a[i]
  /\ \A i \in Received(b, d) : \E j \in Received(c, d) : c[j] = b[i]
  /\ Received(b, d) = {} => \A i \in Received(c, d) : i \in Received(a, d) /\ c[i] = a[i]

LEMMA ReceivedJoin ==
  ASSUME NEW a \in Seq(LogRow), NEW b \in Seq(LogRow), NEW c, c = a \o b, NEW d
  PROVE  Together(a, b, c, d)
  <1> PICK n, p : n = Len(a) /\ p = Len(b)
    OBVIOUS
  <1>1. /\ n \in Nat /\ p \in Nat /\ DOMAIN a = 1..n /\ DOMAIN b = 1..p
        /\ DOMAIN c = 1..(n + p) /\ \A i \in 1..n : c[i] = a[i]
    OBVIOUS
  <1>2. \A i \in 1..p : c[n + i] = b[i]
    BY <1>1, Joined
  <1>3. ASSUME NEW i \in Received(a, d) PROVE i \in Received(c, d) /\ c[i] = a[i]
    <2>1. i \in 1..n /\ i \in 1..(n + p)
      BY <1>1 DEF Received
    <2>2. QED
      BY <1>1, <2>1 DEF Received
  <1>4. ASSUME NEW i \in Received(b, d) PROVE \E j \in Received(c, d) : c[j] = b[i]
    <2>1. PICK j : j = n + i
      OBVIOUS
    <2>2. i \in 1..p /\ j \in 1..(n + p) /\ c[j] = b[i]
      BY <1>1, <1>2, <2>1 DEF Received
    <2>3. QED
      BY <1>1, <2>2 DEF Received
  <1>5. ASSUME Received(b, d) = {}, NEW i \in Received(c, d)
        PROVE  i \in Received(a, d) /\ c[i] = a[i]
    <2>1. i \in 1..(n + p)
      BY <1>1 DEF Received
    <2>2. CASE i \in 1..n
      BY <1>1, <2>2 DEF Received
    <2>3. CASE i \notin 1..n
      <3>1. PICK j : j = i - n
        OBVIOUS
      <3>2. j \in 1..p /\ n + j = i
        BY <1>1, <2>1, <2>3, <3>1
      <3>3. c[i] = b[j]
        BY <1>2, <3>2
      <3>4. j \in Received(b, d)
        BY <1>1, <3>2, <3>3 DEF Received
      <3>5. QED
        BY <1>5, <3>4
    <2>4. QED
      BY <2>2, <2>3
  <1>6. QED
    BY <1>3, <1>4, <1>5 DEF Together

\* The batch continues the history, and says of each donation what its intent gets.
LEMMA CommitKeeps == ASSUME SyncAssumption, SyncInv, Commit PROVE SyncInv'
  <1>1. PICK s, t, b, b2, c, f, K, old, new :
          /\ s = scan' /\ t = scan /\ b = db /\ b2 = db' /\ c = chain /\ f = forks
          /\ K = DOMAIN intents /\ old = intents /\ new = intents'
    OBVIOUS
  <1>2. t.pc = "commit" /\ UNCHANGED <<chain, forks, asked>>
    BY <1>1 DEF Commit
  <1>3. CASE ~(b.through = 0 \/ On(b.through, b.anchor))
    <2>1. ResetAndThrow
      BY <1>1, <1>3 DEF Commit
    <2>2. QED
      BY <1>2, <2>1, ThrowKeeps
  <1>4. CASE b.through = 0 \/ On(b.through, b.anchor)
    <2>1. PICK logs : logs = t.logs
      OBVIOUS
    <2>2. /\ b2 = [events |-> b.events \o logs, through |-> t.to,
                   anchor |-> t.checkpoint, tasks |-> t.tasks]
          /\ s = [pc |-> "batch", final |-> t.final, batch |-> t.batch]
      BY <1>1, <1>4, <2>1 DEF Commit
    <2>3. /\ BatchOK(t, b, c, f, K) /\ LogsOK(t, b, c, f, K) /\ TasksRead(t, c, f)
          /\ t.final \in Int /\ DbOK(b, c, f, K) /\ Sound(t, c, f)
      BY <1>1, <1>2 DEF SyncInv, FetchOK, ScanShape, Sound
    <2>4. PICK h, h2, br, m, k :
            h = b.anchor /\ h2 = t.checkpoint /\ br = t.branch /\ m = b.through /\ k = t.to
      OBVIOUS
    <2>5. /\ m = Len(h) /\ h \in Seq(BlockRow) /\ m \in Nat /\ Chain(h2, K) /\ Len(h2) = k /\ k \in Nat
          /\ m < k /\ Chain(br, K) /\ k <= Len(br) /\ h2 = SubSeq(br, 1, k)
          /\ logs = Logs(br, m + 1, k) /\ b.events = Mined(h).log
          /\ t.tasks = Mined(h2).pool.tasks /\ History(h2, c, f, K)
      BY <2>1, <2>3, <2>4 DEF BatchOK, LogsOK, TasksRead, DbOK, History, Chain
    <2>6. h = SubSeq(h2, 1, m)
      <3>1. CASE m = 0
        <4>1. PICK x : x = SubSeq(h2, 1, 0)
          OBVIOUS
        <4>2. h2 \in Seq(BlockRow)
          BY <2>5 DEF Chain
        <4>3. DOMAIN h = {} /\ DOMAIN x = {}
          <5>1. h \in Seq(BlockRow) /\ Len(h) = 0
            BY <2>5, <3>1
          <5>2. DOMAIN h = {}
            BY <5>1
          <5>3. DOMAIN x = {}
            BY <4>1, <4>2
          <5>4. QED
            BY <5>2, <5>3
        <4>4. h = [i \in {} |-> h[i]] /\ x = [i \in {} |-> x[i]]
          BY <2>5, <4>1, <4>2, <4>3
        <4>5. QED
          BY <3>1, <4>1, <4>4
      <3>2. CASE On(m, h)
        <4>1. OnIn(h, c) /\ c \in Seq(BlockRow) /\ Len(h) \in Nat
          BY <1>1, <2>5, <3>2 DEF On, Hash, OnIn, SyncInv, ChainOK, Chain
        <4>2. ~Dead(h, c, f)
          BY <4>1, OnNotDead
        <4>3. QED
          BY <2>3, <2>4, <4>2 DEF BatchOK
      <3>3. QED
        BY <1>4, <2>4, <3>1, <3>2
    <2>7. h = SubSeq(br, 1, m)
      <3>1. m \in 0..k
        BY <2>5
      <3>2. SubSeq(SubSeq(br, 1, k), 1, m) = SubSeq(br, 1, m)
        BY <2>5, <3>1, FirstBlocks
      <3>3. QED
        BY <2>5, <2>6, <3>2
    <2>8. /\ logs \in Seq(LogRow) /\ b.events \in Seq(LogRow)
          /\ Mined(h2).log = b.events \o logs
      <3>1. Chain(br, K) /\ m \in Nat /\ k \in Nat /\ m <= k /\ k <= Len(br)
        BY <2>5
      <3>2. /\ Logs(br, m + 1, k) \in Seq(LogRow) /\ Mined(SubSeq(br, 1, m)).log \in Seq(LogRow)
            /\ Mined(SubSeq(br, 1, k)).log = Mined(SubSeq(br, 1, m)).log \o Logs(br, m + 1, k)
        <4>1. Spans(br, m, k)
          BY <3>1, LogsContinue
        <4>2. QED
          BY <4>1 DEF Spans
      <3>3. QED
        BY <2>5, <2>7, <3>2
    <2>9. PICK all : all = b.events \o logs
      OBVIOUS
    <2>10. b2.events = all /\ b2.through = k /\ b2.anchor = h2 /\ b2.tasks = t.tasks
      BY <2>2, <2>4, <2>9
    <2>11. DbOK(b2, c, f, K)
      BY <2>5, <2>8, <2>9, <2>10 DEF DbOK
    <2>12. FetchOK(s, b2, c, f, K) /\ s.pc \notin {"inspect", "mark"}
      <3>1. s.pc = "batch" /\ s.final = t.final
        BY <2>2
      <3>2. s.pc \in {"anchor", "batch"} /\ s.final \in Int
        BY <2>3, <3>1
      <3>3. QED
        BY <3>2, ScanBetween
    <2>13. \A i, j \in DOMAIN all :
             (/\ all[i].event.name = "DonationReceived" /\ all[j].event.name = "DonationReceived"
              /\ all[i].event.donation = all[j].event.donation) => i = j
      <3>1. Account(Mined(h2), K)
        BY <2>5, ChainAccount
      <3>2. QED
        BY <2>8, <2>9, <3>1 DEF Account, LogOK, Origins
    <2>14. PICK was : was = b.events
      OBVIOUS
    <2>15. /\ was \in Seq(LogRow) /\ logs \in Seq(LogRow) /\ all = was \o logs
      BY <2>8, <2>9, <2>14
    <2>16. \A d : InLedger(d)' <=> \E i \in Received(all, d) : Matches(all[i].event)
      BY <1>1, <2>10 DEF InLedger
    <2>17. \A d : InLedger(d) <=> \E i \in Received(was, d) : Matches(was[i].event)
      BY <1>1, <2>14 DEF InLedger
    <2>18. \A d \in K : old[d] \in [status : {old[d].status}, claim : {old[d].claim}]
      BY <1>1 DEF SyncInv, IntentsOK
    <2>19. new = [d \in K |-> IF Received(logs, d) = {} THEN old[d]
                              ELSE Answered(old[d], d, logs)]
      BY <1>1, <1>4, <2>1 DEF Commit
    <2>20. ASSUME NEW d \in K, Received(logs, d) = {}
           PROVE  new[d] = old[d] /\ (InLedger(d)' <=> InLedger(d))
      <3>1. new[d] = old[d]
        BY <2>19, <2>20
      <3>2. /\ \A i \in Received(all, d) : i \in Received(was, d) /\ all[i] = was[i]
            /\ \A i \in Received(was, d) : i \in Received(all, d) /\ all[i] = was[i]
        <4>1. Together(was, logs, all, d)
          BY <2>15, ReceivedJoin
        <4>2. QED
          BY <2>20, <4>1 DEF Together
      <3>3. QED
        BY <2>16, <2>17, <3>1, <3>2
    <2>21. ASSUME NEW d \in K, Received(logs, d) # {}
           PROVE  /\ new[d] \in [status : {new[d].status}, claim : {new[d].claim}]
                  /\ new[d].status = "CONFIRMED" <=> InLedger(d)'
      <3>1. PICK i : i = CHOOSE x \in Received(logs, d) : TRUE
        OBVIOUS
      <3>2. i \in Received(logs, d)
        BY <2>21, <3>1
      <3>3. PICK j \in Received(all, d) : all[j] = logs[i]
        <4>1. Together(was, logs, all, d)
          BY <2>15, ReceivedJoin
        <4>2. QED
          BY <3>2, <4>1 DEF Together
      <3>4. \A x \in Received(all, d) : x = j
        BY <2>13, <3>3 DEF Received
      <3>5. PICK e, status, claim :
              /\ e = logs[i].event /\ status = IF Matches(e) THEN "CONFIRMED" ELSE "FAILED"
              /\ claim = IF Matches(e) THEN Prepared[d] ELSE old[d].claim
        OBVIOUS
      <3>6. PICK o, judged : o = old[d] /\ judged = Judged(o, e)
        OBVIOUS
      <3>7. new[d] = [judged EXCEPT !.claim = IF Matches(e) THEN Prepared[d] ELSE @]
        BY <2>19, <2>21, <3>1, <3>5, <3>6 DEF Answered
      <3>8. judged = [status |-> status, claim |-> o.claim]
        <4>1. judged = [o EXCEPT !.status = status]
          BY <3>5, <3>6 DEF Judged
        <4>2. o \in [status : {o.status}, claim : {o.claim}]
          BY <2>18, <3>6
        <4>3. QED
          BY <4>1, <4>2
      <3>9. new[d] = [status |-> status, claim |-> claim]
        <4>1. new[d] = [judged EXCEPT !.claim = claim]
          BY <3>5, <3>6, <3>7, <3>8
        <4>2. QED
          BY <3>8, <4>1
      <3>10. InLedger(d)' <=> Matches(e)
        BY <2>16, <3>3, <3>4, <3>5
      <3>11. QED
        BY <3>5, <3>9, <3>10
    <2>22. DOMAIN new = K /\ new = [d \in K |-> new[d]]
      BY <2>19
    <2>23. \A d \in K : /\ new[d] \in [status : {new[d].status}, claim : {new[d].claim}]
                        /\ new[d].status = "CONFIRMED" <=> InLedger(d)'
      <3>1. \A d \in K : old[d].status = "CONFIRMED" <=> InLedger(d)
        BY <1>1 DEF SyncInv, ConfirmedIsIndexed
      <3>2. ASSUME NEW d \in K
            PROVE  /\ new[d] \in [status : {new[d].status}, claim : {new[d].claim}]
                   /\ new[d].status = "CONFIRMED" <=> InLedger(d)'
        <4>1. CASE Received(logs, d) = {}
          <5>1. new[d] = old[d] /\ (InLedger(d)' <=> InLedger(d))
            BY <2>20, <4>1
          <5>2. QED
            BY <2>18, <3>1, <5>1
        <4>2. CASE Received(logs, d) # {}
          BY <2>21, <4>2
        <4>3. QED
          BY <4>1, <4>2
      <3>3. QED
        BY <3>2
    <2>24. IntentsOK'
      BY <1>1, <1>2, <2>22, <2>23 DEF SyncInv, IntentsOK
    <2>25. ChainOK'
      BY <1>1, <1>2, <2>22 DEF SyncInv, ChainOK
    <2>26. DbOK(db, chain, forks, DOMAIN intents)' /\ FetchOK(scan, db, chain, forks, DOMAIN intents)'
      BY <1>1, <1>2, <2>11, <2>12, <2>22
    <2>27. MarksOK'
      BY <1>1, <2>12 DEF MarksOK
    <2>28. ConfirmedIsIndexed'
      BY <1>1, <2>22, <2>23 DEF ConfirmedIsIndexed
    <2>29. QED
      BY <2>24, <2>25, <2>26, <2>27, <2>28 DEF SyncInv
  <1>5. QED
    BY <1>3, <1>4

LEMMA ReadPendingKeeps == ASSUME SyncInv, NEW d, ReadPending(d) PROVE SyncInv'
  <1>1. PICK s, t, b, c, f, K, rest :
          /\ s = scan' /\ t = scan /\ b = db /\ c = chain /\ f = forks /\ K = DOMAIN intents
          /\ rest = [t EXCEPT !.todo = @ \ {d}]
    OBVIOUS
  <1>2. /\ t.pc = "inspect" /\ d \in t.todo /\ UNCHANGED <<chain, forks, intents, asked, db>>
        /\ \/ s = rest
           \/ \E status \in {"FAILED", "SUBMITTED", "CONFIRMING"} :
                s = [pc |-> "mark", final |-> t.final, todo |-> t.todo \ {d},
                     mark |-> [id |-> d, status |-> status]]
    BY <1>1 DEF ReadPending
  <1>3. /\ t \in [pc : {t.pc}, final : {t.final}, todo : {t.todo}] /\ t.final \in Int
        /\ t.todo \subseteq Pending
    BY <1>1, <1>2 DEF SyncInv, FetchOK, ScanShape, MarksOK
  <1>4. Pending' = Pending
    BY <1>2 DEF Pending, InLedger
  <1>5. CASE s = rest
    <2>1. s = [pc |-> "inspect", final |-> t.final, todo |-> t.todo \ {d}]
      BY <1>1, <1>2, <1>3, <1>5
    <2>2. /\ s.pc = "inspect" /\ s.final = t.final /\ s.todo \subseteq t.todo
          /\ s \in [pc : {s.pc}, final : {s.final}, todo : {s.todo}]
      BY <2>1
    <2>3. FetchOK(s, b, c, f, K)
      BY <1>3, <2>2 DEF FetchOK, ScanShape
    <2>4. MarksOK'
      BY <1>1, <1>3, <1>4, <2>2 DEF MarksOK
    <2>5. QED
      BY <1>1, <1>2, <2>3, <2>4, ScanMoves
  <1>6. CASE s # rest
    <2>1. PICK status \in {"FAILED", "SUBMITTED", "CONFIRMING"} :
            s = [pc |-> "mark", final |-> t.final, todo |-> t.todo \ {d},
                 mark |-> [id |-> d, status |-> status]]
      BY <1>2, <1>6
    <2>2. /\ s.pc = "mark" /\ s.final = t.final /\ s.todo \subseteq t.todo
          /\ s.mark.id = d /\ s.mark.status # "CONFIRMED"
      BY <2>1
    <2>3. FetchOK(s, b, c, f, K)
      BY <1>3, <2>2 DEF FetchOK, ScanShape
    <2>4. MarksOK'
      BY <1>1, <1>2, <1>3, <1>4, <2>2 DEF MarksOK
    <2>5. QED
      BY <1>1, <1>2, <2>3, <2>4, ScanMoves
  <1>7. QED
    BY <1>5, <1>6

\* Only an intent that is not in the ledger is marked, and not as confirmed.
LEMMA MarkPendingKeeps == ASSUME SyncInv, MarkPending PROVE SyncInv'
  <1>1. PICK s, t, b, c, f, K, old, new, d, status :
          /\ s = scan' /\ t = scan /\ b = db /\ c = chain /\ f = forks /\ K = DOMAIN intents
          /\ old = intents /\ new = intents' /\ d = scan.mark.id /\ status = scan.mark.status
    OBVIOUS
  <1>2. /\ t.pc = "mark" /\ UNCHANGED <<chain, forks, asked, db>>
        /\ new = [old EXCEPT ![d].status = status]
        /\ s = [pc |-> "inspect", final |-> t.final, todo |-> t.todo]
    BY <1>1 DEF MarkPending
  <1>3. /\ t.final \in Int /\ t.todo \subseteq Pending /\ d \in Pending /\ status # "CONFIRMED"
    BY <1>1, <1>2 DEF SyncInv, FetchOK, ScanShape, MarksOK
  <1>4. /\ old = [x \in K |-> old[x]] /\ d \in K
        /\ \A x \in K : old[x] \in [status : {old[x].status}, claim : {old[x].claim}]
    BY <1>1, <1>3 DEF SyncInv, IntentsOK, Pending
  <1>5. /\ DOMAIN new = K /\ new = [x \in K |-> new[x]]
        /\ new[d] = [status |-> status, claim |-> old[d].claim]
        /\ \A x \in K : x # d => new[x] = old[x]
    <2>1. PICK o : o = old[d]
      OBVIOUS
    <2>2. o \in [status : {o.status}, claim : {o.claim}]
      BY <1>4, <2>1
    <2>3. [o EXCEPT !.status = status] = [status |-> status, claim |-> o.claim]
      BY <2>2
    <2>4. new = [old EXCEPT ![d] = [status |-> status, claim |-> o.claim]]
      BY <1>2, <1>4, <2>1, <2>3
    <2>5. QED
      BY <1>4, <2>1, <2>4
  <1>6. \A x : InLedger(x)' <=> InLedger(x)
    BY <1>2 DEF InLedger
  <1>7. IntentsOK'
    <2>1. \A x \in K : new[x] \in [status : {new[x].status}, claim : {new[x].claim}]
      BY <1>4, <1>5
    <2>2. QED
      BY <1>1, <1>2, <1>5, <2>1 DEF SyncInv, IntentsOK
  <1>8. ChainOK'
    BY <1>1, <1>2, <1>5 DEF SyncInv, ChainOK
  <1>9. /\ s.pc = "inspect" /\ s.final = t.final /\ s.todo = t.todo
        /\ s \in [pc : {s.pc}, final : {s.final}, todo : {s.todo}]
    BY <1>2
  <1>10. FetchOK(s, b, c, f, K)
    BY <1>3, <1>9 DEF FetchOK, ScanShape
  <1>11. DbOK(b, c, f, K)
    BY <1>1 DEF SyncInv
  <1>12. DbOK(db, chain, forks, DOMAIN intents)' /\ FetchOK(scan, db, chain, forks, DOMAIN intents)'
    BY <1>1, <1>2, <1>5, <1>10, <1>11
  <1>13. MarksOK'
    <2>1. Pending' = Pending
      BY <1>1, <1>5, <1>6 DEF Pending
    <2>2. QED
      BY <1>1, <1>3, <1>9, <2>1 DEF MarksOK
  <1>14. ConfirmedIsIndexed'
    <2>1. \A x \in K : old[x].status = "CONFIRMED" <=> InLedger(x)
      BY <1>1 DEF SyncInv, ConfirmedIsIndexed
    <2>2. ~InLedger(d)
      BY <1>3 DEF Pending
    <2>3. \A x \in K : new[x].status = "CONFIRMED" <=> InLedger(x)
      BY <1>3, <1>5, <2>1, <2>2
    <2>4. QED
      BY <1>1, <1>5, <1>6, <2>3 DEF ConfirmedIsIndexed
  <1>15. QED
    BY <1>7, <1>8, <1>12, <1>13, <1>14 DEF SyncInv

LEMMA EndScanKeeps == ASSUME SyncInv, EndScan PROVE SyncInv'
  BY ScanStops DEF EndScan

LEMMA FaultKeeps == ASSUME SyncInv, Fault PROVE SyncInv'
  BY ScanStops DEF Fault, Throw

LEMMA SyncStarts == ASSUME SyncAssumption, SyncInit PROVE SyncInv
  <1>1. PICK k, c : k = Len(FirstCalls) /\ c = chain
    OBVIOUS
  <1>2. k \in Nat /\ DOMAIN FirstCalls = 1..k
    BY <1>1, SyncAssumption
  <1>3. c = [n \in 1..k |-> [call |-> FirstCalls[n], fork |-> 0]]
    BY <1>1, <1>2 DEF SyncInit
  <1>4. \A n \in 1..k : FirstCalls[n] \in Made /\ CallOK(FirstCalls[n])
                        /\ FirstCalls[n].name # "donate"
    BY <1>2, SyncAssumption DEF Made
  <1>5. \A n \in 1..k : c[n] \in BlockRow /\ c[n].call = FirstCalls[n] /\ c[n].fork = 0
    BY <1>3, <1>4 DEF BlockRow
  <1>6. c \in Seq(BlockRow) /\ DOMAIN c = 1..k
    <2>1. c \in [1..k -> BlockRow]
      BY <1>3, <1>5
    <2>2. QED
      BY <1>2, <2>1
  <1>7. PICK K : K = DOMAIN intents
    OBVIOUS
  <1>8. K = {} /\ intents = [d \in K |-> intents[d]]
    BY <1>7 DEF SyncInit
  <1>9. Chain(c, K)
    BY <1>4, <1>5, <1>6 DEF Chain, Callable
  <1>10. ChainOK
    BY <1>1, <1>5, <1>6, <1>7, <1>9 DEF ChainOK, SyncInit
  <1>11. IntentsOK
    BY <1>7, <1>8 DEF IntentsOK, SyncInit
  <1>12. PICK b, s, f : b = db /\ s = scan /\ f = forks
    OBVIOUS
  <1>13. b = Blank /\ s = Idle
    BY <1>12 DEF SyncInit
  <1>14. DbOK(b, c, f, K)
    BY <1>6, <1>13, BlankOK
  <1>15. FetchOK(s, b, c, f, K) /\ s.pc \notin {"inspect", "mark"}
    BY <1>13, ScanBetween
  <1>16. MarksOK
    BY <1>12, <1>15 DEF MarksOK
  <1>17. ConfirmedIsIndexed
    BY <1>7, <1>8 DEF ConfirmedIsIndexed
  <1>18. QED
    BY <1>1, <1>7, <1>10, <1>11, <1>12, <1>14, <1>15, <1>16, <1>17 DEF SyncInv

LEMMA SyncKeeps == ASSUME SyncAssumption, SyncInv, [SyncNext]_syncVars PROVE SyncInv'
  <1>1. CASE UNCHANGED syncVars
    <2>1. FetchOK(scan', db, chain, forks, DOMAIN intents)
      BY <1>1 DEF SyncInv, syncVars
    <2>2. MarksOK'
      BY <1>1 DEF SyncInv, MarksOK, Pending, InLedger, syncVars
    <2>3. QED
      BY <1>1, <2>1, <2>2, ScanMoves DEF syncVars
  <1>2. CASE \E call \in Calls \cup {NoCall} : Mine(call)
    BY <1>2, MineKeeps
  <1>3. CASE \E n \in 0..MaxHeight : Reorganise(n)
    <2>1. PICK n \in 0..MaxHeight : Reorganise(n)
      BY <1>3
    <2>2. n \in Nat
      OBVIOUS
    <2>3. QED
      BY <2>1, <2>2, ReorganiseKeeps
  <1>4. CASE \E d \in Donations : Ask(d) \/ Prepare(d)
    BY <1>4, AskKeeps, PrepareKeeps
  <1>5. CASE \E d \in Donations, hash \in {c \in Calls : c.name = "donate"} \cup {Junk} :
               Submit(d, hash)
    BY <1>5, SubmitKeeps
  <1>6. CASE Sync
    BY <1>6, BeginKeeps, CheckAnchorKeeps, NextBatchKeeps, ReadLogsKeeps, VerifyLogsKeeps,
       ReadTasksKeeps, RereadBlockKeeps, CommitKeeps, MarkPendingKeeps, EndScanKeeps,
       ReadPendingKeeps DEF Sync
  <1>7. CASE Fault
    BY <1>7, FaultKeeps
  <1>8. QED
    BY <1>1, <1>2, <1>3, <1>4, <1>5, <1>6, <1>7 DEF SyncNext

\* The ledger sums the rows of the log as the books do.
LEMMA BooksAtAnchor == ASSUME SyncAssumption, SyncInv PROVE LedgerOfOneChain
  <1>1. PICK b, K, mined, pool, log :
          /\ b = db.anchor /\ K = DOMAIN intents /\ mined = Mined(b) /\ pool = mined.pool
          /\ log = db.events
    OBVIOUS
  <1>2. Chain(b, K) /\ db.through = Len(b) /\ log = mined.log /\ db.tasks = pool.tasks
    BY <1>1 DEF SyncInv, DbOK, History
  <1>3. PoolOK(pool) /\ BooksOf(pool, log)
    <2>1. Account(mined, K)
      BY <1>1, <1>2, ChainAccount
    <2>2. QED
      BY <1>1, <1>2, <2>1 DEF Account, LogOK
  <1>4. pool.donated >= pool.allocated + pool.refunded /\ pool.allocated >= pool.released
    BY <1>3, PoolSolvent
  <1>5. /\ \A name : Sum(name) = Paid(log, name)
        /\ \A name, d : SumFor(name, d) = PaidFor(log, name, d)
    BY <1>1 DEF Sum, SumFor, Paid, PaidFor
  <1>6. QED
    BY <1>1, <1>2, <1>3, <1>4, <1>5 DEF LedgerOfOneChain, BooksOf

\* The persisted ledger and tasks of wallet-service.js are always the history of one
\* branch of the chain, and its sums the pool contract's own books, however often the
\* chain is reorganised between the awaits of sync().
THEOREM LedgerAlwaysOfOneChain == SyncSpec => []LedgerOfOneChain
  <1>1. SyncInit => SyncInv
    BY SyncStarts, SyncAssumption
  <1>2. SyncInv /\ [SyncNext]_syncVars => SyncInv'
    BY SyncKeeps, SyncAssumption
  <1>3. SyncInv => LedgerOfOneChain
    BY BooksAtAnchor, SyncAssumption
  <1>4. QED
    BY <1>1, <1>2, <1>3, PTL DEF SyncSpec

\* An intent of wallet-service.js is CONFIRMED exactly while its donation is in the
\* ledger, whatever was claimed, marked or reorganised in between.
THEOREM ConfirmedAlwaysIndexed == SyncSpec => []ConfirmedIsIndexed
  <1>1. SyncInit => SyncInv
    BY SyncStarts, SyncAssumption
  <1>2. SyncInv /\ [SyncNext]_syncVars => SyncInv'
    BY SyncKeeps, SyncAssumption
  <1>3. SyncInv => ConfirmedIsIndexed
    BY DEF SyncInv
  <1>4. QED
    BY <1>1, <1>2, <1>3, PTL DEF SyncSpec
===============================================================================
