------------------------- MODULE ReliefDonationLedger -------------------------
(***************************************************************************)
(* contracts/ReliefDonationLedger.sol: donations under a registrar's       *)
(* permit, tasks in a bounded window of active slots, allocation by        *)
(* urgency and registration order, refunds, role revocation and pausing.   *)
(*                                                                         *)
(* One action per external function; a revert is no step.  A permit is the *)
(* record the registrar signs, and a signature is valid when the registrar *)
(* signed that record.  Event fields and the opaque hashes are left out,   *)
(* and so are the transfers' recipients: a refund goes to the sender.  The *)
(* fee policy _validateDonationFees is abstract in the contract: any fee a *)
(* permit names is taken to pass.  Nothing closes a task here.             *)
(* OpenZeppelin's access control is external; of it only the registrar     *)
(* role is state here, callers of the other roles are taken to hold them.  *)
(***************************************************************************)
EXTENDS Sequences, Functions, Greedy

CONSTANTS
  DonationIds, TaskIds, RefundIds,
  Donors, Registrars, Nonces,
  Purposes, AnyPurpose,   \* purposes of tasks, and purpose 0 of a donation
  Projects, None,         \* projects, and the zero id
  Offers,                 \* what a permit may grant
  TaskInputs,             \* what registerTask may be called with
  Amounts,                \* amounts of refunds
  MaxActiveTasks,         \* slots of the active window
  MaxEpoch,               \* bound on revocations of a registrar
  MaxPermits              \* bound on permits signed

ASSUME LedgerAssumption ==
  /\ None \notin TaskIds \cup Projects /\ AnyPurpose \notin Purposes
  /\ MaxActiveTasks \in Nat \ {0} /\ MaxEpoch \in Nat /\ MaxPermits \in Nat
  /\ Amounts \subseteq Nat \ {0}
  /\ Offers \subseteq [donor : Donors, purpose : Purposes \cup {AnyPurpose},
                      project : Projects \cup {None}, amount : Nat, gasReserved : Nat]
  /\ TaskInputs \subseteq [purpose : Purposes, project : Projects, urgency : 1..3,
                          target : Nat \ {0}]

VARIABLES
  donations,    \* donation id -> donation
  tasks,        \* task id -> task
  allocations,  \* <<task, donation>> -> wei (allocationWei)
  slots,        \* _activeTaskIds
  usedNonces,   \* <<donor, nonce>> spent or cancelled
  registrars,   \* accounts with REGISTRAR_ROLE
  epochs,       \* registrar -> authorizationEpochs
  signed,       \* permits signed whose deadline has not passed
  dead,         \* history: permits that expired, or whose registrar was revoked or
                \* whose nonce was spent or cancelled since they were signed; only the
                \* signing of new permits looks at it
  refundIds,
  totals,       \* the five running totals
  paused,
  emitted       \* events not yet read by anyone, oldest first

ledgerVars == <<donations, tasks, allocations, slots, usedNonces, registrars, epochs,
                signed, dead, refundIds, totals, paused, emitted>>

-----------------------------------------------------------------------------
Put(f, k, v) == [x \in DOMAIN f \cup {k} |-> IF x = k THEN v ELSE f[x]]

\* allocationWei: what donation d has given task t.
Held(t, d) == IF <<t, d>> \in DOMAIN allocations THEN allocations[<<t, d>>] ELSE 0

NeedOf(task) == task.target - task.allocated
Serves(donation, task) ==
  /\ donation.purpose \in {AnyPurpose, task.purpose}
  /\ donation.project \in {None, task.project}

\* The active tasks donation d may serve and that still need money, with what
\* they need.
Needs(d, donation) ==
  LET eligible(t) == /\ tasks[t].active
                     /\ tasks[t].allocated < tasks[t].target
                     /\ Serves(donation, tasks[t])
  IN  [t \in {x \in Range(slots) \ {None} : eligible(x)} |-> NeedOf(tasks[t])]

\* Rank by urgency, then by registration.
Outranks(s, t) ==
  \/ tasks[s].urgency > tasks[t].urgency
  \/ tasks[s].urgency = tasks[t].urgency /\ tasks[s].sequence < tasks[t].sequence

\* Mutant: by slot.
SlotOf(t) == CHOOSE i \in DOMAIN slots : slots[i] = t
SharesBySlot(d, donation) ==
  LET needs == Needs(d, donation)
  IN  Greedy(donation.available, needs, Ranking(DOMAIN needs, LAMBDA s, t : SlotOf(s) < SlotOf(t)))
Shares(d, donation) ==
  LET needs == Needs(d, donation)
  IN  Greedy(donation.available, needs, Ranking(DOMAIN needs, Outranks))

\* The shares in the order _allocate makes them.
Ranked(shares) ==
  CHOOSE s \in [1..Cardinality(DOMAIN shares) -> DOMAIN shares] :
    \A i, j \in DOMAIN s : i < j => Outranks(s[i], s[j])

\* _allocate(d), emitting `before` first; `donation` is d as it stands and
\* `sums` the totals.
Allocate(call, d, donation, sums, before) ==
  LET shares == Shares(d, donation)
      moved == Total(shares)
      order == Ranked(shares)
      events == [i \in DOMAIN order |-> [call |-> call, type |-> "DonationAllocated",
                                         donation |-> d, task |-> order[i],
                                         amount |-> shares[order[i]]]]
  IN  /\ tasks' = [t \in DOMAIN tasks |->
                     IF t \in DOMAIN shares
                     THEN [tasks[t] EXCEPT !.allocated = @ + shares[t]] ELSE tasks[t]]
      /\ allocations' = [a \in DOMAIN allocations \cup {<<t, d>> : t \in DOMAIN shares} |->
                           IF a[2] = d /\ a[1] \in DOMAIN shares
                           THEN Held(a[1], d) + shares[a[1]] ELSE allocations[a]]
      /\ donations' = Put(donations, d, [donation EXCEPT !.available = @ - moved])
      /\ totals' = [sums EXCEPT !.available = @ - moved, !.allocated = @ + moved]
      /\ emitted' = emitted \o before \o events

Init ==
  /\ donations = <<>> /\ tasks = <<>> /\ allocations = <<>>
  /\ slots = [i \in 1..MaxActiveTasks |-> None]
  /\ usedNonces = {} /\ registrars = Registrars /\ epochs = [r \in Registrars |-> 0]
  /\ signed = {} /\ dead = {} /\ refundIds = {}
  /\ totals = [donated |-> 0, gas |-> 0, available |-> 0, allocated |-> 0, refunded |-> 0]
  /\ paused = FALSE /\ emitted = <<>>

-----------------------------------------------------------------------------
(* Permits *)

\* A registrar signs a permit off chain, for its epoch of the moment; one that
\* died is not signed again, as the next has another deadline.
SignPermit(r, d, offer, nonce) ==
  LET permit == [registrar |-> r, donation |-> d, offer |-> offer, nonce |-> nonce,
                 epoch |-> epochs[r]]
  IN  /\ r \in registrars
      /\ permit \notin signed \cup dead
      /\ Cardinality(signed \cup dead) < MaxPermits
      /\ signed' = signed \cup {permit}
      /\ UNCHANGED <<donations, tasks, allocations, slots, usedNonces, registrars, epochs,
                     dead, refundIds, totals, paused, emitted>>

\* The deadline of a permit passes while it could still be used.
Expire(permit) ==
  /\ permit \notin dead
  /\ signed' = signed \ {permit}
  /\ dead' = dead \cup {permit}
  /\ UNCHANGED <<donations, tasks, allocations, slots, usedNonces, registrars, epochs,
                 refundIds, totals, paused, emitted>>

\* Permits that spend a nonce of a donor.
PermitsFor(donor, nonce) == {p \in signed : p.offer.donor = donor /\ p.nonce = nonce}

Donate(permit, sender, value) ==
  LET d == permit.donation
      offer == permit.offer
      donation == [donor |-> sender, purpose |-> offer.purpose, project |-> offer.project,
                   amount |-> offer.amount, gasReserved |-> offer.gasReserved,
                   available |-> offer.amount - offer.gasReserved, refunded |-> 0,
                   sequence |-> Cardinality(DOMAIN donations) + 1,
                   permit |-> permit]
  IN  /\ ~paused
      /\ sender = offer.donor
      /\ offer.amount > 0 /\ value = offer.amount /\ offer.gasReserved <= offer.amount
      /\ d \notin DOMAIN donations
      /\ <<sender, permit.nonce>> \notin usedNonces
      /\ permit.registrar \in registrars
      /\ permit.epoch = epochs[permit.registrar]
      /\ permit \in signed
      /\ usedNonces' = usedNonces \cup {<<sender, permit.nonce>>}
      /\ Allocate("donate", d, donation,
                  [totals EXCEPT !.donated = @ + offer.amount, !.gas = @ + offer.gasReserved,
                                 !.available = @ + donation.available],
                  <<[call |-> "donate", type |-> "DonationReceived", donation |-> d,
                     gift |-> offer]>>)
      /\ dead' = dead \cup PermitsFor(sender, permit.nonce)
      /\ UNCHANGED <<slots, registrars, epochs, signed, refundIds, paused>>

CancelDonationNonce(sender, nonce) ==
  /\ <<sender, nonce>> \notin usedNonces
  /\ usedNonces' = usedNonces \cup {<<sender, nonce>>}
  /\ dead' = dead \cup PermitsFor(sender, nonce)
  /\ UNCHANGED <<donations, tasks, allocations, slots, registrars, epochs, signed,
                 refundIds, totals, paused, emitted>>

\* Mutant: revoking leaves the epoch as it is.
SameEpochs(r) == epochs
NextEpochs(r) == [epochs EXCEPT ![r] = @ + 1]

\* _revokeRole and its inverse.
RevokeRegistrar(r) ==
  /\ r \in registrars
  /\ epochs[r] < MaxEpoch
  /\ registrars' = registrars \ {r}
  /\ epochs' = NextEpochs(r)
  /\ dead' = dead \cup {p \in signed : p.registrar = r}
  /\ UNCHANGED <<donations, tasks, allocations, slots, usedNonces, signed, refundIds,
                 totals, paused, emitted>>

GrantRegistrar(r) ==
  /\ r \in Registrars \ registrars
  /\ registrars' = registrars \cup {r}
  /\ UNCHANGED <<donations, tasks, allocations, slots, usedNonces, epochs, signed, dead,
                 refundIds, totals, paused, emitted>>

-----------------------------------------------------------------------------
(* Tasks, allocation and refunds *)

\* Slots the loop of _setTaskActive stops at.  Mutant: at a free one either way.
FittingOrFree(t, active) == {i \in DOMAIN slots : slots[i] = None \/ (slots[i] = t /\ ~active)}
Fitting(t, active) == {i \in DOMAIN slots : slots[i] = IF active THEN None ELSE t}

\* _setTaskActive: takes the first free slot, or frees the one it is in.
SetActivity(call, t, task, active, before) ==
  LET fitting == Fitting(t, active)
      slot == CHOOSE i \in fitting : \A j \in fitting : i <= j
  IN  IF task.active = active
      THEN tasks' = Put(tasks, t, task) /\ emitted' = emitted \o before /\ UNCHANGED slots
      ELSE /\ fitting # {}
           /\ slots' = [slots EXCEPT ![slot] = IF active THEN t ELSE None]
           /\ tasks' = Put(tasks, t, [task EXCEPT !.active = active])
           /\ emitted' = emitted \o before
                           \o <<[call |-> call, type |-> "TaskActivityChanged", task |-> t,
                                 active |-> active]>>

RegisterTask(t, input) ==
  /\ ~paused
  /\ t \notin DOMAIN tasks
  /\ SetActivity("registerTask", t,
                 [purpose |-> input.purpose, project |-> input.project,
                     urgency |-> input.urgency, target |-> input.target, allocated |-> 0,
                     sequence |-> Cardinality(DOMAIN tasks) + 1, active |-> FALSE],
                 TRUE,
                 <<[call |-> "registerTask", type |-> "TaskRegistered", task |-> t,
                    input |-> [purpose |-> input.purpose, project |-> input.project]]>>)
  /\ UNCHANGED <<donations, allocations, usedNonces, registrars, epochs, signed, dead,
                 refundIds, totals, paused>>

SetTaskActive(t, active) ==
  /\ ~paused
  /\ t \in DOMAIN tasks
  /\ SetActivity("setTaskActive", t, tasks[t], active, <<>>)
  /\ UNCHANGED <<donations, allocations, usedNonces, registrars, epochs, signed, dead,
                 refundIds, totals, paused>>

\* By its donor or an allocator.
AllocateRemaining(d) ==
  /\ ~paused
  /\ d \in DOMAIN donations
  /\ Allocate("allocateRemaining", d, donations[d], totals, <<>>)
  /\ UNCHANGED <<slots, usedNonces, registrars, epochs, signed, dead, refundIds,
                 paused>>

RefundUnallocated(f, d, sender, amount) ==
  /\ ~paused
  /\ f \notin refundIds
  /\ d \in DOMAIN donations
  /\ sender = donations[d].donor
  /\ amount <= donations[d].available
  /\ refundIds' = refundIds \cup {f}
  /\ donations' = [donations EXCEPT ![d].available = @ - amount, ![d].refunded = @ + amount]
  /\ totals' = [totals EXCEPT !.available = @ - amount, !.refunded = @ + amount]
  /\ emitted' = Append(emitted, [call |-> "refundUnallocated", type |-> "DonationRefunded",
                                 refund |-> f, donation |-> d, recipient |-> sender,
                                 amount |-> amount])
  /\ UNCHANGED <<tasks, allocations, slots, usedNonces, registrars, epochs, signed, dead,
                 paused>>

SetPaused(value) ==
  /\ paused = ~value
  /\ paused' = value
  /\ UNCHANGED <<donations, tasks, allocations, slots, usedNonces, registrars, epochs,
                 signed, dead, refundIds, totals, emitted>>

LedgerNext ==
  \/ \E r \in Registrars, d \in DonationIds, offer \in Offers, n \in Nonces :
        SignPermit(r, d, offer, n)
  \/ \E permit \in signed : Expire(permit)
  \/ \E permit \in signed, sender \in Donors :
        \E value \in {offer.amount : offer \in Offers} : Donate(permit, sender, value)
  \/ \E sender \in Donors, n \in Nonces : CancelDonationNonce(sender, n)
  \/ \E r \in Registrars : RevokeRegistrar(r) \/ GrantRegistrar(r)
  \/ \E t \in TaskIds, input \in TaskInputs : RegisterTask(t, input)
  \/ \E t \in TaskIds, active \in BOOLEAN : SetTaskActive(t, active)
  \/ \E d \in DonationIds : AllocateRemaining(d)
  \/ \E f \in RefundIds, d \in DonationIds, sender \in Donors, amount \in Amounts :
        RefundUnallocated(f, d, sender, amount)
  \/ \E value \in BOOLEAN : SetPaused(value)
LedgerSpec == Init /\ [][LedgerNext]_ledgerVars

-----------------------------------------------------------------------------
(* Properties *)

AllocatedTo(t) ==
  Total([a \in {x \in DOMAIN allocations : x[1] = t} |-> allocations[a]])
AllocatedFrom(d) ==
  Total([a \in {x \in DOMAIN allocations : x[2] = d} |-> allocations[a]])
SumOf(field(_)) == Total([d \in DOMAIN donations |-> field(d)])

\* Every active task holds exactly one slot and every slot an active task, so
\* pausing and re-activating neither loses a slot nor runs a task twice.
SlotsMirrorActivity ==
  /\ \A t \in DOMAIN tasks :
       Cardinality({i \in DOMAIN slots : slots[i] = t}) = (IF tasks[t].active THEN 1 ELSE 0)
  /\ Range(slots) \ {None} \subseteq DOMAIN tasks

\* The books agree: each donation's money is accounted for, no task is funded
\* beyond its target, and the five totals are the sums of what they total.
BooksBalance ==
  /\ \A d \in DOMAIN donations :
       donations[d].amount = donations[d].gasReserved + donations[d].available
                               + donations[d].refunded + AllocatedFrom(d)
  /\ \A t \in DOMAIN tasks :
       tasks[t].allocated = AllocatedTo(t) /\ tasks[t].allocated <= tasks[t].target
  /\ totals = [donated |-> SumOf(LAMBDA d : donations[d].amount),
               gas |-> SumOf(LAMBDA d : donations[d].gasReserved),
               available |-> SumOf(LAMBDA d : donations[d].available),
               allocated |-> SumOf(AllocatedFrom),
               refunded |-> SumOf(LAMBDA d : donations[d].refunded)]

\* The state that registerTask, donate, allocateRemaining, refundUnallocated
\* and setTaskActive share stays consistent.
BooksKept == SlotsMirrorActivity /\ BooksBalance

\* What the step gives task t from donation d, and which tasks it gives some.
Given(d, t) == Held(t, d)' - Held(t, d)
Served(d)   == {t \in DOMAIN tasks : Given(d, t) > 0}

\* The tasks open to donation d, and those with all they need after the step.
Eligible(d) == {t \in DOMAIN tasks :
                  /\ tasks[t].active /\ tasks'[t].active
                  /\ donations'[d].purpose \in {AnyPurpose, tasks[t].purpose}
                  /\ donations'[d].project \in {None, tasks[t].project}}
Funded == {t \in DOMAIN tasks : tasks'[t].allocated = tasks[t].target}

FollowsRank(d) ==
  /\ Served(d) \subseteq Eligible(d)
  /\ \A t \in Served(d) : {s \in Eligible(d) : Outranks(s, t)} \subseteq Funded
  /\ Served(d) # {} \/ d \notin DOMAIN donations =>
       donations'[d].available = 0 \/ Eligible(d) \subseteq Funded

\* Money reaches a task only when every eligible task that outranks it is
\* fully funded, and an allocation leaves money with the donation only when
\* every eligible task is; slots freed and reused make no difference.
UrgentFirst == [][\A d \in DOMAIN donations' : FollowsRank(d)]_ledgerVars

\* A permit is dead once its nonce is spent or cancelled or its registrar
\* loses the role, and stays so when the role is granted again.
PermitsStayDead ==
  [][\A d \in DOMAIN donations' \ DOMAIN donations : donations'[d].permit \notin dead]_ledgerVars
=============================================================================
