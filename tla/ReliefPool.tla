------------------------------ MODULE ReliefPool ------------------------------
(***************************************************************************)
(* The pool contract of contracts/ReliefPool.sol as functions from a pool  *)
(* and a call to the pool after it and the events it emits; a call that is *)
(* not Admitted reverts.  Task recipients and the ids' format are left     *)
(* out: money sent leaves the pool whoever receives it.                    *)
(***************************************************************************)
EXTENDS Integers, Sequences, Greedy

CONSTANT MaxTasks  \* MAX_TASKS

NoPool == [tasks |-> <<>>, donations |-> <<>>,
           donated |-> 0, allocated |-> 0, released |-> 0, refunded |-> 0]

IndexOf(pool, task) == {i \in DOMAIN pool.tasks : pool.tasks[i].id = task}
Unchanged(pool) == [pool |-> pool, events |-> <<>>]

\* _allocate goes by urgency, then by registration.
Earlier(tasks, i, j) ==
  \/ tasks[i].urgency > tasks[j].urgency
  \/ tasks[i].urgency = tasks[j].urgency /\ i < j

\* What the tasks a donation for `purpose` may serve still take.
Budgets(tasks, purpose) ==
  [i \in {j \in DOMAIN tasks : tasks[j].active /\ purpose \in {0, tasks[j].purpose}} |->
     tasks[i].target - tasks[i].allocated]
Portions(tasks, donation) ==
  LET budgets == Budgets(tasks, donation.purpose)
  IN  Greedy(donation.unallocated, budgets,
             Ranking(DOMAIN budgets, LAMBDA i, j : Earlier(tasks, i, j)))
Visited(tasks, portions) ==
  CHOOSE s \in [1..Cardinality(DOMAIN portions) -> DOMAIN portions] :
    \A m, n \in DOMAIN s : m < n => Earlier(tasks, s[m], s[n])

\* What donation d still holds goes to the tasks it may serve.
SplitUp(pool, d, portions) ==
  [pool EXCEPT
    !.tasks = [i \in DOMAIN pool.tasks |->
      IF i \in DOMAIN portions THEN [pool.tasks[i] EXCEPT !.allocated = @ + portions[i]]
                               ELSE pool.tasks[i]],
    !.donations = [pool.donations EXCEPT ![d].unallocated = @ - Total(portions)],
    !.allocated = @ + Total(portions)]
HandedOut(pool, d, portions) ==
  LET order == Visited(pool.tasks, portions)
  IN  [pool |-> SplitUp(pool, d, portions),
       events |-> [n \in DOMAIN order |->
         [name |-> "DonationAllocated", donation |-> d,
          task |-> pool.tasks[order[n]].id, amount |-> portions[order[n]]]]]
Distributed(pool, d) == HandedOut(pool, d, Portions(pool.tasks, pool.donations[d]))

Configured(pool, call) ==
  LET Task(allocated, released) ==
        [id |-> call.task, purpose |-> call.purpose, urgency |-> call.urgency,
         target |-> call.target, allocated |-> allocated, released |-> released,
         active |-> call.active]
  IN  IF IndexOf(pool, call.task) = {} THEN [pool EXCEPT !.tasks = Append(@, Task(0, 0))]
      ELSE [pool EXCEPT !.tasks = [i \in DOMAIN @ |->
              IF @[i].id # call.task THEN @[i] ELSE Task(@[i].allocated, @[i].released)]]

WithDonation(pool, call) ==
  [pool EXCEPT
    !.donations = [d \in DOMAIN @ \cup {call.donation} |->
      IF d = call.donation THEN [purpose |-> call.purpose, amount |-> call.amount,
                                 unallocated |-> call.amount]
                           ELSE @[d]],
    !.donated = @ + call.amount]
\* The events of a donation, from what its allocation did.
Announced(call, allocated) ==
  [pool |-> allocated.pool,
   events |-> <<[name |-> "DonationReceived", donation |-> call.donation,
                 purpose |-> call.purpose, amount |-> call.amount]>> \o allocated.events]

Admitted(pool, call) ==
  CASE call.name = "configureTask" ->
         IF IndexOf(pool, call.task) = {} THEN Len(pool.tasks) < MaxTasks
         ELSE \A i \in IndexOf(pool, call.task) : call.target >= pool.tasks[i].allocated
    [] call.name = "donate" -> call.amount > 0 /\ call.donation \notin DOMAIN pool.donations
    [] call.name = "allocateRemaining" -> call.donation \in DOMAIN pool.donations
    [] call.name = "releaseTask" -> \E i \in IndexOf(pool, call.task) :
         call.amount > 0 /\ call.amount <= pool.tasks[i].allocated - pool.tasks[i].released
    [] call.name = "refundUnallocated" ->
         /\ call.donation \in DOMAIN pool.donations
         /\ pool.donations[call.donation].unallocated > 0

Done(pool, call) ==
  CASE call.name = "configureTask" -> Unchanged(Configured(pool, call))
    [] call.name = "donate" ->
         Announced(call, Distributed(WithDonation(pool, call), call.donation))
    [] call.name = "allocateRemaining" -> Distributed(pool, call.donation)
    [] call.name = "releaseTask" ->
         [pool |-> [pool EXCEPT !.released = @ + call.amount,
            !.tasks = [i \in DOMAIN pool.tasks |->
              IF pool.tasks[i].id # call.task THEN pool.tasks[i]
              ELSE [pool.tasks[i] EXCEPT !.released = @ + call.amount]]],
          events |-> <<[name |-> "TaskReleased", task |-> call.task, amount |-> call.amount]>>]
    [] call.name = "refundUnallocated" ->
         LET rest == pool.donations[call.donation].unallocated
         IN  [pool |-> [pool EXCEPT
                !.refunded = @ + rest,
                !.donations = [pool.donations EXCEPT ![call.donation].unallocated = 0]],
              events |-> <<[name |-> "DonationRefunded", donation |-> call.donation,
                            amount |-> rest]>>]
=============================================================================
