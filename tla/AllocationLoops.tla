--------------------------- MODULE AllocationLoops ---------------------------
(***************************************************************************)
(* The four loops that split an amount over a ranking, written as the code *)
(* runs them, and the assumption TLC evaluates that each computes Greedy,  *)
(* the closed form the state machines use: what every member gets and the  *)
(* order in which the loop serves them.                                    *)
(*                                                                         *)
(* A task is what a loop reads of it: its urgency, what it still needs and *)
(* whether the donation may serve it; its index is its registration order. *)
(***************************************************************************)
EXTENDS Naturals, Greedy, SequencesExt

\* The loop variables: what is left to give and what was given, in order.
Start(amount) == [left |-> amount, given |-> <<>>]
Give(st, x, capacity) ==
  LET value == IF capacity < st.left THEN capacity ELSE st.left
  IN  IF value > 0 THEN [left |-> st.left - value, given |-> Append(st.given, <<x, value>>)]
                   ELSE st

\* planAllocation: filter, stable sort by urgency, one pass.
PlanAllocation(amount, tasks) ==
  LET eligible == SelectSeq([i \in DOMAIN tasks |-> i], LAMBDA i : tasks[i].eligible)
      sorted == SortSeq(eligible,
                        LAMBDA i, j : \/ tasks[i].urgency > tasks[j].urgency
                                      \/ tasks[i].urgency = tasks[j].urgency /\ i < j)
  IN  FoldLeft(LAMBDA st, i : Give(st, i, tasks[i].needs), Start(amount), sorted)

\* ReliefPool._allocate: one pass over all tasks per level of urgency.
PoolAllocate(amount, tasks) ==
  LET pass(st, urgency) ==
        FoldLeft(LAMBDA s, i : IF tasks[i].eligible /\ tasks[i].urgency = urgency
                               THEN Give(s, i, tasks[i].needs) ELSE s,
                 st, [i \in DOMAIN tasks |-> i])
  IN  FoldLeft(pass, Start(amount), <<3, 2, 1>>)

\* ReliefDonationLedger._allocate: a scan of the slots for the best task that
\* still needs money, repeated; slots hold task indices in any order.
LedgerAllocate(amount, tasks, slots) ==
  LET needs(st, i) == tasks[i].needs - Total([g \in {st.given[n] : n \in DOMAIN st.given} |->
                                               IF g[1] = i THEN g[2] ELSE 0])
      better(i, best) == \/ best = 0
                         \/ tasks[i].urgency > tasks[best].urgency
                         \/ tasks[i].urgency = tasks[best].urgency /\ i < best
      scan(st) == FoldLeft(LAMBDA best, i : IF /\ tasks[i].eligible /\ needs(st, i) > 0
                                               /\ better(i, best)
                                            THEN i ELSE best, 0, slots)
      round(st, n) == IF st.left = 0 \/ scan(st) = 0 THEN st
                      ELSE Give(st, scan(st), needs(st, scan(st)))
  IN  FoldLeft(round, Start(amount), [n \in DOMAIN slots |-> n])

\* sourcesFrom: one pass over balances in age order, up to the amount.
SourcesLoop(amount, balances) ==
  FoldLeft(LAMBDA st, i : IF st.left = 0 THEN st ELSE Give(st, i, balances[i]),
           Start(amount), [i \in DOMAIN balances |-> i])

-----------------------------------------------------------------------------
\* A loop's result is Greedy over `capacity`, served in rank order.
Agrees(result, amount, capacity, Precedes(_, _)) ==
  LET shares == Greedy(amount, capacity, Ranking(DOMAIN capacity, Precedes))
      given == result.given
  IN  /\ {given[n][1] : n \in DOMAIN given} = DOMAIN shares
      /\ Len(given) = Cardinality(DOMAIN shares)
      /\ \A n \in DOMAIN given : given[n][2] = shares[given[n][1]]
      /\ \A m, n \in DOMAIN given : m < n => Precedes(given[m][1], given[n][1])
      /\ result.left = amount - Total(shares)

TaskKinds == [urgency : 1..3, needs : 0..1, eligible : BOOLEAN]
             \cup [urgency : {2}, needs : {2}, eligible : {TRUE}]
TaskLists == UNION {[1..n -> TaskKinds] : n \in 0..3}

\* Bounds: three tasks, two of an urgency or all apart; amounts up to 3.
ASSUME LoopsAreGreedy ==
  /\ \A tasks \in TaskLists, amount \in 0..3 :
       LET capacity == [i \in {j \in DOMAIN tasks : tasks[j].eligible} |-> tasks[i].needs]
           outranks(i, j) == \/ tasks[i].urgency > tasks[j].urgency
                             \/ tasks[i].urgency = tasks[j].urgency /\ i < j
       IN  /\ Agrees(PlanAllocation(amount, tasks), amount, capacity, outranks)
           /\ Agrees(PoolAllocate(amount, tasks), amount, capacity, outranks)
           /\ \A slots \in SetToSeqs(DOMAIN tasks) :
                Agrees(LedgerAllocate(amount, tasks, slots), amount, capacity, outranks)
  /\ \A balances \in UNION {[1..n -> 0..2] : n \in 0..3}, amount \in 0..4 :
       Agrees(SourcesLoop(amount, balances), amount, balances, LAMBDA i, j : i < j)
=============================================================================
