-------------------------------- MODULE Greedy --------------------------------
(***************************************************************************)
(* The splitting rule the platform uses three times: an amount is served   *)
(* from (or to) a ranking, each member to its capacity before the next.    *)
(* AllocationLoops checks that the loops in the code compute it.           *)
(***************************************************************************)
EXTENDS Sums

\* The ranking of S by Precedes: the pairs whose first member comes first.
Ranking(S, Precedes(_, _)) == {p \in S \X S : Precedes(p[1], p[2])}

\* What the members ranked before x take first.
Ahead(capacity, ranking, x) ==
  Total([y \in {z \in DOMAIN capacity : <<z, x>> \in ranking} |-> capacity[y]])

\* The share of every member that gets one.
Greedy(amount, capacity, ranking) ==
  [x \in {y \in DOMAIN capacity : capacity[y] > 0 /\ Ahead(capacity, ranking, y) < amount} |->
     LET left == amount - Ahead(capacity, ranking, x)
     IN  IF capacity[x] < left THEN capacity[x] ELSE left]
=============================================================================
