----------------------------- MODULE DonationFlow -----------------------------
(***************************************************************************)
(* What the funding ledger promises a donor, whatever contracts, tasks and *)
(* batches lie between: every wei of a donation is at each moment in one   *)
(* pot, it moves only along the edges below, and what was spent or         *)
(* refunded stays so.  Abstract specification of                           *)
(* backend/funding-domain.js; FundingLedger implements it.                 *)
(***************************************************************************)
EXTENDS Integers, Functions

CONSTANTS Donations

VARIABLE pots   \* donation -> [pot -> wei]

Pots == {"gas", "free", "allocated", "locked", "spent", "refunded"}

\* Where money may go in one step.
Edges == {<<"free", "allocated">>, <<"allocated", "free">>, <<"free", "refunded">>,
          <<"allocated", "locked">>, <<"locked", "allocated">>, <<"locked", "spent">>}

Init == pots = <<>>

\* A donation arrives in the pots "free" and "gas".
Receive(d) ==
  /\ d \in Donations \ DOMAIN pots
  /\ d \in DOMAIN pots'
  /\ \E p \in {"gas", "free"} : pots'[d][p] > 0
  /\ \A p \in Pots \ {"gas", "free"} : pots'[d][p] = 0
  /\ Restrict(pots', DOMAIN pots) = pots
  /\ DOMAIN pots' = DOMAIN pots \cup {d}

\* Some of a donation's money crosses one edge.
Crosses(d, edge) ==
  LET amount == pots[d][edge[1]] - pots'[d][edge[1]]
  IN  /\ amount >= 0
      /\ pots'[d] = [pots[d] EXCEPT ![edge[1]] = @ - amount, ![edge[2]] = @ + amount]

\* One event moves money of any number of donations along the same edge.
Transfer(edge) ==
  /\ DOMAIN pots' = DOMAIN pots
  /\ \A d \in DOMAIN pots : Crosses(d, edge)

Next == \/ \E d \in Donations : Receive(d)
        \/ \E edge \in Edges : Transfer(edge)
Spec == Init /\ [][Next]_pots
=============================================================================
