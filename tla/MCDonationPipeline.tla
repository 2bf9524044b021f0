------------------------- MODULE MCDonationPipeline -------------------------
(* A small instance of DonationPipeline. *)
EXTENDS DonationPipeline, TLC

CONSTANTS alice,            \* donor
          food, water,      \* purposes
          flood             \* project

Offer(purpose, project, amount, reserve) ==
  [donor |-> alice, purpose |-> purpose, project |-> project, amount |-> amount,
   gasReserved |-> reserve]
TaskInput(purpose, urgency, target) ==
  [purpose |-> purpose, project |-> flood, urgency |-> urgency, target |-> target]

(* A gift to share out and one bound to food, with a gas reserve; an urgent   *)
(* task and larger ones that tie below it, in a window of two.                *)
SmallOffers == {Offer(AnyPurpose, None, 3, 0), Offer(food, flood, 2, 1)}
SmallTasks == {TaskInput(water, 3, 1), TaskInput(food, 1, 2)}

Symmetry ==
  Permutations(DonationIds) \cup Permutations(TaskIds) \cup Permutations(RefundIds)
    \cup Permutations(Nonces) \cup Permutations(Registrars)
=============================================================================
