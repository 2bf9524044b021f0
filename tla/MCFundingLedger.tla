--------------------------- MODULE MCFundingLedger ---------------------------
(* A small instance of FundingLedger, and the loops SourcesFrom stands for. *)
EXTENDS FundingLedger, AllocationLoops

CONSTANTS donor, supplier,  \* wallets
          food, water,      \* purposes
          flood             \* project

Gift(purpose, project, amount, reserve) ==
  [donor |-> donor, purpose |-> purpose, project |-> project, amount |-> amount,
   gasReserved |-> reserve]
TaskInput(purpose, project) == [purpose |-> purpose, project |-> project]

(* Gifts without restriction, for a purpose and, with a gas reserve, for a
   project; two tasks of different purposes, only one in the project. *)
SmallGifts ==
  {Gift(AnyPurpose, None, 2, 0), Gift(food, None, 2, 0), Gift(AnyPurpose, flood, 2, 1)}
SmallTasks == {TaskInput(food, flood), TaskInput(water, None)}

Symmetry ==
  Permutations(DonationIds) \cup Permutations(TaskIds) \cup Permutations(ContractIds)
    \cup Permutations(PaymentIds) \cup Permutations(RefundIds) \cup Permutations(BatchIds)
=============================================================================
