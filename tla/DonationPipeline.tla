--------------------------- MODULE DonationPipeline ---------------------------
(***************************************************************************)
(* The donation contract and the ledger the backend projects from its      *)
(* events: ReliefDonationLedger writes, FundingLedger reads.               *)
(*                                                                         *)
(* Read is what funding-receipts.js makes of one event of a verified       *)
(* receipt and the handler of funding-domain.js it is given to.  Events    *)
(* arrive complete and in chain order; how the indexer secures that over   *)
(* forks, lagging providers and crashes is FundingIndexer.  The contract   *)
(* may run ahead of the reader by Backlog events.                          *)
(***************************************************************************)
EXTENDS ReliefDonationLedger

CONSTANT Backlog

VARIABLES
  pDonations, pTasks, pAllocations, pContracts, pPayments, pRefunds

projectionVars == <<pDonations, pTasks, pAllocations, pContracts, pPayments, pRefunds>>

Projection == INSTANCE FundingLedger WITH
  donations <- pDonations, tasks <- pTasks, allocations <- pAllocations,
  contracts <- pContracts, payments <- pPayments, refunds <- pRefunds,
  ContractIds <- {}, PaymentIds <- {}, BatchIds <- {}, Wallets <- Donors, Payees <- {},
  Gifts <- Offers, TaskInputs <- [purpose : Purposes, project : Projects]

-----------------------------------------------------------------------------
\* The checks of the handler that event e is for.
Accepts(e) ==
  CASE e.type = "DonationReceived" -> Projection!CanReceive(e.donation, e.gift)
    [] e.type = "TaskRegistered" -> Projection!CanRegister(e.task)
    [] e.type = "TaskActivityChanged" -> e.call = "registerTask" \/ Projection!CanChange(e.task)
    [] e.type = "DonationAllocated" -> Projection!CanAllocate(e.donation, e.task, e.amount)
    [] e.type = "DonationRefunded" ->
         Projection!CanRefund(e.refund, e.donation, e.recipient, e.amount)

\* The handler that event e is for.  registerTask's second event says what
\* TaskRegistered already did and is passed over.
Handle(e) ==
  \/ e.type = "DonationReceived" /\ Projection!DonationReceived(e.donation, e.gift)
  \/ e.type = "TaskRegistered" /\ Projection!TaskRegistered(e.task, e.input)
  \/ /\ e.type = "TaskActivityChanged" /\ e.call = "registerTask"
     /\ UNCHANGED projectionVars
  \/ /\ e.type = "TaskActivityChanged" /\ e.call = "setTaskActive"
     /\ Projection!TaskActivityChanged(e.task, e.active)
  \/ e.type = "DonationAllocated" /\ Projection!DonationAllocated(e.donation, e.task, e.amount)
  \/ /\ e.type = "DonationRefunded"
     /\ Projection!DonationRefunded(e.refund, e.donation, e.recipient, e.amount)

Read ==
  /\ emitted # <<>>
  /\ Handle(Head(emitted))
  /\ emitted' = Tail(emitted)
  /\ UNCHANGED <<donations, tasks, allocations, slots, usedNonces, registrars, epochs,
                 signed, dead, refundIds, totals, paused>>

PipelineInit == Init /\ Projection!Init
PipelineNext ==
  \/ Len(emitted) <= Backlog /\ LedgerNext /\ UNCHANGED projectionVars
  \/ Read
Spec == PipelineInit /\ [][PipelineNext]_<<ledgerVars, projectionVars>>

-----------------------------------------------------------------------------
(* Properties *)

\* The domain refuses no event the contract emits: whatever order the contract
\* pauses, allocates and refunds in, the reader never stops on an event that
\* its own checks (open task, restrictions, balance, donor) throw out.
NoEventRefused == emitted # <<>> => Accepts(Head(emitted))

\* Once it has read everything, the projected ledger agrees with the contract
\* on what every donation has left, what is allocated where, which tasks are
\* open and which donation is older.
ProjectionAgrees ==
  emitted = <<>> =>
    /\ DOMAIN pDonations = DOMAIN donations /\ DOMAIN pTasks = DOMAIN tasks
    /\ \A d \in DOMAIN donations :
         /\ pDonations[d].available = donations[d].available
         /\ pDonations[d].at + 1 = donations[d].sequence
    /\ \A t \in DOMAIN tasks : (pTasks[t].status = "OPEN") <=> tasks[t].active
    /\ pAllocations = allocations
    /\ DOMAIN pRefunds = refundIds

\* The projection follows the contract: it neither stops nor drifts.
ProjectionFollows == NoEventRefused /\ ProjectionAgrees
=============================================================================
