----------------------------- MODULE MCWalletSync -----------------------------
(* Constant values for the wallet service run: one donation of 2, of which a *)
(* task takes 1 at first, and a call with the same id and another amount.    *)
EXTENDS WalletSync

CONSTANTS d1, t1

Configure(target) == [name |-> "configureTask", task |-> t1, purpose |-> 1, urgency |-> 2,
                      target |-> target, active |-> TRUE]
Donate(amount) == [name |-> "donate", donation |-> d1, purpose |-> 1, amount |-> amount]

MCPrepared == [x \in {d1} |-> Donate(2)]
MCFirstCalls == <<Configure(1)>>
MCCalls == {Donate(2), Donate(1),
            [name |-> "releaseTask", task |-> t1, amount |-> 1],
            [name |-> "refundUnallocated", donation |-> d1]}
=============================================================================
