------------------------------ MODULE MCAccounts ------------------------------
(* A small instance of the accounts, their mailbox and prepared donations. *)
EXTENDS DonationIntents, TLC
MCPurposes == {"email-verification", "password-reset"}
MCIp == [a \in {"send", "check"} |-> 2]
MCKey == [a \in {"send", "check"} |-> IF a = "send" THEN 1 ELSE 2]
Symmetry == Permutations(Emails) \cup Permutations(Requests) \cup
            Permutations(Wallets) \cup Permutations(Codes)
================================================================================
