--------------------------- MODULE MCDonationPage ---------------------------
(* Constant values for the donation page run: two tabs, two accounts; both *)
(* are interchangeable.                                                    *)
EXTENDS DonationPage, TLC

Symmetry == Permutations(Tabs) \cup Permutations(Users)
=============================================================================
