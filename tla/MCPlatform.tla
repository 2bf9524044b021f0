------------------------------ MODULE MCPlatform ------------------------------
(* Constant values for the platform run. *)
EXTENDS Platform

CONSTANTS sam, dee, ann, cas, rex, ws, wd, wa, wc, wr, wx, S, B, R

Post(u, w, o, role) ==
  [user |-> u, wallet |-> w, organizationId |-> o, role |-> role, status |-> "active"]
Offer(u, o, role) == [email |-> u, organizationId |-> o, role |-> role]

MCUsers == {sam, dee, ann, cas, rex}
MCHomeWallet == [u \in MCUsers |->
  CASE u = sam -> ws [] u = dee -> wd [] u = ann -> wa [] u = cas -> wc [] u = rex -> wr]
MCStaff == <<Post(sam, ws, S, "supplier"), Post(dee, wd, B, "dispatcher"),
             Post(ann, wa, B, "contract_approver"), Post(cas, wc, B, "acceptance")>>
MCOffers == {Offer(rex, R, "reviewer"), Offer(dee, R, "reviewer"), Offer(ann, B, "finance")}
MCQuoteInputs == {[supplier |-> [wallet |-> ws, organizationId |-> S],
                   unitPrice |-> 1, available |-> 1, validUntil |-> 1]}
MCBuyers == [wallet : {ws, wd, wa, wc, wr, wx}, organizationId : {S, B, R}]
MCPeople == [id : MCUsers, wallet : {ws, wd, wa, wc, wr, wx}, organizationId : {S, B, R}]
MCRebinds == {<<ann, wx>>, <<dee, wa>>}
MCAssignmentIds == [number : 1..3, post : 1..6]
=============================================================================
