--------------------------- MODULE OperatorRegistry ---------------------------
(***************************************************************************)
(* The registry of posts of backend/operator-registry.js: an administrator *)
(* issues one-time invitations for an email, an organization and one role; *)
(* the account with that email claims one and holds the post until it is   *)
(* revoked.  Each operation is one SQLite transaction (BEGIN IMMEDIATE),   *)
(* hence one step.  An email stands for its account and a post's id is the *)
(* rowid of its row.  Revoking a revoked post changes nothing.             *)
(***************************************************************************)
EXTENDS Naturals, Sequences

CONSTANTS
  Offers,         \* what invitations are issued for: [email, organizationId, role]
  MaxInvitations, \* bound on the invitations issued
  Staff           \* the posts already held, a sequence of rows

\* No two active rows of one person or of one wallet.
Exclusive(rows) ==
  \A j, k \in DOMAIN rows :
    j # k /\ rows[j].status = "active" /\ rows[k].status = "active" =>
      rows[j].user # rows[k].user /\ rows[j].wallet # rows[k].wallet

VARIABLES
  invitations,  \* sequence of [email, organizationId, role, status]
  assignments   \* rows of operator_assignments in the order they were claimed

registryVars == <<invitations, assignments>>

RegistryInit == invitations = <<>> /\ assignments = Staff

Active(k) == assignments[k].status = "active"
PostsOf(user) == {k \in DOMAIN assignments : assignments[k].user = user}
\* lookup
Lookup(user) == {k \in PostsOf(user) : Active(k)}

Issue(offer) ==
  /\ Len(invitations) < MaxInvitations
  /\ invitations' = Append(invitations,
       [email |-> offer.email, organizationId |-> offer.organizationId, role |-> offer.role,
        status |-> "open"])
  /\ UNCHANGED assignments

\* The 24 hours of an open invitation pass.
Expire(i) ==
  /\ i \in DOMAIN invitations /\ invitations[i].status = "open"
  /\ invitations' = [invitations EXCEPT ![i].status = "expired"]
  /\ UNCHANGED assignments

\* No active post of the account or of its wallet.  Mutant: of the account only.
UserUnassigned(user, wallet) == Lookup(user) = {}
Unassigned(user, wallet) ==
  \A k \in DOMAIN assignments :
    Active(k) => assignments[k].user # user /\ assignments[k].wallet # wallet

Claim(i, user, wallet) ==
  /\ i \in DOMAIN invitations
  /\ invitations[i].status = "open"
  /\ invitations[i].email = user
  /\ Unassigned(user, wallet)
  /\ invitations' = [invitations EXCEPT ![i].status = "claimed"]
  /\ assignments' = Append(assignments,
       [user |-> user, wallet |-> wallet, organizationId |-> invitations[i].organizationId,
        role |-> invitations[i].role, status |-> "active"])

\* Only the latest row of the account is looked at.
Revoke(user) ==
  \E k \in PostsOf(user) :
    /\ \A j \in PostsOf(user) : j <= k
    /\ Active(k)
    /\ assignments' = [assignments EXCEPT ![k].status = "revoked"]
    /\ UNCHANGED invitations

\* A person and a wallet hold at most one post at a time, although accounts
\* change wallets, posts are revoked and invitations are open for both.
PostsExclusive == Exclusive(assignments)
=============================================================================
