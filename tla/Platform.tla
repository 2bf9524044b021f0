------------------------------- MODULE Platform -------------------------------
(***************************************************************************)
(* The posts and the procurement commands of backend/platform-service.js:  *)
(* who may run which command, on which contract, with which material.  A   *)
(* request is handled in one step once its body is read: post, scope,      *)
(* separation of duties and store.execute run without an await between     *)
(* them.  Only an evidence upload checks the post before and after its     *)
(* body, so it takes two steps.                                            *)
(*                                                                         *)
(* The account of a user and the wallet it has proved come from the        *)
(* accounts component (WalletAccounts); a confirmed escrow comes from the  *)
(* chain adapter the service expects to be given.  Catalogue, task list    *)
(* and the read-only views are left out, and so is every failed request.   *)
(***************************************************************************)
EXTENDS ProcurementStore, OperatorRegistry

CONSTANTS
  Users,       \* accounts
  HomeWallet,  \* the wallet each account has proved at the start
  Rebinds,     \* wallets an account may come to prove: <<account, wallet>>
  Leavers,     \* accounts the administrator may take a post from
  MaxUploads,  \* bound on the uploads in flight
  Admin        \* "platform-bootstrap-admin", no account

Organizations == {p.organizationId : p \in People}
PostRecord == [user : Users, wallet : Wallets, organizationId : Organizations, role : STRING,
               status : {"active", "revoked"}]

\* The posts already held were claimed under the same rules, and the domain
\* knows every person and every party a post may turn an account into.
ASSUME PlatformAssumption ==
  /\ Staff \in Seq(PostRecord) /\ Exclusive(Staff)
  /\ Offers \subseteq [email : Users, organizationId : Organizations, role : STRING]
  /\ HomeWallet \in [Users -> Wallets] /\ Rebinds \subseteq Users \X Wallets
  /\ [id : Users, wallet : Wallets, organizationId : Organizations] \subseteq People
  /\ [wallet : Wallets, organizationId : Organizations] \subseteq Buyers

VARIABLES
  walletOf,  \* the wallet of each account
  uploads    \* evidence uploads whose body is being read: [post, contract]

platformVars == <<storeVars, registryVars, walletOf, uploads>>
outsideStore == <<registryVars, walletOf, uploads>>
outsideRegistry == <<storeVars, walletOf, uploads>>

PlatformInit ==
  StoreInit /\ RegistryInit /\ walletOf = HomeWallet /\ uploads = {}

-----------------------------------------------------------------------------
(* Posts in force and what they may touch *)

\* A post counts while the account keeps the wallet it was claimed with.
InForce(k) == Active(k) /\ walletOf[assignments[k].user] = assignments[k].wallet
Operator(k, role) == assignments[k].role = role /\ InForce(k)
Party(k) == [wallet |-> assignments[k].wallet,
             organizationId |-> assignments[k].organizationId]
Actor(k) == [id |-> assignments[k].user, wallet |-> assignments[k].wallet,
             organizationId |-> assignments[k].organizationId]

OfOrganization(k, side) == assignments[k].organizationId = side.organizationId

ActiveSupplier(quote) ==
  \E k \in DOMAIN assignments : Operator(k, "supplier") /\ Party(k) = quote.supplier

\* Is the batch's last review assignment the one of post k?
AssignedTo(b, k) ==
  /\ assignments[k].role = "reviewer"
  /\ batches[b].assignments # <<>>
  /\ LET last == batches[b].assignments[Len(batches[b].assignments)]
     IN  last.id.post = k /\ last.reviewer = Actor(k)

\* May post k judge batch b?  Mutant: forgets who ran the earlier commands.
SeparateFromPeople(b, k) ==
  LET c == batches[b].contract
      Same(p) == p.id = assignments[k].user \/ p.wallet = assignments[k].wallet
  IN  /\ assignments[k].organizationId \notin
           {Current(c).buyer.organizationId, Current(c).supplier.organizationId}
      /\ assignments[k].wallet \notin {Current(c).buyer.wallet, Current(c).supplier.wallet}
      /\ \A x \in BatchesOf(c) :
           /\ ~Same(batches[x].deliveryActor)
           /\ batches[x].acceptance # None => ~Same(batches[x].acceptance)
ReviewSeparation(b, k) ==
  /\ SeparateFromPeople(b, k)
  /\ assignments[k].user \notin Participants(batches[b].contract)

\* May the finance post k prepare payables of contract c?
FinanceSeparation(c, k) ==
  LET Same(p) == p.id = assignments[k].user \/ p.wallet = assignments[k].wallet
  IN  /\ assignments[k].wallet \notin {Current(c).buyer.wallet, Current(c).supplier.wallet}
      /\ ~OfOrganization(k, Current(c).supplier)
      /\ \A x \in BatchesOf(c) :
           /\ ~Same(batches[x].deliveryActor)
           /\ batches[x].acceptance # None => ~Same(batches[x].acceptance)
           /\ batches[x].review # None => ~Same(batches[x].review)

-----------------------------------------------------------------------------
(* Posts *)

Invite(offer) == Issue(offer) /\ UNCHANGED outsideRegistry
LapseInvitation(i) == Expire(i) /\ UNCHANGED outsideRegistry
ClaimPost(i, u) == Claim(i, u, walletOf[u]) /\ UNCHANGED outsideRegistry
RevokePost(u) == Revoke(u) /\ UNCHANGED outsideRegistry

\* The account proves another wallet, one no other account has.
RebindWallet(u, w) ==
  /\ \A x \in Users : walletOf[x] # w
  /\ walletOf' = [walletOf EXCEPT ![u] = w]
  /\ UNCHANGED <<storeVars, registryVars, uploads>>

-----------------------------------------------------------------------------
(* Purchasing *)

PostQuote(k, q, input) ==
  /\ Operator(k, "supplier")
  /\ input.supplier = Party(k)
  /\ Execute("addQuote", assignments[k].user, q, AddQuote(q, input))
  /\ UNCHANGED outsideStore

\* The buyer is a contract approver of the dispatcher's organization, named by
\* wallet.
PostReservation(k, j, r, q, task, n, now) ==
  /\ Operator(k, "dispatcher")
  /\ Operator(j, "contract_approver")
  /\ assignments[j].organizationId = assignments[k].organizationId
  /\ q \in DOMAIN quotes /\ ActiveSupplier(quotes[q])
  /\ Execute("reserve", assignments[k].user, r, Reserve(r, q, task, n, Party(j), now))
  /\ UNCHANGED outsideStore

PostContract(k, c, r, nonce, expiresAt, now) ==
  /\ Operator(k, "contract_approver")
  /\ r \in DOMAIN reservations /\ reservations[r].buyer = Party(k)
  /\ Execute("createContract", assignments[k].user, c,
             CreateContract(c, r, nonce, expiresAt, now))
  /\ UNCHANGED outsideStore

SigningRole == [buyer |-> "contract_approver", supplier |-> "supplier"]
PostSignature(k, c, side, now) ==
  /\ Operator(k, SigningRole[side])
  /\ c \in DOMAIN contracts /\ Current(c)[side] = Party(k)
  /\ Execute("signContract", assignments[k].user, c,
             SignContract(c, Version(c), side, assignments[k].wallet, now))
  /\ UNCHANGED outsideStore

\* No route reaches it: the chain adapter runs it with a verified receipt.
ConfirmEscrow(c, e, h, receipt) ==
  /\ c \in DOMAIN contracts
  /\ Execute("recordEscrowConfirmed", "adapter", c,
             RecordEscrowConfirmed(c, Version(c), e, h, receipt))
  /\ UNCHANGED outsideStore

-----------------------------------------------------------------------------
(* Evidence *)

UploadStage == [supplier |-> "deliverBatch", acceptance |-> "acceptBatch",
                reviewer |-> "resolveDispute"]

\* assertContractScope as the upload and the command routes call it.
MayTouch(k, c) ==
  CASE assignments[k].role = "supplier" -> OfOrganization(k, Current(c).supplier)
    [] assignments[k].role = "reviewer" -> \E b \in BatchesOf(c) : AssignedTo(b, k)
    [] OTHER                            -> OfOrganization(k, Current(c).buyer)

StartUpload(k, c) ==
  /\ assignments[k].role \in DOMAIN UploadStage /\ InForce(k)
  /\ c \in DOMAIN contracts
  /\ MayTouch(k, c)
  /\ Cardinality(uploads) < MaxUploads
  /\ uploads' = uploads \cup {[post |-> k, contract |-> c]}
  /\ UNCHANGED <<storeVars, registryVars, walletOf>>

\* The body is read; the post must be the one that began.
FinishUpload(u, b) ==
  LET k == u.post
      stage == UploadStage[assignments[k].role]
      a == IF stage = "resolveDispute" /\ b \in DOMAIN batches /\ AssignedTo(b, k)
           THEN batches[b].assignments[Len(batches[b].assignments)].id ELSE None
  IN  /\ u \in uploads
      /\ InForce(k)
      /\ stage = "resolveDispute" =>
           b \in BatchesOf(u.contract) /\ AssignedTo(b, k) /\ ReviewSeparation(b, k)
      /\ PutEvidence(u.contract, Version(u.contract), b, stage, Actor(k), a)
      /\ uploads' = uploads \ {u}
      /\ UNCHANGED <<registryVars, walletOf>>

\* The upload is refused, or its connection ends.
EndUpload(u) ==
  /\ uploads' = uploads \ {u}
  /\ UNCHANGED <<storeVars, registryVars, walletOf>>

-----------------------------------------------------------------------------
(* Fulfilment *)

PostDelivery(k, b, c, n, ids) ==
  /\ Operator(k, "supplier")
  /\ c \in DOMAIN contracts /\ MayTouch(k, c)
  /\ ExecuteAttested("deliverBatch", Actor(k), b, ids, DeliverBatch(b, c, n, Actor(k)))
  /\ UNCHANGED outsideStore

PostAcceptance(k, b, outcome, n, ids) ==
  /\ Operator(k, "acceptance")
  /\ b \in DOMAIN batches /\ MayTouch(k, batches[b].contract)
  /\ Attested(b, "deliverBatch")
  /\ ExecuteAttested("acceptBatch", Actor(k), b, ids, AcceptBatch(b, outcome, n, Actor(k)))
  /\ UNCHANGED outsideStore

\* By the administrator; the id of a review assignment names its post.
\* AssignmentIds bounds how often a batch is assigned.
PostReviewer(b, k, a) ==
  /\ Operator(k, "reviewer")
  /\ b \in DOMAIN batches /\ ReviewSeparation(b, k)
  /\ a = [number |-> Len(batches[b].assignments) + 1, post |-> k]
  /\ Execute("assignReviewer", Admin, b, AssignReviewer(b, a, Actor(k)))
  /\ UNCHANGED outsideStore

PostReview(k, b, n, ids) ==
  /\ Operator(k, "reviewer")
  /\ b \in DOMAIN batches /\ AssignedTo(b, k)
  /\ ReviewSeparation(b, k)
  /\ Attested(b, "deliverBatch") /\ Attested(b, "acceptBatch")
  /\ ExecuteAttested("resolveDispute", Actor(k), b, ids,
       ResolveDispute(b, n, Actor(k), batches[b].assignments[Len(batches[b].assignments)].id))
  /\ UNCHANGED outsideStore

PostPayable(k, b) ==
  /\ Operator(k, "finance")
  /\ b \in DOMAIN batches /\ MayTouch(k, batches[b].contract)
  /\ Attested(b, "deliverBatch")
  /\ FinanceSeparation(batches[b].contract, k)
  /\ Attested(b, "acceptBatch")
  /\ batches[b].review # None => Attested(b, "resolveDispute")
  /\ Execute("derivePayable", assignments[k].user, b, DerivePayable(b))
  /\ UNCHANGED outsideStore

-----------------------------------------------------------------------------
Registry ==
  \/ \E offer \in Offers : Invite(offer)
  \/ \E i \in 1..MaxInvitations : LapseInvitation(i) \/ \E u \in Users : ClaimPost(i, u)
  \/ \E u \in Leavers : RevokePost(u)
  \/ \E x \in Rebinds : RebindWallet(x[1], x[2])

Operators(role) == {k \in DOMAIN assignments : Operator(k, role)}
Materials == {ids \in SUBSET DOMAIN evidence : ids # {}}

Purchasing ==
  \/ \E k \in Operators("supplier"), q \in QuoteIds, input \in QuoteInputs :
       PostQuote(k, q, input)
  \/ \E now \in Times :
    \/ \E k \in Operators("dispatcher"), j \in Operators("contract_approver"),
          r \in ReservationIds, q \in QuoteIds, task \in Tasks, n \in Quantities :
         PostReservation(k, j, r, q, task, n, now)
    \/ \E k \in Operators("contract_approver"), c \in ContractIds, r \in ReservationIds,
          nonce \in Nonces, t \in Times : PostContract(k, c, r, nonce, t, now)
    \/ \E side \in Sides : \E k \in Operators(SigningRole[side]), c \in ContractIds :
         PostSignature(k, c, side, now)

Uploading ==
  \/ \E k \in DOMAIN assignments, c \in ContractIds : StartUpload(k, c)
  \/ \E u \in uploads : EndUpload(u) \/ \E b \in BatchIds : FinishUpload(u, b)

Fulfilling ==
  \/ \E c \in ContractIds, e \in EscrowIds, h \in TxHashes :
       \E receipt \in [contract : ContractIds, version : 1..MaxVersion, value : Values] :
         ConfirmEscrow(c, e, h, receipt)
  \/ \E b \in BatchIds :
       \/ \E k \in Operators("reviewer"), a \in AssignmentIds : PostReviewer(b, k, a)
       \/ \E k \in Operators("finance") : PostPayable(k, b)
       \/ \E k \in Operators("supplier"), c \in ContractIds, n \in Quantities,
             ids \in Materials : PostDelivery(k, b, c, n, ids)
       \/ \E k \in Operators("acceptance"), outcome \in Outcomes, n \in Quantities \cup {0},
             ids \in Materials : PostAcceptance(k, b, outcome, n, ids)
       \/ \E k \in Operators("reviewer"), n \in Quantities \cup {0}, ids \in Materials :
            PostReview(k, b, n, ids)

PlatformNext == Registry \/ Purchasing \/ Uploading \/ Fulfilling
PlatformSpec == PlatformInit /\ [][PlatformNext]_platformVars
-----------------------------------------------------------------------------
(* Properties *)

Did(user, methods, subjects) ==
  \E i \in DOMAIN journal :
    /\ journal[i].actorId = user
    /\ journal[i].method \in methods
    /\ journal[i].subject \in subjects

\* Whoever settled a dispute had no hand in what was disputed: under no post,
\* organization or wallet did that account quote, reserve, sign or create the
\* contract, deliver or accept the batch, or prepare its payable.
ReviewerIndependent ==
  \A b \in DOMAIN batches : batches[b].review # None =>
    LET c == batches[b].contract
        r == Current(c).reservation
        user == batches[b].review.id
    IN  /\ ~Did(user, {"addQuote"}, {reservations[r].quote})
        /\ ~Did(user, {"reserve"}, {r})
        /\ ~Did(user, {"createContract", "signContract"}, {c})
        /\ ~Did(user, {"deliverBatch", "acceptBatch", "derivePayable"}, {b})
=============================================================================
