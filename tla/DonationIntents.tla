--------------------------- MODULE DonationIntents ---------------------------
(***************************************************************************)
(* Prepared donations: backend/donation-intent-service.js over the         *)
(* accounts, and the SQLite store of backend/donation-intent-store.js,     *)
(* whose transactions are atomic and survive a crash.  Preparing awaits    *)
(* the funding policy between reading the account and writing the intent.  *)
(***************************************************************************)
EXTENDS WalletAccounts

CONSTANTS
  RequestIds,  \* the client's ids; one names one donation of an account
  Gifts        \* purpose, project and amount of a request

VARIABLES
  intents      \* <<account, request id>> -> [wallet, gift], or None
vars == <<accounts, mailbox, intents>>

\* publicProfile(): what of an account is compared and recorded.
Profile(record) == [wallet |-> record.wallet, verified |-> record.verified]
\* Only the login is checked again (a mutant).
SameAccount(token, r) == UserOf(token) = r.email
SameProfile(token, r) == UserOf(token) = r.email /\ Profile(users[r.email]) = Profile(r.next[r.email])

IntentsInit == intents = [k \in Emails \X RequestIds |-> None]

\* The store's transaction: a donation is recorded once, a retry changes nothing.
Insert(key, record) == intents' = IF intents[key] = None THEN [intents EXCEPT ![key] = record] ELSE intents

\* A known donation is answered at once, or refused when wallet or gift are
\* not the recorded ones; a new one waits for its terms.
Prepare(s) ==
  /\ \E x \in sessions, id \in RequestIds, g \in Gifts :
       /\ users[x.user].wallet # None /\ intents[<<x.user, id>>] = None
       /\ Arrive(s, [Idle EXCEPT !.op = "prepare", !.stage = "policy", !.token = x.token,
                                 !.email = x.user, !.code = id, !.purpose = g, !.next = users])
  /\ UNCHANGED <<stored, sessions, challenges, tail, crashes, mailbox, intents>>

\* Login, account and wallet are checked again after the wait; another
\* request may have prepared the donation meanwhile.
ResolveTerms(s) ==
  LET r == req[s]  key == <<r.email, r.code>> IN
  /\ r.stage = "policy" /\ req' = [req EXCEPT ![s] = Idle]
  /\ \/ UNCHANGED intents   \* no terms
     \/ SameProfile(r.token, r) /\ Insert(key, [wallet |-> r.next[r.email].wallet, gift |-> r.purpose])
  /\ UNCHANGED <<stored, sessions, challenges, tail, arrived, crashes, mailbox>>

\* Deadlock would be a request that nothing can move.
Quiet == Busy = {} /\ UNCHANGED vars
Init == AccountsInit /\ MailboxInit /\ IntentsInit
Next ==
  \/ (AccountsNext \/ Crash) /\ UNCHANGED intents
  \/ \E s \in Requests : Prepare(s) \/ ResolveTerms(s)
  \/ Quiet
Spec == Init /\ [][Next]_vars
-----------------------------------------------------------------------------
File == [Emails -> Account \cup {None}]
Request == [op : {"none", "register", "login", "send", "confirm", "reset", "bind", "prepare"},
            stage : {"none", "hashing", "queued", "rehash", "writing", "renamed", "policy"},
            token : Nat, email : Emails \cup {None}, salt : Nat,
            purpose : Purposes \cup Gifts \cup {None}, code : Codes \cup RequestIds \cup {None},
            nonce : Nat, wallet : Wallets \cup {None}, next : File]

\* What a waiting request names.
NamesSubject(r) ==
  /\ r.op \in {"register", "login", "reset", "bind", "prepare"} => r.email \in Emails
  /\ r.op = "bind" => r.wallet \in Wallets
  /\ r.op = "confirm" => r.purpose = "email-verification"
  /\ r.op = "reset" => r.purpose = "password-reset"
  /\ r.op = "send" => \/ r.purpose = "email-verification"
                      \/ r.purpose = "password-reset" /\ r.email \in Emails
  /\ r.stage = "policy" => /\ r.email \in Emails /\ r.code \in RequestIds /\ r.purpose \in Gifts
                           /\ r.next[r.email] # None

FilesOK == users \in File /\ disk \in File /\ promised \in File
SessionsOK ==
  /\ sessions \subseteq [token : Nat, user : Emails, salt : Nat] /\ IsFiniteSet(sessions)
  /\ challenges \subseteq [nonce : Nat, user : Emails, wallet : Wallets] /\ IsFiniteSet(challenges)
RequestsOK ==
  req \in [Requests -> Request] /\ tail \in Seq(Requests) /\ \A s \in Requests : NamesSubject(req[s])
MailboxOK ==
  /\ codes \subseteq [key : Keys, code : Codes, tries : Nat, issue : Nat]
  /\ buckets \in [Buckets -> Nat] /\ cooling \subseteq Keys
  /\ history \in Seq([guesses : Nat, accepted : Nat])
IntentsOK ==
  intents \in [Emails \X RequestIds -> {None} \cup [wallet : Wallets \cup {None}, gift : Gifts]]

\* Every variable holds records of its kind, and a waiting request names what
\* it is about.
TypeOK == FilesOK /\ SessionsOK /\ RequestsOK /\ MailboxOK /\ IntentsOK

\* What the step that writes the intent k sees of its account and its session.
OfBoundWallet(k) ==
  /\ intents[k] = None /\ intents'[k].wallet = users[k[1]].wallet
  /\ \E s \in Requests : req[s].stage = "policy" /\ UserOf(req[s].token) = k[1]
\* An intent is written for the wallet its account is bound to at that moment,
\* while the session that asked for it is still open, and never changes:
\* logging out, a reset or a new binding during the wait stop it.
IntentsOfBoundWallet ==
  [][\A k \in DOMAIN intents : intents'[k] # intents[k] => OfBoundWallet(k)]_vars
=============================================================================
