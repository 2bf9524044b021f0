---------------------------- MODULE DonationPage ----------------------------
(***************************************************************************)
(* The donation page, web/mobile/wallet.js, open in several tabs of one    *)
(* browser: they share the login cookie, the wallet extension and the      *)
(* recovery records in local storage.  A step ends at an await: of the     *)
(* server, of the wallet or of the user's answer in the wallet's window.   *)
(*                                                                         *)
(* An account has one wallet address, named by the account, and makes one  *)
(* donation again and again, or takes back what is left of a confirmed one *)
(* (the call to allocate the rest goes the same way): amount, purpose,     *)
(* contract and chain are left out, and being on another network is having *)
(* no account connected.  The read of a request that changes nothing is    *)
(* part of the step that sends it, the oldest answer it may get.  A change *)
(* of local storage is heard by the other tabs at once.                    *)
(***************************************************************************)
EXTENDS Naturals, SequencesExt

CONSTANTS
  Tabs, Users,
  MaxKeys,      \* bound on the random keys drawn
  MaxTrouble,   \* bound on logins, logouts, switches, reloads, faults, losses
  Parallel,     \* may a donation be prepared while another tab prepares or sends?
  None

VARIABLES
  session,   \* the server: who the browser's cookie belongs to
  intents,   \* the server: prepared donations [user, key, tx], by donation id
  account,   \* the wallet: its selected account
  windows,   \* the wallet: requests it shows [key, call, tab]; tab None: nobody waits
  sent,      \* the chain: transactions broadcast [key, call, mined], by hash
  pending,   \* local storage: records, a sequence of Rec
  page,      \* tab -> its variables
  keys,      \* random keys drawn
  trouble,   \* counter of the bound MaxTrouble
  known      \* tab -> who was logged in since its own last login or logout (history)

vars == <<session, intents, account, windows, sent, pending, page, keys, trouble, known>>
server == <<session, intents, known>>
wallet == <<account, windows, sent>>

Someone == Users \cup {None}

\* A recovery record: of a call about a donation, with its hash once there is one.
Calls == [name : {"donate", "refund"}, id : Nat]
Phases == {"AWAITING_SIGNATURE", "SENDING", "UNKNOWN", "SUBMITTED"}
Rec == [key : Nat, call : Calls, user : Someone, prepareKey : Nat \cup {None},
        phase : Phases, tx : Nat \cup {None}]

ASSUME PageAssumption == None \notin Nat \cup Rec

\* What a tab is waiting for.  fresh: neither the wallet nor the login has
\* changed since it began (guard); auth: the login has not.
Idle == [at |-> "idle", fresh |-> FALSE, auth |-> FALSE, user |-> None,
         key |-> None, call |-> None, rec |-> None, seen |-> {}]
Began(at, user) == [Idle EXCEPT !.at = at, !.fresh = TRUE, !.auth = TRUE, !.user = user]
NoRefresh == [on |-> FALSE, user |-> None, fresh |-> FALSE]

\* me: the account shown; err: it may be out of date; address: the wallet
\* account shown; told: the wallet has no news for the tab; prep: prepareIntent;
\* submits: reports of a hash under way.
Loaded == [me |-> None, err |-> FALSE, address |-> None, told |-> TRUE, preview |-> None,
           prep |-> None, op |-> Idle, refresh |-> NoRefresh, submits |-> {}]

Init ==
  /\ session \in Someone /\ account \in Users
  /\ intents = <<>> /\ windows = {} /\ sent = <<>> /\ pending = <<>>
  /\ page = [t \in Tabs |-> Loaded]
  /\ keys = 0 /\ trouble = 0
  /\ known = [t \in Tabs |-> {None, session}]

Trouble == trouble < MaxTrouble /\ trouble' = trouble + 1

-----------------------------------------------------------------------------
(* Helpers of the page *)

\* invalidate(): walletEpoch++ and the preview is gone.
Invalidated(p) == [p EXCEPT !.preview = None, !.op.fresh = FALSE]
\* authEpoch++.
AuthChanged(p) == [p EXCEPT !.op.fresh = FALSE, !.op.auth = FALSE, !.refresh.fresh = FALSE]
SetMe(p, user) ==
  [(IF p.me # user THEN Invalidated(AuthChanged(p)) ELSE p) EXCEPT !.me = user, !.err = FALSE]
Stopped(p) == [p EXCEPT !.op = Idle]

\* unavailableReason() is empty.
Ready(p) == p.me # None /\ ~p.err /\ p.address = p.me
Handled(rec) == rec.tx # None \/ rec.phase # "AWAITING_SIGNATURE"

\* Do the stored records say that the one of this key was dealt with?
\* Mutant: only its hash is looked at.
HasHash(records, key) == \E r \in Range(records) : r.key = key /\ r.tx # None
Taken(records, key) == \E r \in Range(records) : r.key = key /\ Handled(r)

\* validateIdentity(): the wallet and the server still say what the page shows.
Identified(p) == /\ p.op.fresh /\ session = p.op.user
                 /\ account = p.address /\ p.address = p.op.user
\* validateTransaction(): the transaction prepared for donation id is for this
\* page's account.  Mutant: it is not looked at.
AnyPayer(p, id) == id \in DOMAIN intents
PaidByMe(p, id) == intents[id].user = p.me /\ intents[id].user = p.address
Donation(id) == [name |-> "donate", id |-> id]
Refund(id) == [name |-> "refund", id |-> id]

\* saveRecord() and removeRecord(); no two records have the same key.
With(rec) == IF \E i \in DOMAIN pending : pending[i].key = rec.key
             THEN [i \in DOMAIN pending |-> IF pending[i].key = rec.key THEN rec ELSE pending[i]]
             ELSE Append(pending, rec)
Without(rec) == RemoveFirstMatch(pending, LAMBDA r : r.key = rec.key)
Records == Range(pending)

\* Tab t, whose page becomes p, stores the records; the other tabs hear of it
\* and drop a preview of what is handled now.
Store(t, p, records) ==
  /\ pending' = records
  /\ page' = [x \in Tabs |->
       IF x = t THEN p
       ELSE IF page[x].preview # None /\ Taken(records, page[x].preview.key)
            THEN Invalidated(page[x]) ELSE page[x]]
Turn(t, p) == page' = [page EXCEPT ![t] = p]

\* The login changes to user by a request of tab t.
LogIn(t, user) ==
  /\ session' = user
  /\ known' = [x \in Tabs |-> known[x] \cup {user}]
  /\ page' = [x \in Tabs |->
       IF x = t THEN [page[x] EXCEPT !.op.at = "authAnswer", !.op.seen = {user}]
       ELSE IF page[x].op.at = "authAnswer" THEN [page[x] EXCEPT !.op.seen = @ \cup {user}]
       ELSE page[x]]

-----------------------------------------------------------------------------
(* The wallet extension *)

\* Its user selects another account, or disconnects the site or the network.
SelectAccount(a) ==
  /\ a # account /\ Trouble
  /\ account' = a
  /\ page' = [t \in Tabs |-> [page[t] EXCEPT !.told = page[t].address = None]]
  /\ UNCHANGED <<server, windows, sent, pending, keys>>

\* accountsChanged(), chainChanged(), disconnected().
WalletChanged(t) ==
  /\ ~page[t].told
  /\ Turn(t, Invalidated([page[t] EXCEPT !.told = TRUE, !.address = account]))
  /\ UNCHANGED <<server, wallet, pending, keys, trouble>>

\* connect(): nothing of the page changes until the wallet has answered.
Connect(t) ==
  /\ page[t].op = Idle /\ account # None
  /\ Turn(t, [page[t] EXCEPT !.address = account, !.told = TRUE])
  /\ page[t].address # account
  /\ UNCHANGED <<server, wallet, pending, keys, trouble>>

\* The user approves a request shown; whoever waits for it gets the hash later.
Approve(w) ==
  /\ windows' = windows \ {w}
  /\ sent' = Append(sent, [key |-> w.key, call |-> w.call, mined |-> FALSE])
  /\ IF w.tab = None THEN UNCHANGED page
     ELSE Turn(w.tab, [page[w.tab] EXCEPT !.op.at = "hash", !.op.rec.tx = Len(sent) + 1])
  /\ UNCHANGED <<server, account, pending, keys, trouble>>

Mine(n) ==
  /\ ~sent[n].mined /\ sent' = [sent EXCEPT ![n].mined = TRUE]
  /\ UNCHANGED <<server, account, windows, pending, page, keys, trouble>>

\* The user rejects it: error 4001 if a tab waits.
Reject(w) ==
  /\ windows' = windows \ {w}
  /\ IF w.tab = None THEN UNCHANGED <<pending, page>>
     ELSE LET p == page[w.tab]  rec == [p.op.rec EXCEPT !.phase = "AWAITING_SIGNATURE"]
          IN  Store(w.tab, [Stopped(p) EXCEPT !.preview = IF @ = None THEN None ELSE rec], With(rec))
  /\ UNCHANGED <<server, account, sent, keys, trouble>>

\* Any other error, or no valid hash: the request may still be on show.
Fault(w) ==
  /\ w.tab # None /\ Trouble
  /\ \/ windows' = windows \ {w}
     \/ windows' = (windows \ {w}) \cup {[w EXCEPT !.tab = None]}
  /\ Store(w.tab, [Stopped(page[w.tab]) EXCEPT !.preview = None],
           With([page[w.tab].op.rec EXCEPT !.phase = "UNKNOWN"]))
  /\ UNCHANGED <<server, account, sent, keys>>

-----------------------------------------------------------------------------
(* The login *)

\* authenticate() and logout(): user is None.
StartAuth(t, user) ==
  /\ page[t].op = Idle /\ (page[t].me = None) # (user = None)
  /\ Trouble
  /\ Turn(t, [Invalidated(AuthChanged(page[t])) EXCEPT !.op = Began("auth", user)])
  /\ UNCHANGED <<server, wallet, pending, keys>>

AuthServed(t) ==
  /\ page[t].op.at = "auth"
  /\ LogIn(t, page[t].op.user)
  /\ UNCHANGED <<intents, wallet, pending, keys, trouble>>

\* The answer, or none: refused, or lost before or after the server acted.
EndAuth(t) ==
  LET p == page[t] IN
  /\ \/ p.op.at = "authAnswer" /\ Turn(t, Stopped(AuthChanged(SetMe(p, p.op.user))))
        /\ known' = [known EXCEPT ![t] = p.op.seen]
     \/ p.op.at \in {"auth", "authAnswer"}
        /\ Turn(t, Stopped([AuthChanged(p) EXCEPT !.err = @ \/ p.op.user = None]))
        /\ UNCHANGED known
  /\ UNCHANGED <<session, intents, wallet, pending, keys, trouble>>

StartRefresh(t) ==
  /\ ~page[t].refresh.on
  /\ page[t].me # session \/ page[t].err \/ page[t].op.at \in {"auth", "authAnswer"}
  /\ Turn(t, [page[t] EXCEPT !.refresh = [on |-> TRUE, user |-> session, fresh |-> TRUE]])
  /\ UNCHANGED <<server, wallet, pending, keys, trouble>>

\* Is the answer about the login the page has now?  Mutant: always.
AnyAnswer(p) == p.refresh.on
StillAsked(p) == p.refresh.fresh /\ p.op.at \notin {"auth", "authAnswer"}

\* The answer to "me" is used unless the login changed; a new configuration of
\* the pool invalidates; a failed read leaves a warning.
EndRefresh(t) ==
  LET p == page[t]  done == [p EXCEPT !.refresh = NoRefresh] IN
  /\ p.refresh.on
  /\ \E q \in {done, Invalidated(done)} :
       \/ Turn(t, IF StillAsked(p) THEN SetMe(q, p.refresh.user) ELSE q) /\ UNCHANGED trouble
       \/ Trouble /\ Turn(t, IF StillAsked(p) THEN [q EXCEPT !.err = TRUE] ELSE q)
  /\ UNCHANGED <<server, wallet, pending, keys>>

-----------------------------------------------------------------------------
(* Donating *)

Elsewhere(t, stages) == \E x \in Tabs \ {t} : page[x].op.at \in stages
Preparing == {"check", "ask", "answer"}
Sending == {"identity", "window", "hash"}

\* The first record of the same donation.
Previous(user) == LET i == SelectInSeq(pending, LAMBDA r : r.user = user /\ r.call.name = "donate")
                  IN  IF i = 0 THEN None ELSE pending[i]

StartPrepare(t) ==
  /\ page[t].op = Idle /\ page[t].preview = None /\ Ready(page[t])
  /\ ~Parallel => ~Elsewhere(t, Preparing \cup Sending)
  /\ Turn(t, [page[t] EXCEPT !.op = Began("check", page[t].me)])
  /\ UNCHANGED <<server, wallet, pending, keys, trouble>>

\* prepareAction(): to take back what is left of a donation that is confirmed,
\* unless a call about it is under way.
StartRefund(t) ==
  LET p == page[t] IN
  /\ p.op = Idle /\ p.preview = None /\ Ready(p)
  /\ ~Parallel => ~Elsewhere(t, Preparing \cup Sending)
  /\ \E n \in DOMAIN sent :
       /\ sent[n].mined /\ sent[n].call.name = "donate" /\ intents[sent[n].call.id].user = p.me
       /\ LET call == Refund(sent[n].call.id)
          IN  /\ ~\E r \in Records : r.user = p.me /\ r.call = call /\ Handled(r)
              /\ Turn(t, [p EXCEPT !.op = [Began("check", p.me) EXCEPT !.call = call]])
  /\ UNCHANGED <<server, wallet, pending, keys, trouble>>

\* The check of the identity fails, or its requests do.
FailCheck(t) ==
  LET p == page[t] IN
  /\ p.op.at \in {"check", "identity"} /\ ~Identified(p)
  /\ Turn(t, Stopped(IF p.op.fresh /\ session # p.op.user THEN SetMe(p, session) ELSE p))
  /\ UNCHANGED <<server, wallet, pending, keys, trouble>>

\* The key of an earlier try is used again, so that the server knows the donation.
Checked(t) ==
  LET p == page[t]  previous == Previous(p.op.user) IN
  /\ p.op.at = "check" /\ Identified(p)
  /\ IF p.op.call # None
     THEN Turn(t, [p EXCEPT !.op.at = "ask"]) /\ UNCHANGED keys
     ELSE IF previous # None /\ Handled(previous)
     THEN Turn(t, Stopped(p)) /\ UNCHANGED keys
     ELSE \E k \in IF p.prep # None /\ p.prep.user = p.op.user THEN {p.prep.key}
                   ELSE IF previous # None THEN {previous.prepareKey}
                   ELSE {keys + 1} \cap 1..MaxKeys :
            /\ keys' = IF k = keys + 1 THEN k ELSE keys
            /\ Turn(t, [p EXCEPT !.prep = [user |-> p.op.user, key |-> k],
                                 !.op.at = "ask", !.op.key = k, !.op.rec = previous])
  /\ UNCHANGED <<server, wallet, pending, trouble>>

\* donations/prepare on the server, for whoever is logged in by then; a known
\* key names a known donation.  donations/refund is for the donor, while
\* something is left of the donation.
PrepareServed(t) ==
  LET p == page[t]
      Is(id) == intents[id].user = session /\ intents[id].key = p.op.key
      At(id) == [p EXCEPT !.op.at = "answer", !.op.call = Donation(id)]
  IN
  /\ p.op.at = "ask"
  /\ IF p.op.call # None
     THEN /\ Turn(t, IF /\ intents[p.op.call.id].user = session
                        /\ ~\E n \in DOMAIN sent : sent[n].mined /\ sent[n].call = p.op.call
                     THEN [p EXCEPT !.op.at = "answer"] ELSE Stopped(p))
          /\ UNCHANGED intents
     ELSE IF session = None THEN Turn(t, Stopped(p)) /\ UNCHANGED intents
     ELSE \/ \E id \in DOMAIN intents : Is(id) /\ Turn(t, At(id)) /\ UNCHANGED intents
          \/ /\ ~\E id \in DOMAIN intents : Is(id)
             /\ intents' = Append(intents, [user |-> session, key |-> p.op.key, tx |-> None])
             /\ Turn(t, At(Len(intents) + 1))
  /\ UNCHANGED <<session, known, wallet, pending, keys, trouble>>

\* The request or its answer is lost.
LosePrepare(t) ==
  /\ page[t].op.at \in {"ask", "answer"} /\ Trouble
  /\ Turn(t, Stopped(page[t]))
  /\ UNCHANGED <<server, wallet, pending, keys>>

Prepared(t) ==
  LET p == page[t]  previous == p.op.rec IN
  /\ p.op.at = "answer"
  /\ IF ~(p.op.fresh /\ PaidByMe(p, p.op.call.id))
     THEN Turn(t, Stopped(p)) /\ UNCHANGED <<pending, keys>>
     ELSE \E k \in IF previous # None THEN {previous.key} ELSE {keys + 1} \cap 1..MaxKeys :
            LET rec == [key |-> k, call |-> p.op.call, user |-> p.op.user, prepareKey |-> p.op.key,
                        phase |-> "AWAITING_SIGNATURE", tx |-> None]
            IN  /\ keys' = IF k = keys + 1 THEN k ELSE keys
                /\ Store(t, [Stopped(p) EXCEPT !.preview = rec], With(rec))
  /\ UNCHANGED <<server, wallet, trouble>>

\* The preview is cancelled.
Cancel(t) ==
  /\ page[t].preview # None /\ page[t].op = Idle
  /\ Turn(t, Invalidated(page[t]))
  /\ UNCHANGED <<server, wallet, pending, keys, trouble>>

StartSend(t) ==
  LET p == page[t] IN
  /\ p.op = Idle /\ p.preview # None /\ Ready(p) /\ ~Handled(p.preview)
  /\ ~Parallel => ~Elsewhere(t, Preparing)
  /\ Turn(t, [p EXCEPT !.op = [Began("identity", p.me) EXCEPT !.rec = p.preview]])
  /\ UNCHANGED <<server, wallet, pending, keys, trouble>>

\* The record says SENDING before the wallet is asked.
Staged(t) ==
  LET p == page[t]  rec == [p.op.rec EXCEPT !.phase = "SENDING"] IN
  /\ p.op.at = "identity" /\ Identified(p)
  /\ IF Taken(pending, rec.key)
     THEN Turn(t, Stopped(Invalidated(p))) /\ UNCHANGED <<pending, windows>>
     ELSE IF ~PaidByMe(p, rec.call.id) \/ rec.user # p.op.user
     THEN Turn(t, Stopped(p)) /\ UNCHANGED <<pending, windows>>
     ELSE /\ windows' = windows \cup {[key |-> rec.key, call |-> rec.call, tab |-> t]}
          /\ Store(t, [p EXCEPT !.op.at = "window", !.op.rec = rec], With(rec))
  /\ UNCHANGED <<server, account, sent, keys, trouble>>

\* submitRecord() begins, unless this record is already being reported.
Submitting(p, rec) ==
  IF rec.call.name = "donate" /\ p.me = rec.user /\ ~\E s \in p.submits : s.rec.key = rec.key
  THEN [p EXCEPT !.submits = @ \cup {[rec |-> rec, ok |-> FALSE]}] ELSE p

\* The hash is saved whatever happened meanwhile; that of a donation is
\* reported if the login is the same.
HashReturned(t) ==
  LET p == page[t]  rec == [p.op.rec EXCEPT !.phase = "SUBMITTED"]
      done == [p EXCEPT !.preview = None, !.prep = None]
  IN
  /\ p.op.at = "hash"
  /\ Store(t, IF p.op.auth /\ p.me = rec.user /\ rec.call.name = "donate"
              THEN Submitting([done EXCEPT !.op.at = "submit", !.op.rec = rec], rec)
              ELSE Stopped(done),
           With(rec))
  /\ UNCHANGED <<server, wallet, keys, trouble>>

\* The user types the hash of a donation whose end the page did not see.
Recover(t) ==
  /\ page[t].op.at \notin {"auth", "authAnswer"}
  /\ \E r \in Records, n \in DOMAIN sent :
       /\ r.user = page[t].me /\ r.tx = None /\ r.phase \in {"SENDING", "UNKNOWN"}
       /\ sent[n].key = r.key /\ r.call.name = "donate"
       /\ LET rec == [r EXCEPT !.tx = n, !.phase = "SUBMITTED"]
          IN  Store(t, Submitting(page[t], rec), With(rec))
  /\ UNCHANGED <<server, wallet, keys, trouble>>

\* The user asks to report the hash again.
Retry(t) ==
  /\ page[t].op.at \notin {"auth", "authAnswer"}
  /\ \E r \in Records :
       /\ r.tx # None /\ Submitting(page[t], r) # page[t]
       /\ Turn(t, Submitting(page[t], r))
  /\ UNCHANGED <<server, wallet, pending, keys, trouble>>

\* donations/submit on the server: the first hash stays.
SubmitServed(t) ==
  \E s \in page[t].submits :
    /\ ~s.ok /\ intents[s.rec.call.id].user = session /\ intents[s.rec.call.id].tx \in {None, s.rec.tx}
    /\ intents' = [intents EXCEPT ![s.rec.call.id].tx = s.rec.tx]
    /\ Turn(t, [page[t] EXCEPT !.submits = (@ \ {s}) \cup {[s EXCEPT !.ok = TRUE]}])
    /\ UNCHANGED <<session, known, wallet, pending, keys, trouble>>

\* Only a confirmation removes the record.
EndSubmit(t) ==
  LET p == page[t] IN
  /\ \E s \in p.submits :
       LET q == [p EXCEPT !.submits = @ \ {s},
                          !.op = IF @.at = "submit" /\ @.rec.key = s.rec.key THEN Idle ELSE @]
       IN  \/ s.ok /\ Store(t, q, Without(s.rec)) /\ UNCHANGED trouble
           \/ Trouble /\ Store(t, q, With(s.rec))
  /\ UNCHANGED <<server, wallet, keys>>

\* checkAction(): of the hash kept, or of one the user types in.
StartCheck(t) ==
  LET p == page[t] IN
  /\ p.op = Idle
  /\ \E r \in Records, n \in DOMAIN sent :
       /\ r.user = p.me /\ r.call.name = "refund" /\ Handled(r) /\ r.tx \in {None, n}
       /\ Turn(t, [p EXCEPT !.op = [Began("verify", p.me) EXCEPT !.rec = r, !.key = n]])
  /\ UNCHANGED <<server, wallet, pending, keys, trouble>>

\* verifyActionRecovery(): the call, its donation and sender are the record's.
\* Mutant: any mined transaction of the same sender will do.
SamePayer(rec, n) == sent[n].mined /\ intents[sent[n].call.id].user = rec.user
Confirms(rec, n) == sent[n].mined /\ sent[n].call = rec.call

EndCheck(t) ==
  LET p == page[t] IN
  /\ p.op.at = "verify"
  /\ IF p.op.fresh /\ account # None /\ Confirms(p.op.rec, p.op.key)
     THEN Store(t, Stopped(p), Without(p.op.rec))
     ELSE Turn(t, Stopped(p)) /\ UNCHANGED pending
  /\ UNCHANGED <<server, wallet, keys, trouble>>

\* The tab is reloaded: what it waited for goes on without it.
Reload(t) ==
  /\ Trouble
  /\ Turn(t, Loaded)
  /\ windows' = {[w EXCEPT !.tab = IF @ = t THEN None ELSE @] : w \in windows}
  /\ known' = [known EXCEPT ![t] = {None, session}]
  /\ UNCHANGED <<session, intents, account, sent, pending, keys>>

-----------------------------------------------------------------------------
Step(t) ==
  \/ WalletChanged(t) \/ Connect(t)
  \/ (\E user \in Someone : StartAuth(t, user)) \/ AuthServed(t) \/ EndAuth(t)
  \/ StartRefresh(t) \/ EndRefresh(t)
  \/ StartPrepare(t) \/ StartRefund(t) \/ FailCheck(t) \/ Checked(t) \/ PrepareServed(t) \/ LosePrepare(t)
  \/ Prepared(t) \/ Cancel(t)
  \/ StartSend(t) \/ Staged(t) \/ HashReturned(t)
  \/ Recover(t) \/ Retry(t) \/ SubmitServed(t) \/ EndSubmit(t)
  \/ StartCheck(t) \/ EndCheck(t) \/ Reload(t)

Next == \/ \E t \in Tabs : Step(t)
        \/ \E a \in Someone : SelectAccount(a)
        \/ \E n \in DOMAIN sent : Mine(n)
        \/ \E w \in windows : Approve(w) \/ Reject(w) \/ Fault(w)

Spec == Init /\ [][Next]_vars
-----------------------------------------------------------------------------
\* One record asks the wallet for one transaction: whatever is closed, lost,
\* retried or done in another tab, no second request or transaction of it
\* exists beside the first.
AskedOnce ==
  /\ \A w \in windows :
       /\ \A v \in windows : v.key = w.key => v = w
       /\ \A n \in DOMAIN sent : sent[n].key # w.key
  /\ \A m, n \in DOMAIN sent : sent[m].key = sent[n].key => m = n

\* A donation's rest is taken back.
Settled(call) == call.name = "refund" /\ \E m \in DOMAIN sent : sent[m].call = call /\ sent[m].mined

\* A broadcast transaction is never lost: the server knows its hash, or local
\* storage has it or a record that lets the user fill it in.  A refund may be
\* forgotten once one of the same donation is mined: another pays nothing.
SentIsKept ==
  \A n \in DOMAIN sent :
    \/ intents[sent[n].call.id].tx = n
    \/ Settled(sent[n].call)
    \/ \E r \in Records : /\ r.key = sent[n].key
                          /\ r.tx = n \/ r.phase \in {"SENDING", "UNKNOWN"}

\* What an account finds among its recovery records, and is asked to pay for,
\* was prepared for that account, however logins and wallets were switched.
InOwnName == \A r \in Records : intents[r.call.id].user = r.user

\* A tab never goes back to a login that was over before its own last login
\* or logout: an answer that was on its way does not bring it back.
NoLateIdentity == \A t \in Tabs : page[t].me \in known[t]
=============================================================================
