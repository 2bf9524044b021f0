---------------------------- MODULE WalletAccounts ----------------------------
(***************************************************************************)
(* The accounts of backend/wallet-accounts.js: registration, login, e-mail *)
(* codes, password reset and wallet binding.  Requests are handled         *)
(* concurrently by one process and every await ends a step.  Mutations     *)
(* queue up behind one another (serial), and one replaces the accounts in  *)
(* memory only after the file is renamed.  The process may crash anywhere: *)
(* the file survives it, everything else is lost.                          *)
(*                                                                         *)
(* An account is named by its e-mail address, which never changes and is   *)
(* never given up; the random salt stands for the password hash it is in.  *)
(***************************************************************************)
EXTENDS LocalMailbox

CONSTANTS
  Wallets,
  Requests,       \* slots for requests being handled
  SessionCap,     \* sessions (10000)
  ChallengeCap,   \* outstanding challenges (10000)
  MaxRequests,    \* bound on the requests that arrive
  MaxCrashes,     \* bound on crashes
  None

\* What the file holds of an account.
Account == [salt : Nat, wallet : Wallets \cup {None}, verified : BOOLEAN]
\* An address has at most 254 characters, so they are finitely many.
ASSUME AccountsAssumption ==
  /\ Purposes = {"email-verification", "password-reset"}
  /\ None \notin Emails \cup Wallets \cup Requests \cup Account
  /\ IsFiniteSet(Emails) /\ IsFiniteSet(Requests)
  /\ SessionCap \in Nat \ {0} /\ ChallengeCap \in Nat \ {0} /\ MaxRequests \in Nat /\ MaxCrashes \in Nat

VARIABLES
  users,       \* account -> [salt, wallet, verified], or None
  disk,        \* the accounts file
  sessions,    \* [token, user, salt]: salt is the password it was opened with
  challenges,  \* [nonce, user, wallet]
  req,         \* slot -> the request being handled
  tail,        \* the requests in serial(), the running one first
  promised,    \* account -> its record as the answered requests left it
  arrived,     \* requests so far
  crashes
accounts == <<users, disk, sessions, challenges, req, tail, promised, arrived, crashes>>
stored == <<users, disk, promised>>

NoUsers == [e \in Emails |-> None]
Idle == [op |-> "none", stage |-> "none", token |-> 0, email |-> None, salt |-> 0,
         purpose |-> None, code |-> None, nonce |-> 0, wallet |-> None, next |-> NoUsers]
Busy == {s \in Requests : req[s] # Idle}
\* Tokens, salts and nonces are random: the least number not in use.
Fresh(used) == CHOOSE n \in 1..(Cardinality(used) + 1) : n \notin used
SaltsIn(f) == {f[e].salt : e \in {d \in Emails : f[d] # None}}
FiledSalts == UNION {SaltsIn(f) : f \in {users, disk} \cup {req[s].next : s \in Busy}}
NewSalt == Fresh(FiledSalts \cup {x.salt : x \in sessions} \cup {req[s].salt : s \in Busy})
NewToken == Fresh({x.token : x \in sessions} \cup {req[s].token : s \in Busy})
NewNonce == Fresh({c.nonce : c \in challenges} \cup {req[s].nonce : s \in Busy})

\* The account a request's cookie stands for, if any.
UserOf(token) ==
  IF \E x \in sessions : x.token = token
  THEN (CHOOSE x \in sessions : x.token = token).user ELSE None
Cookies == {0} \cup {x.token : x \in sessions}
WalletTaken(wallet, user) ==
  \E e \in Emails \ {user} : users[e] # None /\ users[e].wallet = wallet
\* Room for a session: the one the request replaces does not count.
MayStart(token) == Cardinality(sessions) < SessionCap \/ UserOf(token) # None
Started(token, user, salt) ==
  {x \in sessions : x.token # token} \cup {[token |-> NewToken, user |-> user, salt |-> salt]}

-----------------------------------------------------------------------------
AccountsInit ==
  /\ users = NoUsers /\ disk = NoUsers /\ promised = NoUsers
  /\ sessions = {} /\ challenges = {} /\ req = [s \in Requests |-> Idle]
  /\ tail = <<>> /\ arrived = 0 /\ crashes = 0

Arrive(s, r) ==
  /\ req[s] = Idle /\ req' = [req EXCEPT ![s] = r]
  /\ arrived < MaxRequests /\ arrived' = arrived + 1

\* The password is hashed before the request takes its turn.
Register(s) ==
  /\ \E c \in Cookies, e \in Emails :
       Arrive(s, [Idle EXCEPT !.op = "register", !.stage = "hashing", !.token = c, !.email = e, !.salt = NewSalt])
  /\ UNCHANGED <<stored, sessions, challenges, tail, crashes, mailbox>>
\* So is the password of a login, with the salt read now.  A wrong password
\* is rejected without a trace.
Login(s) ==
  /\ \E c \in Cookies, e \in {d \in Emails : users[d] # None} :
       Arrive(s, [Idle EXCEPT !.op = "login", !.stage = "hashing", !.token = c, !.email = e, !.salt = users[e].salt])
  /\ UNCHANGED <<stored, sessions, challenges, tail, crashes, mailbox>>
Hashed(s) ==
  /\ req[s].stage = "hashing"
  /\ req' = [req EXCEPT ![s].stage = "queued"] /\ tail' = Append(tail, s)
  /\ UNCHANGED <<stored, sessions, challenges, arrived, crashes, mailbox>>

\* The e-mail routes run wholly in turn.
RequestCode(s) ==
  /\ Len(history) + Cardinality({t \in Busy : req[t].op = "send"}) < MaxIssues
  /\ \/ \E c \in Cookies \ {0} :
          Arrive(s, [Idle EXCEPT !.op = "send", !.stage = "queued", !.token = c, !.purpose = "email-verification"])
     \/ \E e \in Emails :
          Arrive(s, [Idle EXCEPT !.op = "send", !.stage = "queued", !.email = e, !.purpose = "password-reset"])
  /\ tail' = Append(tail, s)
  /\ UNCHANGED <<stored, sessions, challenges, crashes, mailbox>>
UseCode(s) ==
  /\ \E code \in Codes :
       \/ \E c \in Cookies \ {0} :
            Arrive(s, [Idle EXCEPT !.op = "confirm", !.stage = "queued", !.token = c,
                                   !.purpose = "email-verification", !.code = code])
       \/ \E e \in Emails :
            Arrive(s, [Idle EXCEPT !.op = "reset", !.stage = "queued", !.email = e, !.salt = NewSalt,
                                   !.purpose = "password-reset", !.code = code])
  /\ tail' = Append(tail, s)
  /\ UNCHANGED <<stored, sessions, challenges, crashes, mailbox>>

\* One challenge per account; a full table refuses the new one only after the
\* account's own is gone.
Challenge ==
  /\ \E x \in sessions, a \in Wallets :
       LET others == {c \in challenges : c.user # x.user} IN
       /\ ~WalletTaken(a, x.user)
       /\ challenges' = IF Cardinality(others) >= ChallengeCap THEN others
                        ELSE others \cup {[nonce |-> NewNonce, user |-> x.user, wallet |-> a]}
  /\ UNCHANGED <<stored, sessions, req, tail, arrived, crashes, mailbox>>

\* The challenge is consumed whether or not the signature turns out valid.
Verify(s) ==
  /\ \E x \in sessions, c \in challenges :
       /\ c.user = x.user /\ challenges' = challenges \ {c}
       /\ \/ UNCHANGED <<req, tail, arrived>>
          \/ /\ Arrive(s, [Idle EXCEPT !.op = "bind", !.stage = "queued", !.token = x.token,
                                       !.email = c.user, !.nonce = c.nonce, !.wallet = c.wallet])
             /\ tail' = Append(tail, s)
  /\ UNCHANGED <<stored, sessions, crashes, mailbox>>

\* Logging out, and the expiry of a session or of a challenge.
Logout ==
  /\ \E x \in sessions : sessions' = sessions \ {x}
  /\ UNCHANGED <<stored, challenges, req, tail, arrived, crashes, mailbox>>
ChallengeOver ==
  /\ \E c \in challenges : challenges' = challenges \ {c}
  /\ UNCHANGED <<stored, sessions, req, tail, arrived, crashes, mailbox>>

-----------------------------------------------------------------------------
\* serial(): a request runs when those before it are done, failed or not.
Turn(s) == tail # <<>> /\ Head(tail) = s
Finish(s) == req' = [req EXCEPT ![s] = Idle] /\ tail' = Tail(tail)

\* The record the request makes of the account's.
Changed(s, record) ==
  LET r == req[s] IN
  CASE r.op = "register" -> [salt |-> r.salt, wallet |-> None, verified |-> FALSE]
    [] r.op = "confirm"  -> [record EXCEPT !.verified = TRUE]
    [] r.op = "reset"    -> [record EXCEPT !.salt = r.salt]
    [] r.op = "bind"     -> [record EXCEPT !.wallet = r.wallet]
FileWith(s, e) == [users EXCEPT ![e] = Changed(s, users[e])]
Save(s, e) ==
  /\ req' = [req EXCEPT ![s].stage = "writing", ![s].email = e, ![s].next = FileWith(s, e)]
  /\ UNCHANGED tail

RunRegister(s) ==
  /\ Turn(s) /\ req[s].stage = "queued" /\ req[s].op = "register"
  /\ IF users[req[s].email] # None \/ ~MayStart(req[s].token) THEN Finish(s) ELSE Save(s, req[s].email)
  /\ UNCHANGED <<stored, sessions, challenges, arrived, crashes, mailbox>>

\* Any password known when hashing began will do (a mutant).
AccountExists(r) == users[r.email] # None
\* The password read before hashing must still be the account's.
SamePassword(r) == users[r.email] # None /\ users[r.email].salt = r.salt
RunLogin(s) ==
  LET r == req[s] IN
  /\ Turn(s) /\ r.stage = "queued" /\ r.op = "login"
  /\ sessions' = IF SamePassword(r) /\ MayStart(r.token) THEN Started(r.token, r.email, r.salt) ELSE sessions
  /\ Finish(s)
  /\ UNCHANGED <<stored, challenges, arrived, crashes, mailbox>>

\* Whom an e-mail request is about: the session's account, or the address given.
Subject(r) == IF r.purpose = "email-verification" THEN UserOf(r.token) ELSE r.email
RunSend(s) ==
  LET e == Subject(req[s]) IN
  /\ Turn(s) /\ req[s].stage = "queued" /\ req[s].op = "send"
  /\ IF e = None THEN UNCHANGED mailbox ELSE Issue(<<req[s].purpose, e>>, users[e] # None)
  /\ Finish(s)
  /\ UNCHANGED <<stored, sessions, challenges, arrived, crashes>>
RunCheck(s) ==
  LET r == req[s]  e == Subject(r)  key == <<r.purpose, e>> IN
  /\ Turn(s) /\ r.stage = "queued" /\ r.op \in {"confirm", "reset"}
  /\ IF e = None THEN Finish(s) /\ UNCHANGED mailbox
     ELSE /\ Check(key, users[e] # None, r.code)
          /\ IF ~Valid(key, users[e] # None, r.code) THEN Finish(s)
             ELSE IF r.op = "confirm" THEN Save(s, e)
             ELSE req' = [req EXCEPT ![s].stage = "rehash"] /\ UNCHANGED tail
  /\ UNCHANGED <<stored, sessions, challenges, arrived, crashes>>
\* The hash of the new password may be refused, or come too late for the code.
Rehashed(s) ==
  /\ Turn(s) /\ req[s].stage = "rehash"
  /\ Finish(s) \/ Save(s, req[s].email)
  /\ UNCHANGED <<stored, sessions, challenges, arrived, crashes, mailbox>>

\* The wallet is looked up only when challenged (a mutant).
SameUser(r) == UserOf(r.token) = r.email
\* Session, expiry and address are checked again: other requests ran meanwhile.
Bindable(r) == UserOf(r.token) = r.email /\ ~WalletTaken(r.wallet, r.email)
RunBind(s) ==
  LET r == req[s] IN
  /\ Turn(s) /\ r.stage = "queued" /\ r.op = "bind"
  /\ \/ Finish(s)   \* the challenge has expired
     \/ Bindable(r) /\ Save(s, r.email)
  /\ UNCHANGED <<stored, sessions, challenges, arrived, crashes, mailbox>>

\* persist(): a complete temporary file is renamed, then memory follows.
Rename(s) ==
  /\ Turn(s) /\ req[s].stage = "writing"
  /\ disk' = req[s].next /\ req' = [req EXCEPT ![s].stage = "renamed"]
  /\ UNCHANGED <<users, promised, sessions, challenges, tail, arrived, crashes, mailbox>>
\* Memory follows although the file could not be written (a mutant).
StorageIgnored(s) ==
  /\ Turn(s) /\ req[s].stage = "writing" /\ Finish(s)
  /\ users' = req[s].next
  /\ UNCHANGED <<disk, promised, sessions, challenges, arrived, crashes, mailbox>>
StorageError(s) ==
  /\ Turn(s) /\ req[s].stage = "writing" /\ Finish(s)
  /\ UNCHANGED <<stored, sessions, challenges, arrived, crashes, mailbox>>
\* The sessions left after a reset of the user's password.
SessionsAfterReset(user) == {x \in sessions : x.user # user}
Saved(s) ==
  LET r == req[s] IN
  /\ Turn(s) /\ r.stage = "renamed"
  /\ users' = r.next /\ promised' = [promised EXCEPT ![r.email] = Changed(s, @)]
  /\ CASE r.op = "register" ->
            sessions' = Started(r.token, r.email, r.salt) /\ UNCHANGED <<challenges, mailbox>>
       [] r.op = "reset" ->
            /\ sessions' = SessionsAfterReset(r.email)
            /\ challenges' = {c \in challenges : c.user # r.email} /\ Revoke(r.email)
       [] OTHER -> UNCHANGED <<sessions, challenges, mailbox>>
  /\ Finish(s)
  /\ UNCHANGED <<disk, arrived, crashes>>

\* What the file must satisfy for the process to start.
Loadable(f) == \A d, e \in Emails :
  d # e /\ f[d] # None /\ f[e] # None /\ f[d].wallet # None => f[d].wallet # f[e].wallet
\* A restart loads the file; what it holds was saved, answered or not.
Crash ==
  /\ crashes < MaxCrashes /\ crashes' = crashes + 1 /\ Loadable(disk)
  /\ users' = disk /\ promised' = disk
  /\ sessions' = {} /\ challenges' = {} /\ req' = [s \in Requests |-> Idle] /\ tail' = <<>>
  /\ Forget /\ UNCHANGED <<disk, arrived>>

TimePasses == (CodeOver \/ CooldownOver \/ WindowOver) /\ UNCHANGED accounts

AccountsStep(s) ==
  \/ Register(s) \/ Login(s) \/ Hashed(s) \/ RequestCode(s) \/ UseCode(s) \/ Verify(s)
  \/ RunRegister(s) \/ RunLogin(s) \/ RunSend(s) \/ RunCheck(s) \/ Rehashed(s) \/ RunBind(s)
  \/ Rename(s) \/ StorageError(s) \/ Saved(s)
AccountsNext == (\E s \in Requests : AccountsStep(s)) \/ Challenge \/ Logout \/ ChallengeOver \/ TimePasses
-----------------------------------------------------------------------------
\* A session is open with the account's current password: none outlives a
\* reset, whatever logins were being hashed or waiting when it was saved.
OnlyCurrentPassword ==
  \A x \in sessions : users[x.user] # None /\ users[x.user].salt = x.salt

\* No two accounts have one wallet, in memory or in the file: a start would
\* refuse such a file.
OneAccountPerWallet == Loadable(users) /\ Loadable(disk)

\* What was answered as saved stays saved: memory holds it, and so does the
\* file but for the one account whose change was renamed and not yet answered.
AcksSurvive ==
  /\ users = promised
  /\ \A e \in Emails : disk[e] # promised[e] =>
       \E s \in Requests : req[s].stage = "renamed" /\ req[s].email = e

\* What the handlers rely on.  Only the request whose turn it is has checked the
\* accounts, and they stay as it saw them until it is done; a file renamed holds
\* its change and any other holds what is in memory; codes were sent to accounts.
Checked == {"rehash", "writing", "renamed"}
TurnKept == \A s \in Requests : req[s].stage \in Checked => Turn(s)
ChangeKept(s) ==
  LET r == req[s]
  IN  /\ r.stage = "rehash" => r.op = "reset" /\ users[r.email] # None
      /\ r.stage \in {"writing", "renamed"} =>
           /\ r.op \in {"register", "confirm", "reset", "bind"} /\ r.email \in Emails
           /\ r.op = "register" <=> users[r.email] = None
           /\ r.next = FileWith(s, r.email)
           /\ Loadable(r.next)
FileFollows ==
  /\ \A s \in Requests : req[s].stage = "renamed" => disk = req[s].next
  /\ (\A s \in Requests : req[s].stage # "renamed") => disk = users
CodesKnown == \A c \in codes : users[c.key[2]] # None
AccountsInOrder ==
  /\ TurnKept /\ FileFollows /\ \A s \in Requests : ChangeKept(s)
  /\ CodesKnown /\ Loadable(users) /\ users = promised
=============================================================================
