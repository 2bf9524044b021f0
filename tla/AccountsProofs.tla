---------------------------- MODULE AccountsProofs ----------------------------
(***************************************************************************)
(* Proofs about the accounts, their mailbox and prepared donations, for    *)
(* every number of requests handled at once, of crashes and of codes.      *)
(***************************************************************************)
EXTENDS DonationIntents, FiniteSetTheorems, TLAPS

-----------------------------------------------------------------------------
(* The mailbox *)

\* What the mailbox keeps true of its codes.
MailboxInv == MailboxOK /\ CodesInOrder /\ CodesSpentOnce

\* Charging the rate buckets keeps them counters.
LEMMA TakeType ==
  ASSUME MailboxOK, NEW charges, Take(charges)
  PROVE  buckets' \in [Buckets -> Nat]
  BY DEF Take, MailboxOK

\* Codes that are used up, replaced, revoked or expired leave no trace.
LEMMA DropKeeps ==
  ASSUME MailboxInv, codes' \subseteq codes, UNCHANGED history,
         buckets' \in [Buckets -> Nat], cooling' \subseteq Keys
  PROVE  MailboxInv'
  BY DEF MailboxInv, MailboxOK, CodesInOrder, CodesSpentOnce

\* Sending a code keeps the mailbox in order and adds codes for its key only.
LEMMA SendKeeps ==
  ASSUME MailboxInv, NEW key \in Keys, Send(key),
         buckets' \in [Buckets -> Nat], cooling' \subseteq Keys
  PROVE  MailboxInv' /\ \A c \in codes' : c \in codes \/ c.key = key
  <1> DEFINE n == Len(history) + 1
             blank == [guesses |-> 0, accepted |-> 0]
  <1>1. PICK code \in Codes, kept \in SUBSET codes :
          /\ codes' = kept \cup {[key |-> key, code |-> code, tries |-> 0, issue |-> n]}
          /\ history' = Append(history, blank)
    BY DEF Send, Without
  <1>2. /\ history \in Seq([guesses : Nat, accepted : Nat]) /\ n \in Nat
        /\ DOMAIN history' = DOMAIN history \cup {n} /\ n \notin DOMAIN history
        /\ history'[n] = blank /\ \A i \in DOMAIN history : history'[i] = history[i]
    BY <1>1 DEF MailboxInv, MailboxOK
  <1>3. /\ history' \in Seq([guesses : Nat, accepted : Nat])
        /\ codes' \subseteq [key : Keys, code : Codes, tries : Nat, issue : Nat]
    BY <1>1, <1>2 DEF MailboxInv, MailboxOK
  <1>4. \A c \in kept : c \in codes /\ c.issue \in DOMAIN history
    BY DEF MailboxInv, CodesInOrder
  <1> HIDE DEF n
  <1>5. CodesInOrder'
    <2> DEFINE new == [key |-> key, code |-> code, tries |-> 0, issue |-> n]
    <2>1. new.issue = n /\ new.tries = 0 /\ codes' = kept \cup {new}
      BY <1>1
    <2> HIDE DEF new
    <2>2. \A c \in kept : /\ c.tries < MaxTries /\ c.issue # n /\ c.issue \in DOMAIN history'
                          /\ history'[c.issue] = [guesses |-> c.tries, accepted |-> 0]
                          /\ \A d \in kept : d.issue = c.issue => d = c
      BY <1>2, <1>4 DEF MailboxInv, CodesInOrder
    <2>3. 0 < MaxTries
      BY MailboxAssumption
    <2>4. QED
      BY <1>2, <2>1, <2>2, <2>3 DEF CodesInOrder
  <1>6. CodesSpentOnce'
    BY <1>2, MailboxAssumption DEF MailboxInv, CodesSpentOnce
  <1>7. QED
    BY <1>1, <1>3, <1>5, <1>6 DEF MailboxInv, MailboxOK

\* A code is issued only for an address the caller knows to exist.
LEMMA IssueKeeps ==
  ASSUME MailboxInv, NEW key \in Keys, NEW known \in BOOLEAN, Issue(key, known)
  PROVE  MailboxInv' /\ \A c \in codes' : c \in codes \/ (known /\ c.key = key)
  <1>1. buckets' \in [Buckets -> Nat] /\ cooling' \subseteq Keys
    BY TakeType DEF Issue, MailboxInv, MailboxOK
  <1>2. CASE UNCHANGED <<codes, history>>
    BY <1>1, <1>2, DropKeeps
  <1>3. CASE known /\ Send(key)
    BY <1>1, <1>3, SendKeeps
  <1>4. QED
    BY <1>2, <1>3 DEF Issue

\* A guess at a code is counted, and a right one uses the code up.
LEMMA GuessKeeps ==
  ASSUME MailboxInv, NEW c \in codes, NEW code, codes' = Consumed(c, code),
         history' = [history EXCEPT ![c.issue] =
           [guesses |-> @.guesses + 1, accepted |-> @.accepted + (IF c.code = code THEN 1 ELSE 0)]],
         buckets' \in [Buckets -> Nat], cooling' \subseteq Keys
  PROVE  MailboxInv' /\ \A d \in codes' : \E e \in codes : e.key = d.key
  <1> DEFINE i == c.issue
             more == [c EXCEPT !.tries = @ + 1]
  <1>1. /\ c \in [key : Keys, code : Codes, tries : Nat, issue : Nat]
        /\ i \in DOMAIN history /\ c.tries \in Nat /\ c.tries < MaxTries
        /\ history[i] = [guesses |-> c.tries, accepted |-> 0] /\ MaxTries \in Nat
        /\ \A d \in codes : d.issue = i => d = c
    BY MailboxAssumption DEF MailboxInv, MailboxOK, CodesInOrder
  <1>2. /\ history' \in Seq([guesses : Nat, accepted : Nat]) /\ DOMAIN history' = DOMAIN history
        /\ \A j \in DOMAIN history : j # i => history'[j] = history[j]
        /\ history'[i] = [guesses |-> c.tries + 1, accepted |-> IF c.code = code THEN 1 ELSE 0]
    BY <1>1 DEF MailboxInv, MailboxOK
  <1>3. CodesSpentOnce'
    BY <1>1, <1>2 DEF MailboxInv, CodesSpentOnce
  <1>4. CASE c.code = code \/ c.tries + 1 >= MaxTries
    <2>1. codes' \subseteq codes \ {c}
      BY <1>4 DEF Consumed, Without
    <2>2. CodesInOrder'
      BY <1>1, <1>2, <2>1 DEF MailboxInv, CodesInOrder
    <2>3. QED
      BY <1>2, <1>3, <2>1, <2>2 DEF MailboxInv, MailboxOK
  <1>5. CASE ~(c.code = code \/ c.tries + 1 >= MaxTries)
    <2>1. codes' = (codes \ {c}) \cup {more}
      BY <1>5 DEF Consumed
    <2>2. /\ more \in [key : Keys, code : Codes, tries : Nat, issue : Nat]
          /\ more.tries = c.tries + 1 /\ more.issue = i /\ more.key = c.key
      BY <1>1
    <2>3. c.tries + 1 < MaxTries
      BY <1>1, <1>5
    <2>4. history'[i] = [guesses |-> c.tries + 1, accepted |-> 0]
      BY <1>2, <1>5
    <2> HIDE DEF more
    <2>5. CodesInOrder'
      BY <1>1, <1>2, <2>1, <2>2, <2>3, <2>4 DEF MailboxInv, CodesInOrder
    <2>6. QED
      BY <1>2, <1>3, <2>1, <2>2, <2>5 DEF MailboxInv, MailboxOK
  <1>6. QED
    BY <1>4, <1>5

\* Checking a code keeps the mailbox in order and adds no code.
LEMMA CheckKeeps ==
  ASSUME MailboxInv, NEW key \in Keys, NEW known, NEW code, Check(key, known, code)
  PROVE  MailboxInv' /\ \A c \in codes' : \E d \in codes : d.key = c.key
  <1>1. buckets' \in [Buckets -> Nat] /\ cooling' \subseteq Keys
    BY TakeType DEF Check, MailboxInv, MailboxOK
  <1>2. CASE UNCHANGED <<codes, history>>
    BY <1>1, <1>2, DropKeeps
  <1>3. ASSUME NEW c \in Outstanding(key), codes' = Consumed(c, code),
               history' = [history EXCEPT ![c.issue] =
                 [guesses |-> @.guesses + 1,
                  accepted |-> @.accepted + (IF c.code = code THEN 1 ELSE 0)]]
        PROVE  MailboxInv' /\ \A d \in codes' : \E e \in codes : e.key = d.key
    BY <1>1, <1>3, GuessKeeps DEF Outstanding
  <1>4. QED
    BY <1>2, <1>3 DEF Check

-----------------------------------------------------------------------------
(* Fresh numbers *)

\* Among one number more than are in use, one is free.
LEMMA FreshType ==
  ASSUME NEW used, IsFiniteSet(used)
  PROVE  Fresh(used) \in Nat
  <1> DEFINE n == Cardinality(used)
  <1>1. n \in Nat
    BY FS_CardinalityType
  <1>2. \E k \in 1..(n + 1) : k \notin used
    <2>1. ASSUME 1..(n + 1) \subseteq used PROVE FALSE
      <3>1. Cardinality(1..(n + 1)) <= n
        BY <2>1, FS_Subset
      <3>2. Cardinality(1..(n + 1)) = n + 1
        BY <1>1, FS_Interval
      <3>3. QED
        BY <1>1, <3>1, <3>2
    <2>2. QED
      BY <2>1
  <1>3. QED
    BY <1>1, <1>2 DEF Fresh

\* A function takes finitely many values on a finite domain.
LEMMA ValuesFinite ==
  ASSUME NEW f, IsFiniteSet(DOMAIN f), f = [x \in DOMAIN f |-> f[x]]
  PROVE  IsFiniteSet({f[x] : x \in DOMAIN f})
  <1> DEFINE T == {f[x] : x \in DOMAIN f}
  <1>1. f \in [DOMAIN f -> T] /\ \A y \in T : \E x \in DOMAIN f : f[x] = y
    OBVIOUS
  <1> HIDE DEF T
  <1>2. f \in Surjection(DOMAIN f, T)
    BY <1>1 DEF Surjection
  <1>3. IsFiniteSet(T)
    BY <1>2, FS_Surjection
  <1>4. QED
    BY <1>3 DEF T

\* Finitely many requests are under way, over files of finitely many salts.
LEMMA RequestsFinite ==
  ASSUME RequestsOK, FilesOK
  PROVE  /\ IsFiniteSet(Busy) /\ Busy \subseteq Requests
         /\ \A f \in File : IsFiniteSet(SaltsIn(f))
  <1>1. IsFiniteSet(Busy) /\ Busy \subseteq Requests
    BY AccountsAssumption, FS_Subset DEF Busy
  <1>2. ASSUME NEW f \in File PROVE IsFiniteSet(SaltsIn(f))
    <2>1. IsFiniteSet({d \in Emails : f[d] # None})
      BY AccountsAssumption, FS_Subset
    <2> DEFINE g == [d \in {e \in Emails : f[e] # None} |-> f[d].salt]
    <2>2. IsFiniteSet({g[d] : d \in DOMAIN g})
      BY <2>1, ValuesFinite
    <2>3. {g[d] : d \in DOMAIN g} = SaltsIn(f)
      BY DEF SaltsIn
    <2>4. QED
      BY <2>2, <2>3
  <1>3. QED
    BY <1>1, <1>2

\* A fresh salt, token and nonce always exist.
LEMMA NewNumbers ==
  ASSUME RequestsOK, FilesOK, SessionsOK
  PROVE  NewSalt \in Nat /\ NewToken \in Nat /\ NewNonce \in Nat
  <1> DEFINE Files == {users, disk} \cup {req[s].next : s \in Busy}
  <1>1. /\ IsFiniteSet({req[s].next : s \in Busy}) /\ IsFiniteSet({req[s].salt : s \in Busy})
        /\ IsFiniteSet({req[s].token : s \in Busy}) /\ IsFiniteSet({req[s].nonce : s \in Busy})
        /\ IsFiniteSet({x.salt : x \in sessions}) /\ IsFiniteSet({x.token : x \in sessions})
        /\ IsFiniteSet({c.nonce : c \in challenges})
    <2>1. IsFiniteSet(Busy) /\ IsFiniteSet(sessions) /\ IsFiniteSet(challenges)
      BY RequestsFinite DEF SessionsOK
    <2> DEFINE next  == [s \in Busy |-> req[s].next]
               salt  == [s \in Busy |-> req[s].salt]
               token == [s \in Busy |-> req[s].token]
               nonce == [s \in Busy |-> req[s].nonce]
               opened == [x \in sessions |-> x.salt]
               cookie == [x \in sessions |-> x.token]
               asked  == [c \in challenges |-> c.nonce]
    <2>2. /\ IsFiniteSet({next[s] : s \in DOMAIN next}) /\ IsFiniteSet({salt[s] : s \in DOMAIN salt})
          /\ IsFiniteSet({token[s] : s \in DOMAIN token})
          /\ IsFiniteSet({nonce[s] : s \in DOMAIN nonce})
          /\ IsFiniteSet({opened[x] : x \in DOMAIN opened})
          /\ IsFiniteSet({cookie[x] : x \in DOMAIN cookie})
          /\ IsFiniteSet({asked[c] : c \in DOMAIN asked})
      BY <2>1, ValuesFinite
    <2>3. /\ {next[s] : s \in DOMAIN next} = {req[s].next : s \in Busy}
          /\ {salt[s] : s \in DOMAIN salt} = {req[s].salt : s \in Busy}
          /\ {token[s] : s \in DOMAIN token} = {req[s].token : s \in Busy}
          /\ {nonce[s] : s \in DOMAIN nonce} = {req[s].nonce : s \in Busy}
          /\ {opened[x] : x \in DOMAIN opened} = {x.salt : x \in sessions}
          /\ {cookie[x] : x \in DOMAIN cookie} = {x.token : x \in sessions}
          /\ {asked[c] : c \in DOMAIN asked} = {c.nonce : c \in challenges}
      OBVIOUS
    <2>4. QED
      BY <2>2, <2>3
  <1>2. IsFiniteSet(Files) /\ Files \subseteq File
    <2>1. IsFiniteSet({users, disk})
      <3>1. IsFiniteSet({users}) /\ IsFiniteSet({disk})
        BY FS_Singleton
      <3>2. {users, disk} = {users} \cup {disk}
        OBVIOUS
      <3>3. QED
        BY <3>1, <3>2, FS_Union
    <2>2. \A s \in Busy : req[s].next \in File
      BY RequestsFinite DEF RequestsOK, Request
    <2>3. QED
      BY <1>1, <2>1, <2>2, FS_Union DEF FilesOK
  <1>3. IsFiniteSet(FiledSalts)
    <2>1. IsFiniteSet({SaltsIn(f) : f \in Files})
      <3> DEFINE g == [f \in Files |-> SaltsIn(f)]
      <3>1. IsFiniteSet({g[f] : f \in DOMAIN g})
        BY <1>2, ValuesFinite
      <3>2. {g[f] : f \in DOMAIN g} = {SaltsIn(f) : f \in Files}
        OBVIOUS
      <3>3. QED
        BY <3>1, <3>2
    <2>2. \A S \in {SaltsIn(f) : f \in Files} : IsFiniteSet(S)
      BY <1>2, RequestsFinite
    <2>3. QED
      BY <2>1, <2>2, FS_UNION DEF FiledSalts
  <1>4. NewSalt \in Nat
    <2>1. IsFiniteSet(FiledSalts \cup {x.salt : x \in sessions} \cup {req[s].salt : s \in Busy})
      BY <1>1, <1>3, FS_Union
    <2>2. QED
      BY <2>1, FreshType DEF NewSalt
  <1>5. NewToken \in Nat
    BY <1>1, FS_Union, FreshType DEF NewToken
  <1>6. NewNonce \in Nat
    BY <1>1, FS_Union, FreshType DEF NewNonce
  <1>7. QED
    BY <1>4, <1>5, <1>6

-----------------------------------------------------------------------------
(* Requests that change no account *)

Inv == TypeOK /\ CodesInOrder /\ CodesSpentOnce /\ AccountsInOrder /\ OnlyCurrentPassword

\* A slot without a request is well-formed.
LEMMA IdleType ==
  /\ NoUsers \in File /\ Idle \in Request /\ NamesSubject(Idle)
  /\ Idle.stage = "none" /\ Idle.op = "none"
  BY DEF NoUsers, File, Idle, Request, NamesSubject

\* Slot s takes in, moves on or gives up a request that has checked nothing.
Parked(s) ==
  /\ req' \in [Requests -> Request] /\ NamesSubject(req'[s])
  /\ \A t \in Requests : t # s => req'[t] = req[t]
  /\ req[s].stage # "renamed" /\ req'[s].stage \notin Checked
  /\ \/ tail' = tail
     \/ tail' = Append(tail, s)
     \/ Turn(s) /\ tail' = Tail(tail)

\* A request that arrives leaves the files and everybody else's request alone
\* ...
LEMMA ArriveParks ==
  ASSUME RequestsOK, NEW s \in Requests, NEW r \in Request, NamesSubject(r),
         r.stage \in {"hashing", "queued", "policy"}, Arrive(s, r),
         tail' = tail \/ tail' = Append(tail, s)
  PROVE  Parked(s)
  <1>1. /\ req \in [Requests -> Request] /\ req[s].stage = "none"
        /\ req' = [req EXCEPT ![s] = r]
    BY IdleType DEF RequestsOK, Arrive
  <1>2. QED
    BY <1>1 DEF Parked, Checked

\* ... and so does one that ends without a save.
LEMMA FinishParks ==
  ASSUME RequestsOK, NEW s \in Requests, Turn(s), req[s].stage # "renamed", Finish(s)
  PROVE  Parked(s)
  BY IdleType DEF RequestsOK, Finish, Parked, Checked

\* The queue as a request at its head sees it.
LEMMA TurnAppend ==
  ASSUME NEW q \in Seq(Requests), NEW s \in Requests
  PROVE  /\ Append(q, s) \in Seq(Requests)
         /\ q # <<>> => /\ Append(q, s) # <<>> /\ Head(Append(q, s)) = Head(q)
                        /\ Tail(q) \in Seq(Requests)
  OBVIOUS

\* A change stays what it is while its request and the accounts stay.
LEMMA ChangeStays ==
  ASSUME NEW t \in Requests, req'[t] = req[t], users' = users, ChangeKept(t)
  PROVE  ChangeKept(t)'
  <1>1. FileWith(t, req[t].email)' = FileWith(t, req[t].email)
    BY DEF FileWith, Changed
  <1>2. QED
    BY <1>1 DEF ChangeKept

\* A step that only parks a request keeps the accounts in order.
LEMMA ParkedKeeps ==
  ASSUME Inv, NEW s \in Requests, Parked(s), UNCHANGED stored, CodesKnown'
  PROVE  FilesOK' /\ RequestsOK' /\ AccountsInOrder'
  <1>1. /\ FilesOK /\ req \in [Requests -> Request] /\ tail \in Seq(Requests)
        /\ \A t \in Requests : NamesSubject(req[t])
        /\ TurnKept /\ FileFollows /\ Loadable(users) /\ users = promised
        /\ \A t \in Requests : ChangeKept(t)
        /\ users' = users /\ disk' = disk /\ promised' = promised
    BY DEF Inv, TypeOK, RequestsOK, AccountsInOrder, stored
  <1>2. FilesOK' /\ Loadable(users') /\ users' = promised'
    BY <1>1 DEF FilesOK
  <1>3. tail' \in Seq(Requests)
    BY <1>1, TurnAppend DEF Parked, Turn
  <1>4. RequestsOK'
    <2>1. \A t \in Requests : NamesSubject(req'[t])
      BY <1>1 DEF Parked
    <2>2. QED
      BY <1>3, <2>1 DEF Parked, RequestsOK, NamesSubject
  <1>5. ASSUME NEW t \in Requests, req'[t].stage \in Checked
        PROVE  t # s /\ req'[t] = req[t] /\ Turn(t) /\ Turn(t)'
    <2>1. t # s /\ req'[t] = req[t] /\ Turn(t)
      BY <1>1, <1>5 DEF Parked, TurnKept
    <2>2. tail' = tail \/ tail' = Append(tail, s)
      BY <2>1 DEF Parked, Turn
    <2>3. QED
      BY <1>1, <2>1, <2>2, TurnAppend DEF Turn
  <1>6. TurnKept'
    BY <1>5 DEF TurnKept
  <1>7. ASSUME NEW t \in Requests PROVE ChangeKept(t)'
    <2>1. CASE req'[t].stage \in Checked
      BY <1>1, <1>5, <2>1, ChangeStays
    <2>2. CASE req'[t].stage \notin Checked
      BY <2>2 DEF ChangeKept, Checked
    <2>3. QED
      BY <2>1, <2>2
  <1>8. FileFollows'
    BY <1>1 DEF FileFollows, Parked, Checked
  <1>9. QED
    BY <1>2, <1>4, <1>6, <1>7, <1>8 DEF AccountsInOrder

\* The request whose turn it is has checked the accounts and goes on.
LEMMA CheckedKeeps ==
  ASSUME Inv, NEW s \in Requests, Turn(s), req[s].stage # "renamed", UNCHANGED <<stored, tail>>,
         req' \in [Requests -> Request], NamesSubject(req'[s]),
         \A t \in Requests : t # s => req'[t] = req[t],
         req'[s].stage # "renamed", ChangeKept(s)', CodesKnown'
  PROVE  FilesOK' /\ RequestsOK' /\ AccountsInOrder'
  <1>1. /\ FilesOK /\ tail \in Seq(Requests) /\ \A t \in Requests : NamesSubject(req[t])
        /\ TurnKept /\ FileFollows /\ Loadable(users) /\ users = promised
        /\ \A t \in Requests : ChangeKept(t)
        /\ users' = users /\ disk' = disk /\ promised' = promised /\ tail' = tail
    BY DEF Inv, TypeOK, RequestsOK, AccountsInOrder, stored
  <1>2. FilesOK' /\ RequestsOK' /\ Loadable(users') /\ users' = promised'
    BY <1>1 DEF FilesOK, RequestsOK, NamesSubject
  <1>3. TurnKept' /\ FileFollows'
    BY <1>1 DEF TurnKept, FileFollows, Turn
  <1>4. ASSUME NEW t \in Requests PROVE ChangeKept(t)'
    <2>1. CASE t = s
      BY <2>1
    <2>2. CASE t # s
      BY <1>1, <2>2, ChangeStays
    <2>3. QED
      BY <2>1, <2>2
  <1>5. QED
    BY <1>2, <1>3, <1>4 DEF AccountsInOrder

\* A record whose wallet is its account's own, or free, leaves a file that
\* can be loaded.
LEMMA LoadableChange ==
  ASSUME FilesOK, Loadable(users), NEW e \in Emails, NEW c \in Account,
         \/ c.wallet = None
         \/ ~WalletTaken(c.wallet, e)
         \/ users[e] # None /\ c.wallet = users[e].wallet
  PROVE  [users EXCEPT ![e] = c] \in File /\ Loadable([users EXCEPT ![e] = c])
  BY DEF FilesOK, File, Loadable, WalletTaken

\* A record made of the account's, and of what the request brings.
LEMMA ChangedType ==
  ASSUME Inv, NEW s \in Requests, NEW e \in Emails,
         req[s].op \in {"register", "confirm", "reset", "bind"},
         req[s].op # "register" => users[e] # None
  PROVE  /\ Changed(s, users[e]) \in Account
         /\ req[s].op = "register" => Changed(s, users[e]).wallet = None
         /\ req[s].op \in {"confirm", "reset"} => Changed(s, users[e]).wallet = users[e].wallet
         /\ req[s].op = "bind" => Changed(s, users[e]).wallet = req[s].wallet
         /\ req[s].op \in {"confirm", "bind"} => Changed(s, users[e]).salt = users[e].salt
         /\ req[s].op \in {"register", "reset"} => Changed(s, users[e]).salt = req[s].salt
  <1>1. /\ req[s] \in Request /\ NamesSubject(req[s])
        /\ req[s].op # "register" => users[e] \in Account
    BY DEF Inv, TypeOK, RequestsOK, FilesOK, File
  <1>2. CASE req[s].op = "register"
    BY <1>1, <1>2 DEF Changed, Account, Request
  <1>3. CASE req[s].op = "confirm"
    BY <1>1, <1>3 DEF Changed, Account, Request
  <1>4. CASE req[s].op = "reset"
    BY <1>1, <1>4 DEF Changed, Account, Request
  <1>5. CASE req[s].op = "bind"
    BY <1>1, <1>5 DEF Changed, Account, Request, NamesSubject
  <1>6. QED
    BY <1>2, <1>3, <1>4, <1>5

\* Writing the new users file keeps the accounts in order: it is the current one
\* but for the row the request is entitled to change.
LEMMA SaveKeeps ==
  ASSUME Inv, NEW s \in Requests, Turn(s), req[s].stage # "renamed", UNCHANGED stored, CodesKnown',
         NEW e \in Emails, Save(s, e),
         req[s].op \in {"register", "confirm", "reset", "bind"},
         req[s].op = "register" <=> users[e] = None,
         req[s].op = "bind" => ~WalletTaken(req[s].wallet, e)
  PROVE  FilesOK' /\ RequestsOK' /\ AccountsInOrder'
  <1> DEFINE c == Changed(s, users[e])
             f == FileWith(s, e)
             r == [req[s] EXCEPT !.stage = "writing", !.email = e, !.next = f]
  <1>1. /\ FilesOK /\ req \in [Requests -> Request] /\ req[s] \in Request /\ NamesSubject(req[s])
        /\ Loadable(users) /\ users' = users
    BY DEF Inv, TypeOK, RequestsOK, AccountsInOrder, stored
  <1>2. f \in File /\ Loadable(f)
    <2>1. f = [users EXCEPT ![e] = c]
      BY DEF FileWith
    <2> HIDE DEF f
    <2>2. c \in Account /\ (req[s].op = "bind" => c.wallet = req[s].wallet)
          /\ (req[s].op = "register" => c.wallet = None)
          /\ (req[s].op \in {"confirm", "reset"} => c.wallet = users[e].wallet)
      BY ChangedType
    <2> HIDE DEF c
    <2>3. QED
      BY <1>1, <2>1, <2>2, LoadableChange
  <1>3. req' = [req EXCEPT ![s] = r] /\ tail' = tail
    <2>1. req' = [req EXCEPT ![s].stage = "writing", ![s].email = e, ![s].next = f] /\ tail' = tail
      BY DEF Save
    <2> HIDE DEF f
    <2>2. QED
      BY <1>1, <2>1
  <1> HIDE DEF f
  <1>4. /\ r \in Request /\ NamesSubject(r) /\ r.stage = "writing" /\ r.op = req[s].op
        /\ r.salt = req[s].salt /\ r.wallet = req[s].wallet /\ r.email = e /\ r.next = f
    <2>1. r \in Request
      BY <1>1, <1>2 DEF Request
    <2>2. /\ r.stage = "writing" /\ r.op = req[s].op /\ r.purpose = req[s].purpose
          /\ r.salt = req[s].salt /\ r.wallet = req[s].wallet /\ r.email = e /\ r.next = f
      BY <1>1 DEF Request
    <2> HIDE DEF r
    <2>3. QED
      BY <1>1, <2>1, <2>2 DEF NamesSubject
  <1> HIDE DEF r
  <1>5. req' \in [Requests -> Request] /\ req'[s] = r /\ \A t \in Requests : t # s => req'[t] = req[t]
    BY <1>1, <1>3, <1>4
  <1>6. FileWith(s, e)' = f
    BY <1>1, <1>4, <1>5 DEF FileWith, Changed, f
  <1>7. ChangeKept(s)'
    BY <1>1, <1>2, <1>4, <1>5, <1>6 DEF ChangeKept
  <1>8. QED
    BY <1>3, <1>4, <1>5, <1>7, CheckedKeeps

\* Everything but the requests, the queue and the file may be left alone.
LEMMA Assemble ==
  ASSUME Inv, FilesOK', RequestsOK', AccountsInOrder', IntentsOK',
         UNCHANGED <<users, sessions, challenges, mailbox>>
  PROVE  Inv'
  BY DEF Inv, TypeOK, SessionsOK, MailboxOK, CodesInOrder, CodesSpentOnce, OnlyCurrentPassword, mailbox

\* The file is replaced.
LEMMA RenameKeeps ==
  ASSUME Inv, UNCHANGED intents, NEW s \in Requests, Rename(s)
  PROVE  Inv'
  <1> DEFINE r == [req[s] EXCEPT !.stage = "renamed"]
  <1>1. /\ FilesOK /\ req \in [Requests -> Request] /\ tail \in Seq(Requests)
        /\ \A t \in Requests : req[t] \in Request /\ NamesSubject(req[t])
        /\ TurnKept /\ FileFollows /\ Loadable(users) /\ users = promised
        /\ \A t \in Requests : ChangeKept(t)
        /\ CodesKnown /\ req[s].stage = "writing" /\ Turn(s)
    BY DEF Inv, TypeOK, RequestsOK, AccountsInOrder, Rename
  <1>2. /\ users' = users /\ promised' = promised /\ tail' = tail /\ codes' = codes
        /\ disk' = req[s].next /\ req' = [req EXCEPT ![s] = r]
    BY DEF Rename, mailbox
  <1>3. /\ r \in Request /\ NamesSubject(r) /\ r.stage = "renamed" /\ r.next = req[s].next
        /\ r.op = req[s].op /\ r.salt = req[s].salt /\ r.wallet = req[s].wallet
        /\ r.email = req[s].email /\ r.next \in File
    BY <1>1 DEF Request, NamesSubject
  <1> HIDE DEF r
  <1>4. req' \in [Requests -> Request] /\ req'[s] = r /\ \A t \in Requests : t # s => req'[t] = req[t]
    BY <1>1, <1>2, <1>3
  <1>5. FilesOK' /\ RequestsOK'
    BY <1>1, <1>2, <1>3, <1>4 DEF FilesOK, RequestsOK, NamesSubject
  <1>6. \A t \in Requests : t # s => req'[t].stage \notin Checked
    BY <1>1, <1>4 DEF TurnKept, Turn, Checked
  <1>7. TurnKept' /\ FileFollows'
    BY <1>1, <1>2, <1>3, <1>4, <1>6 DEF TurnKept, FileFollows, Turn, Checked
  <1>8. ChangeKept(s)'
    <2>1. /\ req'[s].op = req[s].op /\ req'[s].salt = req[s].salt /\ req'[s].email = req[s].email
          /\ req'[s].wallet = req[s].wallet /\ req'[s].next = req[s].next
          /\ req'[s].stage = "renamed"
      BY <1>3, <1>4
    <2>2. FileWith(s, req[s].email)' = FileWith(s, req[s].email)
      BY <1>2, <2>1 DEF FileWith, Changed
    <2>3. QED
      BY <1>1, <1>2, <2>1, <2>2 DEF ChangeKept
  <1>9. \A t \in Requests : t # s => ChangeKept(t)'
    BY <1>6 DEF ChangeKept, Checked
  <1>10. CodesKnown' /\ Loadable(users)' /\ (users = promised)'
    BY <1>1, <1>2 DEF CodesKnown
  <1>11. AccountsInOrder'
    BY <1>7, <1>8, <1>9, <1>10 DEF AccountsInOrder
  <1>12. UNCHANGED <<users, sessions, challenges, mailbox>> /\ IntentsOK'
    BY DEF Rename, Inv, TypeOK, IntentsOK
  <1>13. QED
    BY <1>5, <1>11, <1>12, Assemble

\* Memory follows the file: one account's record is the changed one.
LEMMA SavedRecord ==
  ASSUME Inv, NEW s \in Requests, Saved(s)
  PROVE  /\ req[s].email \in Emails /\ req[s].op \in {"register", "confirm", "reset", "bind"}
         /\ req[s].op = "register" <=> users[req[s].email] = None
         /\ users' \in File /\ users'[req[s].email] \in Account
         /\ \A e \in Emails : e # req[s].email => users'[e] = users[e]
         /\ req[s].op \in {"confirm", "bind"} =>
              users'[req[s].email].salt = users[req[s].email].salt
         /\ req[s].op = "register" => users'[req[s].email].salt = req[s].salt
         /\ disk' = users' /\ promised' = users' /\ Loadable(users')
  <1> DEFINE e == req[s].email
             c == Changed(s, users[e])
  <1>1. /\ ChangeKept(s) /\ FileFollows /\ users = promised /\ req[s].stage = "renamed" /\ FilesOK
    BY DEF Inv, TypeOK, AccountsInOrder, Saved
  <1>2. /\ e \in Emails /\ req[s].op \in {"register", "confirm", "reset", "bind"}
        /\ req[s].op = "register" <=> users[e] = None
        /\ req[s].next = FileWith(s, e) /\ Loadable(req[s].next) /\ disk = req[s].next
    BY <1>1 DEF ChangeKept, FileFollows
  <1>3. /\ users' = req[s].next /\ disk' = disk
        /\ promised' = [promised EXCEPT ![e] = Changed(s, @)]
    BY DEF Saved
  <1>4. FileWith(s, e) = [users EXCEPT ![e] = c]
    BY DEF FileWith
  <1>5. promised' = FileWith(s, e)
    BY <1>1, <1>3, <1>4
  <1>6. /\ c \in Account
        /\ req[s].op \in {"confirm", "bind"} => c.salt = users[e].salt
        /\ req[s].op = "register" => c.salt = req[s].salt
    BY <1>2, ChangedType
  <1> HIDE DEF c
  <1>7. users \in [Emails -> Account \cup {None}]
    BY <1>1 DEF FilesOK, File
  <1>8. users' \in File /\ users'[e] = c /\ \A d \in Emails : d # e => users'[d] = users[d]
    BY <1>2, <1>3, <1>4, <1>6, <1>7 DEF File
  <1>9. QED
    BY <1>2, <1>3, <1>5, <1>6, <1>8

\* A login adds one session, of its user and the password just proved.
LEMMA StartedType ==
  ASSUME Inv, NEW token, NEW user \in Emails, NEW salt \in Nat
  PROVE  /\ Started(token, user, salt) \subseteq [token : Nat, user : Emails, salt : Nat]
         /\ IsFiniteSet(Started(token, user, salt))
         /\ \A x \in Started(token, user, salt) : x \in sessions \/ (x.user = user /\ x.salt = salt)
  <1>1. SessionsOK /\ NewToken \in Nat
    BY NewNumbers DEF Inv, TypeOK
  <1>2. IsFiniteSet({x \in sessions : x.token # token})
    BY <1>1, FS_Subset DEF SessionsOK
  <1> DEFINE kept == {x \in sessions : x.token # token}
             new == [token |-> NewToken, user |-> user, salt |-> salt]
  <1>3. /\ kept \subseteq [token : Nat, user : Emails, salt : Nat] /\ IsFiniteSet(kept)
        /\ new \in [token : Nat, user : Emails, salt : Nat] /\ new.user = user /\ new.salt = salt
        /\ Started(token, user, salt) = kept \cup {new} /\ kept \subseteq sessions
    BY <1>1, <1>2 DEF SessionsOK, Started
  <1> HIDE DEF kept, new
  <1>4. QED
    BY <1>3, FS_AddElement

\* The parts of the state that the queue and the files are not part of.
LEMMA InvParts ==
  Inv <=> /\ FilesOK /\ RequestsOK /\ AccountsInOrder /\ IntentsOK
          /\ SessionsOK /\ OnlyCurrentPassword /\ MailboxInv
  BY DEF Inv, TypeOK, MailboxInv

\* The renamed file becomes the users of the service with everything a request
\* waiting behind it relies on.
LEMMA SavedKeeps ==
  ASSUME Inv, UNCHANGED intents, NEW s \in Requests, Saved(s)
  PROVE  Inv'
  <1> DEFINE e == req[s].email
             r == req[s]
  <1>1. /\ FilesOK /\ req \in [Requests -> Request] /\ tail \in Seq(Requests)
        /\ \A t \in Requests : req[t] \in Request /\ NamesSubject(req[t])
        /\ TurnKept /\ CodesKnown /\ Turn(s) /\ SessionsOK /\ MailboxInv
        /\ OnlyCurrentPassword /\ req' = [req EXCEPT ![s] = Idle] /\ tail' = Tail(tail)
    BY InvParts DEF RequestsOK, AccountsInOrder, Saved, Finish
  <1>2. /\ e \in Emails /\ r.op \in {"register", "confirm", "reset", "bind"}
        /\ r.op = "register" <=> users[e] = None
        /\ users' \in File /\ users'[e] \in Account
        /\ \A d \in Emails : d # e => users'[d] = users[d]
        /\ r.op \in {"confirm", "bind"} => users'[e].salt = users[e].salt
        /\ r.op = "register" => users'[e].salt = r.salt
        /\ disk' = users' /\ promised' = users' /\ Loadable(users')
    BY SavedRecord
  <1>3. /\ req' \in [Requests -> Request] /\ req'[s] = Idle
        /\ \A t \in Requests : t # s => req'[t] = req[t]
    BY <1>1, IdleType
  <1>4. FilesOK' /\ RequestsOK'
    BY <1>1, <1>2, <1>3, IdleType, TurnAppend DEF FilesOK, RequestsOK, NamesSubject, Turn
  <1>5. \A t \in Requests : req'[t].stage \notin Checked
    BY <1>1, <1>3, IdleType DEF TurnKept, Turn, Checked
  <1>6. \/ /\ r.op = "register" /\ sessions' = Started(r.token, e, r.salt)
           /\ UNCHANGED <<challenges, mailbox>>
        \/ /\ r.op = "reset" /\ sessions' = SessionsAfterReset(e)
           /\ challenges' = {c \in challenges : c.user # e} /\ Revoke(e)
        \/ r.op \in {"confirm", "bind"} /\ UNCHANGED <<sessions, challenges, mailbox>>
    <2>1. CASE r.op = "register"
      BY <2>1 DEF Saved
    <2>2. CASE r.op = "reset"
      BY <2>2 DEF Saved
    <2>3. CASE r.op \in {"confirm", "bind"}
      BY <2>3 DEF Saved
    <2>4. QED
      BY <1>2, <2>1, <2>2, <2>3
  <1>7. users'[e] # None
    BY <1>2, AccountsAssumption
  <1>8. SessionsOK' /\ OnlyCurrentPassword'
    <2>1. CASE r.op = "register" /\ sessions' = Started(r.token, e, r.salt) /\ challenges' = challenges
      <3>1. r.salt \in Nat
        BY <1>1 DEF Request
      <3>2. /\ Started(r.token, e, r.salt) \subseteq [token : Nat, user : Emails, salt : Nat]
            /\ IsFiniteSet(Started(r.token, e, r.salt))
            /\ \A x \in Started(r.token, e, r.salt) : x \in sessions \/ (x.user = e /\ x.salt = r.salt)
        <4>1. e \in Emails
          BY <1>2
        <4> HIDE DEF e, r
        <4>2. QED
          BY <3>1, <4>1, StartedType
      <3>3. SessionsOK'
        BY <1>1, <2>1, <3>2 DEF SessionsOK
      <3>4. \A x \in sessions : x.user \in Emails /\ x.user # e /\ users[x.user] # None /\ users[x.user].salt = x.salt
        BY <1>1, <1>2, <2>1 DEF OnlyCurrentPassword, SessionsOK
      <3>5. QED
        BY <1>2, <1>7, <2>1, <3>2, <3>3, <3>4 DEF OnlyCurrentPassword
    <2>2. CASE r.op = "reset" /\ sessions' = SessionsAfterReset(e)
               /\ challenges' = {c \in challenges : c.user # e}
      <3>1. SessionsOK'
        BY <1>1, <2>2, FS_Subset DEF SessionsOK, SessionsAfterReset
      <3>2. \A x \in sessions' : x \in sessions /\ x.user \in Emails /\ x.user # e
        BY <1>1, <2>2 DEF SessionsOK, SessionsAfterReset
      <3>3. QED
        BY <1>1, <1>2, <3>1, <3>2 DEF OnlyCurrentPassword
    <2>3. CASE r.op \in {"confirm", "bind"} /\ sessions' = sessions /\ challenges' = challenges
      BY <1>1, <1>2, <1>7, <2>3 DEF SessionsOK, OnlyCurrentPassword
    <2>4. QED
      BY <1>6, <2>1, <2>2, <2>3
  <1>9. MailboxInv' /\ codes' \subseteq codes
    <2>1. /\ codes' \subseteq codes /\ history' = history /\ buckets' = buckets /\ cooling' = cooling
      BY <1>6 DEF Revoke, mailbox
    <2>2. QED
      BY <1>1, <2>1, DropKeeps DEF MailboxInv, MailboxOK
  <1>10. CodesKnown'
    <2>1. \A c \in codes : c.key[2] \in Emails
      BY <1>1 DEF MailboxInv, MailboxOK, Keys
    <2>2. QED
      BY <1>1, <1>2, <1>7, <1>9, <2>1 DEF CodesKnown
  <1>11. AccountsInOrder'
    BY <1>2, <1>5, <1>10 DEF AccountsInOrder, TurnKept, FileFollows, ChangeKept, Checked
  <1>12. IntentsOK'
    BY InvParts DEF IntentsOK
  <1>13. QED
    BY <1>4, <1>8, <1>9, <1>11, <1>12, InvParts DEF Inv, TypeOK, MailboxInv

\* A crash leaves the file, which is then what was promised.
LEMMA CrashKeeps ==
  ASSUME Inv, UNCHANGED intents, Crash
  PROVE  Inv'
  <1>1. /\ FilesOK /\ MailboxInv /\ Loadable(disk) /\ users' = disk /\ promised' = disk /\ disk' = disk
        /\ sessions' = {} /\ challenges' = {} /\ req' = [s \in Requests |-> Idle] /\ tail' = <<>>
        /\ codes' = {} /\ buckets' = NoCalls /\ cooling' = {} /\ history' = history
    BY InvParts DEF Crash, Forget
  <1>2. MailboxInv'
    BY <1>1, DropKeeps DEF NoCalls
  <1>3. FilesOK' /\ RequestsOK'
    BY <1>1, IdleType DEF FilesOK, RequestsOK, NamesSubject
  <1>4. SessionsOK' /\ OnlyCurrentPassword'
    BY <1>1, FS_EmptySet DEF SessionsOK, OnlyCurrentPassword
  <1>5. \A t \in Requests : req'[t].stage = "none"
    BY <1>1, IdleType
  <1>6. AccountsInOrder'
    BY <1>1, <1>5 DEF AccountsInOrder, TurnKept, FileFollows, ChangeKept, Checked, CodesKnown
  <1>7. IntentsOK'
    BY InvParts DEF IntentsOK
  <1>8. QED
    BY <1>2, <1>3, <1>4, <1>6, <1>7 DEF Inv, TypeOK, MailboxInv

-----------------------------------------------------------------------------
(* The actions *)

\* A request that waits, or is given up, leaves everything else alone.
LEMMA ParkedInv ==
  ASSUME Inv, NEW s \in Requests, Parked(s), UNCHANGED <<stored, sessions, challenges, mailbox>>, IntentsOK'
  PROVE  Inv'
  <1>1. CodesKnown' /\ UNCHANGED <<users, sessions, challenges, mailbox>> /\ UNCHANGED stored
    BY DEF stored, mailbox, Inv, AccountsInOrder, CodesKnown
  <1>2. QED
    BY <1>1, ParkedKeeps, Assemble

\* A request comes in; what it brings was chosen at random or read now.
LEMMA ArrivalKeeps ==
  ASSUME Inv, UNCHANGED intents, NEW s \in Requests,
         Register(s) \/ Login(s) \/ RequestCode(s) \/ UseCode(s) \/ Prepare(s)
  PROVE  Inv'
  <1>1. /\ RequestsOK /\ FilesOK /\ SessionsOK /\ IntentsOK /\ OnlyCurrentPassword
        /\ NewSalt \in Nat /\ \A c \in Cookies : c \in Nat
    BY InvParts, NewNumbers DEF Cookies, SessionsOK
  <1>2. \E r \in Request : /\ NamesSubject(r) /\ r.stage \in {"hashing", "queued", "policy"}
                           /\ Arrive(s, r)
    <2>1. CASE Register(s)
      <3>1. PICK c \in Cookies, e \in Emails :
              Arrive(s, [Idle EXCEPT !.op = "register", !.stage = "hashing", !.token = c, !.email = e, !.salt = NewSalt])
        BY <2>1 DEF Register
      <3> DEFINE r == [Idle EXCEPT !.op = "register", !.stage = "hashing", !.token = c, !.email = e, !.salt = NewSalt]
      <3>2. r \in Request /\ NamesSubject(r) /\ r.stage = "hashing"
        BY <1>1, IdleType DEF Request, NamesSubject
      <3>3. QED
        BY <3>1, <3>2
    <2>2. CASE Login(s)
      <3>1. PICK c \in Cookies, e \in Emails :
              /\ users[e] # None
              /\ Arrive(s, [Idle EXCEPT !.op = "login", !.stage = "hashing", !.token = c, !.email = e, !.salt = users[e].salt])
        BY <2>2 DEF Login
      <3> DEFINE r == [Idle EXCEPT !.op = "login", !.stage = "hashing", !.token = c, !.email = e, !.salt = users[e].salt]
      <3>2. users[e].salt \in Nat
        BY <1>1, <3>1 DEF FilesOK, File, Account
      <3>3. r \in Request /\ NamesSubject(r) /\ r.stage = "hashing"
        BY <1>1, <3>2, IdleType DEF Request, NamesSubject
      <3>4. QED
        BY <3>1, <3>3
    <2>3. CASE RequestCode(s)
      <3>1. CASE \E c \in Cookies \ {0} :
                   Arrive(s, [Idle EXCEPT !.op = "send", !.stage = "queued", !.token = c, !.purpose = "email-verification"])
        <4>1. PICK c \in Cookies :
                Arrive(s, [Idle EXCEPT !.op = "send", !.stage = "queued", !.token = c, !.purpose = "email-verification"])
          BY <3>1
        <4> DEFINE r == [Idle EXCEPT !.op = "send", !.stage = "queued", !.token = c, !.purpose = "email-verification"]
        <4>2. r \in Request /\ NamesSubject(r) /\ r.stage = "queued"
          BY <1>1, IdleType, AccountsAssumption DEF Request, NamesSubject
        <4>3. QED
          BY <4>1, <4>2
      <3>2. CASE \E e \in Emails :
                   Arrive(s, [Idle EXCEPT !.op = "send", !.stage = "queued", !.email = e, !.purpose = "password-reset"])
        <4>1. PICK e \in Emails :
                Arrive(s, [Idle EXCEPT !.op = "send", !.stage = "queued", !.email = e, !.purpose = "password-reset"])
          BY <3>2
        <4> DEFINE r == [Idle EXCEPT !.op = "send", !.stage = "queued", !.email = e, !.purpose = "password-reset"]
        <4>2. r \in Request /\ NamesSubject(r) /\ r.stage = "queued"
          BY <1>1, IdleType, AccountsAssumption DEF Request, NamesSubject
        <4>3. QED
          BY <4>1, <4>2
      <3>3. QED
        BY <2>3, <3>1, <3>2 DEF RequestCode
    <2>4. CASE UseCode(s)
      <3>1. PICK code \in Codes :
               \/ \E c \in Cookies \ {0} :
                    Arrive(s, [Idle EXCEPT !.op = "confirm", !.stage = "queued", !.token = c,
                                           !.purpose = "email-verification", !.code = code])
               \/ \E e \in Emails :
                    Arrive(s, [Idle EXCEPT !.op = "reset", !.stage = "queued", !.email = e, !.salt = NewSalt,
                                           !.purpose = "password-reset", !.code = code])
        BY <2>4 DEF UseCode
      <3>2. ASSUME NEW c \in Cookies
            PROVE  LET r == [Idle EXCEPT !.op = "confirm", !.stage = "queued", !.token = c,
                                         !.purpose = "email-verification", !.code = code]
                   IN  r \in Request /\ NamesSubject(r) /\ r.stage = "queued"
        BY <1>1, IdleType, AccountsAssumption DEF Request, NamesSubject
      <3>3. ASSUME NEW e \in Emails
            PROVE  LET r == [Idle EXCEPT !.op = "reset", !.stage = "queued", !.email = e, !.salt = NewSalt,
                                         !.purpose = "password-reset", !.code = code]
                   IN  r \in Request /\ NamesSubject(r) /\ r.stage = "queued"
        BY <1>1, IdleType, AccountsAssumption DEF Request, NamesSubject
      <3>4. QED
        BY <3>1, <3>2, <3>3
    <2>5. CASE Prepare(s)
      <3>1. PICK x \in sessions, id \in RequestIds, g \in Gifts :
              Arrive(s, [Idle EXCEPT !.op = "prepare", !.stage = "policy", !.token = x.token,
                                     !.email = x.user, !.code = id, !.purpose = g, !.next = users])
        BY <2>5 DEF Prepare
      <3> DEFINE r == [Idle EXCEPT !.op = "prepare", !.stage = "policy", !.token = x.token,
                                   !.email = x.user, !.code = id, !.purpose = g, !.next = users]
      <3>2. x.token \in Nat /\ x.user \in Emails /\ users \in File /\ users[x.user] # None
        BY <1>1 DEF SessionsOK, OnlyCurrentPassword, FilesOK
      <3>3. r \in Request /\ NamesSubject(r) /\ r.stage = "policy"
        BY <3>2, IdleType DEF Request, NamesSubject
      <3>4. QED
        BY <3>1, <3>3
    <2>6. QED
      BY <2>1, <2>2, <2>3, <2>4, <2>5
  <1>3. /\ tail' = tail \/ tail' = Append(tail, s)
        /\ UNCHANGED <<stored, sessions, challenges, mailbox>>
    BY DEF Register, Login, RequestCode, UseCode, Prepare
  <1>4. Parked(s)
    BY <1>1, <1>2, <1>3, ArriveParks
  <1>5. IntentsOK'
    BY <1>1 DEF IntentsOK
  <1>6. QED
    BY <1>3, <1>4, <1>5, ParkedInv

\* A request whose password hash has just been computed keeps the invariant.
LEMMA HashedKeeps ==
  ASSUME Inv, UNCHANGED intents, NEW s \in Requests, Hashed(s)
  PROVE  Inv'
  <1> DEFINE r == [req[s] EXCEPT !.stage = "queued"]
  <1>1. /\ RequestsOK /\ IntentsOK /\ req \in [Requests -> Request] /\ req[s] \in Request
        /\ NamesSubject(req[s]) /\ req[s].stage = "hashing" /\ req' = [req EXCEPT ![s] = r]
        /\ tail' = Append(tail, s) /\ UNCHANGED <<stored, sessions, challenges, mailbox>>
    BY InvParts DEF RequestsOK, Hashed
  <1>2. r \in Request /\ NamesSubject(r) /\ r.stage = "queued"
    <2>1. r \in Request
      BY <1>1 DEF Request
    <2>2. /\ r.stage = "queued" /\ r.op = req[s].op /\ r.purpose = req[s].purpose
          /\ r.wallet = req[s].wallet /\ r.email = req[s].email
      BY <1>1 DEF Request
    <2> HIDE DEF r
    <2>3. QED
      BY <1>1, <2>1, <2>2 DEF NamesSubject
  <1> HIDE DEF r
  <1>3. Parked(s)
    BY <1>1, <1>2 DEF Parked, Checked
  <1>4. IntentsOK'
    BY <1>1 DEF IntentsOK
  <1>5. QED
    BY <1>1, <1>3, <1>4, ParkedInv

\* A request ending under the invariant keeps it whole.
LEMMA FinishInv ==
  ASSUME Inv, UNCHANGED intents, NEW s \in Requests, Turn(s), req[s].stage # "renamed", Finish(s),
         UNCHANGED <<stored, sessions, challenges, mailbox>>
  PROVE  Inv'
  <1>1. Parked(s) /\ IntentsOK'
    BY InvParts, FinishParks DEF IntentsOK
  <1>2. QED
    BY <1>1, ParkedInv

\* A save keeps the invariant whole.
LEMMA SaveInv ==
  ASSUME Inv, UNCHANGED intents, NEW s \in Requests, Turn(s), req[s].stage # "renamed",
         NEW e \in Emails, Save(s, e), UNCHANGED <<stored, sessions, challenges, mailbox>>,
         req[s].op \in {"register", "confirm", "reset", "bind"},
         req[s].op = "register" <=> users[e] = None,
         req[s].op = "bind" => ~WalletTaken(req[s].wallet, e)
  PROVE  Inv'
  <1>1. /\ CodesKnown' /\ UNCHANGED stored /\ UNCHANGED <<users, sessions, challenges, mailbox>>
        /\ IntentsOK'
    BY InvParts DEF AccountsInOrder, CodesKnown, mailbox, stored, IntentsOK
  <1>2. FilesOK' /\ RequestsOK' /\ AccountsInOrder'
    BY <1>1, SaveKeeps
  <1>3. QED
    BY <1>1, <1>2, Assemble

\* The account a token stands for exists.
LEMMA UserOfType ==
  ASSUME Inv, NEW token
  PROVE  \/ UserOf(token) = None
         \/ UserOf(token) \in Emails /\ users[UserOf(token)] # None
  <1>1. CASE \E x \in sessions : x.token = token
    <2>1. PICK x \in sessions : UserOf(token) = x.user
      BY <1>1 DEF UserOf
    <2>2. QED
      BY <2>1, InvParts DEF SessionsOK, OnlyCurrentPassword
  <1>2. CASE ~\E x \in sessions : x.token = token
    BY <1>2 DEF UserOf
  <1>3. QED
    BY <1>1, <1>2

\* A registration, a binding, a refused hash or a failed write.
LEMMA RunKeeps ==
  ASSUME Inv, UNCHANGED intents, NEW s \in Requests,
         RunRegister(s) \/ Rehashed(s) \/ RunBind(s) \/ StorageError(s)
  PROVE  Inv'
  <1>1. /\ Turn(s) /\ req[s].stage # "renamed" /\ UNCHANGED <<stored, sessions, challenges, mailbox>>
    BY DEF RunRegister, Rehashed, RunBind, StorageError
  <1>2. CASE Finish(s)
    BY <1>1, <1>2, FinishInv
  <1>3. req[s] \in Request /\ NamesSubject(req[s]) /\ ChangeKept(s)
    BY InvParts DEF RequestsOK, AccountsInOrder
  <1>4. CASE RunRegister(s) /\ ~Finish(s)
    <2>1. /\ req[s].op = "register" /\ users[req[s].email] = None /\ Save(s, req[s].email)
          /\ req[s].email \in Emails
      BY <1>3, <1>4 DEF RunRegister, NamesSubject
    <2>2. QED
      BY <1>1, <2>1, SaveInv
  <1>5. CASE Rehashed(s) /\ ~Finish(s)
    <2>1. /\ req[s].op = "reset" /\ users[req[s].email] # None /\ Save(s, req[s].email)
          /\ req[s].email \in Emails
      BY <1>3, <1>5 DEF Rehashed, NamesSubject, ChangeKept
    <2>2. QED
      BY <1>1, <2>1, SaveInv
  <1>6. CASE RunBind(s) /\ ~Finish(s)
    <2>1. /\ req[s].op = "bind" /\ Bindable(req[s]) /\ Save(s, req[s].email) /\ req[s].email \in Emails
      BY <1>3, <1>6 DEF RunBind, NamesSubject
    <2>2. users[req[s].email] # None /\ ~WalletTaken(req[s].wallet, req[s].email)
      BY <2>1, UserOfType, AccountsAssumption DEF Bindable
    <2>3. QED
      BY <1>1, <2>1, <2>2, SaveInv
  <1>7. QED
    BY <1>2, <1>4, <1>5, <1>6 DEF StorageError

\* A login opens a session only with the account's password.
LEMMA LoginKeeps ==
  ASSUME Inv, UNCHANGED intents, NEW s \in Requests, RunLogin(s)
  PROVE  Inv'
  <1>1. /\ Turn(s) /\ req[s].stage # "renamed" /\ Finish(s) /\ UNCHANGED <<stored, challenges, mailbox>>
        /\ \/ sessions' = sessions
           \/ SamePassword(req[s]) /\ sessions' = Started(req[s].token, req[s].email, req[s].salt)
    BY DEF RunLogin
  <1>2. /\ req[s] \in Request /\ NamesSubject(req[s]) /\ req[s].op = "login"
        /\ SessionsOK /\ OnlyCurrentPassword /\ RequestsOK
    BY InvParts DEF RequestsOK, RunLogin
  <1>3. req[s].email \in Emails /\ req[s].salt \in Nat
    BY <1>2 DEF Request, NamesSubject
  <1>4. SessionsOK' /\ OnlyCurrentPassword'
    <2>1. CASE sessions' = sessions
      BY <1>1, <1>2, <2>1 DEF SessionsOK, OnlyCurrentPassword, stored
    <2>2. CASE SamePassword(req[s]) /\ sessions' = Started(req[s].token, req[s].email, req[s].salt)
      <3> DEFINE new == Started(req[s].token, req[s].email, req[s].salt)
      <3>1. /\ new \subseteq [token : Nat, user : Emails, salt : Nat] /\ IsFiniteSet(new)
            /\ \A x \in new : x \in sessions \/ (x.user = req[s].email /\ x.salt = req[s].salt)
        BY <1>3, StartedType
      <3> HIDE DEF new
      <3>2. \A x \in new : users[x.user] # None /\ users[x.user].salt = x.salt
        BY <1>2, <2>2, <3>1 DEF OnlyCurrentPassword, SamePassword
      <3>3. sessions' = new /\ users' = users /\ challenges' = challenges
        BY <1>1, <2>2 DEF new, stored
      <3>4. QED
        BY <1>2, <3>1, <3>2, <3>3 DEF SessionsOK, OnlyCurrentPassword
    <2>3. QED
      BY <1>1, <2>1, <2>2
  <1>5. Parked(s) /\ UNCHANGED stored /\ CodesKnown' /\ IntentsOK'
    BY <1>1, <1>2, InvParts, FinishParks DEF AccountsInOrder, CodesKnown, stored, mailbox, IntentsOK
  <1>6. FilesOK' /\ RequestsOK' /\ AccountsInOrder'
    BY <1>5, ParkedKeeps
  <1>7. MailboxInv'
    BY <1>1, InvParts DEF MailboxInv, MailboxOK, CodesInOrder, CodesSpentOnce, mailbox
  <1>8. QED
    BY <1>4, <1>5, <1>6, <1>7 DEF Inv, TypeOK, MailboxInv

\* Sending changes the mailbox, and never for an account that does not exist.
LEMMA SendCodeKeeps ==
  ASSUME Inv, UNCHANGED intents, NEW s \in Requests, RunSend(s)
  PROVE  Inv'
  <1> DEFINE e == Subject(req[s])
             key == <<req[s].purpose, e>>
  <1>1. /\ Turn(s) /\ req[s].stage # "renamed" /\ Finish(s) /\ UNCHANGED <<stored, sessions, challenges>>
        /\ UNCHANGED mailbox \/ (e # None /\ Issue(key, users[e] # None))
        /\ RequestsOK /\ MailboxInv /\ CodesKnown /\ req[s].op = "send" /\ NamesSubject(req[s])
    BY InvParts DEF RunSend, RequestsOK, AccountsInOrder
  <1>2. e # None => e \in Emails /\ key \in Keys
    BY <1>1, UserOfType, AccountsAssumption DEF Subject, NamesSubject, Keys
  <1>3. MailboxInv' /\ CodesKnown'
    <2>1. CASE UNCHANGED mailbox
      BY <1>1, <2>1 DEF MailboxInv, MailboxOK, CodesInOrder, CodesSpentOnce, CodesKnown, mailbox, stored
    <2>2. CASE e # None /\ Issue(key, users[e] # None)
      <3>1. MailboxInv' /\ \A c \in codes' : c \in codes \/ (users[e] # None /\ c.key = key)
        BY <1>1, <1>2, <2>2, IssueKeeps
      <3>2. key[2] = e /\ users' = users
        BY <1>1 DEF stored
      <3> HIDE DEF e, key
      <3>3. QED
        BY <1>1, <3>1, <3>2 DEF CodesKnown
    <2>3. QED
      BY <1>1, <2>1, <2>2
  <1>4. Parked(s)
    BY <1>1, FinishParks
  <1>5. FilesOK' /\ RequestsOK' /\ AccountsInOrder'
    BY <1>1, <1>3, <1>4, ParkedKeeps
  <1>6. SessionsOK' /\ OnlyCurrentPassword' /\ IntentsOK'
    BY <1>1, InvParts DEF SessionsOK, OnlyCurrentPassword, IntentsOK, stored
  <1>7. QED
    BY <1>3, <1>5, <1>6 DEF Inv, TypeOK, MailboxInv

\* A code that is accepted was sent to the account whose record changes.
LEMMA CheckCodeKeeps ==
  ASSUME Inv, UNCHANGED intents, NEW s \in Requests, RunCheck(s)
  PROVE  Inv'
  <1> DEFINE e == Subject(req[s])
             key == <<req[s].purpose, e>>
             known == users[e] # None
             valid == Valid(key, known, req[s].code)
  <1>1. /\ Turn(s) /\ req[s].stage = "queued" /\ req[s].op \in {"confirm", "reset"}
        /\ UNCHANGED <<stored, sessions, challenges>>
        /\ \/ e = None /\ Finish(s) /\ UNCHANGED mailbox
           \/ /\ e # None /\ Check(key, known, req[s].code)
              /\ \/ Finish(s)
                 \/ valid /\ req[s].op = "confirm" /\ Save(s, e)
                 \/ /\ valid /\ req[s].op = "reset"
                    /\ req' = [req EXCEPT ![s].stage = "rehash"] /\ tail' = tail
    BY DEF RunCheck
  <1>2. /\ req \in [Requests -> Request] /\ req[s] \in Request /\ NamesSubject(req[s])
        /\ RequestsOK /\ MailboxInv /\ CodesKnown /\ \A t \in Requests : ChangeKept(t)
    BY InvParts DEF RequestsOK, AccountsInOrder
  <1>3. e # None => e \in Emails /\ key \in Keys
    BY <1>1, <1>2, UserOfType, AccountsAssumption DEF Subject, NamesSubject, Keys
  <1>4. valid => known
    <2>1. valid => \E c \in codes : c.key = key
      BY DEF Valid, Outstanding
    <2>2. key[2] = e
      OBVIOUS
    <2> HIDE DEF e, key
    <2>3. QED
      BY <1>2, <2>1, <2>2 DEF CodesKnown
  <1>5. MailboxInv' /\ CodesKnown'
    <2>1. CASE UNCHANGED mailbox
      BY <1>1, <1>2, <2>1 DEF MailboxInv, MailboxOK, CodesInOrder, CodesSpentOnce, CodesKnown, mailbox, stored
    <2>2. CASE e # None /\ Check(key, known, req[s].code)
      <3>1. MailboxInv' /\ \A c \in codes' : \E d \in codes : d.key = c.key
        BY <1>2, <1>3, <2>2, CheckKeeps
      <3>2. users' = users
        BY <1>1 DEF stored
      <3>3. QED
        BY <1>2, <3>1, <3>2 DEF CodesKnown
    <2>3. QED
      BY <1>1, <2>1, <2>2
  <1>6. FilesOK' /\ RequestsOK' /\ AccountsInOrder'
    <2>1. CASE Finish(s)
      BY <1>1, <1>2, <1>5, <2>1, FinishParks, ParkedKeeps
    <2>2. CASE e # None /\ valid /\ req[s].op = "confirm" /\ Save(s, e)
      <3>1. e \in Emails /\ users[e] # None
        BY <1>3, <1>4, <2>2
      <3> HIDE DEF e
      <3>2. QED
        BY <1>1, <1>5, <2>2, <3>1, SaveKeeps
    <2>3. CASE /\ valid /\ req[s].op = "reset"
               /\ req' = [req EXCEPT ![s].stage = "rehash"] /\ tail' = tail
      <3> DEFINE r == [req[s] EXCEPT !.stage = "rehash"]
      <3>1. /\ r \in Request /\ NamesSubject(r) /\ r.stage = "rehash" /\ r.email = req[s].email
            /\ r.op = "reset"
        BY <1>2, <2>3 DEF Request, NamesSubject
      <3>2. req' = [req EXCEPT ![s] = r]
        BY <1>2, <2>3
      <3>3. e = req[s].email
        BY <1>2, <2>3 DEF Subject, NamesSubject
      <3>4. users[req[s].email] # None /\ users' = users
        BY <1>1, <1>4, <2>3, <3>3 DEF stored
      <3> HIDE DEF r
      <3>5. /\ req' \in [Requests -> Request] /\ req'[s] = r
            /\ \A t \in Requests : t # s => req'[t] = req[t]
        BY <1>2, <3>1, <3>2
      <3>6. ChangeKept(s)'
        BY <3>1, <3>4, <3>5 DEF ChangeKept
      <3>7. QED
        BY <1>1, <1>5, <2>3, <3>1, <3>5, <3>6, CheckedKeeps DEF stored
    <2>4. QED
      BY <1>1, <2>1, <2>2, <2>3
  <1>7. SessionsOK' /\ OnlyCurrentPassword' /\ IntentsOK'
    BY <1>1, InvParts DEF SessionsOK, OnlyCurrentPassword, IntentsOK, stored
  <1>8. QED
    BY <1>5, <1>6, <1>7 DEF Inv, TypeOK, MailboxInv

\* The files and the requests are left alone.
LEMMA NothingQueued ==
  ASSUME Inv, UNCHANGED <<users, disk, promised, req, tail>>, codes' \subseteq codes
  PROVE  FilesOK' /\ RequestsOK' /\ AccountsInOrder'
  <1>1. FilesOK' /\ RequestsOK'
    BY InvParts DEF FilesOK, RequestsOK
  <1>2. ASSUME NEW t \in Requests PROVE ChangeKept(t)'
    <2>1. ChangeKept(t)
      BY InvParts DEF AccountsInOrder
    <2>2. QED
      BY <2>1, ChangeStays
  <1>3. QED
    BY <1>1, <1>2, InvParts DEF AccountsInOrder, TurnKept, FileFollows, CodesKnown, Turn

\* A step that leaves mailbox and intents alone keeps their invariants.
LEMMA MailboxStays ==
  ASSUME Inv, UNCHANGED <<codes, buckets, cooling, history, intents>>
  PROVE  MailboxInv' /\ IntentsOK'
  BY InvParts DEF IntentsOK, MailboxInv, MailboxOK, CodesInOrder, CodesSpentOnce

\* Sessions and challenges end.
LEMMA EndKeeps ==
  ASSUME Inv, UNCHANGED intents, Logout \/ ChallengeOver
  PROVE  Inv'
  <1>1. /\ sessions' \subseteq sessions /\ challenges' \subseteq challenges
        /\ UNCHANGED <<stored, req, tail, mailbox>>
    BY DEF Logout, ChallengeOver
  <1>2. SessionsOK'
    BY <1>1, InvParts, FS_Subset DEF SessionsOK
  <1>3. OnlyCurrentPassword'
    BY <1>1, InvParts DEF OnlyCurrentPassword, stored
  <1>4. UNCHANGED <<users, disk, promised, req, tail, codes, buckets, cooling, history, intents>>
    BY <1>1 DEF stored, mailbox
  <1>5. QED
    BY <1>2, <1>3, <1>4, NothingQueued, MailboxStays DEF Inv, TypeOK, MailboxInv

\* A challenge is issued.
LEMMA ChallengeKeeps ==
  ASSUME Inv, UNCHANGED intents, Challenge
  PROVE  Inv'
  <1>1. UNCHANGED <<users, disk, promised, sessions, req, tail, codes, buckets, cooling, history>>
    BY DEF Challenge, stored, mailbox
  <1>2. SessionsOK'
    <2>1. SessionsOK /\ NewNonce \in Nat
      BY InvParts, NewNumbers
    <2>2. PICK x \in sessions, a \in Wallets :
            challenges' \subseteq challenges \cup {[nonce |-> NewNonce, user |-> x.user, wallet |-> a]}
      BY DEF Challenge
    <2> DEFINE new == [nonce |-> NewNonce, user |-> x.user, wallet |-> a]
    <2>3. new \in [nonce : Nat, user : Emails, wallet : Wallets]
      BY <2>1 DEF SessionsOK
    <2> HIDE DEF new
    <2>4. IsFiniteSet(challenges \cup {new})
      BY <2>1, FS_AddElement DEF SessionsOK
    <2>5. challenges' \subseteq challenges \cup {new}
      BY <2>2 DEF new
    <2>6. IsFiniteSet(challenges')
      BY <2>4, <2>5, FS_Subset
    <2>7. QED
      BY <1>1, <2>1, <2>3, <2>5, <2>6 DEF SessionsOK
  <1>3. OnlyCurrentPassword'
    BY <1>1, InvParts DEF OnlyCurrentPassword
  <1>4. QED
    BY <1>1, <1>2, <1>3, NothingQueued, MailboxStays DEF Inv, TypeOK, MailboxInv

\* A signature is verified: its challenge is used up.
LEMMA VerifyKeeps ==
  ASSUME Inv, UNCHANGED intents, NEW s \in Requests, Verify(s)
  PROVE  Inv'
  <1>1. PICK x \in sessions, c \in challenges :
          /\ c.user = x.user /\ challenges' = challenges \ {c}
          /\ \/ UNCHANGED <<req, tail>>
             \/ /\ Arrive(s, [Idle EXCEPT !.op = "bind", !.stage = "queued", !.token = x.token,
                                          !.email = c.user, !.nonce = c.nonce, !.wallet = c.wallet])
                /\ tail' = Append(tail, s)
    BY DEF Verify
  <1>2. UNCHANGED <<stored, sessions, mailbox, users, disk, promised, codes, buckets, cooling, history>>
    BY DEF Verify, stored, mailbox
  <1>3. /\ x \in [token : Nat, user : Emails, salt : Nat]
        /\ c \in [nonce : Nat, user : Emails, wallet : Wallets]
        /\ RequestsOK /\ SessionsOK
    BY InvParts DEF SessionsOK
  <1>4. FilesOK' /\ RequestsOK' /\ AccountsInOrder'
    <2>1. CASE UNCHANGED <<req, tail>>
      BY <1>2, <2>1, NothingQueued
    <2>2. CASE req' # req \/ tail' # tail
      <3> DEFINE r == [Idle EXCEPT !.op = "bind", !.stage = "queued", !.token = x.token,
                                   !.email = c.user, !.nonce = c.nonce, !.wallet = c.wallet]
      <3>1. r \in Request /\ NamesSubject(r) /\ r.stage = "queued"
        BY <1>3, IdleType DEF Request, NamesSubject
      <3>2. Arrive(s, r) /\ tail' = Append(tail, s)
        BY <1>1, <2>2
      <3> HIDE DEF r
      <3>3. Parked(s) /\ CodesKnown'
        BY <1>2, <1>3, <3>1, <3>2, ArriveParks, InvParts DEF AccountsInOrder, CodesKnown
      <3>4. QED
        BY <1>2, <3>3, ParkedKeeps
    <2>3. QED
      BY <2>1, <2>2
  <1>5. SessionsOK'
    BY <1>1, <1>2, <1>3, FS_Subset DEF SessionsOK
  <1>6. OnlyCurrentPassword'
    BY <1>2, InvParts DEF OnlyCurrentPassword
  <1>7. QED
    BY <1>2, <1>4, <1>5, <1>6, MailboxStays DEF Inv, TypeOK, MailboxInv

\* A code, a cooldown or a window of a budget is over.
LEMMA TimeKeeps ==
  ASSUME Inv, UNCHANGED intents, TimePasses
  PROVE  Inv'
  <1>1. UNCHANGED <<users, disk, promised, sessions, challenges, req, tail>>
    BY DEF TimePasses, accounts
  <1>2. MailboxInv' /\ codes' \subseteq codes
    <2>1. /\ codes' \subseteq codes /\ history' = history
          /\ buckets' \in [Buckets -> Nat] /\ cooling' \subseteq Keys
      <3>1. MailboxOK
        BY InvParts DEF MailboxInv
      <3>2. CASE CodeOver
        BY <3>1, <3>2 DEF CodeOver, Without, MailboxOK
      <3>3. CASE CooldownOver
        BY <3>1, <3>3 DEF CooldownOver, MailboxOK
      <3>4. CASE WindowOver
        BY <3>1, <3>4 DEF WindowOver, MailboxOK
      <3>5. QED
        BY <3>2, <3>3, <3>4 DEF TimePasses
    <2>2. QED
      BY <2>1, InvParts, DropKeeps
  <1>3. IntentsOK' /\ SessionsOK' /\ OnlyCurrentPassword'
    BY <1>1, InvParts DEF IntentsOK, SessionsOK, OnlyCurrentPassword
  <1>4. QED
    BY <1>1, <1>2, <1>3, NothingQueued DEF Inv, TypeOK, MailboxInv

\* A donation waiting for its terms is recorded, or given up.
LEMMA ResolveKeeps ==
  ASSUME Inv, NEW s \in Requests, ResolveTerms(s)
  PROVE  Inv'
  <1> DEFINE r == req[s]
             key == <<r.email, r.code>>
             record == [wallet |-> r.next[r.email].wallet, gift |-> r.purpose]
  <1>1. /\ r.stage = "policy" /\ req' = [req EXCEPT ![s] = Idle] /\ tail' = tail
        /\ UNCHANGED intents \/ Insert(key, record)
        /\ UNCHANGED <<stored, sessions, challenges, mailbox>>
    BY DEF ResolveTerms
  <1>2. /\ req \in [Requests -> Request] /\ r \in Request /\ NamesSubject(r) /\ IntentsOK
    BY InvParts DEF RequestsOK
  <1>3. key \in Emails \X RequestIds /\ record \in [wallet : Wallets \cup {None}, gift : Gifts]
    <2>1. /\ r.email \in Emails /\ r.code \in RequestIds /\ r.purpose \in Gifts
          /\ r.next \in File /\ r.next[r.email] # None
      BY <1>1, <1>2 DEF NamesSubject, Request
    <2>2. r.next[r.email] \in Account
      BY <2>1 DEF File
    <2>3. QED
      BY <2>1, <2>2 DEF Account
  <1> HIDE DEF key, record
  <1>4. IntentsOK'
    BY <1>1, <1>2, <1>3 DEF Insert, IntentsOK
  <1>5. Parked(s)
    BY <1>1, <1>2, IdleType DEF Parked, Checked
  <1>6. QED
    BY <1>1, <1>4, <1>5, ParkedInv

-----------------------------------------------------------------------------
(* The theorems *)

\* At the start no request was made, no code sent and no account opened.
LEMMA InitInv == Init => Inv
  <1> SUFFICES ASSUME Init PROVE Inv
    OBVIOUS
  <1>1. /\ users = NoUsers /\ disk = NoUsers /\ promised = NoUsers /\ sessions = {} /\ challenges = {}
        /\ req = [s \in Requests |-> Idle] /\ tail = <<>>
        /\ codes = {} /\ buckets = NoCalls /\ cooling = {} /\ history = <<>>
        /\ intents = [k \in Emails \X RequestIds |-> None]
    BY DEF Init, AccountsInit, MailboxInit, IntentsInit
  <1>2. FilesOK /\ RequestsOK
    BY <1>1, IdleType DEF FilesOK, RequestsOK
  <1>3. SessionsOK /\ IntentsOK /\ MailboxOK
    BY <1>1, FS_EmptySet DEF SessionsOK, IntentsOK, MailboxOK, NoCalls
  <1>4. CodesInOrder /\ CodesSpentOnce /\ OnlyCurrentPassword
    BY <1>1 DEF CodesInOrder, CodesSpentOnce, OnlyCurrentPassword
  <1>5. \A s \in Requests : req[s].stage = "none"
    BY <1>1, IdleType
  <1>6. Loadable(users) /\ CodesKnown
    BY <1>1 DEF NoUsers, Loadable, CodesKnown
  <1>7. AccountsInOrder
    BY <1>1, <1>5, <1>6 DEF AccountsInOrder, TurnKept, FileFollows, ChangeKept, Checked
  <1>8. QED
    BY <1>2, <1>3, <1>4, <1>7 DEF Inv, TypeOK

\* Every step keeps the invariant.
LEMMA StepInv == Inv /\ [Next]_vars => Inv'
  <1> SUFFICES ASSUME Inv, [Next]_vars PROVE Inv'
    OBVIOUS
  <1>1. CASE UNCHANGED vars
    <2>1. /\ UNCHANGED <<users, disk, promised, sessions, challenges, req, tail>>
          /\ UNCHANGED <<codes, buckets, cooling, history, intents>>
      BY <1>1 DEF vars, accounts, mailbox
    <2>2. SessionsOK' /\ OnlyCurrentPassword'
      BY <2>1, InvParts DEF SessionsOK, OnlyCurrentPassword
    <2>3. QED
      BY <2>1, <2>2, NothingQueued, MailboxStays DEF Inv, TypeOK, MailboxInv
  <1>2. CASE UNCHANGED intents /\ \E s \in Requests : AccountsStep(s)
    <2>1. PICK s \in Requests : AccountsStep(s)
      BY <1>2
    <2>2. CASE Register(s) \/ Login(s) \/ RequestCode(s) \/ UseCode(s)
      BY <1>2, <2>2, ArrivalKeeps
    <2>3. CASE Hashed(s)
      BY <1>2, <2>3, HashedKeeps
    <2>4. CASE Verify(s)
      BY <1>2, <2>4, VerifyKeeps
    <2>5. CASE RunRegister(s) \/ Rehashed(s) \/ RunBind(s) \/ StorageError(s)
      BY <1>2, <2>5, RunKeeps
    <2>6. CASE RunLogin(s)
      BY <1>2, <2>6, LoginKeeps
    <2>7. CASE RunSend(s)
      BY <1>2, <2>7, SendCodeKeeps
    <2>8. CASE RunCheck(s)
      BY <1>2, <2>8, CheckCodeKeeps
    <2>9. CASE Rename(s)
      BY <1>2, <2>9, RenameKeeps
    <2>10. CASE Saved(s)
      BY <1>2, <2>10, SavedKeeps
    <2>11. QED
      BY <2>1, <2>2, <2>3, <2>4, <2>5, <2>6, <2>7, <2>8, <2>9, <2>10 DEF AccountsStep
  <1>3. CASE UNCHANGED intents /\ (Challenge \/ Logout \/ ChallengeOver \/ TimePasses \/ Crash)
    BY <1>3, ChallengeKeeps, EndKeeps, TimeKeeps, CrashKeeps
  <1>4. CASE \E s \in Requests : Prepare(s) \/ ResolveTerms(s)
    <2>1. PICK s \in Requests : Prepare(s) \/ ResolveTerms(s)
      BY <1>4
    <2>2. CASE Prepare(s)
      BY <2>2, ArrivalKeeps DEF Prepare
    <2>3. CASE ResolveTerms(s)
      BY <2>3, ResolveKeeps
    <2>4. QED
      BY <2>1, <2>2, <2>3
  <1>5. QED
    BY <1>1, <1>2, <1>3, <1>4 DEF Next, AccountsNext, Quiet

\* The invariant always holds.
LEMMA AlwaysInv == Spec => []Inv
  BY InitInv, StepInv, PTL DEF Spec

\* Whatever is in flight, every variable holds records of its kind.
THEOREM AccountsTypeCorrect == Spec => []TypeOK
  <1>1. Inv => TypeOK
    BY DEF Inv
  <1>2. QED
    BY <1>1, AlwaysInv, PTL

\* No session outlives the password it was opened with: not one opened by a
\* login that was hashed, or waited its turn, while a reset was being saved.
THEOREM PasswordAlwaysCurrent == Spec => []OnlyCurrentPassword
  <1>1. Inv => OnlyCurrentPassword
    BY DEF Inv
  <1>2. QED
    BY <1>1, AlwaysInv, PTL

\* What was answered as saved stays saved, across failed writes and crashes.
THEOREM AcksAlwaysSurvive == Spec => []AcksSurvive
  <1>1. Inv => AcksSurvive
    <2> SUFFICES ASSUME Inv PROVE AcksSurvive
      OBVIOUS
    <2>1. FileFollows /\ users = promised /\ FilesOK /\ \A s \in Requests : ChangeKept(s)
      BY DEF Inv, TypeOK, AccountsInOrder
    <2>2. ASSUME NEW e \in Emails, disk[e] # promised[e]
          PROVE  \E s \in Requests : req[s].stage = "renamed" /\ req[s].email = e
      <3>1. PICK s \in Requests : req[s].stage = "renamed" /\ disk = req[s].next
        BY <2>1, <2>2 DEF FileFollows
      <3>2. disk = FileWith(s, req[s].email)
        BY <2>1, <3>1 DEF ChangeKept
      <3>3. users \in [Emails -> Account \cup {None}]
        BY <2>1 DEF FilesOK, File
      <3>4. e = req[s].email
        BY <2>1, <2>2, <3>2, <3>3 DEF FileWith
      <3>5. QED
        BY <3>1, <3>4
    <2>3. QED
      BY <2>1, <2>2 DEF AcksSurvive
  <1>2. QED
    BY <1>1, AlwaysInv, PTL

\* The file can always be loaded: no two accounts come to share a wallet.
THEOREM AlwaysOneAccountPerWallet == Spec => []OneAccountPerWallet
  <1>1. Inv => OneAccountPerWallet
    BY DEF Inv, AccountsInOrder, FileFollows, ChangeKept, OneAccountPerWallet
  <1>2. QED
    BY <1>1, AlwaysInv, PTL

\* No code is accepted twice or guessed at more often than allowed, in whatever
\* order codes are sent, replaced, evicted, revoked and forgotten.
THEOREM CodesAlwaysSpentOnce == Spec => []CodesSpentOnce
  <1>1. Inv => CodesSpentOnce
    BY DEF Inv
  <1>2. QED
    BY <1>1, AlwaysInv, PTL

\* An intent is recorded once, for the wallet its account is bound to at that
\* moment, and only while the session that asked for it is open.
THEOREM IntentsAlwaysOfBoundWallet == Spec => IntentsOfBoundWallet
  <1>1. [Next]_vars => [\A k \in DOMAIN intents : intents'[k] # intents[k] => OfBoundWallet(k)]_vars
    <2> SUFFICES ASSUME Next, NEW k \in DOMAIN intents, intents'[k] # intents[k]
                 PROVE  OfBoundWallet(k)
      OBVIOUS
    <2>1. PICK s \in Requests : ResolveTerms(s)
      BY DEF Next, Quiet, vars, Prepare
    <2> DEFINE r == req[s]
               key == <<r.email, r.code>>
               record == [wallet |-> r.next[r.email].wallet, gift |-> r.purpose]
    <2>2. SameProfile(r.token, r) /\ Insert(key, record) /\ r.stage = "policy"
      BY <2>1 DEF ResolveTerms
    <2>3. record.wallet = users[r.email].wallet /\ UserOf(r.token) = r.email
      BY <2>2 DEF SameProfile, Profile
    <2>4. key[1] = r.email
      OBVIOUS
    <2> HIDE DEF key, record
    <2>5. k = key /\ intents[key] = None /\ intents'[k] = record
      BY <2>2 DEF Insert
    <2>6. QED
      BY <2>2, <2>3, <2>4, <2>5 DEF OfBoundWallet
  <1>2. QED
    BY <1>1, PTL DEF Spec, IntentsOfBoundWallet
=============================================================================
