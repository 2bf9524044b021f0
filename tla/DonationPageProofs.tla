------------------------- MODULE DonationPageProofs -------------------------
(***************************************************************************)
(* Proofs about DonationPage, for any number of tabs and accounts: a tab   *)
(* never falls back to an old login, records stay in their account's name, *)
(* and a record asks the wallet once and is kept while its call is out.    *)
(***************************************************************************)
EXTENDS DonationPage, SequenceTheorems, WellFoundedInduction, TLAPS

-----------------------------------------------------------------------------
(* Types *)

Stages == {"idle", "auth", "authAnswer", "check", "ask", "answer", "identity", "window",
           "hash", "submit", "verify"}
Op == [at : Stages, fresh : BOOLEAN, auth : BOOLEAN, user : Someone, key : Nat \cup {None},
       call : Calls \cup {None}, rec : Rec \cup {None}, seen : SUBSET Someone]
Refresh == [on : BOOLEAN, user : Someone, fresh : BOOLEAN]
Prep == [user : Someone, key : Nat \cup {None}]
Submit == [rec : Rec, ok : BOOLEAN]
Page == [me : Someone, err : BOOLEAN, address : Someone, told : BOOLEAN,
         preview : Rec \cup {None}, prep : Prep \cup {None}, op : Op, refresh : Refresh,
         submits : SUBSET Submit]
Intent == [user : Someone, key : Nat \cup {None}, tx : Nat \cup {None}]
Window == [key : Nat, call : Calls, tab : Tabs \cup {None}]
Sent == [key : Nat, call : Calls, mined : BOOLEAN]

\* No two stored records have the same key.
Distinct(records) ==
  \A i, j \in DOMAIN records : records[i].key = records[j].key => i = j

\* What a tab needs to hold at the stage it is at.
StageOK(p) ==
  /\ p.op.at \in {"idle", "auth", "authAnswer"} => p.op.rec = None /\ p.op.call = None
  /\ p.op.at = "check" => p.op.rec = None
  /\ p.op.at \in {"identity", "window", "hash", "verify"} => p.op.rec \in Rec
  /\ p.op.at = "answer" => p.op.call \in Calls

TypeOK ==
  /\ session \in Someone /\ account \in Someone
  /\ intents \in Seq(Intent) /\ windows \subseteq Window /\ sent \in Seq(Sent)
  /\ pending \in Seq(Rec) /\ page \in [Tabs -> Page]
  /\ keys \in Nat /\ trouble \in Nat /\ known \in [Tabs -> SUBSET Someone]
  /\ Distinct(pending)
  /\ \A t \in Tabs : StageOK(page[t])
  /\ \A w \in windows : w.tab # None => page[w.tab].op.at = "window"
  /\ \A v, w \in windows : w.tab # None /\ v.tab = w.tab => v = w

\* A page q in which no more is going on than in p: what it waits for is the
\* same, it shows the same preview or none, and it trusts no more of it.
Quieter(q, p) ==
  /\ q \in Page
  /\ q.preview \in {p.preview, None} /\ q.submits = p.submits
  /\ q.op.at = p.op.at /\ q.op.rec = p.op.rec /\ q.op.call = p.op.call /\ q.op.user = p.op.user
  /\ q.op.key = p.op.key
  /\ q.op.fresh => p.op.fresh /\ q.preview = p.preview /\ q.me = p.me

\* The login a page may still learn of is no more than before.
SameNews(q, p) ==
  /\ q.refresh.on = p.refresh.on /\ q.refresh.user = p.refresh.user
  /\ q.refresh.fresh => p.refresh.fresh
  /\ q.op.seen = p.op.seen

\* Tab t goes on to page q without a record stored or the wallet asked: no more
\* is going on in it, or it stops, or begins or continues a step.
Moves(t, q, p) ==
  /\ q \in Page /\ q.preview \in {p.preview, None} /\ q.submits = p.submits
  /\ \/ Quieter(q, p)
     \/ /\ p.op.at \notin {"window", "hash"}
        /\ \/ q.op.at \in {"idle", "auth", "authAnswer"} /\ q.op.rec = None /\ q.op.call = None
           \/ /\ p.op.at = "idle" /\ q.op.at = "check"
              /\ q.op.rec = None /\ q.op.user = q.me
              /\ q.op.call # None => \E n \in DOMAIN sent : q.op.call = Refund(sent[n].call.id)
              /\ ~Parallel => ~Elsewhere(t, Preparing \cup Sending)
           \/ /\ p.op.at = "check" /\ q.op.at = "ask"
              /\ q.op.user = p.op.user /\ q.op.call = p.op.call
              /\ q.op.fresh => p.op.fresh /\ q.me = p.me
              /\ \/ q.op.rec = p.op.rec
                 \/ q.op.rec = None
                 \/ /\ q.op.call = None /\ q.op.rec \in Records
                    /\ ~Handled(q.op.rec) /\ q.op.rec.call.name = "donate"
           \/ /\ p.op.at = "ask" /\ q.op.at = "answer"
              /\ q.op.user = p.op.user /\ q.op.rec = p.op.rec /\ q.op.call \in Calls
              /\ q.op.fresh => p.op.fresh /\ q.me = p.me
              /\ \/ p.op.call # None /\ q.op.call = p.op.call
                 \/ q.op.call.name = "donate" /\ q.op.call.id \in DOMAIN intents'
           \/ /\ p.op.at = "idle" /\ q.op.at = "identity"
              /\ p.preview # None /\ q.preview = p.preview /\ q.op.rec = p.preview
              /\ ~Handled(q.op.rec)
              /\ ~Parallel => ~Elsewhere(t, Preparing)
           \/ /\ p.op.at = "idle" /\ q.op.at = "verify"
              /\ q.op.rec \in Records /\ q.op.rec.call.name = "refund"
              /\ q.op.key \in DOMAIN sent

\* The server forgets nothing of the donations it knows.
IntentsKept ==
  /\ intents' \in Seq(Intent)
  /\ \A id \in DOMAIN intents : id \in DOMAIN intents' /\ intents'[id] = intents[id]

\* The step is tab t's; the others are at most stopped.
Written(t) ==
  /\ page' \in [Tabs -> Page]
  /\ \A x \in Tabs \ {t} :
       Quieter(page'[x], page[x]) /\ SameNews(page'[x], page[x]) /\ page'[x].me = page[x].me

\* Tab t stores the records, and no other shows a preview of what they say was
\* dealt with.
Stored(t, records) ==
  /\ Written(t) /\ pending' = records
  /\ \A x \in Tabs \ {t} :
       page'[x].preview # None => ~Taken(records, page'[x].preview.key)

\* A step that stores no record and does not ask the wallet; one tab moves.
QuietStep ==
  /\ page' \in [Tabs -> Page]
  /\ \A t \in Tabs : Moves(t, page'[t], page[t])
  /\ \A x, y \in Tabs : x # y => Quieter(page'[x], page[x]) \/ Quieter(page'[y], page[y])
  /\ UNCHANGED <<pending, windows, sent>>
  /\ IntentsKept
  /\ session' \in Someone /\ account' \in Someone
  /\ keys' \in Nat /\ keys <= keys' /\ trouble' \in Nat /\ known' \in [Tabs -> SUBSET Someone]

\* What a tab learns of the login in a step without a login or logout of its own.
Learns(q, p) ==
  /\ \/ q.me \in {p.me, session}
     \/ p.refresh.on /\ p.refresh.fresh /\ q.me = p.refresh.user
  /\ q.refresh.on /\ q.refresh.fresh =>
       \/ q.refresh.user = session
       \/ p.refresh.on /\ p.refresh.fresh /\ q.refresh.user = p.refresh.user
  /\ q.op.at = "authAnswer" =>
       p.op.at = "authAnswer" /\ q.op.seen = p.op.seen /\ q.op.user = p.op.user
Learning ==
  /\ UNCHANGED <<session, known>>
  /\ \A t \in Tabs : Learns(page'[t], page[t])

-----------------------------------------------------------------------------
(* The helpers of the page *)

LEMMA QuieterSelf ==
  ASSUME NEW p \in Page
  PROVE  Quieter(p, p) /\ SameNews(p, p)
  BY DEF Quieter, SameNews

LEMMA QuieterTrans ==
  ASSUME NEW p, NEW q, NEW r, Quieter(q, p), Quieter(r, q)
  PROVE  Quieter(r, p)
  BY DEF Quieter

LEMMA IdlePage ==
  /\ Idle \in Op /\ Idle.at = "idle" /\ Idle.rec = None /\ Idle.call = None
  /\ ~Idle.fresh /\ Idle.seen = {}
  BY DEF Idle, Op, Stages, Someone

LEMMA BeganPage ==
  ASSUME NEW at \in Stages, NEW user \in Someone
  PROVE  /\ Began(at, user) \in Op
         /\ Began(at, user).at = at /\ Began(at, user).user = user
         /\ Began(at, user).rec = None /\ Began(at, user).call = None
  BY DEF Began, Idle, Op, Stages, Someone

LEMMA InvalidatedPage ==
  ASSUME NEW p \in Page
  PROVE  /\ Quieter(Invalidated(p), p) /\ SameNews(Invalidated(p), p)
         /\ Invalidated(p).preview = None /\ Invalidated(p).me = p.me
         /\ Invalidated(p).refresh = p.refresh
  BY DEF Invalidated, Quieter, SameNews, Page, Op

LEMMA AuthChangedPage ==
  ASSUME NEW p \in Page
  PROVE  /\ Quieter(AuthChanged(p), p) /\ SameNews(AuthChanged(p), p)
         /\ ~AuthChanged(p).refresh.fresh /\ AuthChanged(p).me = p.me
  BY DEF AuthChanged, Quieter, SameNews, Page, Op, Refresh

LEMMA SetMePage ==
  ASSUME NEW p \in Page, NEW user \in Someone
  PROVE  /\ Quieter(SetMe(p, user), p) /\ SameNews(SetMe(p, user), p)
         /\ SetMe(p, user).me = user
  <1>1. CASE p.me = user
    BY <1>1 DEF SetMe, Quieter, SameNews, Page, Op
  <1>2. CASE p.me # user
    <2> DEFINE a == AuthChanged(p)
               b == Invalidated(a)
    <2>1. Quieter(a, p) /\ SameNews(a, p)
      BY AuthChangedPage
    <2>2. Quieter(b, p) /\ SameNews(b, p) /\ b.preview = None
      BY <2>1, InvalidatedPage, QuieterTrans DEF Quieter, SameNews
    <2>3. ~b.op.fresh
      BY <2>1 DEF Invalidated, Quieter, Page, Op
    <2>4. SetMe(p, user) = [b EXCEPT !.me = user, !.err = FALSE]
      BY <1>2 DEF SetMe
    <2> HIDE DEF b
    <2> QED BY <2>2, <2>3, <2>4 DEF Quieter, SameNews, Page, Op
  <1> QED BY <1>1, <1>2

LEMMA StoppedPage ==
  ASSUME NEW p \in Page
  PROVE  /\ Stopped(p) \in Page /\ Stopped(p).op = Idle
         /\ Stopped(p).preview = p.preview /\ Stopped(p).submits = p.submits
         /\ Stopped(p).me = p.me /\ Stopped(p).refresh = p.refresh
  BY IdlePage DEF Stopped, Page

LEMMA LoadedPage ==
  /\ Loaded \in Page /\ Loaded.preview = None /\ Loaded.submits = {} /\ Loaded.op = Idle
  /\ Loaded.me = None /\ ~Loaded.refresh.fresh
  BY IdlePage DEF Loaded, NoRefresh, Page, Refresh, Someone

\* What a sequence of records holds.
LEMMA RecordsIn ==
  ASSUME NEW S, NEW s \in Seq(S)
  PROVE  /\ Range(s) \subseteq S
         /\ \A x : x \in Range(s) <=> \E i \in 1..Len(s) : s[i] = x
  BY RangeOfSeq, RangeEquality

\* Saving a record replaces the one of its key and touches no other.
LEMMA WithRecord ==
  ASSUME pending \in Seq(Rec), NEW rec \in Rec
  PROVE  /\ With(rec) \in Seq(Rec)
         /\ Range(With(rec)) = {r \in Records : r.key # rec.key} \cup {rec}
         /\ Distinct(pending) => Distinct(With(rec))
  <1>1. CASE \E i \in DOMAIN pending : pending[i].key = rec.key
    <2>1. With(rec) = [i \in 1..Len(pending) |->
                         IF pending[i].key = rec.key THEN rec ELSE pending[i]]
      BY <1>1 DEF With
    <2>2. With(rec) \in Seq(Rec) /\ Len(With(rec)) = Len(pending)
      BY <2>1
    <2>3. \A i \in 1..Len(pending) :
            With(rec)[i] = (IF pending[i].key = rec.key THEN rec ELSE pending[i])
      BY <2>1
    <2>4. /\ \A x : x \in Range(With(rec)) <=> \E i \in 1..Len(pending) : With(rec)[i] = x
          /\ \A x : x \in Records <=> \E i \in 1..Len(pending) : pending[i] = x
      BY <2>2, RecordsIn, Zenon DEF Records
    <2>5. \E i \in 1..Len(pending) : pending[i].key = rec.key
      BY <1>1
    <2>6. \A x : x \in Range(With(rec)) <=> x \in {r \in Records : r.key # rec.key} \cup {rec}
      BY <2>3, <2>4, <2>5
    <2>7. Distinct(pending) => Distinct(With(rec))
      BY <2>2, <2>3 DEF Distinct
    <2> QED BY <2>2, <2>6, <2>7
  <1>2. CASE ~\E i \in DOMAIN pending : pending[i].key = rec.key
    <2>1. With(rec) = Append(pending, rec)
      BY <1>2 DEF With
    <2>2. /\ With(rec) \in Seq(Rec) /\ Len(With(rec)) = Len(pending) + 1
          /\ \A i \in 1..Len(pending) : With(rec)[i] = pending[i]
          /\ With(rec)[Len(pending) + 1] = rec
      BY <2>1, AppendProperties
    <2>3. /\ \A x : x \in Range(With(rec)) <=> \E i \in 1..(Len(pending) + 1) : With(rec)[i] = x
          /\ \A x : x \in Records <=> \E i \in 1..Len(pending) : pending[i] = x
      BY <2>2, RecordsIn DEF Records
    <2>4. \A i \in 1..Len(pending) : pending[i].key # rec.key
      BY <1>2
    <2>5. Len(pending) \in Nat
      OBVIOUS
    <2>6. ASSUME NEW x
          PROVE  x \in Range(With(rec)) <=> x \in {r \in Records : r.key # rec.key} \cup {rec}
      <3>1. x \in Range(With(rec)) <=> (x = rec \/ \E i \in 1..Len(pending) : pending[i] = x)
        BY <2>2, <2>3, <2>5
      <3> QED BY <3>1, <2>3, <2>4
    <2>7. Distinct(pending) => Distinct(With(rec))
      BY <2>2, <2>4 DEF Distinct
    <2> QED BY <2>2, <2>6, <2>7
  <1> QED BY <1>1, <1>2

\* Removing a record leaves those of other keys, if keys are distinct.
LEMMA WithoutRecord ==
  ASSUME pending \in Seq(Rec), NEW rec,
         Distinct(pending)
  PROVE  /\ Without(rec) \in Seq(Rec)
         /\ Range(Without(rec)) = {r \in Records : r.key # rec.key}
         /\ Distinct(Without(rec))
  <1> DEFINE I == {i \in 1..Len(pending) : pending[i].key = rec.key}
             w == Without(rec)
  <1>0. Len(pending) \in Nat /\ DOMAIN pending = 1..Len(pending)
    OBVIOUS
  <1>1. CASE I = {}
    <2>1. w = pending
      BY <1>1 DEF Without, RemoveFirstMatch
    <2> QED BY <1>1, <2>1, RecordsIn DEF Records
  <1>2. CASE I # {}
    <2>1. PICK k \in I : I = {k}
      BY <1>2, <1>0 DEF Distinct
    <2>2. SelectInSeq(pending, LAMBDA r : r.key = rec.key) = k
      BY <2>1 DEF SelectInSeq, Min
    <2>3. w = SubSeq(pending, 1, k - 1) \o SubSeq(pending, k + 1, Len(pending))
      BY <2>1, <2>2 DEF Without, RemoveFirstMatch, RemoveAt
    <2>4. k \in 1..Len(pending) /\ pending[k].key = rec.key
      BY <2>1
    <2> DEFINE a == SubSeq(pending, 1, k - 1)
               b == SubSeq(pending, k + 1, Len(pending))
    <2>5. /\ a \in Seq(Rec) /\ Len(a) = k - 1 /\ \A i \in 1..(k - 1) : a[i] = pending[i]
      <3>1. \A i \in 1..(k - 1) : pending[i] \in Rec
        BY <2>4
      <3> QED BY <2>4, <3>1, SubSeqProperties
    <2>6. /\ b \in Seq(Rec) /\ Len(b) = Len(pending) - k
          /\ \A i \in 1..(Len(pending) - k) : b[i] = pending[k + i]
      <3> DEFINE m == k + 1
                 n == Len(pending)
      <3>1. m \in Int /\ n \in Int /\ n - m + 1 = n - k /\ \A i \in m..n : pending[i] \in Rec
        BY <2>4, <1>0
      <3>2. \A i \in 1..(n - k) : m + i - 1 = k + i
        BY <2>4, <1>0
      <3>3. n - k \in Nat /\ (m <= n <=> n - k > 0) /\ n - m + 1 = n - k
        BY <2>4, <1>0
      <3> HIDE DEF m, n
      <3>4. /\ SubSeq(pending, m, n) \in Seq(Rec)
            /\ Len(SubSeq(pending, m, n)) = IF m <= n THEN n - m + 1 ELSE 0
            /\ \A i \in 1..(n - m + 1) : SubSeq(pending, m, n)[i] = pending[m + i - 1]
        BY <3>1, SubSeqProperties
      <3>5. \A i \in 1..(n - k) : SubSeq(pending, m, n)[i] = pending[k + i]
        BY <3>1, <3>2, <3>4
      <3>6. Len(SubSeq(pending, m, n)) = n - k
        BY <3>3, <3>4
      <3>7. b = SubSeq(pending, m, n)
        BY DEF b, m, n
      <3>8. b \in Seq(Rec) /\ Len(b) = n - k /\ \A i \in 1..(n - k) : b[i] = pending[k + i]
        BY <3>4, <3>5, <3>6, <3>7
      <3> QED BY <3>8 DEF n
    <2>0. w = a \o b
      BY <2>3
    <2> HIDE DEF a, b, w
    <2>7. /\ w \in Seq(Rec) /\ Len(w) = Len(pending) - 1
          /\ \A i \in 1..(Len(pending) - 1) : w[i] = IF i < k THEN pending[i] ELSE pending[i + 1]
      <3>1. /\ w \in Seq(Rec) /\ Len(w) = Len(a) + Len(b)
            /\ \A i \in 1..(Len(a) + Len(b)) : w[i] = IF i <= Len(a) THEN a[i] ELSE b[i - Len(a)]
        BY <2>0, <2>5, <2>6, ConcatProperties
      <3>2. Len(a) + Len(b) = Len(pending) - 1
        BY <2>4, <2>5, <2>6, <1>0
      <3>3. ASSUME NEW i \in 1..(Len(pending) - 1)
            PROVE  w[i] = IF i < k THEN pending[i] ELSE pending[i + 1]
        <4>1. CASE i < k
          <5>1. i \in 1..(k - 1) /\ i <= Len(a)
            BY <4>1, <2>4, <2>5, <1>0
          <5> QED BY <5>1, <4>1, <3>1, <3>2, <2>5
        <4>2. CASE ~(i < k)
          <5>1. ~(i <= Len(a)) /\ i - Len(a) \in 1..(Len(pending) - k) /\ k + (i - Len(a)) = i + 1
            BY <4>2, <2>4, <2>5, <1>0
          <5> QED BY <5>1, <4>2, <3>1, <3>2, <2>6
        <4> QED BY <4>1, <4>2
      <3> QED BY <3>1, <3>2, <3>3
    <2>8. /\ \A x : x \in Range(w) <=> \E i \in 1..(Len(pending) - 1) : w[i] = x
          /\ \A x : x \in Records <=> \E i \in 1..Len(pending) : pending[i] = x
      BY <2>7, RecordsIn DEF Records
    <2>9. ASSUME NEW x
          PROVE  x \in Range(w) <=> x \in {r \in Records : r.key # rec.key}
      <3>1. ASSUME x \in Range(w) PROVE x \in Records /\ x.key # rec.key
        <4>1. PICK i \in 1..(Len(pending) - 1) : w[i] = x
          BY <3>1, <2>8
        <4>2. PICK j \in 1..Len(pending) : j # k /\ pending[j] = x
          BY <4>1, <2>7, <2>4, <1>0
        <4> QED BY <4>2, <2>8, <2>1, <2>4
      <3>2. ASSUME x \in Records, x.key # rec.key PROVE x \in Range(w)
        <4>1. PICK j \in 1..Len(pending) : pending[j] = x
          BY <3>2, <2>8
        <4>2. j # k
          BY <4>1, <3>2, <2>4
        <4>3. PICK i \in 1..(Len(pending) - 1) : i = IF j < k THEN j ELSE j - 1
          BY <4>2, <2>4, <1>0
        <4>4. w[i] = x
          BY <4>1, <4>2, <4>3, <2>7, <2>4, <1>0
        <4> QED BY <4>4, <2>8
      <3> QED BY <3>1, <3>2
    <2>10. Distinct(w)
      <3> DEFINE o(i) == IF i < k THEN i ELSE i + 1
      <3>1. DOMAIN w = 1..(Len(pending) - 1)
        BY <2>7
      <3>2. \A i \in DOMAIN w : o(i) \in DOMAIN pending /\ w[i] = pending[o(i)]
        BY <3>1, <2>7, <2>4, <1>0
      <3>3. \A i, j \in DOMAIN w : o(i) = o(j) => i = j
        BY <3>1, <2>4, <1>0
      <3> HIDE DEF o
      <3> QED BY <3>2, <3>3 DEF Distinct
    <2> QED BY <2>7, <2>9, <2>10 DEF w
  <1> QED BY <1>1, <1>2

\* When tab t's page alone is written, it moves and the others stay.
LEMMA TurnMoves ==
  ASSUME TypeOK, NEW t \in Tabs, NEW q, Turn(t, q), Moves(t, q, page[t])
  PROVE  /\ page' \in [Tabs -> Page] /\ page'[t] = q
         /\ \A x \in Tabs : Moves(x, page'[x], page[x])
         /\ \A x, y \in Tabs : x # y => Quieter(page'[x], page[x]) \/ Quieter(page'[y], page[y])
  <1>1. page \in [Tabs -> Page] /\ q \in Page
    BY DEF TypeOK, Moves
  <1>2. page' \in [Tabs -> Page] /\ page'[t] = q /\ \A x \in Tabs \ {t} : page'[x] = page[x]
    BY <1>1 DEF Turn
  <1>3. \A x \in Tabs \ {t} : Quieter(page'[x], page[x]) /\ page'[x] \in Page
    BY <1>1, <1>2, QuieterSelf
  <1>4. \A x \in Tabs \ {t} : Moves(x, page'[x], page[x])
    BY <1>3 DEF Moves, Quieter
  <1> QED BY <1>2, <1>3, <1>4

LEMMA QuietMoves ==
  ASSUME NEW t, NEW q, NEW p, Quieter(q, p)
  PROVE  Moves(t, q, p)
  BY DEF Quieter, Moves

\* A tab that turns to a page learns what that page has learnt.
LEMMA TurnLearns ==
  ASSUME TypeOK, NEW t \in Tabs, NEW q, Turn(t, q), Learns(q, page[t]), UNCHANGED <<session, known>>
  PROVE  Learning
  BY DEF Turn, TypeOK, Learning, Learns

LEMMA NewsLearns ==
  ASSUME NEW q, NEW p, Quieter(q, p), SameNews(q, p), q.me \in {p.me, session}
  PROVE  Learns(q, p)
  BY DEF Quieter, SameNews, Learns

\* A page stops: what it waited for is forgotten.
LEMMA StopMoves ==
  ASSUME NEW t, NEW p \in Page, NEW q, Quieter(q, p), p.op.at \notin {"window", "hash"}
  PROVE  /\ Moves(t, Stopped(q), p)
         /\ SameNews(q, p) /\ q.me \in {p.me, session} => Learns(Stopped(q), p)
  <1>1. q \in Page
    BY DEF Quieter
  <1>2. Moves(t, Stopped(q), p)
    BY <1>1, StoppedPage, IdlePage DEF Quieter, Moves
  <1>3. SameNews(q, p) /\ q.me \in {p.me, session} => Learns(Stopped(q), p)
    BY <1>1, StoppedPage, IdlePage DEF SameNews, Learns
  <1> QED BY <1>2, <1>3

\* A step that writes only the page of tab t is quiet if that page only moves.
LEMMA TurnQuiet ==
  ASSUME TypeOK, NEW t \in Tabs, NEW q, Turn(t, q), Moves(t, q, page[t]), Learns(q, page[t]),
         UNCHANGED <<session, known, account, windows, sent, pending>>, IntentsKept,
         keys' \in Nat, keys <= keys', trouble' \in Nat
  PROVE  QuietStep /\ Learning
  <1>1. QuietStep
    BY TurnMoves DEF QuietStep, TypeOK
  <1>2. Learning
    BY TurnLearns
  <1> QED BY <1>1, <1>2

\* The same, when nothing else changes but the count of troubles.
LEMMA TurnOnly ==
  ASSUME TypeOK, NEW t \in Tabs, NEW q, Turn(t, q), Moves(t, q, page[t]), Learns(q, page[t]),
         UNCHANGED <<server, wallet, pending, keys>>, trouble' = trouble \/ Trouble
  PROVE  QuietStep /\ Learning
  <1>1. /\ UNCHANGED <<session, known, account, windows, sent, pending>> /\ IntentsKept
        /\ keys' \in Nat /\ keys <= keys' /\ trouble' \in Nat
    BY DEF server, wallet, IntentsKept, TypeOK, Trouble
  <1> QED BY <1>1, TurnQuiet

-----------------------------------------------------------------------------
(* The steps that only change what a tab shows and waits for *)

LEMMA WalletChangedQuiet ==
  ASSUME TypeOK, NEW t \in Tabs, WalletChanged(t)
  PROVE  QuietStep /\ Learning
  <1> DEFINE p == page[t]
             q == [page[t] EXCEPT !.told = TRUE, !.address = account]
  <1>1. p \in Page
    BY DEF TypeOK
  <1>2. q \in Page /\ Quieter(q, p) /\ SameNews(q, p) /\ q.me = p.me
    BY <1>1 DEF TypeOK, Page, Op, Quieter, SameNews
  <1>3. PICK r : r = Invalidated(q)
    OBVIOUS
  <1>4. Quieter(r, p) /\ SameNews(r, p) /\ r.me = p.me
    <2> HIDE DEF q, p
    <2> QED BY <1>2, <1>3, InvalidatedPage, QuieterTrans DEF SameNews
  <1>5. Turn(t, r) /\ UNCHANGED <<server, wallet, pending, keys, trouble>>
    BY <1>3 DEF WalletChanged
  <1>6. Moves(t, r, page[t]) /\ Learns(r, page[t])
    BY <1>4, QuietMoves, NewsLearns
  <1> QED BY <1>5, <1>6, TurnOnly

LEMMA ConnectQuiet ==
  ASSUME TypeOK, NEW t \in Tabs, Connect(t)
  PROVE  QuietStep /\ Learning
  <1> DEFINE p == page[t]
  <1>1. p \in Page
    BY DEF TypeOK
  <1>2. PICK r : r = [page[t] EXCEPT !.address = account, !.told = TRUE]
    OBVIOUS
  <1>4. Quieter(r, p) /\ SameNews(r, p) /\ r.me = p.me
    BY <1>1, <1>2 DEF TypeOK, Page, Op, Quieter, SameNews
  <1>5. Turn(t, r) /\ UNCHANGED <<server, wallet, pending, keys, trouble>>
    BY <1>2 DEF Connect
  <1>6. Moves(t, r, page[t]) /\ Learns(r, page[t])
    BY <1>4, QuietMoves, NewsLearns
  <1> QED BY <1>5, <1>6, TurnOnly

LEMMA SelectAccountQuiet ==
  ASSUME TypeOK, NEW a \in Someone, SelectAccount(a)
  PROVE  QuietStep /\ Learning
  <1>1. /\ UNCHANGED <<session, known, windows, sent, pending>> /\ IntentsKept
        /\ account' \in Someone /\ keys' \in Nat /\ keys <= keys' /\ trouble' \in Nat
        /\ session' \in Someone /\ known' \in [Tabs -> SUBSET Someone]
    BY DEF SelectAccount, server, IntentsKept, TypeOK, Trouble
  <1>2. \A t \in Tabs : page'[t] = [page[t] EXCEPT !.told = page[t].address = None]
    BY DEF SelectAccount
  <1>3. ASSUME NEW t \in Tabs
        PROVE  /\ page'[t] \in Page /\ Quieter(page'[t], page[t]) /\ SameNews(page'[t], page[t])
               /\ page'[t].me = page[t].me
    <2>1. page[t] \in Page
      BY DEF TypeOK
    <2> QED BY <1>2, <2>1 DEF Page, Op, Quieter, SameNews
  <1>4. page' \in [Tabs -> Page]
    BY <1>3 DEF SelectAccount
  <1>5. \A t \in Tabs : Moves(t, page'[t], page[t]) /\ Learns(page'[t], page[t])
    BY <1>3, QuietMoves, NewsLearns
  <1>6. QuietStep
    BY <1>1, <1>3, <1>4, <1>5 DEF QuietStep
  <1>7. Learning
    BY <1>1, <1>5 DEF Learning
  <1> QED BY <1>6, <1>7

LEMMA StartAuthQuiet ==
  ASSUME TypeOK, NEW t \in Tabs, NEW user \in Someone, StartAuth(t, user)
  PROVE  QuietStep /\ Learning
  <1> DEFINE p == page[t]
  <1>1. p \in Page
    BY DEF TypeOK
  <1>2. PICK q : q = AuthChanged(p)
    OBVIOUS
  <1>3. Quieter(q, p) /\ SameNews(q, p) /\ q.me = p.me
    BY <1>1, <1>2, AuthChangedPage
  <1>4. PICK b : b = Invalidated(q)
    OBVIOUS
  <1>5. Quieter(b, p) /\ SameNews(b, p) /\ b.me = p.me /\ b \in Page
    BY <1>3, <1>4, InvalidatedPage, QuieterTrans DEF Quieter, SameNews
  <1>6. PICK r : r = [b EXCEPT !.op = Began("auth", user)]
    OBVIOUS
  <1>7. /\ r \in Page /\ r.op = Began("auth", user) /\ r.preview = b.preview /\ r.submits = b.submits
        /\ r.me = b.me /\ r.refresh = b.refresh
    BY <1>5, <1>6, BeganPage DEF Page, Stages
  <1>8. p.op.at = "idle"
    BY IdlePage DEF StartAuth
  <1>9. Moves(t, r, page[t]) /\ Learns(r, page[t])
    BY <1>5, <1>7, <1>8, BeganPage DEF Moves, Quieter, Learns, SameNews, Stages
  <1>10. Turn(t, r) /\ UNCHANGED <<server, wallet, pending, keys>> /\ Trouble
    BY <1>2, <1>4, <1>6 DEF StartAuth
  <1> QED BY <1>9, <1>10, TurnOnly

LEMMA StartRefreshQuiet ==
  ASSUME TypeOK, NEW t \in Tabs, StartRefresh(t)
  PROVE  QuietStep /\ Learning
  <1> DEFINE p == page[t]
  <1>1. p \in Page /\ session \in Someone
    BY DEF TypeOK
  <1>2. PICK r : r = [page[t] EXCEPT !.refresh = [on |-> TRUE, user |-> session, fresh |-> TRUE]]
    OBVIOUS
  <1>4. Quieter(r, p) /\ r.op = p.op /\ r.me = p.me /\ r.refresh.user = session
    BY <1>1, <1>2 DEF Page, Refresh, Op, Quieter
  <1>5. Turn(t, r) /\ UNCHANGED <<server, wallet, pending, keys, trouble>>
    BY <1>2 DEF StartRefresh
  <1>6. Moves(t, r, page[t]) /\ Learns(r, page[t])
    BY <1>4, QuietMoves DEF Learns
  <1> QED BY <1>5, <1>6, TurnOnly

LEMMA EndRefreshQuiet ==
  ASSUME TypeOK, NEW t \in Tabs, EndRefresh(t)
  PROVE  QuietStep /\ Learning
  <1> DEFINE p == page[t]
  <1>1. p \in Page /\ p.refresh \in Refresh
    BY DEF TypeOK, Page
  <1>2. PICK d : d = [page[t] EXCEPT !.refresh = NoRefresh]
    OBVIOUS
  <1>3. /\ Quieter(d, p) /\ d \in Page /\ d.op = p.op /\ d.me = p.me /\ ~d.refresh.fresh
    BY <1>1, <1>2 DEF Page, Refresh, Op, Quieter, NoRefresh, Someone
  <1>4. PICK q \in {d, Invalidated(d)} :
          \/ Turn(t, IF StillAsked(p) THEN SetMe(q, p.refresh.user) ELSE q) /\ UNCHANGED trouble
          \/ Trouble /\ Turn(t, IF StillAsked(p) THEN [q EXCEPT !.err = TRUE] ELSE q)
    BY <1>2 DEF EndRefresh
  <1>5. Quieter(q, p) /\ q \in Page /\ q.me = p.me /\ q.op.seen = p.op.seen /\ ~q.refresh.fresh
    BY <1>3, <1>4, InvalidatedPage, QuieterTrans DEF Quieter, SameNews
  <1>6. PICK r : /\ Turn(t, r)
                 /\ \/ r = q
                    \/ StillAsked(p) /\ r = SetMe(q, p.refresh.user)
                    \/ r = [q EXCEPT !.err = TRUE]
                 /\ UNCHANGED trouble \/ Trouble
    BY <1>4, Zenon
  <1>7. /\ Quieter(r, p) /\ r.op.seen = p.op.seen /\ ~r.refresh.fresh
        /\ r.me = p.me \/ (p.refresh.on /\ p.refresh.fresh /\ r.me = p.refresh.user)
    <2>1. CASE r = q
      BY <2>1, <1>5
    <2>2. CASE StillAsked(p) /\ r = SetMe(q, p.refresh.user)
      <3>1. p.refresh.user \in Someone
        BY <1>1 DEF Refresh
      <3>2. Quieter(r, q) /\ SameNews(r, q) /\ r.me = p.refresh.user
        BY <2>2, <3>1, <1>5, SetMePage
      <3> QED BY <3>2, <2>2, <1>5, QuieterTrans DEF SameNews, StillAsked, EndRefresh
    <2>3. CASE r = [q EXCEPT !.err = TRUE]
      BY <2>3, <1>5 DEF Page, Quieter
    <2> QED BY <1>6, <2>1, <2>2, <2>3
  <1>8. Moves(t, r, page[t]) /\ Learns(r, page[t])
    BY <1>7, QuietMoves DEF Learns, Quieter
  <1>9. UNCHANGED <<server, wallet, pending, keys>>
    BY DEF EndRefresh
  <1> QED BY <1>6, <1>8, <1>9, TurnOnly

LEMMA CancelQuiet ==
  ASSUME TypeOK, NEW t \in Tabs, Cancel(t)
  PROVE  QuietStep /\ Learning
  <1>1. page[t] \in Page
    BY DEF TypeOK
  <1>2. PICK r : r = Invalidated(page[t])
    OBVIOUS
  <1>3. Moves(t, r, page[t]) /\ Learns(r, page[t])
    BY <1>1, <1>2, InvalidatedPage, QuietMoves, NewsLearns
  <1>4. Turn(t, r) /\ UNCHANGED <<server, wallet, pending, keys, trouble>>
    BY <1>2 DEF Cancel
  <1> QED BY <1>3, <1>4, TurnOnly

LEMMA StartPrepareQuiet ==
  ASSUME TypeOK, NEW t \in Tabs, StartPrepare(t)
  PROVE  QuietStep /\ Learning
  <1> DEFINE p == page[t]
  <1>1. p \in Page /\ p.me \in Someone
    BY DEF TypeOK, Page
  <1>2. PICK r : r = [page[t] EXCEPT !.op = Began("check", p.me)]
    OBVIOUS
  <1>3. /\ r \in Page /\ r.op = Began("check", p.me) /\ r.preview = p.preview
        /\ r.submits = p.submits /\ r.me = p.me /\ r.refresh = p.refresh
    BY <1>1, <1>2, BeganPage DEF Page, Stages
  <1>4. p.op.at = "idle" /\ (~Parallel => ~Elsewhere(t, Preparing \cup Sending))
    BY IdlePage DEF StartPrepare
  <1>5. Moves(t, r, page[t]) /\ Learns(r, page[t])
    BY <1>1, <1>3, <1>4, BeganPage DEF Moves, Learns, Stages
  <1>6. Turn(t, r) /\ UNCHANGED <<server, wallet, pending, keys, trouble>>
    BY <1>2 DEF StartPrepare
  <1> QED BY <1>5, <1>6, TurnOnly

LEMMA StartRefundQuiet ==
  ASSUME TypeOK, NEW t \in Tabs, StartRefund(t)
  PROVE  QuietStep /\ Learning
  <1> DEFINE p == page[t]
  <1>1. p \in Page /\ p.me \in Someone
    BY DEF TypeOK, Page
  <1>2. PICK n \in DOMAIN sent :
          Turn(t, [p EXCEPT !.op = [Began("check", p.me) EXCEPT !.call = Refund(sent[n].call.id)]])
    BY DEF StartRefund
  <1>3. PICK b : b = [Began("check", p.me) EXCEPT !.call = Refund(sent[n].call.id)]
    OBVIOUS
  <1>4. PICK r : r = [p EXCEPT !.op = b]
    OBVIOUS
  <1>5. sent[n].call \in Calls
    <2>1. sent[n] \in Sent
      BY DEF TypeOK
    <2> QED BY <2>1 DEF Sent
  <1>6. Refund(sent[n].call.id) \in Calls
    BY <1>5 DEF Refund, Calls
  <1>7. /\ b \in Op /\ b.at = "check" /\ b.user = p.me /\ b.rec = None
        /\ b.call = Refund(sent[n].call.id)
    BY <1>1, <1>3, <1>6, BeganPage DEF Op, Stages
  <1>8. /\ r \in Page /\ r.op = b /\ r.preview = p.preview
        /\ r.submits = p.submits /\ r.me = p.me /\ r.refresh = p.refresh
    BY <1>1, <1>4, <1>7 DEF Page
  <1>9. p.op.at = "idle" /\ (~Parallel => ~Elsewhere(t, Preparing \cup Sending))
    BY IdlePage DEF StartRefund
  <1>10. Moves(t, r, page[t]) /\ Learns(r, page[t])
    BY <1>1, <1>7, <1>8, <1>9 DEF Moves, Learns
  <1>11. Turn(t, r) /\ UNCHANGED <<server, wallet, pending, keys, trouble>>
    BY <1>2, <1>3, <1>4 DEF StartRefund
  <1> QED BY <1>10, <1>11, TurnOnly

LEMMA FailCheckQuiet ==
  ASSUME TypeOK, NEW t \in Tabs, FailCheck(t)
  PROVE  QuietStep /\ Learning
  <1> DEFINE p == page[t]
  <1>1. p \in Page /\ session \in Someone
    BY DEF TypeOK
  <1>2. PICK q : /\ q = p \/ q = SetMe(p, session)
                 /\ Turn(t, Stopped(q))
    BY DEF FailCheck
  <1>3. Quieter(q, p) /\ SameNews(q, p) /\ q.me \in {p.me, session}
    BY <1>1, <1>2, QuieterSelf, SetMePage
  <1>4. PICK r : r = Stopped(q)
    OBVIOUS
  <1>5. p.op.at \notin {"window", "hash"}
    BY DEF FailCheck
  <1>6. Moves(t, r, page[t]) /\ Learns(r, page[t])
    BY <1>1, <1>3, <1>4, <1>5, StopMoves
  <1>7. Turn(t, r) /\ UNCHANGED <<server, wallet, pending, keys, trouble>>
    BY <1>2, <1>4 DEF FailCheck
  <1> QED BY <1>6, <1>7, TurnOnly

LEMMA LosePrepareQuiet ==
  ASSUME TypeOK, NEW t \in Tabs, LosePrepare(t)
  PROVE  QuietStep /\ Learning
  <1>1. page[t] \in Page
    BY DEF TypeOK
  <1>2. PICK r : r = Stopped(page[t])
    OBVIOUS
  <1>3. page[t].op.at \notin {"window", "hash"}
    BY DEF LosePrepare
  <1>4. Moves(t, r, page[t]) /\ Learns(r, page[t])
    BY <1>1, <1>2, <1>3, StopMoves, QuieterSelf
  <1>5. Turn(t, r) /\ UNCHANGED <<server, wallet, pending, keys>> /\ Trouble
    BY <1>2 DEF LosePrepare
  <1> QED BY <1>4, <1>5, TurnOnly

LEMMA StartSendQuiet ==
  ASSUME TypeOK, NEW t \in Tabs, StartSend(t)
  PROVE  QuietStep /\ Learning
  <1> DEFINE p == page[t]
  <1>1. p \in Page /\ p.me \in Someone /\ p.preview # None /\ p.preview \in Rec
    BY DEF TypeOK, Page, StartSend
  <1>2. PICK b : b = [Began("identity", p.me) EXCEPT !.rec = p.preview]
    OBVIOUS
  <1>3. PICK r : r = [p EXCEPT !.op = b]
    OBVIOUS
  <1>4. b \in Op /\ b.at = "identity" /\ b.user = p.me /\ b.rec = p.preview
    BY <1>1, <1>2, BeganPage DEF Op, Stages
  <1>5. /\ r \in Page /\ r.op = b /\ r.preview = p.preview
        /\ r.submits = p.submits /\ r.me = p.me /\ r.refresh = p.refresh
    BY <1>1, <1>3, <1>4 DEF Page
  <1>6. p.op.at = "idle" /\ (~Parallel => ~Elsewhere(t, Preparing)) /\ ~Handled(p.preview)
    BY IdlePage DEF StartSend
  <1>7. Moves(t, r, page[t]) /\ Learns(r, page[t])
    BY <1>1, <1>4, <1>5, <1>6 DEF Moves, Learns
  <1>8. Turn(t, r) /\ UNCHANGED <<server, wallet, pending, keys, trouble>>
    BY <1>2, <1>3 DEF StartSend
  <1> QED BY <1>7, <1>8, TurnOnly

LEMMA StartCheckQuiet ==
  ASSUME TypeOK, NEW t \in Tabs, StartCheck(t)
  PROVE  QuietStep /\ Learning
  <1> DEFINE p == page[t]
  <1>1. p \in Page /\ p.me \in Someone
    BY DEF TypeOK, Page
  <1>2. PICK rec \in Records, n \in DOMAIN sent :
          /\ rec.call.name = "refund"
          /\ Turn(t, [p EXCEPT !.op = [Began("verify", p.me) EXCEPT !.rec = rec, !.key = n]])
    BY DEF StartCheck
  <1>3. rec \in Rec /\ n \in Nat
    BY RecordsIn DEF TypeOK, Records
  <1>4. PICK b : b = [Began("verify", p.me) EXCEPT !.rec = rec, !.key = n]
    OBVIOUS
  <1>5. PICK r : r = [p EXCEPT !.op = b]
    OBVIOUS
  <1>6. b \in Op /\ b.at = "verify" /\ b.user = p.me /\ b.rec = rec /\ b.key = n
    <2>1. Began("verify", p.me) \in Op /\ Began("verify", p.me).at = "verify"
          /\ Began("verify", p.me).user = p.me
      BY <1>1, BeganPage DEF Stages
    <2> QED BY <1>3, <1>4, <2>1 DEF Op
  <1>7. /\ r \in Page /\ r.op = b /\ r.preview = p.preview
        /\ r.submits = p.submits /\ r.me = p.me /\ r.refresh = p.refresh
    BY <1>1, <1>5, <1>6 DEF Page
  <1>8. p.op.at = "idle"
    BY IdlePage DEF StartCheck
  <1>9. Moves(t, r, page[t]) /\ Learns(r, page[t])
    BY <1>1, <1>2, <1>6, <1>7, <1>8 DEF Moves, Learns
  <1>10. Turn(t, r) /\ UNCHANGED <<server, wallet, pending, keys, trouble>>
    BY <1>2, <1>4, <1>5 DEF StartCheck
  <1> QED BY <1>9, <1>10, TurnOnly

\* What is found first among the stored donations of an account.
LEMMA PreviousRecord ==
  ASSUME pending \in Seq(Rec), NEW user, Previous(user) # None
  PROVE  /\ Previous(user) \in Records
         /\ Previous(user).user = user /\ Previous(user).call.name = "donate"
  <1> DEFINE Test(r) == r.user = user /\ r.call.name = "donate"
             I == {i \in 1..Len(pending) : Test(pending[i])}
  <1>1. Previous(user) = pending[SelectInSeq(pending, Test)] /\ SelectInSeq(pending, Test) # 0
    BY DEF Previous
  <1>2. I # {} /\ SelectInSeq(pending, Test) = Min(I)
    BY <1>1 DEF SelectInSeq
  <1>3. PICK x \in I : \A y \in I : ~(<<y, x>> \in OpToRel(<, Nat))
    <2>1. I \subseteq Nat
      OBVIOUS
    <2> QED BY <1>2, <2>1, NatLessThanWellFounded, WFMin
  <1>4. \A y \in I : x <= y
    <2>1. ASSUME NEW y \in I, ~(x <= y) PROVE FALSE
      <3>1. x \in Nat /\ y \in Nat /\ y < x
        BY <2>1
      <3>2. <<y, x>> \in OpToRel(<, Nat)
        BY <3>1, Zenon DEF OpToRel
      <3> QED BY <3>2, <1>3
    <2> QED BY <2>1
  <1>5. Min(I) \in I
    BY <1>3, <1>4 DEF Min
  <1>6. Previous(user) = pending[Min(I)] /\ Min(I) \in 1..Len(pending)
    BY <1>1, <1>2, <1>5
  <1> QED BY <1>5, <1>6, RecordsIn DEF Records

LEMMA CheckedQuiet ==
  ASSUME TypeOK, NEW t \in Tabs, Checked(t)
  PROVE  QuietStep /\ Learning
  <1> DEFINE p == page[t]
  <1>1. p \in Page /\ p.op \in Op /\ p.op.at = "check" /\ keys \in Nat
    BY DEF TypeOK, Page, Checked
  <1>2. UNCHANGED <<server, wallet, pending, trouble>>
    BY DEF Checked
  <1>3. CASE p.op.call # None
    <2>1. PICK r : r = [p EXCEPT !.op.at = "ask"]
      OBVIOUS
    <2>2. /\ r \in Page /\ r.op = [p.op EXCEPT !.at = "ask"] /\ r.preview = p.preview
          /\ r.submits = p.submits /\ r.me = p.me /\ r.refresh = p.refresh
      BY <1>1, <2>1 DEF Page, Op, Stages
    <2>3. Moves(t, r, page[t]) /\ Learns(r, page[t])
      BY <1>1, <2>2 DEF Moves, Learns, Op
    <2>4. Turn(t, r) /\ UNCHANGED keys
      BY <1>3, <2>1 DEF Checked
    <2> QED BY <1>2, <2>3, <2>4, TurnOnly
  <1>4. CASE p.op.call = None /\ Previous(p.op.user) # None /\ Handled(Previous(p.op.user))
    <2>1. PICK r : r = Stopped(p)
      OBVIOUS
    <2>2. Moves(t, r, page[t]) /\ Learns(r, page[t])
      BY <1>1, <2>1, StopMoves, QuieterSelf
    <2>3. Turn(t, r) /\ UNCHANGED keys
      BY <1>4, <2>1 DEF Checked
    <2> QED BY <1>2, <2>2, <2>3, TurnOnly
  <1>5. CASE p.op.call = None /\ ~(Previous(p.op.user) # None /\ Handled(Previous(p.op.user)))
    <2> DEFINE previous == Previous(p.op.user)
    <2>1. PICK k \in IF p.prep # None /\ p.prep.user = p.op.user THEN {p.prep.key}
                     ELSE IF previous # None THEN {previous.prepareKey}
                     ELSE {keys + 1} \cap 1..MaxKeys :
            /\ keys' = IF k = keys + 1 THEN k ELSE keys
            /\ Turn(t, [p EXCEPT !.prep = [user |-> p.op.user, key |-> k],
                                 !.op.at = "ask", !.op.key = k, !.op.rec = previous])
      BY <1>5 DEF Checked
    <2>2. previous # None =>
            previous \in Records /\ previous \in Rec /\ previous.call.name = "donate" /\ ~Handled(previous)
      BY <1>5, PreviousRecord, RecordsIn DEF TypeOK, Records
    <2>3. previous # None => previous.prepareKey \in Nat \cup {None}
      BY <2>2 DEF Rec
    <2>4. p.prep # None => p.prep.key \in Nat \cup {None}
      BY <1>1 DEF Page, Prep
    <2>5. k \in Nat \cup {None}
      BY <1>1, <2>1, <2>3, <2>4
    <2>6. PICK b : b = [p.op EXCEPT !.at = "ask", !.key = k, !.rec = previous]
      OBVIOUS
    <2>7. PICK r : r = [p EXCEPT !.prep = [user |-> p.op.user, key |-> k], !.op = b]
      OBVIOUS
    <2>8. b \in Op
      BY <1>1, <2>2, <2>5, <2>6 DEF Op, Stages
    <2>9. [user |-> p.op.user, key |-> k] \in Prep
      BY <1>1, <2>5 DEF Prep, Op
    <2>10. /\ r \in Page /\ r.op = b /\ r.preview = p.preview
           /\ r.submits = p.submits /\ r.me = p.me /\ r.refresh = p.refresh
      BY <1>1, <2>7, <2>8, <2>9 DEF Page
    <2>11. /\ b.at = "ask" /\ b.user = p.op.user /\ b.call = p.op.call /\ b.fresh = p.op.fresh
           /\ b.rec = previous
      BY <1>1, <2>6 DEF Op
    <2> HIDE DEF previous
    <2>12. Moves(t, r, page[t])
      BY <1>1, <1>5, <2>2, <2>10, <2>11 DEF Moves
    <2>13. Learns(r, page[t])
      BY <2>10, <2>11 DEF Learns
    <2>14. Turn(t, r)
      <3>1. r = [p EXCEPT !.prep = [user |-> p.op.user, key |-> k],
                          !.op.at = "ask", !.op.key = k, !.op.rec = previous]
        BY <1>1, <2>6, <2>7 DEF Page, Op
      <3> QED BY <2>1, <3>1 DEF previous
    <2>15. /\ UNCHANGED <<session, known, account, windows, sent, pending>> /\ IntentsKept
           /\ keys' \in Nat /\ keys <= keys' /\ trouble' \in Nat
      BY <1>1, <1>2, <2>1 DEF server, wallet, IntentsKept, TypeOK
    <2> QED BY <2>12, <2>13, <2>14, <2>15, TurnQuiet
  <1> QED BY <1>3, <1>4, <1>5

\* A donation the server did not know is added to those it knows.
LEMMA IntentAdded ==
  ASSUME TypeOK, NEW intent \in Intent, intents' = Append(intents, intent)
  PROVE  /\ IntentsKept /\ Len(intents) + 1 \in DOMAIN intents' /\ Len(intents) + 1 \in Nat
         /\ intents'[Len(intents) + 1] = intent
  BY AppendProperties DEF TypeOK, IntentsKept

LEMMA PrepareServedQuiet ==
  ASSUME TypeOK, NEW t \in Tabs, PrepareServed(t)
  PROVE  QuietStep /\ Learning
  <1> DEFINE p == page[t]
             Is(id) == intents[id].user = session /\ intents[id].key = p.op.key
             At(id) == [p EXCEPT !.op.at = "answer", !.op.call = Donation(id)]
  <1>1. p \in Page /\ p.op \in Op /\ p.op.at = "ask" /\ keys \in Nat /\ session \in Someone
    BY DEF TypeOK, Page, PrepareServed
  <1>2. UNCHANGED <<session, known, wallet, pending, keys, trouble>>
    BY DEF PrepareServed
  <1>3. ASSUME NEW r, r = Stopped(p)
        PROVE  Moves(t, r, page[t]) /\ Learns(r, page[t])
    BY <1>1, <1>3, StopMoves, QuieterSelf
  <1>4. ASSUME UNCHANGED intents, NEW r, Moves(t, r, page[t]), Learns(r, page[t]), Turn(t, r)
        PROVE  QuietStep /\ Learning
    BY <1>2, <1>4, TurnOnly DEF server
  <1>5. CASE p.op.call # None
    <2>1. PICK r : /\ r = Stopped(p) \/ r = [p EXCEPT !.op.at = "answer"]
                   /\ Turn(t, r)
      BY <1>5 DEF PrepareServed
    <2>2. ASSUME r = [p EXCEPT !.op.at = "answer"]
          PROVE  Moves(t, r, page[t]) /\ Learns(r, page[t])
      <3>1. /\ r \in Page /\ r.op = [p.op EXCEPT !.at = "answer"] /\ r.preview = p.preview
            /\ r.submits = p.submits /\ r.me = p.me /\ r.refresh = p.refresh
        BY <1>1, <2>2 DEF Page, Op, Stages
      <3> QED BY <1>1, <1>5, <3>1 DEF Moves, Learns, Op
    <2>3. UNCHANGED intents
      BY <1>5 DEF PrepareServed
    <2> QED BY <1>3, <1>4, <2>1, <2>2, <2>3
  <1>6. CASE p.op.call = None /\ session = None
    <2>1. PICK r : r = Stopped(p)
      OBVIOUS
    <2>2. Turn(t, r) /\ UNCHANGED intents
      BY <1>6, <2>1 DEF PrepareServed
    <2> QED BY <1>3, <1>4, <2>1, <2>2
  <1>7. CASE p.op.call = None /\ session # None
    <2>1. ASSUME NEW id \in Nat, id \in DOMAIN intents', Turn(t, At(id)), IntentsKept
          PROVE  QuietStep /\ Learning
      <3>1. PICK b : b = [p.op EXCEPT !.at = "answer", !.call = Donation(id)]
        OBVIOUS
      <3>2. PICK r : r = [p EXCEPT !.op = b]
        OBVIOUS
      <3>3. Donation(id) \in Calls /\ Donation(id).name = "donate" /\ Donation(id).id = id
        BY <2>1 DEF Donation, Calls
      <3>4. /\ b \in Op /\ b.at = "answer" /\ b.user = p.op.user /\ b.rec = p.op.rec
            /\ b.call = Donation(id) /\ b.fresh = p.op.fresh
        BY <1>1, <3>1, <3>3 DEF Op, Stages
      <3>5. /\ r \in Page /\ r.op = b /\ r.preview = p.preview
            /\ r.submits = p.submits /\ r.me = p.me /\ r.refresh = p.refresh
        BY <1>1, <3>2, <3>4 DEF Page
      <3>6. Moves(t, r, page[t]) /\ Learns(r, page[t])
        BY <1>1, <2>1, <3>3, <3>4, <3>5 DEF Moves, Learns
      <3>7. r = At(id)
        BY <1>1, <3>1, <3>2 DEF Page, Op
      <3>8. Turn(t, r)
        BY <2>1, <3>7
      <3>9. /\ UNCHANGED <<session, known, account, windows, sent, pending>>
            /\ keys' \in Nat /\ keys <= keys' /\ trouble' \in Nat
        BY <1>1, <1>2 DEF wallet, TypeOK
      <3> QED BY <2>1, <3>6, <3>8, <3>9, TurnQuiet
    <2>2. CASE \E id \in DOMAIN intents : Is(id) /\ Turn(t, At(id)) /\ UNCHANGED intents
      <3>1. PICK id \in DOMAIN intents : Turn(t, At(id)) /\ UNCHANGED intents
        BY <2>2
      <3>2. id \in Nat /\ id \in DOMAIN intents' /\ IntentsKept
        BY <3>1 DEF TypeOK, IntentsKept
      <3> QED BY <2>1, <3>1, <3>2
    <2>3. CASE /\ intents' = Append(intents, [user |-> session, key |-> p.op.key, tx |-> None])
               /\ Turn(t, At(Len(intents) + 1))
      <3>1. [user |-> session, key |-> p.op.key, tx |-> None] \in Intent
        BY <1>1 DEF Intent, Op
      <3>2. PICK intent : intent = [user |-> session, key |-> p.op.key, tx |-> None]
        OBVIOUS
      <3>3. /\ IntentsKept /\ Len(intents) + 1 \in DOMAIN intents' /\ Len(intents) + 1 \in Nat
        BY <2>3, <3>1, <3>2, IntentAdded
      <3>4. PICK id : id = Len(intents) + 1
        OBVIOUS
      <3> QED BY <2>1, <2>3, <3>3, <3>4
    <2> QED BY <1>7, <2>2, <2>3 DEF PrepareServed
  <1> QED BY <1>5, <1>6, <1>7

LEMMA AuthServedQuiet ==
  ASSUME TypeOK, NEW t \in Tabs, AuthServed(t)
  PROVE  QuietStep
  <1> DEFINE user == page[t].op.user
  <1>1. \A x \in Tabs : page[x] \in Page /\ StageOK(page[x])
    BY DEF TypeOK
  <1>2. user \in Someone
    BY <1>1 DEF Page, Op
  <1>3. /\ session' = user
        /\ known' = [x \in Tabs |-> known[x] \cup {user}]
        /\ UNCHANGED <<intents, wallet, pending, keys, trouble>>
        /\ page[t].op.at = "auth"
    BY DEF AuthServed, LogIn
  <1>4. page' = [x \in Tabs |->
          IF x = t THEN [page[x] EXCEPT !.op.at = "authAnswer", !.op.seen = {user}]
          ELSE IF page[x].op.at = "authAnswer" THEN [page[x] EXCEPT !.op.seen = @ \cup {user}]
          ELSE page[x]]
    BY DEF AuthServed, LogIn
  <1>5. ASSUME NEW x \in Tabs, x # t
        PROVE  Quieter(page'[x], page[x])
    <2>1. CASE page[x].op.at = "authAnswer"
      BY <1>1, <1>2, <1>4, <1>5, <2>1 DEF Quieter, Page, Op
    <2>2. CASE page[x].op.at # "authAnswer"
      BY <1>1, <1>4, <1>5, <2>2, QuieterSelf
    <2> QED BY <2>1, <2>2
  <1>6. Moves(t, page'[t], page[t])
    <2>1. page'[t] = [page[t] EXCEPT !.op.at = "authAnswer", !.op.seen = {user}]
      BY <1>4
    <2>2. PICK b : b = [page[t].op EXCEPT !.at = "authAnswer", !.seen = {user}]
      OBVIOUS
    <2>3. b \in Op /\ b.at = "authAnswer" /\ b.rec = None /\ b.call = None
      BY <1>1, <1>2, <1>3, <2>2 DEF Page, Op, Stages, StageOK
    <2>4. page'[t] = [page[t] EXCEPT !.op = b]
      BY <1>1, <2>1, <2>2 DEF Page, Op
    <2>5. /\ page'[t] \in Page /\ page'[t].op = b /\ page'[t].preview = page[t].preview
          /\ page'[t].submits = page[t].submits
      BY <1>1, <2>3, <2>4 DEF Page
    <2> QED BY <1>3, <2>3, <2>5 DEF Moves
  <1>7. page' \in [Tabs -> Page]
    <2>1. \A x \in Tabs : page'[x] \in Page
      BY <1>5, <1>6 DEF Quieter, Moves
    <2> QED BY <1>4, <2>1
  <1>8. \A x \in Tabs : Moves(x, page'[x], page[x])
    BY <1>5, <1>6, QuietMoves
  <1>9. /\ UNCHANGED <<pending, windows, sent>> /\ IntentsKept
        /\ session' \in Someone /\ account' \in Someone /\ keys' \in Nat /\ keys <= keys'
        /\ trouble' \in Nat /\ known' \in [Tabs -> SUBSET Someone]
    BY <1>2, <1>3 DEF wallet, IntentsKept, TypeOK
  <1> QED BY <1>5, <1>7, <1>8, <1>9 DEF QuietStep

LEMMA EndAuthQuiet ==
  ASSUME TypeOK, NEW t \in Tabs, EndAuth(t)
  PROVE  /\ QuietStep /\ session' = session
         /\ ~page'[t].refresh.fresh /\ page'[t].op.at = "idle"
         /\ \A x \in Tabs \ {t} : page'[x] = page[x]
         /\ \/ /\ page[t].op.at = "authAnswer" /\ page'[t].me = page[t].op.user
               /\ known' = [known EXCEPT ![t] = page[t].op.seen]
            \/ page'[t].me = page[t].me /\ known' = known
  <1> DEFINE p == page[t]
  <1>1. p \in Page /\ p.op.user \in Someone /\ p.op.seen \in SUBSET Someone
    BY DEF TypeOK, Page, Op
  <1>2. UNCHANGED <<session, intents, wallet, pending, keys, trouble>>
    BY DEF EndAuth
  <1>3. PICK q, r :
          /\ Turn(t, r) /\ r = Stopped(q) /\ Quieter(q, p) /\ ~q.refresh.fresh
          /\ \/ /\ p.op.at = "authAnswer" /\ q.me = p.op.user
                /\ known' = [known EXCEPT ![t] = p.op.seen]
             \/ p.op.at \in {"auth", "authAnswer"} /\ q.me = p.me /\ known' = known
    <2>1. CASE /\ p.op.at = "authAnswer" /\ Turn(t, Stopped(AuthChanged(SetMe(p, p.op.user))))
               /\ known' = [known EXCEPT ![t] = p.op.seen]
      <3>1. PICK m : m = SetMe(p, p.op.user)
        OBVIOUS
      <3>2. Quieter(m, p) /\ m \in Page /\ m.me = p.op.user
        BY <1>1, <3>1, SetMePage DEF Quieter
      <3>3. PICK q : q = AuthChanged(m)
        OBVIOUS
      <3>4. Quieter(q, p) /\ ~q.refresh.fresh /\ q.me = p.op.user
        BY <3>2, <3>3, AuthChangedPage, QuieterTrans
      <3>5. PICK r : r = Stopped(q)
        OBVIOUS
      <3> QED BY <2>1, <3>1, <3>3, <3>4, <3>5
    <2>2. CASE /\ p.op.at \in {"auth", "authAnswer"}
               /\ Turn(t, Stopped([AuthChanged(p) EXCEPT !.err = @ \/ p.op.user = None]))
               /\ UNCHANGED known
      <3>1. PICK m : m = AuthChanged(p)
        OBVIOUS
      <3>2. Quieter(m, p) /\ m \in Page /\ ~m.refresh.fresh /\ m.me = p.me
        BY <1>1, <3>1, AuthChangedPage DEF Quieter
      <3>3. PICK q : q = [m EXCEPT !.err = @ \/ p.op.user = None]
        OBVIOUS
      <3>4. Quieter(q, p) /\ ~q.refresh.fresh /\ q.me = p.me
        BY <3>2, <3>3 DEF Quieter, Page
      <3>5. PICK r : r = Stopped(q)
        OBVIOUS
      <3> QED BY <2>2, <3>1, <3>3, <3>4, <3>5
    <2> QED BY <2>1, <2>2 DEF EndAuth
  <1>4. r.me = q.me /\ r.refresh = q.refresh /\ r.op.at = "idle"
    BY <1>3, StoppedPage, IdlePage DEF Quieter
  <1>5. Moves(t, r, page[t])
    BY <1>1, <1>3, StopMoves
  <1>6. /\ page' \in [Tabs -> Page] /\ page'[t] = r
        /\ \A x \in Tabs : Moves(x, page'[x], page[x])
        /\ \A x, y \in Tabs : x # y => Quieter(page'[x], page[x]) \/ Quieter(page'[y], page[y])
    BY <1>3, <1>5, TurnMoves
  <1>7. /\ UNCHANGED <<pending, windows, sent>> /\ IntentsKept
        /\ session' \in Someone /\ account' \in Someone /\ keys' \in Nat /\ keys <= keys'
        /\ trouble' \in Nat /\ known' \in [Tabs -> SUBSET Someone]
    BY <1>1, <1>2, <1>3 DEF wallet, IntentsKept, TypeOK
  <1>8. QuietStep
    BY <1>6, <1>7 DEF QuietStep
  <1>9. \A x \in Tabs \ {t} : page'[x] = page[x]
    BY <1>3 DEF Turn, TypeOK
  <1> QED BY <1>2, <1>3, <1>4, <1>6, <1>8, <1>9

\* A quiet step keeps the types.
LEMMA QuietTypes ==
  ASSUME TypeOK, QuietStep
  PROVE  TypeOK'
  <1>1. ASSUME NEW t \in Tabs PROVE StageOK(page'[t])
    <2>1. Moves(t, page'[t], page[t]) /\ StageOK(page[t]) /\ page[t] \in Page
      BY DEF QuietStep, TypeOK
    <2>2. \A r \in Records : r \in Rec
      BY RecordsIn DEF TypeOK, Records
    <2>3. page[t].preview # None => page[t].preview \in Rec
      BY <2>1 DEF Page
    <2> QED BY <2>1, <2>2, <2>3 DEF Moves, Quieter, StageOK
  <1>2. ASSUME NEW w \in windows, w.tab # None PROVE page'[w.tab].op.at = "window"
    <2>1. w.tab \in Tabs /\ page[w.tab].op.at = "window"
      BY <1>2 DEF TypeOK, Window
    <2> QED BY <2>1 DEF QuietStep, Moves, Quieter
  <1>3. \A t \in Tabs : StageOK(page[t])'
    BY <1>1 DEF StageOK
  <1> QED BY <1>2, <1>3 DEF TypeOK, QuietStep, IntentsKept

-----------------------------------------------------------------------------
(* The steps that store records or concern the wallet *)

LEMMA StorePages ==
  ASSUME TypeOK, NEW t \in Tabs, NEW q \in Page, NEW records, Store(t, q, records)
  PROVE  Stored(t, records) /\ page'[t] = q
  <1>1. /\ pending' = records
        /\ page' = [x \in Tabs |->
             IF x = t THEN q
             ELSE IF page[x].preview # None /\ Taken(records, page[x].preview.key)
                  THEN Invalidated(page[x]) ELSE page[x]]
    BY DEF Store
  <1>2. ASSUME NEW x \in Tabs, x # t
        PROVE  /\ Quieter(page'[x], page[x]) /\ SameNews(page'[x], page[x]) /\ page'[x].me = page[x].me
               /\ page'[x].preview # None => ~Taken(records, page'[x].preview.key)
    <2>1. page[x] \in Page
      BY DEF TypeOK
    <2>2. CASE page[x].preview # None /\ Taken(records, page[x].preview.key)
      <3>1. page'[x] = Invalidated(page[x])
        BY <1>1, <1>2, <2>2
      <3> QED BY <2>1, <3>1, InvalidatedPage
    <2>3. CASE ~(page[x].preview # None /\ Taken(records, page[x].preview.key))
      <3>1. page'[x] = page[x]
        BY <1>1, <1>2, <2>3
      <3> QED BY <2>1, <2>3, <3>1, QuieterSelf
    <2> QED BY <2>2, <2>3
  <1>3. page'[t] = q
    BY <1>1
  <1>4. page' \in [Tabs -> Page]
    BY <1>1, <1>2, <1>3 DEF Quieter
  <1> QED BY <1>1, <1>2, <1>3, <1>4 DEF Stored, Written

LEMMA TurnPages ==
  ASSUME TypeOK, NEW t \in Tabs, NEW q \in Page, Turn(t, q)
  PROVE  Written(t) /\ page'[t] = q
  BY QuieterSelf DEF Turn, Written, TypeOK

\* Every tab learns what the page of the tab whose step it is has learnt.
LEMMA WrittenLearns ==
  ASSUME TypeOK, NEW t \in Tabs, Written(t), Learns(page'[t], page[t]), UNCHANGED <<session, known>>
  PROVE  Learning
  <1>1. \A x \in Tabs \ {t} : Learns(page'[x], page[x])
    BY NewsLearns DEF Written
  <1> QED BY <1>1 DEF Learning

\* The types are kept if the records stored are well-formed and distinct, and
\* tab t waits for at most one window, as it should.
LEMMA WrittenTypes ==
  ASSUME TypeOK, NEW t \in Tabs, Written(t), pending' \in Seq(Rec), Distinct(pending'),
         StageOK(page'[t]), windows' \subseteq Window,
         \A w \in windows' : w.tab # None =>
           IF w.tab = t THEN page'[t].op.at = "window" ELSE w \in windows,
         \A v, w \in windows' : w.tab # None /\ w.tab = t /\ v.tab = w.tab => v = w,
         intents' \in Seq(Intent), sent' \in Seq(Sent), session' \in Someone, account' \in Someone,
         keys' \in Nat, trouble' \in Nat, known' \in [Tabs -> SUBSET Someone]
  PROVE  TypeOK'
  <1>1. ASSUME NEW x \in Tabs PROVE StageOK(page'[x])
    <2>1. CASE x = t
      BY <2>1
    <2>2. CASE x # t
      BY <2>2 DEF Written, Quieter, StageOK, TypeOK
    <2> QED BY <2>1, <2>2
  <1>2. ASSUME NEW w \in windows', w.tab # None PROVE page'[w.tab].op.at = "window"
    <2>1. CASE w.tab = t
      BY <1>2, <2>1
    <2>2. CASE w.tab # t
      <3>1. w \in windows /\ w.tab \in Tabs
        BY <1>2, <2>2 DEF Window
      <3>2. page[w.tab].op.at = "window"
        BY <3>1, <1>2 DEF TypeOK
      <3> QED BY <3>1, <3>2, <2>2 DEF Written, Quieter
    <2> QED BY <2>1, <2>2
  <1>3. ASSUME NEW v \in windows', NEW w \in windows', w.tab # None, v.tab = w.tab PROVE v = w
    <2>1. CASE w.tab = t
      BY <1>3, <2>1
    <2>2. CASE w.tab # t
      <3>1. w \in windows /\ v \in windows
        BY <1>3, <2>2
      <3> QED BY <3>1, <1>3 DEF TypeOK
    <2> QED BY <2>1, <2>2
  <1>4. \A x \in Tabs : StageOK(page[x])'
    BY <1>1 DEF StageOK
  <1>5. Distinct(pending)'
    BY DEF Distinct
  <1> QED BY <1>2, <1>3, <1>4, <1>5 DEF TypeOK, Written

\* The chain gets one transaction more.
Broadcast(s) ==
  /\ sent' \in Seq(Sent) /\ Len(sent') = Len(sent) + 1
  /\ \A n \in DOMAIN sent : n \in DOMAIN sent' /\ sent'[n] = sent[n]
  /\ sent'[Len(sent) + 1] = s

LEMMA ApproveEffect ==
  ASSUME TypeOK, NEW w \in windows, Approve(w)
  PROVE  /\ TypeOK' /\ Learning
         /\ Broadcast([key |-> w.key, call |-> w.call, mined |-> FALSE])
         /\ windows' = windows \ {w} /\ UNCHANGED <<intents, pending, keys>>
         /\ \A x \in Tabs : x # w.tab \/ w.tab = None => page'[x] = page[x]
         /\ w.tab # None =>
              /\ w.tab \in Tabs /\ page[w.tab].op.at = "window" /\ page[w.tab].op.rec \in Rec
              /\ page'[w.tab].preview = page[w.tab].preview
              /\ page'[w.tab].submits = page[w.tab].submits
              /\ page'[w.tab].op.at = "hash"
              /\ page'[w.tab].op.rec = [page[w.tab].op.rec EXCEPT !.tx = Len(sent) + 1]
              /\ page'[w.tab].op.call = page[w.tab].op.call
  <1>1. w \in Window /\ (w.tab # None => w.tab \in Tabs)
    BY DEF TypeOK, Window
  <1>2. [key |-> w.key, call |-> w.call, mined |-> FALSE] \in Sent
    BY <1>1 DEF Window, Sent
  <1>3. Broadcast([key |-> w.key, call |-> w.call, mined |-> FALSE])
    <2>1. PICK s \in Sent : s = [key |-> w.key, call |-> w.call, mined |-> FALSE]
      BY <1>2
    <2>2. sent' = Append(sent, s) /\ sent \in Seq(Sent)
      BY <2>1 DEF Approve, TypeOK
    <2> QED BY <2>1, <2>2, AppendProperties DEF Broadcast
  <1>4. /\ windows' = windows \ {w} /\ UNCHANGED <<intents, pending, keys>>
        /\ UNCHANGED <<server, account, pending, keys, trouble>>
    BY DEF Approve, server
  <1>5. CASE w.tab = None
    <2>1. page' = page
      BY <1>5 DEF Approve
    <2>2. \A x \in Tabs : StageOK(page[x])' <=> StageOK(page[x])
      BY <2>1 DEF StageOK
    <2>3. TypeOK'
      BY <1>3, <1>4, <2>1, <2>2 DEF TypeOK, Broadcast, server, Distinct
    <2>4. Learning
      BY <1>4, <2>1 DEF Learning, Learns, server
    <2> QED BY <1>3, <1>4, <1>5, <2>1, <2>3, <2>4
  <1>6. CASE w.tab # None
    <2> DEFINE t == w.tab
               p == page[t]
    <2>1. t \in Tabs /\ p \in Page /\ p.op \in Op /\ p.op.at = "window" /\ p.op.rec \in Rec
      BY <1>1, <1>6 DEF TypeOK, Page, StageOK
    <2>2. PICK rec : rec = [p.op.rec EXCEPT !.tx = Len(sent) + 1]
      OBVIOUS
    <2>3. PICK b : b = [p.op EXCEPT !.at = "hash", !.rec = rec]
      OBVIOUS
    <2>4. PICK q : q = [p EXCEPT !.op = b]
      OBVIOUS
    <2>5. Len(sent) + 1 \in Nat
      BY DEF TypeOK
    <2>6. rec \in Rec
      BY <2>1, <2>2, <2>5 DEF Rec
    <2>7. b \in Op /\ b.at = "hash" /\ b.rec = rec /\ b.call = p.op.call
      BY <2>1, <2>3, <2>6 DEF Op, Stages
    <2>8. /\ q \in Page /\ q.op = b /\ q.preview = p.preview /\ q.submits = p.submits
          /\ q.me = p.me /\ q.refresh = p.refresh
      BY <2>1, <2>4, <2>7 DEF Page
    <2>9. q = [p EXCEPT !.op.at = "hash", !.op.rec.tx = Len(sent) + 1]
      BY <2>1, <2>2, <2>3, <2>4 DEF Page, Op
    <2>10. Turn(t, q)
      BY <1>6, <2>9 DEF Approve
    <2>11. Written(t) /\ page'[t] = q
      BY <2>1, <2>8, <2>10, TurnPages
    <2>12. StageOK(q)
      BY <2>6, <2>7, <2>8 DEF StageOK
    <2>13. \A x \in Tabs : x # t => page'[x] = page[x]
      BY <2>10 DEF Turn, TypeOK
    <2>14. \A v \in windows' : v.tab # t
      BY <1>4, <1>6 DEF TypeOK
    <2>15. TypeOK'
      <3>1. /\ windows' \subseteq Window /\ intents' \in Seq(Intent) /\ sent' \in Seq(Sent)
            /\ session' \in Someone /\ account' \in Someone /\ keys' \in Nat /\ trouble' \in Nat
            /\ known' \in [Tabs -> SUBSET Someone]
            /\ pending' \in Seq(Rec) /\ Distinct(pending')
        BY <1>3, <1>4 DEF TypeOK, Broadcast, server
      <3>2. /\ \A v \in windows' : v.tab # None =>
                 IF v.tab = t THEN page'[t].op.at = "window" ELSE v \in windows
            /\ \A u, v \in windows' : v.tab # None /\ v.tab = t /\ u.tab = v.tab => u = v
        BY <1>4, <2>14
      <3>3. PICK y \in Tabs : y = t
        BY <2>1
      <3> QED BY <2>11, <2>12, <3>1, <3>2, <3>3, WrittenTypes
    <2>16. Learning
      <3>1. Learns(q, p)
        BY <2>7, <2>8 DEF Learns
      <3>2. PICK y \in Tabs : y = t
        BY <2>1
      <3> QED BY <1>4, <2>11, <3>1, <3>2, WrittenLearns DEF server
    <2> QED BY <1>3, <1>4, <1>6, <2>1, <2>2, <2>7, <2>8, <2>11, <2>13, <2>15, <2>16
  <1> QED BY <1>5, <1>6

LEMMA MineEffect ==
  ASSUME TypeOK, NEW n \in DOMAIN sent, Mine(n)
  PROVE  /\ TypeOK' /\ Learning
         /\ UNCHANGED <<intents, windows, pending, page, keys>>
         /\ DOMAIN sent' = DOMAIN sent
         /\ \A m \in DOMAIN sent : /\ sent'[m].key = sent[m].key /\ sent'[m].call = sent[m].call
                                   /\ sent[m].mined => sent'[m].mined
  <1>1. /\ sent' = [sent EXCEPT ![n].mined = TRUE] /\ sent \in Seq(Sent)
        /\ UNCHANGED <<server, account, windows, pending, page, keys, trouble>>
    BY DEF Mine, TypeOK
  <1>2. \A m \in DOMAIN sent : sent[m] \in Sent
    BY <1>1
  <1>3. [sent[n] EXCEPT !.mined = TRUE] \in Sent
    BY <1>2 DEF Sent
  <1>4. sent' \in Seq(Sent) /\ DOMAIN sent' = DOMAIN sent
    BY <1>1, <1>3
  <1>5. \A m \in DOMAIN sent : /\ sent'[m].key = sent[m].key /\ sent'[m].call = sent[m].call
                               /\ sent[m].mined => sent'[m].mined
    BY <1>1, <1>2 DEF Sent
  <1>6. \A x \in Tabs : StageOK(page[x])' <=> StageOK(page[x])
    BY <1>1 DEF StageOK
  <1>7. TypeOK'
    BY <1>1, <1>4, <1>6 DEF TypeOK, server, Distinct
  <1>8. Learning
    BY <1>1 DEF Learning, Learns, server
  <1> QED BY <1>1, <1>4, <1>5, <1>7, <1>8 DEF server

\* A tab whose request is gone has stored what became of it and is idle.
Answered(t, rec) ==
  /\ t \in Tabs /\ page[t].op.at = "window" /\ page[t].op.rec \in Rec
  /\ Stored(t, With(rec))
  /\ page'[t].op = Idle /\ page'[t].submits = page[t].submits
  /\ page'[t].preview \in {None, rec}

LEMMA RejectEffect ==
  ASSUME TypeOK, NEW w \in windows, Reject(w)
  PROVE  /\ TypeOK' /\ Learning
         /\ windows' = windows \ {w} /\ UNCHANGED <<intents, sent, keys>>
         /\ w.tab = None => UNCHANGED <<pending, page>>
         /\ w.tab # None =>
              Answered(w.tab, [page[w.tab].op.rec EXCEPT !.phase = "AWAITING_SIGNATURE"])
  <1>1. w \in Window /\ (w.tab # None => w.tab \in Tabs)
    BY DEF TypeOK, Window
  <1>2. windows' = windows \ {w} /\ UNCHANGED <<server, account, sent, keys, trouble>>
    BY DEF Reject
  <1>3. CASE w.tab = None
    <2>1. UNCHANGED <<pending, page>>
      BY <1>3 DEF Reject
    <2>2. \A x \in Tabs : StageOK(page[x])' <=> StageOK(page[x])
      BY <2>1 DEF StageOK
    <2>3. TypeOK'
      BY <1>2, <2>1, <2>2 DEF TypeOK, server, Distinct
    <2>4. Learning
      BY <1>2, <2>1 DEF Learning, Learns, server
    <2> QED BY <1>2, <1>3, <2>1, <2>3, <2>4 DEF server
  <1>4. CASE w.tab # None
    <2>1. PICK t \in Tabs : t = w.tab
      BY <1>1, <1>4
    <2> DEFINE p == page[t]
    <2>2. p \in Page /\ p.op.at = "window" /\ p.op.rec \in Rec
      BY <1>4, <2>1 DEF TypeOK, StageOK
    <2>3. PICK rec : rec = [p.op.rec EXCEPT !.phase = "AWAITING_SIGNATURE"]
      OBVIOUS
    <2>4. rec \in Rec
      BY <2>2, <2>3 DEF Rec, Phases
    <2>5. PICK q : q = [Stopped(p) EXCEPT !.preview = IF @ = None THEN None ELSE rec]
      OBVIOUS
    <2>6. /\ q \in Page /\ q.op = Idle /\ q.submits = p.submits /\ q.preview \in {None, rec}
          /\ q.me = p.me /\ q.refresh = p.refresh
      BY <2>2, <2>4, <2>5, StoppedPage DEF Page
    <2>7. Store(t, q, With(rec))
      BY <1>4, <2>1, <2>3, <2>5 DEF Reject
    <2>8. PICK records : records = With(rec)
      OBVIOUS
    <2>9. Stored(t, records) /\ page'[t] = q
      BY <2>6, <2>7, <2>8, StorePages
    <2>10. records \in Seq(Rec) /\ Distinct(records)
      BY <2>4, <2>8, WithRecord DEF TypeOK
    <2>11. \A v \in windows' : v.tab # t
      BY <1>2, <1>4, <2>1 DEF TypeOK
    <2>12. Written(t) /\ pending' = records
      BY <2>9 DEF Stored
    <2>13. TypeOK'
      <3>1. /\ windows' \subseteq Window /\ intents' \in Seq(Intent) /\ sent' \in Seq(Sent)
            /\ session' \in Someone /\ account' \in Someone /\ keys' \in Nat /\ trouble' \in Nat
            /\ known' \in [Tabs -> SUBSET Someone]
        BY <1>2 DEF TypeOK, server
      <3>2. StageOK(page'[t])
        BY <2>6, <2>9, IdlePage DEF StageOK
      <3>3. pending' \in Seq(Rec) /\ Distinct(pending')
        BY <2>10, <2>12
      <3> QED BY <1>2, <2>11, <2>12, <3>1, <3>2, <3>3, WrittenTypes
    <2>14. Learning
      <3>1. Learns(q, p)
        BY <2>6, IdlePage DEF Learns
      <3> QED BY <1>2, <2>9, <2>12, <3>1, WrittenLearns DEF server
    <2>15. Answered(t, rec)
      BY <2>2, <2>6, <2>8, <2>9 DEF Answered
    <2> QED BY <1>2, <1>4, <2>1, <2>3, <2>13, <2>14, <2>15 DEF server
  <1> QED BY <1>3, <1>4

LEMMA FaultEffect ==
  ASSUME TypeOK, NEW w \in windows, Fault(w)
  PROVE  /\ TypeOK' /\ Learning
         /\ windows' \subseteq (windows \ {w}) \cup {[w EXCEPT !.tab = None]}
         /\ UNCHANGED <<intents, sent, keys>> /\ w.tab # None
         /\ Answered(w.tab, [page[w.tab].op.rec EXCEPT !.phase = "UNKNOWN"])
         /\ page'[w.tab].preview = None
  <1>1. /\ w \in Window /\ w.tab # None /\ UNCHANGED <<server, account, sent, keys>> /\ Trouble
        /\ windows' \subseteq (windows \ {w}) \cup {[w EXCEPT !.tab = None]}
    BY DEF TypeOK, Fault
  <1>2. PICK t \in Tabs : t = w.tab
    BY <1>1 DEF Window
  <1> DEFINE p == page[t]
  <1>3. p \in Page /\ p.op.at = "window" /\ p.op.rec \in Rec
    BY <1>1, <1>2 DEF TypeOK, StageOK
  <1>4. PICK rec : rec = [p.op.rec EXCEPT !.phase = "UNKNOWN"]
    OBVIOUS
  <1>5. rec \in Rec
    BY <1>3, <1>4 DEF Rec, Phases
  <1>6. PICK q : q = [Stopped(p) EXCEPT !.preview = None]
    OBVIOUS
  <1>7. /\ q \in Page /\ q.op = Idle /\ q.submits = p.submits /\ q.preview = None
        /\ q.me = p.me /\ q.refresh = p.refresh
    BY <1>3, <1>6, StoppedPage DEF Page
  <1>8. Store(t, q, With(rec))
    BY <1>2, <1>4, <1>6 DEF Fault
  <1>9. PICK records : records = With(rec)
    OBVIOUS
  <1>10. Stored(t, records) /\ page'[t] = q
    BY <1>7, <1>8, <1>9, StorePages
  <1>11. records \in Seq(Rec) /\ Distinct(records)
    BY <1>5, <1>9, WithRecord DEF TypeOK
  <1>12. [w EXCEPT !.tab = None] \in Window /\ [w EXCEPT !.tab = None].tab = None
    BY <1>1 DEF Window
  <1>13. \A v \in windows' : v.tab # t
    BY <1>1, <1>2, <1>12 DEF TypeOK
  <1>14. Written(t) /\ pending' = records
    BY <1>10 DEF Stored
  <1>15. TypeOK'
    <2>1. /\ windows' \subseteq Window /\ intents' \in Seq(Intent) /\ sent' \in Seq(Sent)
          /\ session' \in Someone /\ account' \in Someone /\ keys' \in Nat /\ trouble' \in Nat
          /\ known' \in [Tabs -> SUBSET Someone]
      BY <1>1, <1>12 DEF TypeOK, server, Trouble
    <2>2. StageOK(page'[t])
      BY <1>7, <1>10, IdlePage DEF StageOK
    <2>3. pending' \in Seq(Rec) /\ Distinct(pending')
      BY <1>11, <1>14
    <2>4. \A v \in windows' : v.tab # None => v \in windows
      BY <1>1, <1>12
    <2> QED BY <1>13, <1>14, <2>1, <2>2, <2>3, <2>4, WrittenTypes
  <1>16. Learning
    <2>1. Learns(q, p)
      BY <1>7, IdlePage DEF Learns
    <2> QED BY <1>1, <1>10, <1>14, <2>1, WrittenLearns DEF server
  <1>17. Answered(t, rec)
    BY <1>3, <1>7, <1>9, <1>10 DEF Answered
  <1> QED BY <1>1, <1>2, <1>4, <1>7, <1>10, <1>15, <1>16, <1>17 DEF server

\* The answer to a preparation: a record of the call under the key of an earlier
\* one or a new key, shown and stored.
PreparedRecord(t, rec) ==
  /\ page[t].op.at = "answer" /\ page[t].op.fresh /\ PaidByMe(page[t], page[t].op.call.id)
  /\ rec \in Rec /\ rec.call = page[t].op.call /\ rec.user = page[t].op.user
  /\ rec.phase = "AWAITING_SIGNATURE" /\ rec.tx = None
  /\ rec.key = IF page[t].op.rec # None THEN page[t].op.rec.key ELSE keys + 1
  /\ keys' \in Nat /\ keys <= keys' /\ (rec.key = keys + 1 => keys' = rec.key)
  /\ Stored(t, With(rec))
  /\ page'[t].op = Idle /\ page'[t].preview = rec /\ page'[t].submits = page[t].submits
  /\ UNCHANGED <<intents, windows, sent>>

LEMMA PreparedEffect ==
  ASSUME TypeOK, NEW t \in Tabs, Prepared(t)
  PROVE  /\ TypeOK' /\ Learning
         /\ QuietStep \/ \E rec : PreparedRecord(t, rec)
  <1> DEFINE p == page[t]
             previous == p.op.rec
  <1>1. p \in Page /\ p.op \in Op /\ p.op.at = "answer" /\ p.op.call \in Calls /\ keys \in Nat
    BY DEF TypeOK, Page, StageOK, Prepared
  <1>2. UNCHANGED <<server, wallet, trouble>>
    BY DEF Prepared
  <1>3. CASE ~(p.op.fresh /\ PaidByMe(p, p.op.call.id))
    <2>1. PICK r : r = Stopped(p)
      OBVIOUS
    <2>2. Moves(t, r, page[t]) /\ Learns(r, page[t])
      BY <1>1, <2>1, StopMoves, QuieterSelf
    <2>3. Turn(t, r) /\ UNCHANGED <<pending, keys>>
      BY <1>3, <2>1 DEF Prepared
    <2>4. QuietStep /\ Learning
      BY <1>2, <2>2, <2>3, TurnOnly
    <2> QED BY <2>4, QuietTypes
  <1>4. CASE p.op.fresh /\ PaidByMe(p, p.op.call.id)
    <2>1. PICK k \in IF previous # None THEN {previous.key} ELSE {keys + 1} \cap 1..MaxKeys :
            LET rec == [key |-> k, call |-> p.op.call, user |-> p.op.user, prepareKey |-> p.op.key,
                        phase |-> "AWAITING_SIGNATURE", tx |-> None]
            IN  /\ keys' = IF k = keys + 1 THEN k ELSE keys
                /\ Store(t, [Stopped(p) EXCEPT !.preview = rec], With(rec))
      BY <1>4 DEF Prepared
    <2>2. PICK rec : rec = [key |-> k, call |-> p.op.call, user |-> p.op.user,
                            prepareKey |-> p.op.key, phase |-> "AWAITING_SIGNATURE", tx |-> None]
      OBVIOUS
    <2>3. previous # None => previous.key \in Nat
      BY <1>1 DEF Op, Rec
    <2>4. k \in Nat
      BY <1>1, <2>1, <2>3
    <2>5. rec \in Rec
      BY <1>1, <2>2, <2>4 DEF Rec, Phases, Op
    <2>6. PICK q : q = [Stopped(p) EXCEPT !.preview = rec]
      OBVIOUS
    <2>7. /\ q \in Page /\ q.op = Idle /\ q.submits = p.submits /\ q.preview = rec
          /\ q.me = p.me /\ q.refresh = p.refresh
      BY <1>1, <2>5, <2>6, StoppedPage DEF Page
    <2>8. PICK records : records = With(rec)
      OBVIOUS
    <2>9. Stored(t, records) /\ page'[t] = q
      BY <2>1, <2>2, <2>6, <2>7, <2>8, StorePages
    <2>10. records \in Seq(Rec) /\ Distinct(records)
      BY <2>5, <2>8, WithRecord DEF TypeOK
    <2>11. Written(t) /\ pending' = records
      BY <2>9 DEF Stored
    <2>12. keys' \in Nat /\ keys <= keys' /\ (k = keys + 1 => keys' = k)
      BY <1>1, <2>1, <2>4
    <2>13. TypeOK'
      <3>1. /\ windows' = windows /\ windows' \subseteq Window
            /\ intents' \in Seq(Intent) /\ sent' \in Seq(Sent)
            /\ session' \in Someone /\ account' \in Someone /\ keys' \in Nat /\ trouble' \in Nat
            /\ known' \in [Tabs -> SUBSET Someone]
        BY <1>2, <2>12 DEF TypeOK, server, wallet
      <3>2. StageOK(page'[t])
        BY <2>7, <2>9, IdlePage DEF StageOK
      <3>3. pending' \in Seq(Rec) /\ Distinct(pending')
        BY <2>10, <2>11
      <3>4. \A w \in windows' : w.tab # None => w.tab # t /\ w \in windows
        BY <1>1, <3>1 DEF TypeOK
      <3> QED BY <2>11, <3>1, <3>2, <3>3, <3>4, WrittenTypes
    <2>14. Learning
      <3>1. Learns(q, p)
        BY <2>7, IdlePage DEF Learns
      <3> QED BY <1>2, <2>9, <2>11, <3>1, WrittenLearns DEF server
    <2>15. /\ rec.call = p.op.call /\ rec.user = p.op.user /\ rec.key = k
           /\ rec.phase = "AWAITING_SIGNATURE" /\ rec.tx = None
      BY <2>2
    <2>16. rec.key = IF previous # None THEN previous.key ELSE keys + 1
      BY <2>1, <2>15
    <2>17. PreparedRecord(t, rec)
      BY <1>1, <1>2, <1>4, <2>5, <2>7, <2>8, <2>9, <2>12, <2>15, <2>16
         DEF PreparedRecord, server, wallet
    <2> QED BY <2>13, <2>14, <2>17
  <1> QED BY <1>3, <1>4

\* The wallet is asked for a record that was stored as being sent.
StagedRecord(t, rec) ==
  /\ page[t].op.at = "identity" /\ page[t].op.fresh
  /\ rec = [page[t].op.rec EXCEPT !.phase = "SENDING"] /\ rec \in Rec
  /\ page[t].op.rec \in Rec /\ ~Taken(pending, rec.key)
  /\ windows' = windows \cup {[key |-> rec.key, call |-> rec.call, tab |-> t]}
  /\ Stored(t, With(rec))
  /\ page'[t].op.at = "window" /\ page'[t].op.rec = rec /\ page'[t].op.call = page[t].op.call
  /\ page'[t].preview = page[t].preview /\ page'[t].submits = page[t].submits
  /\ UNCHANGED <<intents, sent, keys>>

LEMMA StagedEffect ==
  ASSUME TypeOK, NEW t \in Tabs, Staged(t)
  PROVE  /\ TypeOK' /\ Learning
         /\ QuietStep \/ \E rec : StagedRecord(t, rec)
  <1> DEFINE p == page[t]
  <1>1. /\ p \in Page /\ p.op \in Op /\ p.op.at = "identity" /\ p.op.rec \in Rec /\ p.op.fresh
        /\ UNCHANGED <<server, account, sent, keys, trouble>>
    BY DEF TypeOK, Page, StageOK, Staged, Identified
  <1>2. PICK rec : rec = [p.op.rec EXCEPT !.phase = "SENDING"]
    OBVIOUS
  <1>3. rec \in Rec
    BY <1>1, <1>2 DEF Rec, Phases
  <1>4. CASE Taken(pending, rec.key) \/ ~PaidByMe(p, rec.call.id) \/ rec.user # p.op.user
    <2>1. PICK r, q : /\ q \in {p, Invalidated(p)} /\ r = Stopped(q)
                      /\ Turn(t, r) /\ UNCHANGED <<pending, windows>>
      BY <1>2, <1>4 DEF Staged
    <2>2. Quieter(q, p) /\ SameNews(q, p) /\ q.me = p.me
      BY <1>1, <2>1, QuieterSelf, InvalidatedPage
    <2>3. Moves(t, r, page[t]) /\ Learns(r, page[t])
      BY <1>1, <2>1, <2>2, StopMoves
    <2>4. QuietStep /\ Learning
      BY <1>1, <2>1, <2>3, TurnOnly DEF wallet
    <2> QED BY <2>4, QuietTypes
  <1>5. CASE ~(Taken(pending, rec.key) \/ ~PaidByMe(p, rec.call.id) \/ rec.user # p.op.user)
    <2>1. PICK w : w = [key |-> rec.key, call |-> rec.call, tab |-> t]
      OBVIOUS
    <2>2. /\ windows' = windows \cup {w}
          /\ Store(t, [p EXCEPT !.op.at = "window", !.op.rec = rec], With(rec))
      BY <1>2, <1>5, <2>1 DEF Staged
    <2>3. PICK b : b = [p.op EXCEPT !.at = "window", !.rec = rec]
      OBVIOUS
    <2>4. PICK q : q = [p EXCEPT !.op = b]
      OBVIOUS
    <2>5. b \in Op /\ b.at = "window" /\ b.rec = rec /\ b.call = p.op.call
      BY <1>1, <1>3, <2>3 DEF Op, Stages
    <2>6. /\ q \in Page /\ q.op = b /\ q.submits = p.submits /\ q.preview = p.preview
          /\ q.me = p.me /\ q.refresh = p.refresh
      BY <1>1, <2>4, <2>5 DEF Page
    <2>7. q = [p EXCEPT !.op.at = "window", !.op.rec = rec]
      BY <1>1, <2>3, <2>4 DEF Page, Op
    <2>8. PICK records : records = With(rec)
      OBVIOUS
    <2>9. Stored(t, records) /\ page'[t] = q
      BY <2>2, <2>6, <2>7, <2>8, StorePages
    <2>10. records \in Seq(Rec) /\ Distinct(records)
      BY <1>3, <2>8, WithRecord DEF TypeOK
    <2>11. Written(t) /\ pending' = records
      BY <2>9 DEF Stored
    <2>12. w \in Window /\ w.tab = t
      BY <1>3, <2>1 DEF Window, Rec
    <2>13. \A v \in windows : v.tab # None => v.tab # t
      BY <1>1 DEF TypeOK
    <2>14. TypeOK'
      <3>1. /\ windows' \subseteq Window /\ intents' \in Seq(Intent) /\ sent' \in Seq(Sent)
            /\ session' \in Someone /\ account' \in Someone /\ keys' \in Nat /\ trouble' \in Nat
            /\ known' \in [Tabs -> SUBSET Someone]
        BY <1>1, <2>2, <2>12 DEF TypeOK, server
      <3>2. StageOK(page'[t])
        BY <1>3, <2>5, <2>6, <2>9 DEF StageOK
      <3>3. pending' \in Seq(Rec) /\ Distinct(pending')
        BY <2>10, <2>11
      <3>4. page'[t].op.at = "window"
        BY <2>5, <2>6, <2>9
      <3>5. \A v \in windows' : v.tab # None => IF v.tab = t THEN v = w ELSE v \in windows
        BY <2>2, <2>12, <2>13
      <3> QED BY <2>11, <3>1, <3>2, <3>3, <3>4, <3>5, WrittenTypes
    <2>15. Learning
      <3>1. Learns(q, p)
        BY <2>5, <2>6 DEF Learns
      <3> QED BY <1>1, <2>9, <2>11, <3>1, WrittenLearns DEF server
    <2>16. StagedRecord(t, rec)
      BY <1>1, <1>2, <1>3, <1>5, <2>1, <2>2, <2>5, <2>6, <2>8, <2>9 DEF StagedRecord, server
    <2> QED BY <2>14, <2>15, <2>16
  <1> QED BY <1>4, <1>5

\* A report that begins is of a donation, and changes nothing else of the page.
LEMMA SubmittingPage ==
  ASSUME NEW p \in Page, NEW rec \in Rec
  PROVE  /\ Submitting(p, rec) \in Page
         /\ \/ Submitting(p, rec) = p
            \/ /\ rec.call.name = "donate" /\ Submitting(p, rec).op = p.op
               /\ Submitting(p, rec).preview = p.preview
               /\ Submitting(p, rec).me = p.me /\ Submitting(p, rec).refresh = p.refresh
               /\ Submitting(p, rec).submits = p.submits \cup {[rec |-> rec, ok |-> FALSE]}
  <1>1. [rec |-> rec, ok |-> FALSE] \in Submit
    BY DEF Submit
  <1>2. p.submits \cup {[rec |-> rec, ok |-> FALSE]} \subseteq Submit
    BY <1>1 DEF Page
  <1>3. CASE rec.call.name = "donate" /\ p.me = rec.user /\ ~\E s \in p.submits : s.rec.key = rec.key
    <2>1. Submitting(p, rec) = [p EXCEPT !.submits = p.submits \cup {[rec |-> rec, ok |-> FALSE]}]
      BY <1>3 DEF Submitting
    <2> QED BY <1>2, <1>3, <2>1 DEF Page
  <1>4. CASE ~(rec.call.name = "donate" /\ p.me = rec.user /\ ~\E s \in p.submits : s.rec.key = rec.key)
    BY <1>4 DEF Submitting
  <1> QED BY <1>3, <1>4

\* Tab t stores a record with the hash of its transaction and may report it.
HashStored(t, rec) ==
  /\ rec \in Rec /\ rec.phase = "SUBMITTED"
  /\ Stored(t, With(rec))
  /\ page'[t].preview \in {page[t].preview, None}
  /\ \/ page'[t].submits = page[t].submits
     \/ /\ rec.call.name = "donate"
        /\ page'[t].submits = page[t].submits \cup {[rec |-> rec, ok |-> FALSE]}
  /\ UNCHANGED <<intents, windows, sent, keys>>

LEMMA HashStoredTypes ==
  ASSUME TypeOK, NEW t \in Tabs, NEW rec, HashStored(t, rec), StageOK(page'[t]),
         page[t].op.at = "window" => page'[t].op.at = "window",
         UNCHANGED <<session, known, account, trouble>>
  PROVE  TypeOK'
  <1>1. /\ windows' \subseteq Window /\ intents' \in Seq(Intent) /\ sent' \in Seq(Sent)
        /\ session' \in Someone /\ account' \in Someone /\ keys' \in Nat /\ trouble' \in Nat
        /\ known' \in [Tabs -> SUBSET Someone] /\ windows' = windows
    BY DEF TypeOK, HashStored
  <1>2. PICK records : records = With(rec)
    OBVIOUS
  <1>3. Written(t) /\ pending' \in Seq(Rec) /\ Distinct(pending')
    BY WithRecord DEF HashStored, Stored, TypeOK
  <1>4. /\ \A w \in windows' : w.tab # None =>
             IF w.tab = t THEN page'[t].op.at = "window" ELSE w \in windows
        /\ \A v, w \in windows' : w.tab # None /\ w.tab = t /\ v.tab = w.tab => v = w
    BY <1>1 DEF TypeOK
  <1> QED BY <1>1, <1>3, <1>4, WrittenTypes

LEMMA HashReturnedEffect ==
  ASSUME TypeOK, NEW t \in Tabs, HashReturned(t)
  PROVE  LET rec == [page[t].op.rec EXCEPT !.phase = "SUBMITTED"]
         IN  /\ TypeOK' /\ Learning /\ HashStored(t, rec)
             /\ page[t].op.at = "hash" /\ page[t].op.rec \in Rec /\ page'[t].preview = None
             /\ \/ page'[t].op = Idle
                \/ /\ page'[t].op.at = "submit" /\ page'[t].op.rec = rec
                   /\ page'[t].op.call = page[t].op.call
  <1> DEFINE p == page[t]
  <1>1. /\ p \in Page /\ p.op \in Op /\ p.op.at = "hash" /\ p.op.rec \in Rec
        /\ UNCHANGED <<server, wallet, keys, trouble>>
    BY DEF TypeOK, Page, StageOK, HashReturned
  <1>2. PICK rec : rec = [p.op.rec EXCEPT !.phase = "SUBMITTED"]
    OBVIOUS
  <1>3. rec \in Rec /\ rec.phase = "SUBMITTED"
    BY <1>1, <1>2 DEF Rec, Phases
  <1>4. PICK done : done = [p EXCEPT !.preview = None, !.prep = None]
    OBVIOUS
  <1>5. /\ done \in Page /\ done.op = p.op /\ done.preview = None /\ done.submits = p.submits
        /\ done.me = p.me /\ done.refresh = p.refresh
    BY <1>1, <1>4 DEF Page
  <1>6. PICK d : d = [done EXCEPT !.op.at = "submit", !.op.rec = rec]
    OBVIOUS
  <1>7. /\ d \in Page /\ d.op.at = "submit" /\ d.op.rec = rec /\ d.op.call = p.op.call
        /\ d.preview = None /\ d.submits = p.submits
        /\ d.me = p.me /\ d.refresh = p.refresh
    <2>1. PICK b : b = [p.op EXCEPT !.at = "submit", !.rec = rec]
      OBVIOUS
    <2>2. b \in Op /\ b.at = "submit" /\ b.rec = rec /\ b.call = p.op.call
      BY <1>1, <1>3, <2>1 DEF Op, Stages
    <2>3. d = [done EXCEPT !.op = b]
      BY <1>1, <1>5, <1>6, <2>1 DEF Page, Op
    <2> QED BY <1>5, <2>2, <2>3 DEF Page
  <1>8. PICK q : /\ Store(t, q, With(rec))
                 /\ q = Stopped(done) \/ q = Submitting(d, rec)
    BY <1>2, <1>4, <1>6 DEF HashReturned
  <1>9. /\ q \in Page /\ q.preview = None /\ q.me = p.me /\ q.refresh = p.refresh
        /\ \/ q.op = Idle
           \/ q.op.at = "submit" /\ q.op.rec = rec /\ q.op.call = p.op.call
        /\ \/ q.submits = p.submits
           \/ rec.call.name = "donate" /\ q.submits = p.submits \cup {[rec |-> rec, ok |-> FALSE]}
    <2>1. CASE q = Stopped(done)
      BY <1>5, <2>1, StoppedPage
    <2>2. CASE q = Submitting(d, rec)
      BY <1>3, <1>7, <2>2, SubmittingPage
    <2> QED BY <1>8, <2>1, <2>2
  <1>10. PICK records : records = With(rec)
    OBVIOUS
  <1>11. Stored(t, records) /\ page'[t] = q
    BY <1>8, <1>9, <1>10, StorePages
  <1>12. HashStored(t, rec)
    BY <1>1, <1>3, <1>9, <1>10, <1>11 DEF HashStored, server, wallet
  <1>13. StageOK(page'[t])
    BY <1>9, <1>11, IdlePage DEF StageOK
  <1>14. TypeOK'
    BY <1>1, <1>12, <1>13, HashStoredTypes DEF server, wallet
  <1>15. Learning
    <2>1. Learns(q, p) /\ Written(t)
      BY <1>9, <1>11, IdlePage DEF Learns, Stored
    <2> QED BY <1>1, <1>11, <2>1, WrittenLearns DEF server
  <1> QED BY <1>1, <1>2, <1>9, <1>11, <1>12, <1>14, <1>15

LEMMA RecoverEffect ==
  ASSUME TypeOK, NEW t \in Tabs, Recover(t)
  PROVE  /\ TypeOK' /\ Learning
         /\ page'[t].op = page[t].op /\ page'[t].preview = page[t].preview
         /\ page'[t].me = page[t].me
         /\ \E r \in Records, n \in DOMAIN sent :
              /\ r.tx = None /\ r.phase \in {"SENDING", "UNKNOWN"} /\ sent[n].key = r.key
              /\ HashStored(t, [r EXCEPT !.tx = n, !.phase = "SUBMITTED"])
  <1> DEFINE p == page[t]
  <1>1. p \in Page /\ StageOK(p) /\ UNCHANGED <<server, wallet, keys, trouble>>
    BY DEF TypeOK, Recover
  <1>2. PICK r \in Records, n \in DOMAIN sent :
          /\ r.tx = None /\ r.phase \in {"SENDING", "UNKNOWN"} /\ sent[n].key = r.key
          /\ LET rec == [r EXCEPT !.tx = n, !.phase = "SUBMITTED"]
             IN  Store(t, Submitting(p, rec), With(rec))
    BY DEF Recover
  <1>3. r \in Rec /\ n \in Nat
    BY RecordsIn DEF TypeOK, Records
  <1>4. PICK rec : rec = [r EXCEPT !.tx = n, !.phase = "SUBMITTED"]
    OBVIOUS
  <1>5. rec \in Rec /\ rec.phase = "SUBMITTED"
    BY <1>3, <1>4 DEF Rec, Phases
  <1>6. PICK q : q = Submitting(p, rec)
    OBVIOUS
  <1>7. /\ q \in Page /\ q.op = p.op /\ q.preview = p.preview
        /\ q.me = p.me /\ q.refresh = p.refresh
        /\ \/ q.submits = p.submits
           \/ rec.call.name = "donate" /\ q.submits = p.submits \cup {[rec |-> rec, ok |-> FALSE]}
    BY <1>1, <1>5, <1>6, SubmittingPage
  <1>8. PICK records : records = With(rec)
    OBVIOUS
  <1>9. Stored(t, records) /\ page'[t] = q
    BY <1>2, <1>4, <1>6, <1>7, <1>8, StorePages
  <1>10. HashStored(t, rec)
    BY <1>1, <1>5, <1>7, <1>8, <1>9 DEF HashStored, server, wallet
  <1>11. StageOK(page'[t])
    BY <1>1, <1>7, <1>9 DEF StageOK
  <1>12. TypeOK'
    BY <1>1, <1>7, <1>9, <1>10, <1>11, HashStoredTypes DEF server, wallet
  <1>13. Learning
    <2>1. Learns(q, p) /\ Written(t)
      BY <1>7, <1>9 DEF Learns, Stored
    <2> QED BY <1>1, <1>9, <2>1, WrittenLearns DEF server
  <1> QED BY <1>2, <1>4, <1>7, <1>9, <1>10, <1>12, <1>13

LEMMA RetryEffect ==
  ASSUME TypeOK, NEW t \in Tabs, Retry(t)
  PROVE  /\ TypeOK' /\ Learning
         /\ UNCHANGED <<intents, windows, sent, pending, keys>>
         /\ \A x \in Tabs \ {t} : page'[x] = page[x]
         /\ page'[t].op = page[t].op /\ page'[t].preview = page[t].preview
         /\ page'[t].me = page[t].me
         /\ \E r \in Records :
              /\ r.tx # None /\ r.call.name = "donate"
              /\ page'[t].submits = page[t].submits \cup {[rec |-> r, ok |-> FALSE]}
  <1> DEFINE p == page[t]
  <1>1. p \in Page /\ StageOK(p) /\ UNCHANGED <<server, wallet, pending, keys, trouble>>
    BY DEF TypeOK, Retry
  <1>2. PICK r \in Records : r.tx # None /\ Submitting(p, r) # p /\ Turn(t, Submitting(p, r))
    BY DEF Retry
  <1>3. r \in Rec
    BY RecordsIn DEF TypeOK, Records
  <1>4. PICK q : q = Submitting(p, r)
    OBVIOUS
  <1>5. /\ q \in Page /\ q.op = p.op /\ q.preview = p.preview /\ q.me = p.me
        /\ q.refresh = p.refresh /\ r.call.name = "donate"
        /\ q.submits = p.submits \cup {[rec |-> r, ok |-> FALSE]}
    BY <1>1, <1>2, <1>3, <1>4, SubmittingPage
  <1>6. Written(t) /\ page'[t] = q /\ \A x \in Tabs \ {t} : page'[x] = page[x]
    BY <1>2, <1>4, <1>5, TurnPages DEF Turn, TypeOK
  <1>7. TypeOK'
    <2>1. /\ windows' \subseteq Window /\ intents' \in Seq(Intent) /\ sent' \in Seq(Sent)
          /\ session' \in Someone /\ account' \in Someone /\ keys' \in Nat /\ trouble' \in Nat
          /\ known' \in [Tabs -> SUBSET Someone] /\ windows' = windows
          /\ pending' \in Seq(Rec) /\ Distinct(pending')
      BY <1>1 DEF TypeOK, server, wallet
    <2>2. StageOK(page'[t])
      BY <1>1, <1>5, <1>6 DEF StageOK
    <2>3. /\ \A w \in windows' : w.tab # None =>
               IF w.tab = t THEN page'[t].op.at = "window" ELSE w \in windows
          /\ \A v, w \in windows' : w.tab # None /\ w.tab = t /\ v.tab = w.tab => v = w
      BY <1>5, <1>6, <2>1 DEF TypeOK
    <2> QED BY <1>6, <2>1, <2>2, <2>3, WrittenTypes
  <1>8. Learning
    <2>1. Learns(q, p)
      BY <1>5 DEF Learns
    <2> QED BY <1>1, <1>6, <2>1, WrittenLearns DEF server
  <1> QED BY <1>1, <1>2, <1>5, <1>6, <1>7, <1>8 DEF server, wallet

LEMMA SubmitServedEffect ==
  ASSUME TypeOK, NEW t \in Tabs, SubmitServed(t)
  PROVE  /\ TypeOK' /\ Learning
         /\ UNCHANGED <<windows, sent, pending, keys>>
         /\ \A x \in Tabs \ {t} : page'[x] = page[x]
         /\ page'[t].op = page[t].op /\ page'[t].preview = page[t].preview
         /\ page'[t].me = page[t].me
         /\ DOMAIN intents' = DOMAIN intents
         /\ \A id \in DOMAIN intents : intents'[id].user = intents[id].user
         /\ \E s \in page[t].submits, u \in Submit :
              /\ intents[s.rec.call.id].tx \in {None, s.rec.tx}
              /\ u.rec = s.rec /\ s.rec \in Rec
              /\ \A id \in DOMAIN intents :
                   intents'[id].tx = IF id = s.rec.call.id THEN s.rec.tx ELSE intents[id].tx
              /\ page'[t].submits = (page[t].submits \ {s}) \cup {u}
  <1> DEFINE p == page[t]
  <1>1. p \in Page /\ StageOK(p) /\ p.submits \subseteq Submit
    BY DEF TypeOK, Page
  <1>2. PICK s \in p.submits :
          /\ intents[s.rec.call.id].tx \in {None, s.rec.tx}
          /\ intents' = [intents EXCEPT ![s.rec.call.id].tx = s.rec.tx]
          /\ Turn(t, [p EXCEPT !.submits = (p.submits \ {s}) \cup {[s EXCEPT !.ok = TRUE]}])
          /\ UNCHANGED <<session, known, wallet, pending, keys, trouble>>
    BY DEF SubmitServed
  <1>3. s \in Submit /\ s.rec \in Rec
    BY <1>1 DEF Submit
  <1>4. PICK u \in Submit : u = [s EXCEPT !.ok = TRUE] /\ u.rec = s.rec
    <2>1. [s EXCEPT !.ok = TRUE] \in Submit
      BY <1>3 DEF Submit
    <2>2. [s EXCEPT !.ok = TRUE].rec = s.rec
      BY <1>3 DEF Submit
    <2> QED BY <2>1, <2>2
  <1>5. PICK sub : sub = (p.submits \ {s}) \cup {u}
    OBVIOUS
  <1>6. PICK q : q = [p EXCEPT !.submits = sub]
    OBVIOUS
  <1>7. sub \subseteq Submit
    BY <1>1, <1>4, <1>5
  <1>8. /\ q \in Page /\ q.op = p.op /\ q.preview = p.preview /\ q.submits = sub
        /\ q.me = p.me /\ q.refresh = p.refresh
    BY <1>1, <1>6, <1>7 DEF Page
  <1>9. Turn(t, q)
    BY <1>2, <1>4, <1>5, <1>6
  <1>10. Written(t) /\ page'[t] = q /\ \A x \in Tabs \ {t} : page'[x] = page[x]
    BY <1>8, <1>9, TurnPages DEF Turn, TypeOK
  <1>11. PICK i, x : i = s.rec.call.id /\ x = s.rec.tx
    OBVIOUS
  <1>12. intents' = [intents EXCEPT ![i].tx = x] /\ x \in Nat \cup {None} /\ intents \in Seq(Intent)
    BY <1>2, <1>3, <1>11 DEF Rec, TypeOK
  <1>13. \A id \in DOMAIN intents : intents[id] \in Intent /\ [intents[id] EXCEPT !.tx = x] \in Intent
    <2>1. \A id \in DOMAIN intents : intents[id] \in Intent
      BY <1>12
    <2> QED BY <1>12, <2>1 DEF Intent
  <1>14. /\ intents' \in Seq(Intent) /\ DOMAIN intents' = DOMAIN intents
         /\ \A id \in DOMAIN intents :
              intents'[id] = IF id = i THEN [intents[id] EXCEPT !.tx = x] ELSE intents[id]
    <2>1. PICK e : e = [intents[i] EXCEPT !.tx = x]
      OBVIOUS
    <2>2. intents' = [intents EXCEPT ![i] = e] /\ DOMAIN intents = 1..Len(intents)
      BY <1>12, <2>1
    <2>3. i \in DOMAIN intents => e \in Intent
      BY <1>13, <2>1
    <2>4. /\ DOMAIN intents' = DOMAIN intents
          /\ \A id \in DOMAIN intents : intents'[id] = IF id = i THEN e ELSE intents[id]
      BY <2>2
    <2>5. intents' \in Seq(Intent)
      <3>1. CASE i \in DOMAIN intents
        BY <1>12, <2>2, <2>3, <3>1, ExceptSeq
      <3>2. CASE i \notin DOMAIN intents
        <4>1. intents' = intents
          BY <1>12, <2>2, <3>2
        <4> QED BY <1>12, <4>1
      <3> QED BY <3>1, <3>2
    <2> QED BY <2>1, <2>4, <2>5
  <1>15. \A id \in DOMAIN intents :
           /\ intents'[id].user = intents[id].user
           /\ intents'[id].tx = IF id = i THEN x ELSE intents[id].tx
    BY <1>13, <1>14 DEF Intent
  <1>16. TypeOK'
    <2>1. /\ windows' \subseteq Window /\ sent' \in Seq(Sent)
          /\ session' \in Someone /\ account' \in Someone /\ keys' \in Nat /\ trouble' \in Nat
          /\ known' \in [Tabs -> SUBSET Someone] /\ windows' = windows
          /\ pending' \in Seq(Rec) /\ Distinct(pending')
      BY <1>2 DEF TypeOK, wallet
    <2>2. StageOK(page'[t])
      BY <1>1, <1>8, <1>10 DEF StageOK
    <2>3. /\ \A w \in windows' : w.tab # None =>
               IF w.tab = t THEN page'[t].op.at = "window" ELSE w \in windows
          /\ \A v, w \in windows' : w.tab # None /\ w.tab = t /\ v.tab = w.tab => v = w
      BY <1>8, <1>10, <2>1 DEF TypeOK
    <2> QED BY <1>10, <1>14, <2>1, <2>2, <2>3, WrittenTypes
  <1>17. Learning
    <2>1. Learns(q, p)
      BY <1>8 DEF Learns
    <2> QED BY <1>2, <1>10, <2>1, WrittenLearns
  <1>18. \E v \in p.submits, w \in Submit :
           /\ intents[v.rec.call.id].tx \in {None, v.rec.tx}
           /\ w.rec = v.rec /\ v.rec \in Rec
           /\ \A id \in DOMAIN intents :
                intents'[id].tx = IF id = v.rec.call.id THEN v.rec.tx ELSE intents[id].tx
           /\ page'[t].submits = (p.submits \ {v}) \cup {w}
    <2>1. \A id \in DOMAIN intents :
            intents'[id].tx = IF id = s.rec.call.id THEN s.rec.tx ELSE intents[id].tx
      BY <1>11, <1>15
    <2>2. page'[t].submits = (p.submits \ {s}) \cup {u}
      BY <1>5, <1>8, <1>10
    <2>3. WITNESS s \in p.submits, u \in Submit
    <2> QED BY <1>2, <1>3, <1>4, <2>1, <2>2
  <1> QED BY <1>2, <1>8, <1>10, <1>14, <1>15, <1>16, <1>17, <1>18 DEF wallet

LEMMA EndSubmitEffect ==
  ASSUME TypeOK, NEW t \in Tabs, EndSubmit(t)
  PROVE  /\ TypeOK' /\ Learning
         /\ UNCHANGED <<intents, windows, sent, keys>>
         /\ page'[t].op = page[t].op \/ (page[t].op.at = "submit" /\ page'[t].op = Idle)
         /\ page'[t].preview = page[t].preview /\ page'[t].me = page[t].me
         /\ \E s \in page[t].submits :
              /\ s.rec \in Rec /\ page'[t].submits = page[t].submits \ {s}
              /\ (s.ok /\ Stored(t, Without(s.rec))) \/ Stored(t, With(s.rec))
  <1> DEFINE p == page[t]
  <1>1. /\ p \in Page /\ StageOK(p) /\ p.submits \subseteq Submit
        /\ UNCHANGED <<server, wallet, keys>>
    BY DEF TypeOK, Page, EndSubmit
  <1>2. PICK s \in p.submits :
          LET q == [p EXCEPT !.submits = @ \ {s},
                             !.op = IF @.at = "submit" /\ @.rec.key = s.rec.key THEN Idle ELSE @]
          IN  \/ s.ok /\ Store(t, q, Without(s.rec)) /\ UNCHANGED trouble
              \/ Trouble /\ Store(t, q, With(s.rec))
    BY DEF EndSubmit
  <1>3. PICK b : /\ b = p.op \/ (p.op.at = "submit" /\ b = Idle)
                 /\ b = IF p.op.at = "submit" /\ p.op.rec.key = s.rec.key THEN Idle ELSE p.op
    OBVIOUS
  <1>4. PICK q : q = [p EXCEPT !.submits = p.submits \ {s}, !.op = b]
    OBVIOUS
  <1>5. s \in Submit /\ s.rec \in Rec
    BY <1>1 DEF Submit
  <1>6. /\ q \in Page /\ q.op = b /\ q.preview = p.preview /\ q.submits = p.submits \ {s}
        /\ q.me = p.me /\ q.refresh = p.refresh
    BY <1>1, <1>3, <1>4, IdlePage DEF Page
  <1>7. q = [p EXCEPT !.submits = @ \ {s},
                      !.op = IF @.at = "submit" /\ @.rec.key = s.rec.key THEN Idle ELSE @]
    BY <1>1, <1>3, <1>4 DEF Page
  <1>8. PICK records : /\ \/ s.ok /\ records = Without(s.rec) /\ UNCHANGED trouble
                          \/ Trouble /\ records = With(s.rec)
                       /\ Store(t, q, records)
    BY <1>2, <1>7
  <1>9. Stored(t, records) /\ page'[t] = q
    BY <1>6, <1>8, StorePages
  <1>10. Written(t) /\ pending' = records
    BY <1>9 DEF Stored
  <1>11. records \in Seq(Rec) /\ Distinct(records)
    BY <1>5, <1>8, WithRecord, WithoutRecord DEF TypeOK
  <1>12. TypeOK'
    <2>1. /\ windows' \subseteq Window /\ intents' \in Seq(Intent) /\ sent' \in Seq(Sent)
          /\ session' \in Someone /\ account' \in Someone /\ keys' \in Nat /\ trouble' \in Nat
          /\ known' \in [Tabs -> SUBSET Someone] /\ windows' = windows
      BY <1>1, <1>8 DEF TypeOK, server, wallet, Trouble
    <2>2. pending' \in Seq(Rec) /\ Distinct(pending')
      BY <1>10, <1>11
    <2>3. StageOK(page'[t])
      BY <1>1, <1>3, <1>6, <1>9, IdlePage DEF StageOK
    <2>4. /\ \A w \in windows' : w.tab # None =>
               IF w.tab = t THEN page'[t].op.at = "window" ELSE w \in windows
          /\ \A v, w \in windows' : w.tab # None /\ w.tab = t /\ v.tab = w.tab => v = w
      BY <1>3, <1>6, <1>9, <2>1 DEF TypeOK
    <2> QED BY <1>10, <2>1, <2>2, <2>3, <2>4, WrittenTypes
  <1>13. Learning
    <2>1. Learns(q, p)
      BY <1>3, <1>6, IdlePage DEF Learns
    <2> QED BY <1>1, <1>9, <1>10, <2>1, WrittenLearns DEF server
  <1>14. (s.ok /\ Stored(t, Without(s.rec))) \/ Stored(t, With(s.rec))
    BY <1>8, <1>9
  <1> QED BY <1>1, <1>3, <1>5, <1>6, <1>9, <1>12, <1>13, <1>14 DEF server, wallet

LEMMA EndCheckEffect ==
  ASSUME TypeOK, NEW t \in Tabs, EndCheck(t)
  PROVE  /\ TypeOK' /\ Learning
         /\ \/ QuietStep
            \/ /\ page[t].op.at = "verify" /\ page[t].op.rec \in Rec
               /\ Confirms(page[t].op.rec, page[t].op.key)
               /\ UNCHANGED <<intents, windows, sent, keys>>
               /\ Stored(t, Without(page[t].op.rec))
               /\ page'[t].op = Idle /\ page'[t].preview = page[t].preview
               /\ page'[t].submits = page[t].submits
  <1> DEFINE p == page[t]
  <1>1. /\ p \in Page /\ p.op.at = "verify" /\ p.op.rec \in Rec
        /\ UNCHANGED <<server, wallet, keys, trouble>>
    BY DEF TypeOK, StageOK, EndCheck
  <1>2. PICK r : r = Stopped(p)
    OBVIOUS
  <1>3. CASE p.op.fresh /\ account # None /\ Confirms(p.op.rec, p.op.key)
    <2>1. Store(t, r, Without(p.op.rec))
      BY <1>2, <1>3 DEF EndCheck
    <2>2. /\ r \in Page /\ r.op = Idle /\ r.preview = p.preview /\ r.submits = p.submits
          /\ r.me = p.me /\ r.refresh = p.refresh
      BY <1>1, <1>2, StoppedPage
    <2>3. PICK records : records = Without(p.op.rec)
      OBVIOUS
    <2>4. Stored(t, records) /\ page'[t] = r
      BY <2>1, <2>2, <2>3, StorePages
    <2>5. Written(t) /\ pending' = records
      BY <2>4 DEF Stored
    <2>6. records \in Seq(Rec) /\ Distinct(records)
      BY <2>3, WithoutRecord DEF TypeOK
    <2>7. TypeOK'
      <3>1. /\ windows' \subseteq Window /\ intents' \in Seq(Intent) /\ sent' \in Seq(Sent)
            /\ session' \in Someone /\ account' \in Someone /\ keys' \in Nat /\ trouble' \in Nat
            /\ known' \in [Tabs -> SUBSET Someone] /\ windows' = windows
        BY <1>1 DEF TypeOK, server, wallet
      <3>2. pending' \in Seq(Rec) /\ Distinct(pending')
        BY <2>5, <2>6
      <3>3. StageOK(page'[t])
        BY <2>2, <2>4, IdlePage DEF StageOK
      <3>4. \A w \in windows' : w.tab # None => w.tab # t /\ w \in windows
        BY <1>1, <3>1 DEF TypeOK
      <3> QED BY <2>5, <3>1, <3>2, <3>3, <3>4, WrittenTypes
    <2>8. Learning
      <3>1. Learns(r, p)
        BY <2>2, IdlePage DEF Learns
      <3> QED BY <1>1, <2>4, <2>5, <3>1, WrittenLearns DEF server
    <2> QED BY <1>1, <1>3, <2>2, <2>3, <2>4, <2>7, <2>8 DEF server, wallet
  <1>4. CASE ~(p.op.fresh /\ account # None /\ Confirms(p.op.rec, p.op.key))
    <2>1. Turn(t, r) /\ UNCHANGED pending
      BY <1>2, <1>4 DEF EndCheck
    <2>2. Moves(t, r, page[t]) /\ Learns(r, page[t])
      BY <1>1, <1>2, StopMoves, QuieterSelf
    <2>3. QuietStep /\ Learning
      BY <1>1, <2>1, <2>2, TurnOnly
    <2> QED BY <2>3, QuietTypes
  <1> QED BY <1>3, <1>4

\* A reload forgets the tab: no window has it as the one that waits any more.
LEMMA ReloadEffect ==
  ASSUME TypeOK, NEW t \in Tabs, Reload(t)
  PROVE  /\ TypeOK' /\ Written(t) /\ page'[t] = Loaded
         /\ windows' = {[w EXCEPT !.tab = IF @ = t THEN None ELSE @] : w \in windows}
         /\ \A w \in windows' : \E v \in windows :
              /\ w.key = v.key /\ w.call = v.call /\ w.tab = IF v.tab = t THEN None ELSE v.tab
         /\ UNCHANGED <<session, intents, sent, pending, keys>>
         /\ known'[t] = {None, session} /\ \A x \in Tabs \ {t} : known'[x] = known[x]
  <1>1. /\ UNCHANGED <<session, intents, account, sent, pending, keys>> /\ Trouble
        /\ windows' = {[w EXCEPT !.tab = IF @ = t THEN None ELSE @] : w \in windows}
        /\ known' = [known EXCEPT ![t] = {None, session}] /\ Turn(t, Loaded)
    BY DEF Reload
  <1>2. Written(t) /\ page'[t] = Loaded
    BY <1>1, LoadedPage, TurnPages
  <1>3. ASSUME NEW v \in windows
        PROVE  LET w == [v EXCEPT !.tab = IF @ = t THEN None ELSE @]
               IN  /\ w \in Window /\ w.key = v.key /\ w.call = v.call
                   /\ w.tab = IF v.tab = t THEN None ELSE v.tab
    <2>1. v \in Window
      BY DEF TypeOK
    <2>2. PICK b : b = IF v.tab = t THEN None ELSE v.tab
      OBVIOUS
    <2>3. b \in Tabs \cup {None}
      BY <2>1, <2>2 DEF Window
    <2>4. /\ [v EXCEPT !.tab = b] \in Window /\ [v EXCEPT !.tab = b].key = v.key
          /\ [v EXCEPT !.tab = b].call = v.call /\ [v EXCEPT !.tab = b].tab = b
      BY <2>1, <2>3 DEF Window
    <2> QED BY <2>1, <2>2, <2>4 DEF Window
  <1>4. /\ windows' \subseteq Window
        /\ \A w \in windows' : \E v \in windows :
             /\ w.key = v.key /\ w.call = v.call /\ w.tab = IF v.tab = t THEN None ELSE v.tab
    BY <1>1, <1>3
  <1>5. \A w \in windows' : w.tab # None => w.tab # t /\ w \in windows
    <2>1. ASSUME NEW v \in windows, NEW w, w = [v EXCEPT !.tab = IF @ = t THEN None ELSE @],
                 w.tab # None
          PROVE  w.tab # t /\ w = v
      <3>1. v \in Window /\ w.tab = IF v.tab = t THEN None ELSE v.tab
        BY <1>3, <2>1 DEF TypeOK
      <3>2. v.tab # t
        BY <2>1, <3>1
      <3>3. w = [v EXCEPT !.tab = v.tab]
        BY <2>1, <3>2
      <3> QED BY <3>1, <3>2, <3>3 DEF Window
    <2> QED BY <1>1, <2>1
  <1>6. /\ intents' \in Seq(Intent) /\ sent' \in Seq(Sent) /\ session' \in Someone
        /\ account' \in Someone /\ keys' \in Nat /\ trouble' \in Nat
        /\ pending' \in Seq(Rec) /\ Distinct(pending')
    BY <1>1 DEF TypeOK, Trouble
  <1>7. known' \in [Tabs -> SUBSET Someone] /\ known'[t] = {None, session}
        /\ \A x \in Tabs \ {t} : known'[x] = known[x]
    BY <1>1 DEF TypeOK, Someone
  <1>8. StageOK(page'[t])
    BY <1>2, LoadedPage, IdlePage DEF StageOK
  <1>9. TypeOK'
    <2>1. /\ \A w \in windows' : w.tab # None =>
               IF w.tab = t THEN page'[t].op.at = "window" ELSE w \in windows
          /\ \A v, w \in windows' : w.tab # None /\ w.tab = t /\ v.tab = w.tab => v = w
      BY <1>5
    <2> QED BY <1>2, <1>4, <1>6, <1>7, <1>8, <2>1, WrittenTypes
  <1> QED BY <1>1, <1>2, <1>4, <1>7, <1>9

\* What the steps of a tab come to: it moves, or stores a record, or one of
\* those that need a closer look.
LEMMA StepEffect ==
  ASSUME TypeOK, NEW t \in Tabs, Step(t)
  PROVE  \/ QuietStep
         \/ TypeOK' /\ \E rec : PreparedRecord(t, rec)
         \/ TypeOK' /\ \E rec : StagedRecord(t, rec)
         \/ HashReturned(t) \/ Recover(t) \/ Retry(t) \/ SubmitServed(t) \/ EndSubmit(t)
         \/ EndCheck(t) \/ Reload(t)
  <1>1. CASE \/ WalletChanged(t) \/ Connect(t) \/ \E user \in Someone : StartAuth(t, user)
             \/ AuthServed(t) \/ EndAuth(t) \/ StartRefresh(t) \/ EndRefresh(t) \/ Cancel(t)
    BY <1>1, WalletChangedQuiet, ConnectQuiet, StartAuthQuiet, AuthServedQuiet, EndAuthQuiet,
       StartRefreshQuiet, EndRefreshQuiet, CancelQuiet
  <1>2. CASE \/ StartPrepare(t) \/ StartRefund(t) \/ FailCheck(t) \/ Checked(t)
             \/ PrepareServed(t) \/ LosePrepare(t) \/ StartSend(t) \/ StartCheck(t)
    BY <1>2, StartPrepareQuiet, StartRefundQuiet, FailCheckQuiet, CheckedQuiet,
       PrepareServedQuiet, LosePrepareQuiet, StartSendQuiet, StartCheckQuiet
  <1>3. CASE Prepared(t) \/ Staged(t)
    BY <1>3, PreparedEffect, StagedEffect
  <1> QED BY <1>1, <1>2, <1>3 DEF Step

\* Only three steps tell a tab who is logged in now.
LEMMA StepLearning ==
  ASSUME TypeOK, NEW t \in Tabs, Step(t)
  PROVE  Learning \/ AuthServed(t) \/ EndAuth(t) \/ Reload(t)
  <1>1. CASE \/ WalletChanged(t) \/ Connect(t) \/ \E user \in Someone : StartAuth(t, user)
             \/ StartRefresh(t) \/ EndRefresh(t) \/ Cancel(t)
    BY <1>1, WalletChangedQuiet, ConnectQuiet, StartAuthQuiet,
       StartRefreshQuiet, EndRefreshQuiet, CancelQuiet
  <1>2. CASE \/ StartPrepare(t) \/ StartRefund(t) \/ FailCheck(t) \/ Checked(t)
             \/ PrepareServed(t) \/ LosePrepare(t) \/ StartSend(t) \/ StartCheck(t)
    BY <1>2, StartPrepareQuiet, StartRefundQuiet, FailCheckQuiet, CheckedQuiet,
       PrepareServedQuiet, LosePrepareQuiet, StartSendQuiet, StartCheckQuiet
  <1>3. CASE Prepared(t) \/ Staged(t) \/ HashReturned(t) \/ Recover(t) \/ Retry(t)
    BY <1>3, PreparedEffect, StagedEffect, HashReturnedEffect, RecoverEffect, RetryEffect
  <1>4. CASE SubmitServed(t) \/ EndSubmit(t) \/ EndCheck(t)
    BY <1>4, SubmitServedEffect, EndSubmitEffect, EndCheckEffect
  <1> QED BY <1>1, <1>2, <1>3, <1>4 DEF Step

-----------------------------------------------------------------------------
(* The types are kept *)

LEMMA InitTypes == Init => TypeOK
  <1> SUFFICES ASSUME Init PROVE TypeOK
    OBVIOUS
  <1>1. page \in [Tabs -> Page] /\ \A t \in Tabs : page[t] = Loaded
    BY LoadedPage DEF Init
  <1>2. \A t \in Tabs : StageOK(page[t])
    BY <1>1, LoadedPage, IdlePage DEF StageOK
  <1> QED BY <1>1, <1>2 DEF Init, TypeOK, Someone, Distinct

LEMMA StutterTypes ==
  ASSUME TypeOK, UNCHANGED vars
  PROVE  TypeOK' /\ Learning
  <1>1. \A x \in Tabs : StageOK(page[x])' <=> StageOK(page[x])
    BY DEF StageOK, vars
  <1>2. TypeOK'
    BY <1>1 DEF TypeOK, vars, Distinct
  <1>3. Learning
    BY DEF Learning, Learns, vars
  <1> QED BY <1>2, <1>3

LEMMA NextTypes == TypeOK /\ [Next]_vars => TypeOK'
  <1> SUFFICES ASSUME TypeOK, [Next]_vars PROVE TypeOK'
    OBVIOUS
  <1>1. ASSUME NEW t \in Tabs, Step(t) PROVE TypeOK'
    BY <1>1, StepEffect, QuietTypes, HashReturnedEffect, RecoverEffect, RetryEffect,
       SubmitServedEffect, EndSubmitEffect, EndCheckEffect, ReloadEffect
  <1>2. ASSUME NEW a \in Someone, SelectAccount(a) PROVE TypeOK'
    BY <1>2, SelectAccountQuiet, QuietTypes
  <1>3. ASSUME NEW n \in DOMAIN sent, Mine(n) PROVE TypeOK'
    BY <1>3, MineEffect
  <1>4. ASSUME NEW w \in windows, Approve(w) \/ Reject(w) \/ Fault(w) PROVE TypeOK'
    BY <1>4, ApproveEffect, RejectEffect, FaultEffect
  <1>5. CASE UNCHANGED vars
    BY <1>5, StutterTypes
  <1> QED BY <1>1, <1>2, <1>3, <1>4, <1>5 DEF Next

\* In every state the tabs, the wallet, the server and the storage hold what
\* the code may put there: no two stored records have the same key, a tab holds
\* what its stage needs, and a request has the tab that waits for it.
THEOREM PageTypeCorrect == Spec => []TypeOK
  BY InitTypes, NextTypes, PTL DEF Spec

-----------------------------------------------------------------------------
(* A tab never falls back to an old login *)

\* Who a tab shows, will show when an answer is used, or hears of as the answer
\* to its own login is one it may still believe to be logged in.
IdentityOK ==
  \A t \in Tabs :
    /\ page[t].me \in known[t] /\ session \in known[t]
    /\ page[t].refresh.on /\ page[t].refresh.fresh => page[t].refresh.user \in known[t]
    /\ page[t].op.at = "authAnswer" =>
         session \in page[t].op.seen /\ page[t].op.user \in page[t].op.seen

LEMMA LearningIdentity ==
  ASSUME IdentityOK, Learning
  PROVE  IdentityOK'
  BY DEF IdentityOK, Learning, Learns

\* A login served is news for every tab, and for those that log in themselves.
LEMMA AuthServedIdentity ==
  ASSUME TypeOK, IdentityOK, NEW t \in Tabs, AuthServed(t)
  PROVE  IdentityOK'
  <1> DEFINE user == page[t].op.user
  <1>1. /\ session' = user /\ known' = [x \in Tabs |-> known[x] \cup {user}]
        /\ page' = [x \in Tabs |->
             IF x = t THEN [page[x] EXCEPT !.op.at = "authAnswer", !.op.seen = {user}]
             ELSE IF page[x].op.at = "authAnswer" THEN [page[x] EXCEPT !.op.seen = @ \cup {user}]
             ELSE page[x]]
    BY DEF AuthServed, LogIn
  <1>2. ASSUME NEW x \in Tabs
        PROVE  /\ page'[x].me = page[x].me /\ page'[x].refresh = page[x].refresh
               /\ page'[x].op.user = page[x].op.user
               /\ \/ x = t /\ page'[x].op.seen = {user}
                  \/ page'[x].op.at = "authAnswer" /\ page[x].op.at = "authAnswer"
                     /\ page'[x].op.seen = page[x].op.seen \cup {user}
                  \/ page'[x].op.at = page[x].op.at /\ page[x].op.at # "authAnswer"
    <2>1. page[x] \in Page /\ page[x].op \in Op
      BY DEF TypeOK, Page
    <2>2. CASE x = t
      <3>1. page'[x] = [page[x] EXCEPT !.op.at = "authAnswer", !.op.seen = {user}]
        BY <1>1, <2>2
      <3>2. PICK b : b = [page[x].op EXCEPT !.at = "authAnswer", !.seen = {user}]
        OBVIOUS
      <3>3. b.user = page[x].op.user /\ b.seen = {user}
        BY <2>1, <3>2 DEF Op
      <3>4. page'[x] = [page[x] EXCEPT !.op = b]
        BY <2>1, <3>1, <3>2 DEF Page, Op
      <3>5. page'[x].me = page[x].me /\ page'[x].refresh = page[x].refresh /\ page'[x].op = b
        BY <2>1, <3>4 DEF Page
      <3> QED BY <2>2, <3>3, <3>5
    <2>3. CASE x # t /\ page[x].op.at = "authAnswer"
      <3>1. page'[x] = [page[x] EXCEPT !.op.seen = @ \cup {user}]
        BY <1>1, <2>3
      <3>2. PICK b : b = [page[x].op EXCEPT !.seen = page[x].op.seen \cup {user}]
        OBVIOUS
      <3>3. b.at = page[x].op.at /\ b.user = page[x].op.user /\ b.seen = page[x].op.seen \cup {user}
        BY <2>1, <3>2 DEF Op
      <3>4. page'[x] = [page[x] EXCEPT !.op = b]
        BY <2>1, <3>1, <3>2 DEF Page
      <3>5. page'[x].me = page[x].me /\ page'[x].refresh = page[x].refresh /\ page'[x].op = b
        BY <2>1, <3>4 DEF Page
      <3> QED BY <2>3, <3>3, <3>5
    <2>4. CASE x # t /\ page[x].op.at # "authAnswer"
      BY <1>1, <2>4
    <2> QED BY <2>2, <2>3, <2>4
  <1>3. \A x \in Tabs : known[x] \subseteq known'[x] /\ user \in known'[x]
    BY <1>1
  <1> HIDE DEF user
  <1>4. ASSUME NEW x \in Tabs
        PROVE  /\ page'[x].me \in known'[x] /\ session' \in known'[x]
               /\ page'[x].refresh.on /\ page'[x].refresh.fresh => page'[x].refresh.user \in known'[x]
               /\ page'[x].op.at = "authAnswer" =>
                    session' \in page'[x].op.seen /\ page'[x].op.user \in page'[x].op.seen
    <2>1. x = t => page'[x].op.user = user
      BY <1>2 DEF user
    <2> QED BY <1>1, <1>2, <1>3, <2>1 DEF IdentityOK
  <1> QED BY <1>4 DEF IdentityOK

\* The answer to a tab's own login starts over what the tab may believe.
LEMMA EndAuthIdentity ==
  ASSUME TypeOK, IdentityOK, NEW t \in Tabs, EndAuth(t)
  PROVE  IdentityOK'
  <1>1. /\ session' = session /\ ~page'[t].refresh.fresh /\ page'[t].op.at = "idle"
        /\ \A x \in Tabs \ {t} : page'[x] = page[x]
        /\ \/ /\ page[t].op.at = "authAnswer" /\ page'[t].me = page[t].op.user
              /\ known' = [known EXCEPT ![t] = page[t].op.seen]
           \/ page'[t].me = page[t].me /\ known' = known
    BY EndAuthQuiet
  <1>2. /\ \A x \in Tabs \ {t} : known'[x] = known[x]
        /\ page'[t].me \in known'[t] /\ session \in known'[t]
    BY <1>1 DEF IdentityOK, TypeOK
  <1> QED BY <1>1, <1>2 DEF IdentityOK

LEMMA ReloadIdentity ==
  ASSUME TypeOK, IdentityOK, NEW t \in Tabs, Reload(t)
  PROVE  IdentityOK'
  <1>1. /\ Written(t) /\ page'[t] = Loaded /\ session' = session
        /\ known'[t] = {None, session} /\ \A x \in Tabs \ {t} : known'[x] = known[x]
    BY ReloadEffect
  <1>2. page'[t].me = None /\ ~page'[t].refresh.fresh /\ page'[t].op.at = "idle"
    BY <1>1, LoadedPage, IdlePage
  <1> QED BY <1>1, <1>2 DEF IdentityOK, Written, Quieter, SameNews

LEMMA InitIdentity == Init => IdentityOK
  BY LoadedPage, IdlePage DEF Init, IdentityOK

LEMMA NextIdentity == TypeOK /\ IdentityOK /\ [Next]_vars => IdentityOK'
  <1> SUFFICES ASSUME TypeOK, IdentityOK, [Next]_vars PROVE IdentityOK'
    OBVIOUS
  <1>1. ASSUME NEW t \in Tabs, Step(t) PROVE IdentityOK'
    BY <1>1, StepLearning, LearningIdentity, AuthServedIdentity, EndAuthIdentity, ReloadIdentity
  <1>2. ASSUME NEW a \in Someone, SelectAccount(a) PROVE IdentityOK'
    BY <1>2, SelectAccountQuiet, LearningIdentity
  <1>3. ASSUME NEW n \in DOMAIN sent, Mine(n) PROVE IdentityOK'
    BY <1>3, MineEffect, LearningIdentity
  <1>4. ASSUME NEW w \in windows, Approve(w) \/ Reject(w) \/ Fault(w) PROVE IdentityOK'
    BY <1>4, ApproveEffect, RejectEffect, FaultEffect, LearningIdentity
  <1>5. CASE UNCHANGED vars
    BY <1>5, StutterTypes, LearningIdentity
  <1> QED BY <1>1, <1>2, <1>3, <1>4, <1>5 DEF Next

\* No tab ever shows as logged in someone whose login was over before the tab's
\* own last login or logout, in whatever order the answers come: authEpoch and
\* the guards of refreshSession and authenticate see to it.
THEOREM NeverALateIdentity == Spec => []NoLateIdentity
  <1>1. IdentityOK => NoLateIdentity
    BY DEF IdentityOK, NoLateIdentity
  <1> QED BY <1>1, InitTypes, NextTypes, InitIdentity, NextIdentity, PTL DEF Spec

-----------------------------------------------------------------------------
(* Records stay in the name of their account *)

\* The records a page has: shown, asked for, reported.
HeldBy(p) == ({p.preview, p.op.rec} \ {None}) \cup {s.rec : s \in p.submits}
Held == Records \cup UNION {HeldBy(page[t]) : t \in Tabs}
\* What the wallet was asked for: shown or broadcast.
Requests == windows \cup Range(sent)
Slips == Held \cup Requests

\* Every record and request is under a key drawn and of a donation the server
\* knows; a key under which a donation is taken back is for that alone; a record
\* is in the name of its donation's account.
SlipsInOrder ==
  /\ \A x \in Slips : x.key <= keys /\ x.call.id \in DOMAIN intents
  /\ \A x, y \in Slips : x.key = y.key /\ x.call.name = "refund" => y.call = x.call
  /\ \A r \in Held : intents[r.call.id].user = r.user

\* What a tab prepares is for the account it shows, of a donation the server
\* knows, and under an earlier key only if it is of a donation.
PreparesInOrder(p) ==
  /\ p.op.at \in Preparing /\ p.op.fresh => p.op.user = p.me
  /\ \/ p.op.at = "answer"
     \/ p.op.at \in {"check", "ask"} /\ p.op.call # None
     => p.op.call.id \in DOMAIN intents
  /\ p.op.at \in {"ask", "answer"} /\ p.op.rec # None => p.op.rec.call.name = "donate"
  /\ p.op.at = "ask" /\ p.op.call # None => p.op.rec = None
  /\ p.op.at = "answer" /\ p.op.rec # None => p.op.call.name = "donate"

NamesInOrder == SlipsInOrder /\ \A t \in Tabs : PreparesInOrder(page[t])

\* A step after which nothing is held or asked under another key, for another
\* call or in another name than before.
Inherits ==
  /\ \A r \in Held' : \E s \in Held : r.key = s.key /\ r.call = s.call /\ r.user = s.user
  /\ \A q \in Requests' : \E s \in Slips : q.key = s.key /\ q.call = s.call
  /\ keys' \in Nat /\ keys <= keys'
  /\ \A id \in DOMAIN intents : id \in DOMAIN intents' /\ intents'[id].user = intents[id].user

LEMMA HeldTypes ==
  ASSUME TypeOK
  PROVE  /\ Held \subseteq Rec
         /\ \A q \in Requests : q.key \in Nat /\ q.call \in Calls
         /\ \A q : q \in Requests <=> q \in windows \/ \E n \in DOMAIN sent : q = sent[n]
  <1>1. Records \subseteq Rec
    BY RecordsIn DEF TypeOK, Records
  <1>2. ASSUME NEW t \in Tabs PROVE HeldBy(page[t]) \subseteq Rec
    <2>1. page[t] \in Page
      BY DEF TypeOK
    <2>2. page[t].preview \in Rec \cup {None} /\ page[t].op \in Op /\ page[t].submits \subseteq Submit
      BY <2>1 DEF Page
    <2>3. page[t].op.rec \in Rec \cup {None} /\ \A s \in page[t].submits : s.rec \in Rec
      BY <2>2 DEF Op, Submit
    <2> QED BY <2>2, <2>3 DEF HeldBy
  <1>3. sent \in Seq(Sent) /\ windows \subseteq Window
    BY DEF TypeOK
  <1>4. \A q : q \in Range(sent) <=> \E n \in DOMAIN sent : q = sent[n]
    BY <1>3, RecordsIn
  <1>5. \A q \in Requests : q.key \in Nat /\ q.call \in Calls
    <2>1. \A q \in windows : q.key \in Nat /\ q.call \in Calls
      BY <1>3 DEF Window
    <2>2. \A n \in DOMAIN sent : sent[n] \in Sent
      BY <1>3
    <2>3. \A n \in DOMAIN sent : sent[n].key \in Nat /\ sent[n].call \in Calls
      BY <2>2 DEF Sent
    <2> QED BY <1>4, <2>1, <2>3 DEF Requests
  <1> QED BY <1>1, <1>2, <1>4, <1>5 DEF Held, Requests

LEMMA InheritedSlips ==
  ASSUME TypeOK, TypeOK', SlipsInOrder, Inherits
  PROVE  SlipsInOrder'
  <1>1. \A x \in Slips : x.key \in Nat
    BY HeldTypes DEF Slips, Rec
  <1>2. \A x \in Slips' : \E y \in Slips : x.key = y.key /\ x.call = y.call
    BY DEF Slips, Inherits
  <1>3. keys \in Nat /\ keys' \in Nat /\ keys <= keys'
    BY DEF TypeOK, Inherits
  <1>4. ASSUME NEW x \in Slips' PROVE x.key <= keys' /\ x.call.id \in DOMAIN intents'
    <2>1. PICK y \in Slips : x.key = y.key /\ x.call = y.call
      BY <1>2
    <2>2. y.key <= keys /\ y.call.id \in DOMAIN intents /\ y.key \in Nat
      BY <1>1 DEF SlipsInOrder
    <2> QED BY <1>3, <2>1, <2>2 DEF Inherits
  <1>5. \A x, y \in Slips' : x.key = y.key /\ x.call.name = "refund" => y.call = x.call
    BY <1>2 DEF SlipsInOrder
  <1>6. ASSUME NEW r \in Held' PROVE intents'[r.call.id].user = r.user
    <2>1. PICK s \in Held : r.call = s.call /\ r.user = s.user
      BY DEF Inherits
    <2>2. s.call.id \in DOMAIN intents /\ intents[s.call.id].user = s.user
      BY DEF SlipsInOrder, Slips
    <2> QED BY <2>1, <2>2 DEF Inherits
  <1> QED BY <1>4, <1>5, <1>6 DEF SlipsInOrder

LEMMA QuieterHeld ==
  ASSUME NEW q, NEW p, Quieter(q, p)
  PROVE  HeldBy(q) \subseteq HeldBy(p)
  BY DEF Quieter, HeldBy

LEMMA MovesHeld ==
  ASSUME NEW t, NEW q, NEW p, Moves(t, q, p)
  PROVE  HeldBy(q) \subseteq HeldBy(p) \cup Records
  <1>1. q.preview \in {p.preview, None} /\ q.submits = p.submits
    BY DEF Moves
  <1>2. q.op.rec \in {None, p.op.rec, p.preview} \cup Records
    BY DEF Moves, Quieter
  <1> QED BY <1>1, <1>2 DEF HeldBy

\* After a step of tab t what is held is in the stored records, with that tab, or
\* was held before.
LEMMA WrittenHeld ==
  ASSUME TypeOK, NEW t \in Tabs, Written(t)
  PROVE  \A r \in Held' : r \in Range(pending') \/ r \in HeldBy(page'[t]) \/ r \in Held
  <1>1. \A x \in Tabs \ {t} : HeldBy(page'[x]) \subseteq HeldBy(page[x])
    BY QuieterHeld DEF Written
  <1>2. \A r \in Held' : r \in Range(pending') \/ \E x \in Tabs : r \in HeldBy(page'[x])
    BY DEF Held, Records, HeldBy
  <1> QED BY <1>1, <1>2 DEF Held

LEMMA QuietInherits ==
  ASSUME TypeOK, QuietStep
  PROVE  Inherits
  <1>1. \A r \in Held' : r \in Held
    <2>1. \A x \in Tabs : HeldBy(page'[x]) \subseteq HeldBy(page[x]) \cup Records
      BY MovesHeld DEF QuietStep
    <2>2. \A r \in Held' : r \in Range(pending') \/ \E x \in Tabs : r \in HeldBy(page'[x])
      BY DEF Held, Records, HeldBy
    <2>3. Range(pending') = Records
      BY DEF QuietStep, Records
    <2> QED BY <2>1, <2>2, <2>3 DEF Held
  <1>2. \A q \in Requests' : q \in Slips
    BY DEF Requests, Slips, QuietStep
  <1> QED BY <1>1, <1>2 DEF Inherits, QuietStep, IntentsKept

\* Tab t stores a record of the key, call and name of one it held.
LEMMA SavedInherits ==
  ASSUME TypeOK, NEW t \in Tabs, NEW rec \in Rec, NEW r \in Held,
         rec.key = r.key, rec.call = r.call, rec.user = r.user,
         Written(t),
         \A x \in Range(pending') : x = rec \/ x \in Records,
         \A x \in HeldBy(page'[t]) : x = rec \/ x \in Held,
         \A q \in Requests' : \E s \in Slips : q.key = s.key /\ q.call = s.call,
         UNCHANGED <<intents, keys>>
  PROVE  Inherits
  <1>1. \A x \in Held' : x = rec \/ x \in Held
    BY WrittenHeld DEF Held
  <1>2. keys \in Nat
    BY DEF TypeOK
  <1> QED BY <1>1, <1>2 DEF Inherits

\* The requests after a step are those of the windows and the chain then.
LEMMA RequestsNext ==
  ASSUME TypeOK'
  PROVE  \A q \in Requests' : q \in windows' \/ \E n \in DOMAIN sent' : q = sent'[n]
  <1>1. sent' \in Seq(Sent)
    BY DEF TypeOK
  <1>2. \A q : q \in Range(sent') <=> \E n \in DOMAIN sent' : q = sent'[n]
    BY <1>1, RecordsIn
  <1> QED BY <1>2 DEF Requests

LEMMA RequestsKept ==
  ASSUME UNCHANGED <<windows, sent>>
  PROVE  /\ Requests' = Requests
         /\ \A q \in Requests' : \E s \in Slips : q.key = s.key /\ q.call = s.call
  BY DEF Requests, Slips

LEMMA ApproveInherits ==
  ASSUME TypeOK, NEW w \in windows, Approve(w)
  PROVE  Inherits
  <1>1. /\ TypeOK' /\ windows' = windows \ {w} /\ UNCHANGED <<intents, pending, keys>>
        /\ Broadcast([key |-> w.key, call |-> w.call, mined |-> FALSE])
    BY ApproveEffect
  <1>2. ASSUME NEW q \in Requests' PROVE \E s \in Slips : q.key = s.key /\ q.call = s.call
    <2>1. q \in windows' => q \in Slips
      BY <1>1 DEF Slips, Requests
    <2>2. ASSUME NEW n \in DOMAIN sent', q = sent'[n]
          PROVE  \E s \in Slips : q.key = s.key /\ q.call = s.call
      <3>1. CASE n \in DOMAIN sent
        <4>1. q = sent[n]
          BY <1>1, <2>2, <3>1 DEF Broadcast
        <4> QED BY <3>1, <4>1, HeldTypes DEF Slips
      <3>2. CASE n \notin DOMAIN sent
        <4>1. n = Len(sent) + 1
          BY <1>1, <2>2, <3>2 DEF Broadcast, TypeOK
        <4>2. q.key = w.key /\ q.call = w.call
          BY <1>1, <2>2, <4>1 DEF Broadcast
        <4>3. w \in Slips
          BY DEF Slips, Requests
        <4> QED BY <4>2, <4>3
      <3> QED BY <3>1, <3>2
    <2> QED BY <1>1, <2>1, <2>2, RequestsNext
  <1>3. ASSUME NEW r \in Held'
        PROVE  \E s \in Held : r.key = s.key /\ r.call = s.call /\ r.user = s.user
    <2>1. CASE r \in Range(pending')
      BY <1>1, <2>1 DEF Held, Records
    <2>2. ASSUME NEW x \in Tabs, r \in HeldBy(page'[x])
          PROVE  \E s \in Held : r.key = s.key /\ r.call = s.call /\ r.user = s.user
      <3>1. CASE x # w.tab \/ w.tab = None
        <4>1. page'[x] = page[x]
          BY <3>1, ApproveEffect
        <4> QED BY <2>2, <4>1 DEF Held
      <3>2. CASE x = w.tab /\ w.tab # None
        <4>1. /\ page[x].op.rec \in Rec /\ page'[x].preview = page[x].preview
              /\ page'[x].submits = page[x].submits
              /\ page'[x].op.rec = [page[x].op.rec EXCEPT !.tx = Len(sent) + 1]
          BY <3>2, ApproveEffect
        <4>2. /\ page'[x].op.rec.key = page[x].op.rec.key
              /\ page'[x].op.rec.call = page[x].op.rec.call
              /\ page'[x].op.rec.user = page[x].op.rec.user
          BY <4>1 DEF Rec
        <4>3. r = page'[x].op.rec \/ r \in HeldBy(page[x])
          BY <2>2, <4>1 DEF HeldBy
        <4>4. page[x].op.rec # None => page[x].op.rec \in HeldBy(page[x])
          BY DEF HeldBy
        <4>5. page[x].op.rec # None
          BY <4>1, PageAssumption
        <4> QED BY <2>2, <4>2, <4>3, <4>4, <4>5 DEF Held, HeldBy
      <3> QED BY <3>1, <3>2
    <2> QED BY <2>1, <2>2 DEF Held, Records, HeldBy
  <1>4. keys \in Nat
    BY DEF TypeOK
  <1> QED BY <1>1, <1>2, <1>3, <1>4 DEF Inherits

LEMMA HeldOf ==
  ASSUME TypeOK, NEW t \in Tabs
  PROVE  /\ page[t].op.rec \in Rec => page[t].op.rec \in Held
         /\ page[t].preview \in Rec => page[t].preview \in Held
         /\ \A s \in page[t].submits : s.rec \in Held
  BY PageAssumption DEF Held, HeldBy

\* A record of the key, call and name of one held by tab t goes to the storage.
LEMMA SavingInherits ==
  ASSUME TypeOK, NEW t \in Tabs, NEW rec \in Rec, NEW r \in Held,
         rec.key = r.key, rec.call = r.call, rec.user = r.user,
         Stored(t, With(rec)),
         page'[t].preview \in {page[t].preview, None, rec},
         page'[t].op.rec \in {page[t].op.rec, None, rec},
         \A s \in page'[t].submits : s.rec = rec \/ s \in page[t].submits,
         \A q \in Requests' : \E s \in Slips : q.key = s.key /\ q.call = s.call,
         UNCHANGED <<intents, keys>>
  PROVE  Inherits
  <1>1. PICK records : records = With(rec)
    OBVIOUS
  <1>2. Written(t) /\ pending' = records
    BY <1>1 DEF Stored
  <1>3. \A x \in Range(pending') : x = rec \/ x \in Records
    BY <1>1, <1>2, WithRecord DEF TypeOK
  <1>4. \A x \in HeldBy(page'[t]) : x = rec \/ x \in HeldBy(page[t])
    BY DEF HeldBy
  <1>5. HeldBy(page[t]) \subseteq Held
    BY DEF Held
  <1> QED BY <1>2, <1>3, <1>4, <1>5, SavedInherits

LEMMA AnsweredInherits ==
  ASSUME TypeOK, NEW t, NEW phase \in Phases,
         Answered(t, [page[t].op.rec EXCEPT !.phase = phase]),
         \A q \in Requests' : \E s \in Slips : q.key = s.key /\ q.call = s.call,
         UNCHANGED <<intents, keys>>
  PROVE  Inherits
  <1>1. t \in Tabs /\ page[t].op.rec \in Rec
    BY DEF Answered
  <1>2. PICK rec \in Rec : /\ rec = [page[t].op.rec EXCEPT !.phase = phase]
                           /\ rec.key = page[t].op.rec.key /\ rec.call = page[t].op.rec.call
                           /\ rec.user = page[t].op.rec.user
    BY <1>1 DEF Rec
  <1>3. page[t].op.rec \in Held
    BY <1>1, HeldOf
  <1>4. /\ Stored(t, With(rec)) /\ page'[t].preview \in {None, rec}
        /\ page'[t].op.rec = None /\ page'[t].submits = page[t].submits
    BY <1>2, IdlePage DEF Answered
  <1> QED BY <1>1, <1>2, <1>3, <1>4, SavingInherits

LEMMA RejectInherits ==
  ASSUME TypeOK, NEW w \in windows, Reject(w)
  PROVE  Inherits
  <1>1. /\ TypeOK' /\ windows' = windows \ {w} /\ UNCHANGED <<intents, sent, keys>>
        /\ w.tab = None => UNCHANGED <<pending, page>>
        /\ w.tab # None =>
             Answered(w.tab, [page[w.tab].op.rec EXCEPT !.phase = "AWAITING_SIGNATURE"])
    BY RejectEffect
  <1>2. \A q \in Requests' : q \in Slips
    BY <1>1 DEF Requests, Slips
  <1>3. CASE w.tab = None
    <2>1. Held' = Held
      BY <1>1, <1>3 DEF Held, Records, HeldBy
    <2> QED BY <1>1, <1>2, <2>1 DEF Inherits, TypeOK
  <1>4. CASE w.tab # None
    <2>1. PICK t : t = w.tab
      OBVIOUS
    <2>2. "AWAITING_SIGNATURE" \in Phases
      BY DEF Phases
    <2> QED BY <1>1, <1>2, <1>4, <2>1, <2>2, AnsweredInherits
  <1> QED BY <1>3, <1>4

LEMMA FaultInherits ==
  ASSUME TypeOK, NEW w \in windows, Fault(w)
  PROVE  Inherits
  <1>1. /\ windows' \subseteq (windows \ {w}) \cup {[w EXCEPT !.tab = None]}
        /\ UNCHANGED <<intents, sent, keys>>
        /\ Answered(w.tab, [page[w.tab].op.rec EXCEPT !.phase = "UNKNOWN"])
    BY FaultEffect
  <1>2. w \in Window
    BY DEF TypeOK
  <1>3. [w EXCEPT !.tab = None].key = w.key /\ [w EXCEPT !.tab = None].call = w.call
    BY <1>2 DEF Window
  <1>4. \A q \in Requests' : \E s \in Slips : q.key = s.key /\ q.call = s.call
    BY <1>1, <1>3 DEF Requests, Slips
  <1>5. PICK t : t = w.tab
    OBVIOUS
  <1>6. "UNKNOWN" \in Phases
    BY DEF Phases
  <1> QED BY <1>1, <1>4, <1>5, <1>6, AnsweredInherits

LEMMA StagedInherits ==
  ASSUME TypeOK, NEW t \in Tabs, NEW rec, StagedRecord(t, rec)
  PROVE  Inherits
  <1>1. /\ rec \in Rec /\ page[t].op.rec \in Rec /\ rec = [page[t].op.rec EXCEPT !.phase = "SENDING"]
        /\ windows' = windows \cup {[key |-> rec.key, call |-> rec.call, tab |-> t]}
        /\ Stored(t, With(rec)) /\ page'[t].op.rec = rec
        /\ page'[t].preview = page[t].preview /\ page'[t].submits = page[t].submits
        /\ UNCHANGED <<intents, sent, keys>>
    BY DEF StagedRecord
  <1>2. /\ rec.key = page[t].op.rec.key /\ rec.call = page[t].op.rec.call
        /\ rec.user = page[t].op.rec.user
    BY <1>1 DEF Rec
  <1>3. page[t].op.rec \in Held
    BY <1>1, HeldOf
  <1>4. \A q \in Requests' : \E s \in Slips : q.key = s.key /\ q.call = s.call
    BY <1>1, <1>2, <1>3 DEF Requests, Slips
  <1> QED BY <1>1, <1>2, <1>3, <1>4, SavingInherits

LEMMA HashStoredInherits ==
  ASSUME TypeOK, NEW t \in Tabs, NEW rec, HashStored(t, rec), NEW r \in Held,
         rec.key = r.key, rec.call = r.call, rec.user = r.user,
         page'[t].op.rec \in {page[t].op.rec, None, rec}
  PROVE  Inherits
  <1>1. /\ rec \in Rec /\ Stored(t, With(rec)) /\ page'[t].preview \in {page[t].preview, None}
        /\ \A s \in page'[t].submits : s.rec = rec \/ s \in page[t].submits
        /\ UNCHANGED <<intents, windows, sent, keys>>
    BY DEF HashStored
  <1>2. \A q \in Requests' : \E s \in Slips : q.key = s.key /\ q.call = s.call
    BY <1>1, RequestsKept
  <1> QED BY <1>1, <1>2, SavingInherits

LEMMA HashReturnedInherits ==
  ASSUME TypeOK, NEW t \in Tabs, HashReturned(t)
  PROVE  Inherits
  <1>1. PICK rec : rec = [page[t].op.rec EXCEPT !.phase = "SUBMITTED"]
    OBVIOUS
  <1>2. /\ HashStored(t, rec) /\ page[t].op.rec \in Rec
        /\ page'[t].op = Idle \/ page'[t].op.rec = rec
    BY <1>1, HashReturnedEffect
  <1>3. /\ rec.key = page[t].op.rec.key /\ rec.call = page[t].op.rec.call
        /\ rec.user = page[t].op.rec.user
    BY <1>1, <1>2 DEF Rec
  <1>4. page[t].op.rec \in Held
    BY <1>2, HeldOf
  <1>5. page'[t].op.rec \in {page[t].op.rec, None, rec}
    BY <1>2, IdlePage
  <1> QED BY <1>2, <1>3, <1>4, <1>5, HashStoredInherits

LEMMA RecoverInherits ==
  ASSUME TypeOK, NEW t \in Tabs, Recover(t)
  PROVE  Inherits
  <1>1. PICK r \in Records, n \in DOMAIN sent :
          HashStored(t, [r EXCEPT !.tx = n, !.phase = "SUBMITTED"])
    BY RecoverEffect
  <1>2. PICK rec : rec = [r EXCEPT !.tx = n, !.phase = "SUBMITTED"]
    OBVIOUS
  <1>3. r \in Rec /\ r \in Held
    BY RecordsIn DEF TypeOK, Records, Held
  <1>4. rec.key = r.key /\ rec.call = r.call /\ rec.user = r.user
    BY <1>2, <1>3 DEF Rec
  <1>5. page'[t].op.rec \in {page[t].op.rec, None, rec}
    BY RecoverEffect
  <1> QED BY <1>1, <1>2, <1>3, <1>4, <1>5, HashStoredInherits

\* The records stay where they are, but for a report that begins or is answered.
LEMMA ReportInherits ==
  ASSUME TypeOK, NEW t \in Tabs,
         \A x \in Tabs \ {t} : page'[x] = page[x],
         page'[t].op = page[t].op, page'[t].preview = page[t].preview,
         \A s \in page'[t].submits : s.rec \in Held,
         UNCHANGED <<windows, sent, pending, keys>>,
         \A id \in DOMAIN intents : id \in DOMAIN intents' /\ intents'[id].user = intents[id].user
  PROVE  Inherits
  <1>1. HeldBy(page[t]) \subseteq Held
    BY DEF Held
  <1>2. \A x \in HeldBy(page'[t]) : x \in Held
    BY <1>1 DEF HeldBy
  <1>3. \A x \in Held' : x \in Held
    BY <1>2 DEF Held, Records, HeldBy
  <1>4. \A q \in Requests' : \E s \in Slips : q.key = s.key /\ q.call = s.call
    BY RequestsKept
  <1> QED BY <1>3, <1>4 DEF Inherits, TypeOK

LEMMA RetryInherits ==
  ASSUME TypeOK, NEW t \in Tabs, Retry(t)
  PROVE  Inherits
  <1>1. PICK r \in Records : page'[t].submits = page[t].submits \cup {[rec |-> r, ok |-> FALSE]}
    BY RetryEffect
  <1>2. r \in Held /\ \A s \in page[t].submits : s.rec \in Held
    BY HeldOf DEF Held
  <1>3. \A s \in page'[t].submits : s.rec \in Held
    BY <1>1, <1>2
  <1>4. /\ \A x \in Tabs \ {t} : page'[x] = page[x]
        /\ page'[t].op = page[t].op /\ page'[t].preview = page[t].preview
        /\ UNCHANGED <<intents, windows, sent, pending, keys>>
    BY RetryEffect
  <1> QED BY <1>3, <1>4, ReportInherits

LEMMA SubmitServedInherits ==
  ASSUME TypeOK, NEW t \in Tabs, SubmitServed(t)
  PROVE  Inherits
  <1>1. PICK s \in page[t].submits, u \in Submit :
          u.rec = s.rec /\ page'[t].submits = (page[t].submits \ {s}) \cup {u}
    BY SubmitServedEffect
  <1>2. \A v \in page'[t].submits : v.rec \in Held
    BY <1>1, HeldOf
  <1>3. /\ \A x \in Tabs \ {t} : page'[x] = page[x]
        /\ page'[t].op = page[t].op /\ page'[t].preview = page[t].preview
        /\ UNCHANGED <<windows, sent, pending, keys>>
        /\ \A id \in DOMAIN intents : id \in DOMAIN intents' /\ intents'[id].user = intents[id].user
    BY SubmitServedEffect
  <1> QED BY <1>2, <1>3, ReportInherits

\* A record is removed.
LEMMA RemovedInherits ==
  ASSUME TypeOK, NEW t \in Tabs, NEW rec, Stored(t, Without(rec)),
         page'[t].preview = page[t].preview, page'[t].op.rec \in {page[t].op.rec, None},
         page'[t].submits \subseteq page[t].submits,
         UNCHANGED <<intents, windows, sent, keys>>
  PROVE  Inherits
  <1>1. PICK records : records = Without(rec)
    OBVIOUS
  <1>2. Written(t) /\ pending' = records
    BY <1>1 DEF Stored
  <1>3. \A x \in Range(pending') : x \in Held
    BY <1>1, <1>2, WithoutRecord DEF TypeOK, Held
  <1>4. \A x \in HeldBy(page'[t]) : x \in Held
    <2>1. HeldBy(page'[t]) \subseteq HeldBy(page[t])
      BY DEF HeldBy
    <2> QED BY <2>1 DEF Held
  <1>5. \A x \in Held' : x \in Held
    BY <1>2, <1>3, <1>4, WrittenHeld
  <1>6. \A q \in Requests' : \E s \in Slips : q.key = s.key /\ q.call = s.call
    BY RequestsKept
  <1> QED BY <1>5, <1>6 DEF Inherits, TypeOK

LEMMA EndSubmitInherits ==
  ASSUME TypeOK, NEW t \in Tabs, EndSubmit(t)
  PROVE  Inherits
  <1>1. PICK s \in page[t].submits :
          /\ s.rec \in Rec /\ page'[t].submits = page[t].submits \ {s}
          /\ (s.ok /\ Stored(t, Without(s.rec))) \/ Stored(t, With(s.rec))
    BY EndSubmitEffect
  <1>2. /\ UNCHANGED <<intents, windows, sent, keys>> /\ page'[t].preview = page[t].preview
        /\ page'[t].op.rec \in {page[t].op.rec, None}
    BY EndSubmitEffect, IdlePage
  <1>3. PICK rec \in Rec : rec = s.rec
    BY <1>1
  <1>4. CASE Stored(t, Without(s.rec))
    BY <1>1, <1>2, <1>3, <1>4, RemovedInherits
  <1>5. CASE Stored(t, With(s.rec))
    <2>1. rec \in Held /\ \A v \in page'[t].submits : v \in page[t].submits
      BY <1>1, <1>3, HeldOf
    <2>2. \A q \in Requests' : \E v \in Slips : q.key = v.key /\ q.call = v.call
      BY <1>2, RequestsKept
    <2>3. Stored(t, With(rec))
      BY <1>3, <1>5
    <2>4. /\ page'[t].preview \in {page[t].preview, None, rec}
          /\ page'[t].op.rec \in {page[t].op.rec, None, rec}
      BY <1>2
    <2> QED BY <1>2, <2>1, <2>2, <2>3, <2>4, SavingInherits
  <1> QED BY <1>1, <1>4, <1>5

LEMMA EndCheckInherits ==
  ASSUME TypeOK, NEW t \in Tabs, EndCheck(t)
  PROVE  Inherits
  <1>1. CASE QuietStep
    BY <1>1, QuietInherits
  <1>2. CASE ~QuietStep
    <2>1. PICK rec : rec = page[t].op.rec
      OBVIOUS
    <2>2. /\ Stored(t, Without(rec)) /\ UNCHANGED <<intents, windows, sent, keys>>
          /\ page'[t].op = Idle /\ page'[t].preview = page[t].preview
          /\ page'[t].submits = page[t].submits
      BY <1>2, <2>1, EndCheckEffect
    <2>3. page'[t].op.rec \in {page[t].op.rec, None}
      BY <2>2, IdlePage
    <2> QED BY <2>2, <2>3, RemovedInherits
  <1> QED BY <1>1, <1>2

LEMMA ReloadInherits ==
  ASSUME TypeOK, NEW t \in Tabs, Reload(t)
  PROVE  Inherits
  <1>1. /\ Written(t) /\ page'[t] = Loaded
        /\ \A w \in windows' : \E v \in windows : w.key = v.key /\ w.call = v.call
        /\ UNCHANGED <<intents, sent, pending, keys>>
    BY ReloadEffect
  <1>2. HeldBy(page'[t]) = {}
    BY <1>1, LoadedPage, IdlePage DEF HeldBy
  <1>3. \A x \in Held' : x \in Held
    BY <1>1, <1>2, WrittenHeld DEF Held, Records
  <1>4. \A q \in Requests' : \E s \in Slips : q.key = s.key /\ q.call = s.call
    BY <1>1 DEF Requests, Slips
  <1> QED BY <1>1, <1>3, <1>4 DEF Inherits, TypeOK

LEMMA MineInherits ==
  ASSUME TypeOK, NEW n \in DOMAIN sent, Mine(n)
  PROVE  Inherits
  <1>1. /\ TypeOK' /\ UNCHANGED <<intents, windows, pending, page, keys>>
        /\ DOMAIN sent' = DOMAIN sent
        /\ \A m \in DOMAIN sent : sent'[m].key = sent[m].key /\ sent'[m].call = sent[m].call
    BY MineEffect
  <1>2. Held' = Held
    BY <1>1 DEF Held, Records, HeldBy
  <1>3. \A m \in DOMAIN sent : sent[m] \in Slips
    BY HeldTypes DEF Slips
  <1>4. \A q \in Requests' : \E s \in Slips : q.key = s.key /\ q.call = s.call
    <2>1. \A q \in windows : q \in Slips
      BY DEF Slips, Requests
    <2> QED BY <1>1, <1>3, <2>1, RequestsNext
  <1> QED BY <1>1, <1>2, <1>4 DEF Inherits, TypeOK

LEMMA QuieterPrepares ==
  ASSUME NEW t \in Tabs, PreparesInOrder(page[t]), Quieter(page'[t], page[t]), Inherits
  PROVE  PreparesInOrder(page[t])'
  BY DEF PreparesInOrder, Quieter, Inherits

\* A tab that writes its page keeps what it prepares, or prepares nothing.
LEMMA WrittenPrepares ==
  ASSUME TypeOK, NamesInOrder, NEW t \in Tabs, Written(t), Inherits,
         page'[t].op.at \notin Preparing
           \/ (page'[t].op = page[t].op /\ page'[t].me = page[t].me)
  PROVE  \A x \in Tabs : PreparesInOrder(page[x])'
  <1>1. ASSUME NEW x \in Tabs, x # t PROVE PreparesInOrder(page[x])'
    BY <1>1, QuieterPrepares DEF Written, NamesInOrder
  <1>2. PreparesInOrder(page[t])'
    BY DEF PreparesInOrder, NamesInOrder, Inherits, Preparing
  <1> QED BY <1>1, <1>2

LEMMA QuietPrepares ==
  ASSUME TypeOK, NamesInOrder, QuietStep
  PROVE  \A x \in Tabs : PreparesInOrder(page[x])'
  <1>1. Inherits
    BY QuietInherits
  <1> SUFFICES ASSUME NEW t \in Tabs PROVE PreparesInOrder(page[t])'
    OBVIOUS
  <1>2. Moves(t, page'[t], page[t]) /\ PreparesInOrder(page[t]) /\ StageOK(page[t])
    BY DEF QuietStep, NamesInOrder, TypeOK
  <1> DEFINE p == page[t]
             q == page'[t]
  <1>3. CASE Quieter(q, p)
    BY <1>1, <1>2, <1>3, QuieterPrepares
  <1>4. CASE q.op.at \in {"idle", "auth", "authAnswer", "identity", "verify"}
    BY <1>4 DEF PreparesInOrder, Preparing
  <1>5. CASE /\ q.op.at = "check" /\ q.op.user = q.me
             /\ q.op.call # None => \E n \in DOMAIN sent : q.op.call = Refund(sent[n].call.id)
    <2>1. \A n \in DOMAIN sent : sent[n].call.id \in DOMAIN intents
      BY HeldTypes DEF NamesInOrder, SlipsInOrder, Slips
    <2>2. ASSUME q.op.call # None PROVE q.op.call.id \in DOMAIN intents'
      <3>1. PICK n \in DOMAIN sent : q.op.call = Refund(sent[n].call.id)
        BY <1>5, <2>2
      <3>2. q.op.call.id = sent[n].call.id
        BY <3>1 DEF Refund
      <3> QED BY <1>1, <2>1, <3>2 DEF Inherits
    <2> QED BY <1>5, <2>2 DEF PreparesInOrder
  <1>6. CASE /\ p.op.at = "check" /\ q.op.at = "ask"
             /\ q.op.user = p.op.user /\ q.op.call = p.op.call
             /\ q.op.fresh => p.op.fresh /\ q.me = p.me
             /\ \/ q.op.rec = p.op.rec
                \/ q.op.rec = None
                \/ q.op.call = None /\ q.op.rec.call.name = "donate"
    <2>1. p.op.rec = None
      BY <1>2, <1>6 DEF StageOK
    <2> QED BY <1>1, <1>2, <1>6, <2>1 DEF PreparesInOrder, Inherits, Preparing
  <1>7. CASE /\ p.op.at = "ask" /\ q.op.at = "answer"
             /\ q.op.user = p.op.user /\ q.op.rec = p.op.rec
             /\ q.op.fresh => p.op.fresh /\ q.me = p.me
             /\ \/ p.op.call # None /\ q.op.call = p.op.call
                \/ q.op.call.name = "donate" /\ q.op.call.id \in DOMAIN intents'
    BY <1>1, <1>2, <1>7 DEF PreparesInOrder, Inherits, Preparing
  <1> QED BY <1>2, <1>3, <1>4, <1>5, <1>6, <1>7 DEF Moves

\* The record of a preparation is in the account's name, under a key of its own
\* or that of a donation's record.
LEMMA PreparedNames ==
  ASSUME TypeOK, TypeOK', NamesInOrder, NEW t \in Tabs, NEW rec, PreparedRecord(t, rec)
  PROVE  NamesInOrder'
  <1> DEFINE p == page[t]
  <1>1. /\ p \in Page /\ p.op.at = "answer" /\ p.op.fresh /\ PaidByMe(p, p.op.call.id)
        /\ rec \in Rec /\ rec.call = p.op.call /\ rec.user = p.op.user
        /\ rec.key = IF p.op.rec # None THEN p.op.rec.key ELSE keys + 1
        /\ keys' \in Nat /\ keys <= keys' /\ (rec.key = keys + 1 => keys' = rec.key)
        /\ Stored(t, With(rec))
        /\ page'[t].op = Idle /\ page'[t].preview = rec /\ page'[t].submits = p.submits
        /\ UNCHANGED <<intents, windows, sent>>
    BY DEF PreparedRecord, TypeOK
  <1>2. PreparesInOrder(p) /\ p.op.call \in Calls /\ SlipsInOrder /\ keys \in Nat
    BY <1>1 DEF NamesInOrder, TypeOK, StageOK
  <1>3. PICK records : records = With(rec)
    OBVIOUS
  <1>4. Written(t) /\ pending' = records
    BY <1>1, <1>3 DEF Stored
  <1>5. \A x \in Held' : x = rec \/ x \in Held
    <2>1. \A x \in Range(pending') : x = rec \/ x \in Records
      BY <1>1, <1>3, <1>4, WithRecord DEF TypeOK
    <2>2. \A x \in HeldBy(page'[t]) : x = rec \/ x \in HeldBy(p)
      BY <1>1, IdlePage DEF HeldBy
    <2> QED BY <1>4, <2>1, <2>2, WrittenHeld DEF Held
  <1>6. \A x \in Slips' : x = rec \/ x \in Slips
    BY <1>1, <1>5, RequestsKept DEF Slips
  <1>7. rec.call.id \in DOMAIN intents /\ intents[rec.call.id].user = rec.user
    BY <1>1, <1>2 DEF PreparesInOrder, PaidByMe, Preparing
  <1>8. \A x \in Slips : x.key \in Nat
    BY HeldTypes DEF Slips, Rec
  <1>9. /\ rec.key <= keys'
        /\ \A y \in Slips : y.key = rec.key => y.call.name # "refund" /\ rec.call.name # "refund"
    <2>1. CASE p.op.rec # None
      <3>1. p.op.rec \in Held /\ p.op.rec.call.name = "donate" /\ rec.call.name = "donate"
        <4>1. p.op.rec \in HeldBy(p)
          BY <2>1 DEF HeldBy
        <4> QED BY <1>1, <1>2, <2>1, <4>1 DEF PreparesInOrder, Held
      <3>2. rec.key = p.op.rec.key /\ p.op.rec \in Slips
        BY <1>1, <2>1, <3>1 DEF Slips
      <3>3. rec.key <= keys /\ rec.key \in Nat
        BY <1>2, <1>8, <3>2 DEF SlipsInOrder
      <3>4. \A y \in Slips : y.key = rec.key /\ y.call.name = "refund" => p.op.rec.call = y.call
        BY <1>2, <3>2 DEF SlipsInOrder
      <3>5. "refund" # "donate"
        OBVIOUS
      <3>6. rec.key <= keys'
        BY <1>1, <1>2, <3>3
      <3> QED BY <3>1, <3>4, <3>5, <3>6
    <2>2. CASE p.op.rec = None
      <3>1. rec.key = keys + 1 /\ keys' = rec.key
        BY <1>1, <2>2
      <3> QED BY <1>2, <1>8, <3>1 DEF SlipsInOrder
    <2> QED BY <2>1, <2>2
  <1>10. SlipsInOrder'
    <2>1. \A x \in Slips' : x.key <= keys' /\ x.call.id \in DOMAIN intents'
      <3>1. \A x \in Slips : x.key <= keys /\ x.call.id \in DOMAIN intents
        BY <1>2 DEF SlipsInOrder
      <3> QED BY <1>1, <1>2, <1>6, <1>7, <1>8, <1>9, <3>1
    <2>2. \A x, y \in Slips' : x.key = y.key /\ x.call.name = "refund" => y.call = x.call
      BY <1>2, <1>6, <1>9 DEF SlipsInOrder
    <2>3. \A r \in Held' : intents'[r.call.id].user = r.user
      BY <1>1, <1>2, <1>5, <1>7 DEF SlipsInOrder
    <2> QED BY <2>1, <2>2, <2>3 DEF SlipsInOrder
  <1>11. \A x \in Tabs : PreparesInOrder(page[x])'
    <2>1. ASSUME NEW x \in Tabs, x # t PROVE PreparesInOrder(page[x])'
      BY <1>1, <1>4, <2>1 DEF Written, Quieter, NamesInOrder, PreparesInOrder
    <2>2. PreparesInOrder(page[t])'
      BY <1>1, IdlePage DEF PreparesInOrder, Preparing
    <2> QED BY <2>1, <2>2
  <1> QED BY <1>10, <1>11 DEF NamesInOrder

LEMMA InitNames == Init => NamesInOrder
  <1> SUFFICES ASSUME Init PROVE NamesInOrder
    OBVIOUS
  <1>1. \A t \in Tabs : page[t] = Loaded
    BY DEF Init
  <1>2. \A t \in Tabs : HeldBy(page[t]) = {}
    BY <1>1, LoadedPage, IdlePage DEF HeldBy
  <1>3. Range(<<>>) = {}
    <2>1. PICK s \in Seq(Nat) : s = <<>> /\ Len(s) = 0
      BY EmptySeq
    <2>2. \A x : x \in Range(s) <=> \E i \in 1..Len(s) : s[i] = x
      BY RecordsIn
    <2> QED BY <2>1, <2>2
  <1>4. Held = {} /\ Slips = {}
    BY <1>2, <1>3 DEF Init, Held, Slips, Requests, Records
  <1>5. \A t \in Tabs : PreparesInOrder(page[t])
    BY <1>1, LoadedPage, IdlePage DEF PreparesInOrder, Preparing
  <1> QED BY <1>4, <1>5 DEF NamesInOrder, SlipsInOrder

\* What each step does to what is held, asked for and prepared.
LEMMA StepNames ==
  ASSUME TypeOK, TypeOK', NamesInOrder, NEW t \in Tabs, Step(t)
  PROVE  NamesInOrder'
  <1>1. CASE QuietStep
    BY <1>1, QuietInherits, InheritedSlips, QuietPrepares DEF NamesInOrder
  <1>2. ASSUME NEW rec, PreparedRecord(t, rec) PROVE NamesInOrder'
    BY <1>2, PreparedNames
  <1>3. ASSUME NEW rec, StagedRecord(t, rec) PROVE NamesInOrder'
    <2>1. Inherits /\ Written(t) /\ page'[t].op.at \notin Preparing
      BY <1>3, StagedInherits DEF StagedRecord, Stored, Preparing
    <2> QED BY <2>1, InheritedSlips, WrittenPrepares DEF NamesInOrder
  <1>4. CASE HashReturned(t)
    <2>1. PICK rec : /\ HashStored(t, rec)
                     /\ page'[t].op = Idle \/ page'[t].op.at = "submit"
      BY <1>4, HashReturnedEffect
    <2>2. Written(t) /\ page'[t].op.at \notin Preparing
      BY <2>1, IdlePage DEF HashStored, Stored, Preparing
    <2> QED BY <1>4, <2>2, HashReturnedInherits, InheritedSlips, WrittenPrepares DEF NamesInOrder
  <1>5. CASE Recover(t)
    <2>1. PICK rec : HashStored(t, rec)
      BY <1>5, RecoverEffect
    <2>2. Written(t) /\ page'[t].op = page[t].op /\ page'[t].me = page[t].me
      BY <1>5, <2>1, RecoverEffect DEF HashStored, Stored
    <2> QED BY <1>5, <2>2, RecoverInherits, InheritedSlips, WrittenPrepares DEF NamesInOrder
  <1>6. CASE Retry(t) \/ SubmitServed(t)
    <2>1. /\ page'[t].op = page[t].op /\ page'[t].me = page[t].me
          /\ \A x \in Tabs \ {t} : page'[x] = page[x]
      BY <1>6, RetryEffect, SubmitServedEffect
    <2>2. Inherits
      BY <1>6, RetryInherits, SubmitServedInherits
    <2>3. Written(t)
      BY <2>1, QuieterSelf DEF Written, TypeOK
    <2> QED BY <2>1, <2>2, <2>3, InheritedSlips, WrittenPrepares DEF NamesInOrder
  <1>7. CASE EndSubmit(t)
    <2>1. Written(t)
      BY <1>7, EndSubmitEffect DEF Stored
    <2>2. \/ page'[t].op.at \notin Preparing
          \/ page'[t].op = page[t].op /\ page'[t].me = page[t].me
      BY <1>7, EndSubmitEffect, IdlePage DEF Preparing
    <2> QED BY <1>7, <2>1, <2>2, EndSubmitInherits, InheritedSlips, WrittenPrepares DEF NamesInOrder
  <1>8. CASE EndCheck(t) /\ ~QuietStep
    <2>1. Written(t) /\ page'[t].op = Idle
      BY <1>8, EndCheckEffect DEF Stored
    <2>2. page'[t].op.at \notin Preparing
      BY <2>1, IdlePage DEF Preparing
    <2> QED BY <1>8, <2>1, <2>2, EndCheckInherits, InheritedSlips, WrittenPrepares DEF NamesInOrder
  <1>9. CASE Reload(t)
    <2>1. Written(t) /\ page'[t].op.at \notin Preparing
      BY <1>9, ReloadEffect, LoadedPage, IdlePage DEF Preparing
    <2> QED BY <1>9, <2>1, ReloadInherits, InheritedSlips, WrittenPrepares DEF NamesInOrder
  <1> QED BY <1>1, <1>2, <1>3, <1>4, <1>5, <1>6, <1>7, <1>8, <1>9, StepEffect

LEMMA WalletNames ==
  ASSUME TypeOK, TypeOK', NamesInOrder, NEW w \in windows, Approve(w) \/ Reject(w) \/ Fault(w)
  PROVE  NamesInOrder'
  <1>1. Inherits
    BY ApproveInherits, RejectInherits, FaultInherits
  <1>2. SlipsInOrder'
    BY <1>1, InheritedSlips DEF NamesInOrder
  <1>3. ASSUME NEW x \in Tabs PROVE PreparesInOrder(page[x])'
    <2>1. \/ Quieter(page'[x], page[x])
          \/ page'[x].op.at \notin Preparing
      <3>1. page[x] \in Page
        BY DEF TypeOK
      <3>2. CASE Approve(w)
        BY <3>1, <3>2, ApproveEffect, QuieterSelf DEF Preparing
      <3>3. CASE Reject(w)
        <4>1. CASE w.tab = None
          BY <3>1, <3>3, <4>1, RejectEffect, QuieterSelf
        <4>2. CASE w.tab # None
          <5>1. PICK rec : Answered(w.tab, rec)
            BY <3>3, <4>2, RejectEffect
          <5> QED BY <5>1, IdlePage DEF Answered, Stored, Written, Preparing
        <4> QED BY <4>1, <4>2
      <3>4. CASE Fault(w)
        <4>1. PICK rec : Answered(w.tab, rec)
          BY <3>4, FaultEffect
        <4> QED BY <4>1, IdlePage DEF Answered, Stored, Written, Preparing
      <3> QED BY <3>2, <3>3, <3>4
    <2>2. CASE Quieter(page'[x], page[x])
      BY <1>1, <2>2, QuieterPrepares DEF NamesInOrder
    <2>3. CASE page'[x].op.at \notin Preparing
      BY <2>3 DEF PreparesInOrder, Preparing
    <2> QED BY <2>1, <2>2, <2>3
  <1> QED BY <1>2, <1>3 DEF NamesInOrder

LEMMA NextNames == TypeOK /\ NamesInOrder /\ [Next]_vars => NamesInOrder'
  <1> SUFFICES ASSUME TypeOK, NamesInOrder, [Next]_vars PROVE NamesInOrder'
    OBVIOUS
  <1>0. TypeOK'
    BY NextTypes
  <1>1. ASSUME NEW t \in Tabs, Step(t) PROVE NamesInOrder'
    BY <1>0, <1>1, StepNames
  <1>2. ASSUME NEW a \in Someone, SelectAccount(a) PROVE NamesInOrder'
    BY <1>0, <1>2, SelectAccountQuiet, QuietInherits, InheritedSlips, QuietPrepares DEF NamesInOrder
  <1>3. ASSUME NEW n \in DOMAIN sent, Mine(n) PROVE NamesInOrder'
    <2>1. Inherits /\ page' = page
      BY <1>3, MineInherits, MineEffect
    <2>2. \A x \in Tabs : PreparesInOrder(page[x])'
      BY <2>1, QuieterSelf, QuieterPrepares DEF NamesInOrder, TypeOK
    <2> QED BY <1>0, <2>1, <2>2, InheritedSlips DEF NamesInOrder
  <1>4. ASSUME NEW w \in windows, Approve(w) \/ Reject(w) \/ Fault(w) PROVE NamesInOrder'
    BY <1>0, <1>4, WalletNames
  <1>5. CASE UNCHANGED vars
    BY <1>5 DEF vars, NamesInOrder, SlipsInOrder, Slips, Held, Requests, Records, HeldBy,
                PreparesInOrder
  <1> QED BY <1>1, <1>2, <1>3, <1>4, <1>5 DEF Next

\* Every recovery record is in the name of the account its donation was prepared
\* for, however many tabs are open and logins and wallets are switched between
\* the answer of the server and the record: validateIdentity, validateTransaction
\* and the epochs in prepareDonation keep them apart.
THEOREM RecordsInOwnName == Spec => []InOwnName
  <1>1. NamesInOrder => InOwnName
    BY DEF NamesInOrder, SlipsInOrder, Held, InOwnName
  <1> QED BY <1>1, InitTypes, NextTypes, InitNames, NextNames, PTL DEF Spec

-----------------------------------------------------------------------------
(* One record asks once, and what was broadcast is kept, when no donation is  *)
(* prepared while another tab prepares or sends                               *)

Asked == {q.key : q \in Requests}
Open(r) == r.phase \in {"SENDING", "UNKNOWN"}
\* The hash of a record is that of a transaction of its call.
TxKnown(r) == r.tx \in DOMAIN sent /\ sent[r.tx].key = r.key /\ sent[r.tx].call = r.call

\* What was asked for under a record's key is its call, and the record says so.
RecordInOrder(r) ==
  /\ ~Handled(r) => r.key \notin Asked
  /\ r.tx # None => TxKnown(r)
  /\ \A q \in Requests : q.key = r.key => q.call = r.call
RecordsInOrder == \A r \in Records : RecordInOrder(r)

\* The tab that waits for a window asked for its record.
TabWaits(w) ==
  w.tab # None => page[w.tab].op.rec.key = w.key /\ page[w.tab].op.rec.call = w.call
\* The record of a window says that it may have been signed.
WindowKept(w) == Settled(w.call) \/ \E r \in Records : r.key = w.key /\ Open(r)
WindowsInOrder == \A w \in windows : TabWaits(w) /\ WindowKept(w)

OneAtATime ==
  \A x, y \in Tabs : x # y /\ page[x].op.at \in Preparing => page[y].op.at \notin Preparing \cup Sending

\* A tab shows, prepares and sends only what was not asked for yet, and reports
\* and checks what was.
TabInOrder(p) ==
  /\ p.preview # None /\ p.op.at \notin {"window", "hash"} => p.preview.key \notin Asked
  /\ p.op.at = "identity" /\ p.op.fresh => p.preview = p.op.rec
  /\ p.op.at \in {"ask", "answer"} /\ p.op.rec # None => p.op.rec.key \notin Asked
  /\ p.op.at \in {"identity", "window"} => p.op.rec.tx = None
  /\ p.op.at = "hash" => TxKnown(p.op.rec)
  /\ p.op.at = "verify" => p.op.rec.call.name = "refund" /\ p.op.key \in DOMAIN sent
  /\ \A s \in p.submits : TxKnown(s.rec) /\ (s.ok => intents[s.rec.call.id].tx = s.rec.tx)

CallsInOrder ==
  /\ RecordsInOrder /\ WindowsInOrder /\ OneAtATime /\ AskedOnce /\ SentIsKept
  /\ \A t \in Tabs : TabInOrder(page[t])

IInv == TypeOK /\ NamesInOrder /\ CallsInOrder

\* Nothing broadcast is undone, and a hash the server has stays.
Grows ==
  /\ \A n \in DOMAIN sent : /\ n \in DOMAIN sent'
                            /\ sent'[n].key = sent[n].key /\ sent'[n].call = sent[n].call
                            /\ sent[n].mined => sent'[n].mined
  /\ \A id \in DOMAIN intents : /\ id \in DOMAIN intents'
                                /\ intents[id].tx # None => intents'[id].tx = intents[id].tx
\* Nothing is asked for under this key that was not before.
NoNews(key) == \A q \in Requests' : q.key = key => \E s \in Requests : s.key = key /\ s.call = q.call

LEMMA TxKnownKept ==
  ASSUME Grows, NEW r, TxKnown(r)
  PROVE  TxKnown(r)'
  BY DEF Grows, TxKnown

LEMMA SettledKept ==
  ASSUME Grows, NEW call, Settled(call)
  PROVE  Settled(call)'
  BY DEF Grows, Settled

LEMMA UnaskedKept ==
  ASSUME NEW key, key \notin Asked, NoNews(key)
  PROVE  key \notin Asked'
  BY DEF Asked, NoNews

LEMMA RecordKept ==
  ASSUME Grows, NEW r, RecordInOrder(r), NoNews(r.key)
  PROVE  RecordInOrder(r)'
  <1>1. (r.tx # None => TxKnown(r)') /\ (~Handled(r) => r.key \notin Asked')
    BY TxKnownKept, UnaskedKept DEF RecordInOrder
  <1>2. \A q \in Requests' : q.key = r.key => q.call = r.call
    BY DEF RecordInOrder, NoNews
  <1> QED BY <1>1, <1>2 DEF RecordInOrder, Handled

\* A report stays one of a broadcast transaction, and answered if it was.
LEMMA ReportKept ==
  ASSUME TypeOK, NamesInOrder, Grows, NEW t \in Tabs, NEW s \in page[t].submits,
         TxKnown(s.rec), s.ok => intents[s.rec.call.id].tx = s.rec.tx
  PROVE  TxKnown(s.rec)' /\ (s.ok => intents'[s.rec.call.id].tx = s.rec.tx)
  <1>1. PICK r : r = s.rec
    OBVIOUS
  <1>2. TxKnown(r)'
    BY <1>1, TxKnownKept
  <1>3. r.call.id \in DOMAIN intents
    BY <1>1, HeldOf DEF NamesInOrder, SlipsInOrder, Slips
  <1>4. r.tx # None
    <2>1. r.tx \in DOMAIN sent /\ DOMAIN sent \subseteq Nat
      BY <1>1 DEF TxKnown, TypeOK
    <2> QED BY <2>1, PageAssumption
  <1> QED BY <1>1, <1>2, <1>3, <1>4 DEF Grows

\* A page in which no more goes on stays in order.
LEMMA QuieterInOrder ==
  ASSUME IInv, Grows, NEW t \in Tabs, TabInOrder(page[t]), Quieter(page'[t], page[t]),
         page'[t].preview # None => NoNews(page'[t].preview.key),
         page[t].op.at \in {"ask", "answer"} => NoNews(page[t].op.rec.key)
  PROVE  TabInOrder(page[t])'
  <1>0. PICK p, q : p = page[t] /\ q = page'[t]
    OBVIOUS
  <1>1. /\ q.preview \in {p.preview, None} /\ q.submits = p.submits
        /\ q.op.at = p.op.at /\ q.op.rec = p.op.rec /\ q.op.key = p.op.key
        /\ q.op.fresh => p.op.fresh /\ q.preview = p.preview
    BY <1>0 DEF Quieter
  <1>2. q.preview # None /\ q.op.at \notin {"window", "hash"} => q.preview.key \notin Asked'
    BY <1>0, <1>1, UnaskedKept DEF TabInOrder
  <1>3. q.op.at \in {"ask", "answer"} /\ q.op.rec # None => q.op.rec.key \notin Asked'
    BY <1>0, <1>1, UnaskedKept DEF TabInOrder
  <1>4. q.op.at = "hash" => TxKnown(q.op.rec)'
    BY <1>0, <1>1, TxKnownKept DEF TabInOrder
  <1>5. ASSUME NEW s \in q.submits
        PROVE  TxKnown(s.rec)' /\ (s.ok => intents'[s.rec.call.id].tx = s.rec.tx)
    BY <1>0, <1>1, <1>5, ReportKept DEF TabInOrder, IInv
  <1>6. q.op.at = "verify" => q.op.rec.call.name = "refund" /\ q.op.key \in DOMAIN sent'
    BY <1>0, <1>1 DEF TabInOrder, Grows
  <1>7. /\ q.op.at = "identity" /\ q.op.fresh => q.preview = q.op.rec
        /\ q.op.at \in {"identity", "window"} => q.op.rec.tx = None
    BY <1>0, <1>1 DEF TabInOrder
  <1>8. TabInOrder(q)'
    BY <1>2, <1>3, <1>4, <1>5, <1>6, <1>7 DEF TabInOrder
  <1> QED BY <1>0, <1>8 DEF TabInOrder

\* A page that moves stays in order.
LEMMA MovesInOrder ==
  ASSUME IInv, Grows, NEW t \in Tabs, Moves(t, page'[t], page[t]), UNCHANGED <<windows, sent>>
  PROVE  TabInOrder(page[t])'
  <1>0. PICK p, q : p = page[t] /\ q = page'[t]
    OBVIOUS
  <1>1. TabInOrder(p) /\ StageOK(p) /\ p \in Page /\ Moves(t, q, p)
    BY <1>0 DEF IInv, CallsInOrder, TypeOK
  <1>2. /\ \A k : NoNews(k)
        /\ \A k : k \notin Asked => k \notin Asked'
    BY RequestsKept DEF NoNews, Asked
  <1>3. CASE Quieter(q, p)
    BY <1>0, <1>1, <1>2, <1>3, QuieterInOrder
  <1>4. CASE ~Quieter(q, p)
    <2>1. /\ q.preview \in {p.preview, None} /\ q.submits = p.submits
          /\ p.op.at \notin {"window", "hash"} /\ q.op.at \notin {"window", "hash"}
      BY <1>1, <1>4 DEF Moves
    <2>2. q.preview # None => q.preview.key \notin Asked'
      BY <1>1, <1>2, <2>1 DEF TabInOrder
    <2>3. q.op.at = "identity" => q.preview = q.op.rec /\ q.op.rec.tx = None
      BY <1>1, <1>4 DEF Moves, Handled
    <2>4. q.op.at \in {"ask", "answer"} /\ q.op.rec # None => q.op.rec.key \notin Asked
      <3>1. \A r \in Records : ~Handled(r) => r.key \notin Asked
        BY DEF IInv, CallsInOrder, RecordsInOrder, RecordInOrder
      <3>2. CASE p.op.at = "check" /\ q.op.at = "ask"
        <4>1. p.op.rec = None
          BY <1>1, <3>2 DEF StageOK
        <4>2. \/ q.op.rec = p.op.rec \/ q.op.rec = None
              \/ q.op.rec \in Records /\ ~Handled(q.op.rec)
          BY <1>1, <1>4, <3>2 DEF Moves
        <4> QED BY <3>1, <4>1, <4>2
      <3>3. CASE p.op.at = "ask" /\ q.op.at = "answer"
        <4>1. q.op.rec = p.op.rec
          BY <1>1, <1>4, <3>3 DEF Moves
        <4> QED BY <1>1, <3>3, <4>1 DEF TabInOrder
      <3>4. q.op.at \in {"ask", "answer"} =>
              (p.op.at = "check" /\ q.op.at = "ask") \/ (p.op.at = "ask" /\ q.op.at = "answer")
        BY <1>1, <1>4 DEF Moves
      <3> QED BY <3>2, <3>3, <3>4
    <2>5. q.op.at = "verify" => q.op.rec.call.name = "refund" /\ q.op.key \in DOMAIN sent'
      BY <1>1, <1>4 DEF Moves
    <2>6. ASSUME NEW s \in q.submits
          PROVE  TxKnown(s.rec)' /\ (s.ok => intents'[s.rec.call.id].tx = s.rec.tx)
      BY <1>0, <1>1, <2>1, <2>6, ReportKept DEF TabInOrder, IInv
    <2>7. TabInOrder(q)'
      BY <1>2, <2>1, <2>2, <2>3, <2>4, <2>5, <2>6 DEF TabInOrder
    <2> QED BY <1>0, <2>7 DEF TabInOrder
  <1> QED BY <1>3, <1>4

\* Records and windows stay in order when nothing is stored or asked for.
LEMMA KeptInOrder ==
  ASSUME IInv, Grows, UNCHANGED pending, \A k : NoNews(k),
         \A w \in windows' : \E v \in windows : v.key = w.key /\ v.call = w.call
  PROVE  /\ RecordsInOrder'
         /\ \A w \in windows' : WindowKept(w)'
  <1>1. Records' = Records
    BY DEF Records
  <1>2. RecordsInOrder'
    BY <1>1, RecordKept DEF IInv, CallsInOrder, RecordsInOrder
  <1>3. ASSUME NEW w \in windows' PROVE WindowKept(w)'
    <2>1. PICK c : c = w.call
      OBVIOUS
    <2>2. Settled(c) \/ \E r \in Records : r.key = w.key /\ Open(r)
      BY <2>1 DEF IInv, CallsInOrder, WindowsInOrder, WindowKept
    <2>3. Settled(c)' \/ \E r \in Records' : r.key = w.key /\ Open(r)
      BY <1>1, <2>2, SettledKept
    <2> QED BY <2>1, <2>3 DEF WindowKept, Open
  <1> QED BY <1>2, <1>3

\* What became of a broadcast transaction is still known.
LEMMA BroadcastKept ==
  ASSUME IInv, Grows, NEW n \in DOMAIN sent,
         \A r \in Records : r.key = sent[n].key /\ (r.tx = n \/ Open(r)) =>
           \E s \in Records' : s.key = sent[n].key /\ (s.tx = n \/ Open(s))
  PROVE  \/ intents'[sent'[n].call.id].tx = n
         \/ Settled(sent[n].call)'
         \/ \E r \in Records' : r.key = sent'[n].key /\ (r.tx = n \/ Open(r))
  <1>1. PICK c, k : c = sent[n].call /\ k = sent[n].key
    OBVIOUS
  <1>2. sent'[n].call = c /\ sent'[n].key = k
    BY <1>1 DEF Grows
  <1>3. c.id \in DOMAIN intents
    BY <1>1, HeldTypes DEF IInv, NamesInOrder, SlipsInOrder, Slips
  <1>4. n # None
    <2>1. DOMAIN sent \subseteq Nat
      BY DEF IInv, TypeOK
    <2> QED BY <2>1, PageAssumption
  <1>5. CASE intents[c.id].tx = n
    BY <1>2, <1>3, <1>4, <1>5 DEF Grows
  <1>6. CASE Settled(c)
    <2>1. Settled(c)'
      BY <1>6, SettledKept
    <2>2. Settled(sent[n].call)' <=> Settled(c)'
      BY <1>2 DEF Settled
    <2> QED BY <2>1, <2>2
  <1>7. CASE \E r \in Records : r.key = k /\ (r.tx = n \/ Open(r))
    BY <1>1, <1>2, <1>7
  <1> QED BY <1>1, <1>5, <1>6, <1>7 DEF IInv, CallsInOrder, SentIsKept, Open

LEMMA BroadcastsKept ==
  ASSUME IInv, Grows, DOMAIN sent' = DOMAIN sent,
         \A n \in DOMAIN sent : \A r \in Records :
           r.key = sent[n].key /\ (r.tx = n \/ Open(r)) =>
             \E s \in Records' : s.key = sent[n].key /\ (s.tx = n \/ Open(s))
  PROVE  SentIsKept'
  <1>1. ASSUME NEW n \in DOMAIN sent
        PROVE  \/ intents'[sent'[n].call.id].tx = n
               \/ Settled(sent[n].call)'
               \/ \E r \in Records' : r.key = sent'[n].key /\ (r.tx = n \/ Open(r))
    BY BroadcastKept
  <1> QED BY <1>1 DEF SentIsKept, Open

\* Whether a request was asked for is not changed when nothing is broadcast.
LEMMA AskedOnceKept ==
  ASSUME IInv, Grows, DOMAIN sent' = DOMAIN sent,
         \A w \in windows' : \E v \in windows : w.key = v.key,
         \A v, w \in windows' : v.key = w.key => v = w
  PROVE  AskedOnce'
  BY DEF IInv, CallsInOrder, AskedOnce, Grows

LEMMA QuietInOrder ==
  ASSUME ~Parallel, IInv, QuietStep
  PROVE  CallsInOrder'
  <1>0. Grows /\ UNCHANGED <<windows, sent, pending>> /\ \A k : NoNews(k)
    BY RequestsKept DEF Grows, QuietStep, IntentsKept, NoNews
  <1>1. RecordsInOrder' /\ \A w \in windows' : WindowKept(w)'
    BY <1>0, KeptInOrder
  <1>2. Records' = Records
    BY <1>0 DEF Records
  <1>3. SentIsKept'
    BY <1>0, <1>2, BroadcastsKept
  <1>4. AskedOnce'
    BY <1>0 DEF IInv, CallsInOrder, AskedOnce
  <1>5. \A t \in Tabs : TabInOrder(page[t])'
    BY <1>0, MovesInOrder DEF QuietStep
  <1>6. ASSUME NEW w \in windows PROVE TabWaits(w)'
    <2>1. w.tab # None => w.tab \in Tabs /\ page[w.tab].op.at = "window"
      BY DEF IInv, TypeOK, Window
    <2>2. TabWaits(w)
      BY DEF IInv, CallsInOrder, WindowsInOrder
    <2> QED BY <2>1, <2>2 DEF TabWaits, QuietStep, Moves, Quieter
  <1>7. OneAtATime'
    <2> SUFFICES ASSUME NEW x \in Tabs, NEW y \in Tabs, x # y, page'[x].op.at \in Preparing,
                        page'[y].op.at \in Preparing \cup Sending
                 PROVE  FALSE
      BY DEF OneAtATime
    <2>1. /\ Moves(x, page'[x], page[x]) /\ Moves(y, page'[y], page[y])
          /\ Quieter(page'[x], page[x]) \/ Quieter(page'[y], page[y])
      BY DEF QuietStep
    <2>2. /\ page[x].op.at \in Preparing => page[y].op.at \notin Preparing \cup Sending
          /\ page[y].op.at \in Preparing => page[x].op.at \notin Preparing \cup Sending
      BY DEF IInv, CallsInOrder, OneAtATime
    <2>3. CASE Quieter(page'[x], page[x])
      <3>1. page[x].op.at \in Preparing
        BY <2>3 DEF Quieter
      <3>2. page[y].op.at \notin Preparing \cup Sending
        BY <2>2, <3>1
      <3>3. page[x].op.at \in Preparing => \/ page'[y].op.at \notin Preparing \cup Sending
                                           \/ page[y].op.at \in Preparing \cup Sending
        BY <2>1 DEF Moves, Quieter, Preparing, Sending, Elsewhere
      <3> QED BY <3>1, <3>2, <3>3
    <2>4. CASE Quieter(page'[y], page[y])
      <3>1. page[y].op.at \in Preparing \cup Sending
        BY <2>4 DEF Quieter
      <3>2. page[x].op.at \notin Preparing
        BY <2>2, <3>1
      <3>3. ~(page[y].op.at \in Preparing \cup Sending) \/ page[x].op.at \in Preparing
              \/ page'[x].op.at \notin Preparing
        BY <2>1 DEF Moves, Quieter, Preparing, Sending, Elsewhere
      <3> QED BY <3>1, <3>2, <3>3
    <2> QED BY <2>1, <2>3, <2>4
  <1> QED BY <1>0, <1>1, <1>3, <1>4, <1>5, <1>6, <1>7 DEF CallsInOrder, WindowsInOrder

\* A tab whose step ends, or only reports, stays in order.
LEMMA TabAfter ==
  ASSUME IInv, Grows, NEW t \in Tabs, \A k : NoNews(k),
         \/ page'[t].op = page[t].op /\ page'[t].preview = page[t].preview
         \/ /\ page'[t].op.at \in {"idle", "submit"}
            /\ \/ page'[t].preview = None \/ page'[t].preview.key \notin Asked
               \/ page'[t].preview = page[t].preview /\ page[t].op.at \notin {"window", "hash"},
         \A s \in page'[t].submits :
           \/ s \in page[t].submits
           \/ TxKnown(s.rec)' /\ (s.ok => intents'[s.rec.call.id].tx = s.rec.tx)
  PROVE  TabInOrder(page[t])'
  <1>0. PICK p, q : p = page[t] /\ q = page'[t]
    OBVIOUS
  <1>1. TabInOrder(p)
    BY <1>0 DEF IInv, CallsInOrder
  <1>2. \A k : k \notin Asked => k \notin Asked'
    BY UnaskedKept
  <1>3. ASSUME NEW s \in q.submits
        PROVE  TxKnown(s.rec)' /\ (s.ok => intents'[s.rec.call.id].tx = s.rec.tx)
    BY <1>0, <1>1, <1>3, ReportKept DEF TabInOrder, IInv
  <1>4. CASE q.op = p.op /\ q.preview = p.preview
    <2>1. q.op.at = "hash" => TxKnown(q.op.rec)'
      BY <1>1, <1>4, TxKnownKept DEF TabInOrder
    <2>2. q.op.at = "verify" => q.op.rec.call.name = "refund" /\ q.op.key \in DOMAIN sent'
      BY <1>1, <1>4 DEF TabInOrder, Grows
    <2>3. TabInOrder(q)'
      BY <1>1, <1>2, <1>3, <1>4, <2>1, <2>2 DEF TabInOrder
    <2> QED BY <1>0, <2>3 DEF TabInOrder
  <1>5. CASE /\ q.op.at \in {"idle", "submit"}
             /\ \/ q.preview = None \/ q.preview.key \notin Asked
                \/ q.preview = p.preview /\ p.op.at \notin {"window", "hash"}
    <2>1. q.preview # None => q.preview.key \notin Asked'
      BY <1>1, <1>2, <1>5 DEF TabInOrder
    <2>2. TabInOrder(q)'
      BY <1>3, <1>5, <2>1 DEF TabInOrder
    <2> QED BY <1>0, <2>2 DEF TabInOrder
  <1> QED BY <1>0, <1>4, <1>5

\* No tab takes its turn to prepare or send while another has it.
LEMMA TurnsKept ==
  ASSUME IInv, NEW t \in Tabs, Written(t),
         \/ page'[t].op.at = page[t].op.at
         \/ page'[t].op.at \notin Preparing \cup Sending
         \/ page'[t].op.at \in Sending /\ page[t].op.at \in Sending
  PROVE  OneAtATime'
  <1>1. \A x \in Tabs \ {t} : page'[x].op.at = page[x].op.at
    BY DEF Written, Quieter
  <1>2. \A at \in Sending : at \notin Preparing
    BY DEF Sending, Preparing
  <1>3. \A x, y \in Tabs : x # y /\ page[x].op.at \in Preparing => page[y].op.at \notin Preparing \cup Sending
    BY DEF IInv, CallsInOrder, OneAtATime
  <1> SUFFICES ASSUME NEW x \in Tabs, NEW y \in Tabs, x # y, page'[x].op.at \in Preparing,
                      page'[y].op.at \in Preparing \cup Sending
               PROVE  FALSE
    BY DEF OneAtATime
  <1>4. page[x].op.at \in Preparing
    BY <1>1, <1>2
  <1>5. page[y].op.at \in Preparing \cup Sending
    BY <1>1, <1>2
  <1> QED BY <1>3, <1>4, <1>5

\* The tabs that wait for a window still do.
LEMMA WaitsKept ==
  ASSUME IInv, NEW t \in Tabs, Written(t), NEW w \in windows,
         w.tab # t \/ w.tab = None \/ page'[t].op.rec = page[t].op.rec
  PROVE  TabWaits(w)'
  <1>1. w.tab # None => w.tab \in Tabs
    BY DEF IInv, TypeOK, Window
  <1>2. TabWaits(w)
    BY DEF IInv, CallsInOrder, WindowsInOrder
  <1> QED BY <1>1, <1>2 DEF TabWaits, Written, Quieter

LEMMA OthersInOrder ==
  ASSUME IInv, Grows, NEW t \in Tabs, Written(t), \A k : NoNews(k), TabInOrder(page[t])'
  PROVE  \A x \in Tabs : TabInOrder(page[x])'
  <1>1. ASSUME NEW x \in Tabs, x # t PROVE TabInOrder(page[x])'
    <2>1. Quieter(page'[x], page[x]) /\ TabInOrder(page[x])
      BY <1>1 DEF Written, IInv, CallsInOrder
    <2> QED BY <2>1, QuieterInOrder
  <1> QED BY <1>1

\* The windows and the chain stay as they are.
LEMMA StillAskedFor ==
  ASSUME TypeOK, UNCHANGED <<windows, sent>>,
         \A id \in DOMAIN intents : /\ id \in DOMAIN intents'
                                    /\ intents[id].tx # None => intents'[id].tx = intents[id].tx
  PROVE  Grows /\ \A k : NoNews(k)
  BY RequestsKept DEF Grows, NoNews

\* A report that begins, or that the server takes, leaves all in order.
LEMMA ReportInOrder ==
  ASSUME IInv, NEW t \in Tabs, Written(t), UNCHANGED <<windows, sent, pending>>,
         \A id \in DOMAIN intents : /\ id \in DOMAIN intents'
                                    /\ intents[id].tx # None => intents'[id].tx = intents[id].tx,
         page'[t].op = page[t].op, page'[t].preview = page[t].preview,
         \A s \in page'[t].submits :
           \/ s \in page[t].submits
           \/ TxKnown(s.rec)' /\ (s.ok => intents'[s.rec.call.id].tx = s.rec.tx)
  PROVE  CallsInOrder'
  <1>1. Grows /\ \A k : NoNews(k)
    BY StillAskedFor DEF IInv
  <1>2. RecordsInOrder' /\ \A w \in windows' : WindowKept(w)'
    BY <1>1, KeptInOrder
  <1>3. Records' = Records
    BY DEF Records
  <1>4. SentIsKept'
    BY <1>1, <1>3, BroadcastsKept
  <1>5. AskedOnce'
    BY DEF IInv, CallsInOrder, AskedOnce
  <1>6. TabInOrder(page[t])'
    BY <1>1, TabAfter
  <1>7. \A x \in Tabs : TabInOrder(page[x])'
    BY <1>1, <1>6, OthersInOrder
  <1>8. \A w \in windows' : TabWaits(w)'
    BY WaitsKept
  <1>9. OneAtATime'
    BY TurnsKept
  <1> QED BY <1>2, <1>4, <1>5, <1>7, <1>8, <1>9 DEF CallsInOrder, WindowsInOrder

LEMMA RetryInOrder ==
  ASSUME IInv, NEW t \in Tabs, Retry(t)
  PROVE  CallsInOrder'
  <1>1. PICK r \in Records : /\ r.tx # None
                             /\ page'[t].submits = page[t].submits \cup {[rec |-> r, ok |-> FALSE]}
    BY RetryEffect DEF IInv
  <1>2. /\ UNCHANGED <<intents, windows, sent, pending>> /\ Written(t)
        /\ page'[t].op = page[t].op /\ page'[t].preview = page[t].preview
    BY RetryEffect, QuieterSelf DEF IInv, Written, TypeOK
  <1>3. TxKnown(r)
    BY <1>1 DEF IInv, CallsInOrder, RecordsInOrder, RecordInOrder
  <1>4. TxKnown(r)'
    BY <1>2, <1>3 DEF TxKnown
  <1>5. ASSUME NEW s \in page'[t].submits
        PROVE  \/ s \in page[t].submits
               \/ TxKnown(s.rec)' /\ (s.ok => intents'[s.rec.call.id].tx = s.rec.tx)
    <2>1. CASE s = [rec |-> r, ok |-> FALSE]
      <3>1. s.rec = r /\ ~s.ok
        BY <2>1
      <3> QED BY <1>4, <3>1
    <2> QED BY <1>1, <1>5, <2>1
  <1> QED BY <1>2, <1>5, ReportInOrder

LEMMA SubmitServedInOrder ==
  ASSUME IInv, NEW t \in Tabs, SubmitServed(t)
  PROVE  CallsInOrder'
  <1>1. PICK s \in page[t].submits, u \in Submit :
          /\ intents[s.rec.call.id].tx \in {None, s.rec.tx}
          /\ u.rec = s.rec
          /\ \A id \in DOMAIN intents :
               intents'[id].tx = IF id = s.rec.call.id THEN s.rec.tx ELSE intents[id].tx
          /\ page'[t].submits = (page[t].submits \ {s}) \cup {u}
    BY SubmitServedEffect DEF IInv
  <1>2. /\ UNCHANGED <<windows, sent, pending>> /\ DOMAIN intents' = DOMAIN intents
        /\ page'[t].op = page[t].op /\ page'[t].preview = page[t].preview
    BY SubmitServedEffect DEF IInv
  <1>3. Written(t)
    <2>1. TypeOK' /\ \A x \in Tabs \ {t} : page'[x] = page[x]
      BY SubmitServedEffect DEF IInv
    <2> QED BY <2>1, QuieterSelf DEF IInv, Written, TypeOK
  <1>4. PICK r : r = s.rec
    OBVIOUS
  <1>5. TxKnown(r) /\ r.call.id \in DOMAIN intents
    BY <1>4, HeldOf DEF IInv, CallsInOrder, TabInOrder, NamesInOrder, SlipsInOrder, Slips
  <1>6. TxKnown(r)' /\ intents'[r.call.id].tx = r.tx
    BY <1>1, <1>2, <1>4, <1>5 DEF TxKnown
  <1>7. \A id \in DOMAIN intents : intents[id].tx # None => intents'[id].tx = intents[id].tx
    BY <1>1
  <1>8. ASSUME NEW v \in page'[t].submits
        PROVE  \/ v \in page[t].submits
               \/ TxKnown(v.rec)' /\ (v.ok => intents'[v.rec.call.id].tx = v.rec.tx)
    <2>1. CASE v = u
      <3>1. v.rec = r
        BY <1>1, <1>4, <2>1
      <3> QED BY <1>6, <3>1
    <2> QED BY <1>1, <1>8, <2>1
  <1> QED BY <1>2, <1>3, <1>7, <1>8, ReportInOrder

\* Tab t stores a record, or removes one, and the wallet and the chain stay.
LEMMA StoreInOrder ==
  ASSUME IInv, NEW t \in Tabs, NEW k, Written(t), UNCHANGED <<intents, windows, sent>>,
         \A r \in Records : r.key # k => r \in Range(pending'),
         \A r \in Range(pending') : (r \in Records /\ r.key # k) \/ RecordInOrder(r),
         \A n \in DOMAIN sent : sent[n].key = k =>
           \/ intents[sent[n].call.id].tx = n
           \/ Settled(sent[n].call)
           \/ \E r \in Range(pending') : r.key = k /\ (r.tx = n \/ Open(r)),
         \A w \in windows : w.key = k =>
           Settled(w.call) \/ \E r \in Range(pending') : r.key = k /\ Open(r),
         \/ page'[t].op = page[t].op /\ page'[t].preview = page[t].preview
         \/ /\ page'[t].op.at \in {"idle", "submit"}
            /\ page[t].op.at # "window"
            /\ \/ page'[t].preview = None \/ page'[t].preview.key \notin Asked
               \/ page'[t].preview = page[t].preview /\ page[t].op.at \notin {"window", "hash"},
         \A s \in page'[t].submits : s \in page[t].submits \/ (TxKnown(s.rec)' /\ ~s.ok)
  PROVE  CallsInOrder'
  <1>1. Grows /\ \A key : NoNews(key)
    BY StillAskedFor DEF IInv
  <1>2. Records' = Range(pending')
    BY DEF Records
  <1>3. RecordsInOrder'
    <2>1. ASSUME NEW r \in Records' PROVE RecordInOrder(r)'
      <3>1. RecordInOrder(r)
        BY <1>2, <2>1 DEF IInv, CallsInOrder, RecordsInOrder
      <3> QED BY <1>1, <3>1, RecordKept
    <2> QED BY <2>1 DEF RecordsInOrder
  <1>4. \A c : Settled(c) => Settled(c)'
    BY <1>1, SettledKept
  <1>5. ASSUME NEW w \in windows PROVE WindowKept(w)' /\ TabWaits(w)'
    <2>1. PICK c : c = w.call
      OBVIOUS
    <2>2. Settled(c) \/ \E r \in Records' : r.key = w.key /\ Open(r)
      BY <1>2, <2>1 DEF IInv, CallsInOrder, WindowsInOrder, WindowKept
    <2>3. Settled(c)' \/ \E r \in Records' : r.key = w.key /\ Open(r)
      BY <1>4, <2>2
    <2>4. WindowKept(w)'
      BY <2>1, <2>3 DEF WindowKept, Open
    <2>5. w.tab = t /\ w.tab # None => page[t].op.at = "window"
      BY DEF IInv, TypeOK
    <2>6. TabWaits(w)'
      BY <2>5, WaitsKept
    <2> QED BY <2>4, <2>6
  <1>6. SentIsKept'
    <2>1. ASSUME NEW n \in DOMAIN sent
          PROVE  \/ intents'[sent'[n].call.id].tx = n
                 \/ Settled(sent[n].call)'
                 \/ \E r \in Records' : r.key = sent'[n].key /\ (r.tx = n \/ Open(r))
      <3>1. CASE sent[n].key = k
        <4>1. PICK c : c = sent[n].call
          OBVIOUS
        <4>2. Settled(c)' <=> Settled(sent[n].call)'
          BY <4>1 DEF Settled
        <4> QED BY <1>2, <1>4, <3>1, <4>1, <4>2
      <3>2. CASE sent[n].key # k
        <4>1. \A r \in Records : r.key = sent[n].key => r \in Records'
          BY <1>2, <3>2
        <4> QED BY <1>1, <4>1, BroadcastKept
      <3> QED BY <3>1, <3>2
    <2> QED BY <2>1 DEF SentIsKept, Open
  <1>7. AskedOnce'
    BY DEF IInv, CallsInOrder, AskedOnce
  <1>8. \A x \in Tabs : TabInOrder(page[x])'
    <2>1. TabInOrder(page[t])'
      BY <1>1, TabAfter
    <2> QED BY <1>1, <2>1, OthersInOrder
  <1>9. OneAtATime'
    BY TurnsKept DEF Preparing, Sending
  <1> QED BY <1>3, <1>5, <1>6, <1>7, <1>8, <1>9 DEF CallsInOrder, WindowsInOrder

\* A record with a known hash is in order, and nothing else was asked for under
\* its key.
LEMMA KnownInOrder ==
  ASSUME IInv, NEW r, TxKnown(r)
  PROVE  /\ RecordInOrder(r) /\ r.tx # None
         /\ \A n \in DOMAIN sent : sent[n].key = r.key => r.tx = n
         /\ \A w \in windows : w.key # r.key
  <1>1. DOMAIN sent \subseteq Nat
    BY DEF IInv, TypeOK
  <1>2. r.tx # None
    BY <1>1, PageAssumption DEF TxKnown
  <1>3. /\ \A n \in DOMAIN sent : sent[n].key = r.key => r.tx = n
        /\ \A w \in windows : w.key # r.key
    BY DEF IInv, CallsInOrder, AskedOnce, TxKnown
  <1>4. \A q \in Requests : q.key = r.key => q.call = r.call
    BY <1>3, HeldTypes DEF IInv, TxKnown
  <1> QED BY <1>2, <1>3, <1>4 DEF RecordInOrder, Handled

\* The records once one is saved or removed.
LEMMA StoredRecords ==
  ASSUME TypeOK, NEW t, NEW rec \in Rec
  PROVE  /\ Stored(t, With(rec)) =>
              Written(t) /\ Range(pending') = {r \in Records : r.key # rec.key} \cup {rec}
         /\ Stored(t, Without(rec)) =>
              Written(t) /\ Range(pending') = {r \in Records : r.key # rec.key}
  <1>1. PICK a, b : a = With(rec) /\ b = Without(rec)
    OBVIOUS
  <1>2. /\ Range(a) = {r \in Records : r.key # rec.key} \cup {rec}
        /\ Range(b) = {r \in Records : r.key # rec.key}
    BY <1>1, WithRecord, WithoutRecord DEF TypeOK
  <1>3. /\ Stored(t, a) => Written(t) /\ pending' = a
        /\ Stored(t, b) => Written(t) /\ pending' = b
    BY DEF Stored
  <1> QED BY <1>1, <1>2, <1>3

\* A record with a known hash is saved.
LEMMA SavedInOrder ==
  ASSUME IInv, NEW t \in Tabs, NEW rec \in Rec, Stored(t, With(rec)), TxKnown(rec),
         UNCHANGED <<intents, windows, sent>>,
         \/ page'[t].op = page[t].op /\ page'[t].preview = page[t].preview
         \/ /\ page'[t].op.at \in {"idle", "submit"}
            /\ page[t].op.at # "window"
            /\ \/ page'[t].preview = None
               \/ page'[t].preview = page[t].preview /\ page[t].op.at \notin {"window", "hash"},
         \A s \in page'[t].submits : s \in page[t].submits \/ (s.rec = rec /\ ~s.ok)
  PROVE  CallsInOrder'
  <1>1. Written(t) /\ Range(pending') = {r \in Records : r.key # rec.key} \cup {rec}
    BY StoredRecords DEF IInv
  <1>2. /\ RecordInOrder(rec)
        /\ \A n \in DOMAIN sent : sent[n].key = rec.key => rec.tx = n
        /\ \A w \in windows : w.key # rec.key
    BY KnownInOrder
  <1>3. TxKnown(rec)'
    BY DEF TxKnown
  <1>4. ASSUME NEW s \in page'[t].submits
        PROVE  s \in page[t].submits \/ (TxKnown(s.rec)' /\ ~s.ok)
    BY <1>3, <1>4
  <1>5. /\ \A r \in Records : r.key # rec.key => r \in Range(pending')
        /\ \A r \in Range(pending') : (r \in Records /\ r.key # rec.key) \/ RecordInOrder(r)
        /\ \A n \in DOMAIN sent : sent[n].key = rec.key =>
             \E r \in Range(pending') : r.key = rec.key /\ (r.tx = n \/ Open(r))
    BY <1>1, <1>2
  <1>6. PICK k : k = rec.key
    OBVIOUS
  <1> QED BY <1>1, <1>2, <1>4, <1>5, <1>6, StoreInOrder

LEMMA HashReturnedInOrder ==
  ASSUME IInv, NEW t \in Tabs, HashReturned(t)
  PROVE  CallsInOrder'
  <1>1. PICK rec : rec = [page[t].op.rec EXCEPT !.phase = "SUBMITTED"]
    OBVIOUS
  <1>2. /\ HashStored(t, rec) /\ page[t].op.at = "hash" /\ page[t].op.rec \in Rec
        /\ page'[t].preview = None
        /\ page'[t].op = Idle \/ page'[t].op.at = "submit"
    BY <1>1, HashReturnedEffect DEF IInv
  <1>3. TxKnown(rec)
    <2>1. TxKnown(page[t].op.rec)
      BY <1>2 DEF IInv, CallsInOrder, TabInOrder
    <2>2. /\ rec.key = page[t].op.rec.key /\ rec.call = page[t].op.rec.call
          /\ rec.tx = page[t].op.rec.tx
      BY <1>1, <1>2 DEF Rec
    <2> QED BY <2>1, <2>2 DEF TxKnown
  <1>4. page'[t].op.at \in {"idle", "submit"}
    BY <1>2, IdlePage
  <1>5. /\ rec \in Rec /\ Stored(t, With(rec)) /\ UNCHANGED <<intents, windows, sent>>
        /\ \A s \in page'[t].submits : s \in page[t].submits \/ (s.rec = rec /\ ~s.ok)
    BY <1>2 DEF HashStored
  <1> QED BY <1>2, <1>3, <1>4, <1>5, SavedInOrder

LEMMA RecoverInOrder ==
  ASSUME IInv, NEW t \in Tabs, Recover(t)
  PROVE  CallsInOrder'
  <1>1. PICK r \in Records, n \in DOMAIN sent :
          /\ sent[n].key = r.key
          /\ HashStored(t, [r EXCEPT !.tx = n, !.phase = "SUBMITTED"])
    BY RecoverEffect DEF IInv
  <1>2. PICK rec : rec = [r EXCEPT !.tx = n, !.phase = "SUBMITTED"]
    OBVIOUS
  <1>3. r \in Rec /\ RecordInOrder(r)
    BY RecordsIn DEF IInv, TypeOK, Records, CallsInOrder, RecordsInOrder
  <1>4. rec.key = r.key /\ rec.call = r.call /\ rec.tx = n
    BY <1>2, <1>3 DEF Rec
  <1>5. TxKnown(rec)
    BY <1>1, <1>3, <1>4, HeldTypes DEF TxKnown, RecordInOrder, IInv
  <1>6. /\ rec \in Rec /\ Stored(t, With(rec)) /\ UNCHANGED <<intents, windows, sent>>
        /\ \A s \in page'[t].submits : s \in page[t].submits \/ (s.rec = rec /\ ~s.ok)
    BY <1>1, <1>2 DEF HashStored
  <1>7. page'[t].op = page[t].op /\ page'[t].preview = page[t].preview
    BY RecoverEffect DEF IInv
  <1> QED BY <1>5, <1>6, <1>7, SavedInOrder

LEMMA EndSubmitInOrder ==
  ASSUME IInv, NEW t \in Tabs, EndSubmit(t)
  PROVE  CallsInOrder'
  <1>1. PICK s \in page[t].submits :
          /\ s.rec \in Rec /\ page'[t].submits = page[t].submits \ {s}
          /\ (s.ok /\ Stored(t, Without(s.rec))) \/ Stored(t, With(s.rec))
    BY EndSubmitEffect DEF IInv
  <1>2. /\ UNCHANGED <<intents, windows, sent>>
        /\ \/ page'[t].op = page[t].op
           \/ page[t].op.at = "submit" /\ page'[t].op.at = "idle"
        /\ page'[t].preview = page[t].preview
    BY EndSubmitEffect, IdlePage DEF IInv
  <1>3. PICK rec \in Rec : rec = s.rec
    BY <1>1
  <1>4. TxKnown(rec) /\ (s.ok => intents[rec.call.id].tx = rec.tx)
    BY <1>3 DEF IInv, CallsInOrder, TabInOrder
  <1>5. \A v \in page'[t].submits : v \in page[t].submits
    BY <1>1
  <1>6. CASE Stored(t, With(s.rec))
    BY <1>2, <1>3, <1>4, <1>5, <1>6, SavedInOrder
  <1>7. CASE s.ok /\ Stored(t, Without(s.rec))
    <2>1. Written(t) /\ Range(pending') = {r \in Records : r.key # rec.key}
      BY <1>3, <1>7, StoredRecords DEF IInv
    <2>2. /\ \A n \in DOMAIN sent : sent[n].key = rec.key => rec.tx = n
          /\ \A w \in windows : w.key # rec.key
      BY <1>4, KnownInOrder
    <2>3. \A n \in DOMAIN sent : sent[n].key = rec.key => intents[sent[n].call.id].tx = n
      BY <1>4, <1>7, <2>2 DEF TxKnown
    <2>4. /\ \A r \in Records : r.key # rec.key => r \in Range(pending')
          /\ \A r \in Range(pending') : r \in Records /\ r.key # rec.key
      BY <2>1
    <2>5. PICK k : k = rec.key
      OBVIOUS
    <2> QED BY <1>2, <1>5, <2>1, <2>2, <2>3, <2>4, <2>5, StoreInOrder
  <1> QED BY <1>1, <1>6, <1>7

LEMMA EndCheckInOrder ==
  ASSUME IInv, NEW t \in Tabs, EndCheck(t), ~QuietStep
  PROVE  CallsInOrder'
  <1>1. PICK rec \in Rec : rec = page[t].op.rec
    BY EndCheckEffect DEF IInv
  <1>2. /\ page[t].op.at = "verify" /\ Confirms(rec, page[t].op.key)
        /\ UNCHANGED <<intents, windows, sent>> /\ Stored(t, Without(rec))
        /\ page'[t].op.at = "idle" /\ page'[t].preview = page[t].preview
        /\ page'[t].submits = page[t].submits
    BY <1>1, EndCheckEffect, IdlePage DEF IInv
  <1>3. Written(t) /\ Range(pending') = {r \in Records : r.key # rec.key}
    BY <1>2, StoredRecords DEF IInv
  <1>4. Settled(rec.call)
    BY <1>1, <1>2 DEF Confirms, Settled, IInv, CallsInOrder, TabInOrder
  <1>5. \A q \in Requests : q.key = rec.key => q.call = rec.call
    <2>1. rec \in Slips /\ rec.call.name = "refund"
      BY <1>1, <1>4, HeldOf DEF Slips, IInv, Settled
    <2> QED BY <2>1 DEF IInv, NamesInOrder, SlipsInOrder, Slips
  <1>6. /\ \A n \in DOMAIN sent : sent[n].key = rec.key => Settled(sent[n].call)
        /\ \A w \in windows : w.key = rec.key => Settled(w.call)
    <2>1. \A n \in DOMAIN sent : sent[n].key = rec.key => sent[n].call = rec.call
      BY <1>5, HeldTypes DEF IInv
    <2>2. \A w \in windows : w.key = rec.key => w.call = rec.call
      BY <1>5 DEF Requests
    <2> QED BY <1>4, <2>1, <2>2
  <1>7. /\ \A r \in Records : r.key # rec.key => r \in Range(pending')
        /\ \A r \in Range(pending') : r \in Records /\ r.key # rec.key
    BY <1>3
  <1>8. PICK k : k = rec.key
    OBVIOUS
  <1> QED BY <1>2, <1>3, <1>6, <1>7, <1>8, StoreInOrder

LEMMA PreparedInOrder ==
  ASSUME IInv, NEW t \in Tabs, NEW rec, PreparedRecord(t, rec)
  PROVE  CallsInOrder'
  <1>1. /\ page[t].op.at = "answer" /\ rec \in Rec /\ rec.tx = None
        /\ rec.key = IF page[t].op.rec # None THEN page[t].op.rec.key ELSE keys + 1
        /\ Stored(t, With(rec)) /\ UNCHANGED <<intents, windows, sent>>
        /\ page'[t].op.at = "idle" /\ page'[t].preview = rec
        /\ page'[t].submits = page[t].submits
    BY IdlePage DEF PreparedRecord
  <1>2. rec.key \notin Asked
    <2>1. CASE page[t].op.rec # None
      BY <1>1, <2>1 DEF IInv, CallsInOrder, TabInOrder
    <2>2. CASE page[t].op.rec = None
      <3>1. rec.key = keys + 1 /\ keys \in Nat
        BY <1>1, <2>2 DEF IInv, TypeOK
      <3>2. \A q \in Requests : q.key <= keys /\ q.key \in Nat
        BY HeldTypes DEF IInv, NamesInOrder, SlipsInOrder, Slips
      <3> QED BY <3>1, <3>2 DEF Asked
    <2> QED BY <2>1, <2>2
  <1>3. RecordInOrder(rec)
    BY <1>1, <1>2 DEF RecordInOrder, Asked
  <1>4. /\ \A n \in DOMAIN sent : sent[n].key # rec.key
        /\ \A w \in windows : w.key # rec.key
    <2>1. \A n \in DOMAIN sent : sent[n] \in Requests
      BY HeldTypes DEF IInv
    <2> QED BY <1>2, <2>1 DEF Asked, Requests
  <1>5. Written(t) /\ Range(pending') = {r \in Records : r.key # rec.key} \cup {rec}
    BY <1>1, StoredRecords DEF IInv
  <1>6. /\ \A r \in Records : r.key # rec.key => r \in Range(pending')
        /\ \A r \in Range(pending') : (r \in Records /\ r.key # rec.key) \/ RecordInOrder(r)
    BY <1>3, <1>5
  <1>7. PICK k : k = rec.key
    OBVIOUS
  <1>8. page'[t].preview.key \notin Asked
    BY <1>1, <1>2
  <1> QED BY <1>1, <1>4, <1>5, <1>6, <1>7, <1>8, StoreInOrder

LEMMA MineInOrder ==
  ASSUME IInv, NEW n \in DOMAIN sent, Mine(n)
  PROVE  CallsInOrder'
  <1>1. /\ TypeOK' /\ UNCHANGED <<intents, windows, pending, page, keys>>
        /\ DOMAIN sent' = DOMAIN sent
        /\ \A m \in DOMAIN sent : /\ sent'[m].key = sent[m].key /\ sent'[m].call = sent[m].call
                                  /\ sent[m].mined => sent'[m].mined
    BY MineEffect DEF IInv
  <1>2. Grows
    BY <1>1 DEF Grows
  <1>3. \A q \in Requests' : \E s \in Requests : s.key = q.key /\ s.call = q.call
    <2>1. /\ \A m \in DOMAIN sent : sent[m] \in Requests
          /\ \A w \in windows : w \in Requests
      BY HeldTypes DEF IInv, Requests
    <2> QED BY <1>1, <2>1, RequestsNext
  <1>4. \A k : NoNews(k)
    BY <1>3 DEF NoNews
  <1>5. RecordsInOrder' /\ \A w \in windows' : WindowKept(w)'
    BY <1>1, <1>2, <1>4, KeptInOrder
  <1>6. Records' = Records
    BY <1>1 DEF Records
  <1>7. SentIsKept'
    BY <1>1, <1>2, <1>6, BroadcastsKept
  <1>8. AskedOnce'
    BY <1>1, <1>2 DEF IInv, CallsInOrder, AskedOnce
  <1>9. \A x \in Tabs : TabInOrder(page[x])'
    BY <1>1, <1>2, <1>4, QuieterSelf, QuieterInOrder DEF IInv, CallsInOrder, TypeOK
  <1>10. \A w \in windows' : TabWaits(w)'
    BY <1>1 DEF IInv, CallsInOrder, WindowsInOrder, TabWaits
  <1>11. OneAtATime'
    BY <1>1 DEF IInv, CallsInOrder, OneAtATime
  <1> QED BY <1>5, <1>7, <1>8, <1>9, <1>10, <1>11 DEF CallsInOrder, WindowsInOrder

LEMMA ReloadInOrder ==
  ASSUME IInv, NEW t \in Tabs, Reload(t)
  PROVE  CallsInOrder'
  <1>1. /\ TypeOK' /\ Written(t) /\ page'[t] = Loaded
        /\ windows' = {[w EXCEPT !.tab = IF @ = t THEN None ELSE @] : w \in windows}
        /\ \A w \in windows' : \E v \in windows :
             /\ w.key = v.key /\ w.call = v.call /\ w.tab = IF v.tab = t THEN None ELSE v.tab
        /\ UNCHANGED <<session, intents, sent, pending, keys>>
    BY ReloadEffect DEF IInv
  <1>2. Grows /\ DOMAIN sent' = DOMAIN sent
    BY <1>1 DEF Grows
  <1>3. \A k : NoNews(k)
    BY <1>1 DEF NoNews, Requests
  <1>4. RecordsInOrder' /\ \A w \in windows' : WindowKept(w)'
    BY <1>1, <1>2, <1>3, KeptInOrder
  <1>5. Records' = Records
    BY <1>1 DEF Records
  <1>6. SentIsKept'
    BY <1>2, <1>5, BroadcastsKept
  <1>7. AskedOnce'
    <2>1. \A v \in windows : v \in Window
      BY DEF IInv, TypeOK
    <2>2. \A v \in windows : [v EXCEPT !.tab = IF @ = t THEN None ELSE @].key = v.key
      BY <2>1 DEF Window
    <2>3. \A v, w \in windows : v.key = w.key => v = w
      BY DEF IInv, CallsInOrder, AskedOnce
    <2>4. ASSUME NEW v \in windows', NEW w \in windows', v.key = w.key PROVE v = w
      <3>1. PICK a \in windows : v = [a EXCEPT !.tab = IF @ = t THEN None ELSE @]
        BY <1>1
      <3>2. PICK b \in windows : w = [b EXCEPT !.tab = IF @ = t THEN None ELSE @]
        BY <1>1
      <3>3. v.key = a.key /\ w.key = b.key
        BY <2>2, <3>1, <3>2
      <3> QED BY <2>3, <2>4, <3>1, <3>2, <3>3
    <2> QED BY <1>1, <1>2, <2>4, AskedOnceKept
  <1>8. \A x \in Tabs : TabInOrder(page[x])'
    <2>1. page'[t].op.at = "idle" /\ page'[t].preview = None /\ page'[t].submits = {}
      BY <1>1, LoadedPage, IdlePage
    <2>2. TabInOrder(page[t])'
      BY <1>2, <1>3, <2>1, TabAfter
    <2> QED BY <1>1, <1>2, <1>3, <2>2, OthersInOrder
  <1>9. ASSUME NEW w \in windows' PROVE TabWaits(w)'
    <2>1. PICK v \in windows :
            w.key = v.key /\ w.call = v.call /\ w.tab = IF v.tab = t THEN None ELSE v.tab
      BY <1>1
    <2>2. v.tab # None => v.tab \in Tabs
      BY DEF IInv, TypeOK, Window
    <2>3. TabWaits(v)
      BY DEF IInv, CallsInOrder, WindowsInOrder
    <2> QED BY <1>1, <2>1, <2>2, <2>3 DEF TabWaits, Written, Quieter
  <1>10. OneAtATime'
    BY <1>1, LoadedPage, IdlePage, TurnsKept DEF Preparing, Sending
  <1> QED BY <1>4, <1>6, <1>7, <1>8, <1>9, <1>10 DEF CallsInOrder, WindowsInOrder

\* The wallet is asked for a record no request was made of.
LEMMA StagedInOrder ==
  ASSUME IInv, NEW t \in Tabs, NEW rec, StagedRecord(t, rec)
  PROVE  CallsInOrder'
  <1>1. /\ page[t].op.at = "identity" /\ page[t].op.fresh
        /\ rec = [page[t].op.rec EXCEPT !.phase = "SENDING"] /\ rec \in Rec
        /\ page[t].op.rec \in Rec
        /\ Stored(t, With(rec)) /\ UNCHANGED <<intents, sent, keys>>
        /\ page'[t].op.at = "window" /\ page'[t].op.rec = rec
        /\ page'[t].preview = page[t].preview /\ page'[t].submits = page[t].submits
    BY DEF StagedRecord
  <1>2. PICK w : w = [key |-> rec.key, call |-> rec.call, tab |-> t]
    OBVIOUS
  <1>3. windows' = windows \cup {w} /\ w.key = rec.key /\ w.call = rec.call /\ w.tab = t
    BY <1>2 DEF StagedRecord
  <1>4. /\ rec.key = page[t].op.rec.key /\ rec.tx = page[t].op.rec.tx
        /\ rec.phase = "SENDING" /\ Open(rec) /\ Handled(rec)
    BY <1>1 DEF Rec, Open, Handled
  <1>5. TabInOrder(page[t])
    BY DEF IInv, CallsInOrder
  <1>6. rec.key \notin Asked /\ rec.tx = None
    BY <1>1, <1>4, <1>5, PageAssumption DEF TabInOrder
  <1>7. Written(t) /\ Range(pending') = {r \in Records : r.key # rec.key} \cup {rec}
    BY <1>1, StoredRecords DEF IInv
  <1>8. Grows
    BY <1>1 DEF Grows
  <1>9. Requests' = Requests \cup {w}
    BY <1>1, <1>3 DEF Requests
  <1>10. \A k : k # rec.key => NoNews(k)
    BY <1>3, <1>9 DEF NoNews
  <1>11. Records' = Range(pending')
    BY DEF Records
  <1>12. RecordsInOrder'
    <2>1. RecordInOrder(rec)'
      <3>1. \A q \in Requests' : q.key = rec.key => q.call = rec.call
        BY <1>3, <1>6, <1>9 DEF Asked
      <3> QED BY <1>4, <1>6, <3>1 DEF RecordInOrder, Handled
    <2>2. ASSUME NEW r \in Records, r.key # rec.key PROVE RecordInOrder(r)'
      <3>1. RecordInOrder(r)
        BY DEF IInv, CallsInOrder, RecordsInOrder
      <3>2. NoNews(r.key)
        BY <1>10, <2>2
      <3> QED BY <1>8, <3>1, <3>2, RecordKept
    <2> QED BY <1>7, <1>11, <2>1, <2>2 DEF RecordsInOrder
  <1>13. /\ \A n \in DOMAIN sent : sent[n].key # rec.key
         /\ \A v \in windows : v.key # rec.key
    <2>1. \A n \in DOMAIN sent : sent[n] \in Requests
      BY HeldTypes DEF IInv
    <2> QED BY <1>6, <2>1 DEF Asked, Requests
  <1>14. ASSUME NEW v \in windows PROVE WindowKept(v)' /\ TabWaits(v)'
    <2>1. PICK c : c = v.call
      OBVIOUS
    <2>2. Settled(c) \/ \E r \in Records : r.key = v.key /\ Open(r)
      BY <2>1 DEF IInv, CallsInOrder, WindowsInOrder, WindowKept
    <2>3. Settled(c)' \/ \E r \in Records' : r.key = v.key /\ Open(r)
      BY <1>7, <1>8, <1>11, <1>13, <2>2, SettledKept
    <2>4. WindowKept(v)'
      BY <2>1, <2>3 DEF WindowKept, Open
    <2>5. v.tab = t /\ v.tab # None => page[t].op.at = "window"
      BY DEF IInv, TypeOK
    <2>6. TabWaits(v)'
      BY <1>1, <1>7, <2>5, WaitsKept
    <2> QED BY <2>4, <2>6
  <1>15. WindowKept(w)' /\ TabWaits(w)'
    <2>1. rec \in Records'
      BY <1>7, <1>11
    <2>2. WindowKept(w)'
      BY <1>3, <1>4, <2>1 DEF WindowKept, Open
    <2> QED BY <1>1, <1>3, <2>2 DEF TabWaits
  <1>16. SentIsKept'
    BY <1>1, <1>7, <1>8, <1>11, <1>13, BroadcastsKept
  <1>17. AskedOnce'
    BY <1>1, <1>3, <1>13 DEF IInv, CallsInOrder, AskedOnce
  <1>18. TabInOrder(page[t])'
    <2>1. PICK q : q = page'[t]
      OBVIOUS
    <2>2. ASSUME NEW s \in q.submits
          PROVE  TxKnown(s.rec)' /\ (s.ok => intents'[s.rec.call.id].tx = s.rec.tx)
      BY <1>1, <1>5, <1>8, <2>1, <2>2, ReportKept DEF TabInOrder, IInv
    <2>3. TabInOrder(q)'
      BY <1>1, <1>6, <2>1, <2>2 DEF TabInOrder
    <2> QED BY <2>1, <2>3 DEF TabInOrder
  <1>19. ASSUME NEW x \in Tabs, x # t PROVE TabInOrder(page[x])'
    <2>1. Quieter(page'[x], page[x]) /\ TabInOrder(page[x])
      BY <1>7, <1>19 DEF Written, IInv, CallsInOrder
    <2>2. page'[x].preview # None => page'[x].preview.key # rec.key
      <3>1. PICK records : records = With(rec)
        OBVIOUS
      <3>2. pending' = records /\ (page'[x].preview # None => ~Taken(records, page'[x].preview.key))
        BY <1>1, <1>19, <3>1 DEF Stored
      <3>3. rec \in Range(records)
        BY <1>7, <3>2
      <3> QED BY <1>4, <3>2, <3>3 DEF Taken
    <2>3. page[x].op.at \notin {"ask", "answer"}
      <3>1. page[t].op.at \in Preparing \cup Sending
        BY <1>1 DEF Sending
      <3> QED BY <1>19, <3>1 DEF IInv, CallsInOrder, OneAtATime, Preparing
    <2> QED BY <1>8, <1>10, <2>1, <2>2, <2>3, QuieterInOrder
  <1>20. OneAtATime'
    BY <1>1, <1>7, TurnsKept DEF Sending
  <1> QED BY <1>3, <1>12, <1>14, <1>15, <1>16, <1>17, <1>18, <1>19, <1>20
          DEF CallsInOrder, WindowsInOrder

\* The user approves: the chain has what the window asked for.
LEMMA ApproveInOrder ==
  ASSUME IInv, NEW w \in windows, Approve(w)
  PROVE  CallsInOrder'
  <1>1. /\ TypeOK' /\ windows' = windows \ {w} /\ UNCHANGED <<intents, pending, keys>>
        /\ Broadcast([key |-> w.key, call |-> w.call, mined |-> FALSE])
        /\ \A x \in Tabs : x # w.tab \/ w.tab = None => page'[x] = page[x]
    BY ApproveEffect DEF IInv
  <1>2. /\ \A n \in DOMAIN sent : n \in DOMAIN sent' /\ sent'[n] = sent[n]
        /\ Len(sent) + 1 \in DOMAIN sent' /\ Len(sent) + 1 \notin DOMAIN sent
        /\ \A n \in DOMAIN sent' : n \in DOMAIN sent \/ n = Len(sent) + 1
    BY <1>1 DEF Broadcast, IInv, TypeOK
  <1>3. sent'[Len(sent) + 1].key = w.key /\ sent'[Len(sent) + 1].call = w.call
    BY <1>1 DEF Broadcast
  <1>4. Grows
    BY <1>1, <1>2 DEF Grows
  <1>5. \A q \in Requests' : \E s \in Requests : s.key = q.key /\ s.call = q.call
    <2>1. /\ \A n \in DOMAIN sent : sent[n] \in Requests
          /\ \A v \in windows : v \in Requests
      BY HeldTypes DEF IInv, Requests
    <2>2. \A n \in DOMAIN sent' : \E s \in Requests : s.key = sent'[n].key /\ s.call = sent'[n].call
      BY <1>2, <1>3, <2>1
    <2> QED BY <1>1, <2>1, <2>2, RequestsNext
  <1>6. \A k : NoNews(k)
    BY <1>5 DEF NoNews
  <1>7. RecordsInOrder' /\ \A v \in windows' : WindowKept(v)'
    BY <1>1, <1>4, <1>6, KeptInOrder
  <1>8. Records' = Records
    BY <1>1 DEF Records
  <1>9. SentIsKept'
    <2>1. ASSUME NEW n \in DOMAIN sent
          PROVE  \/ intents'[sent'[n].call.id].tx = n
                 \/ Settled(sent[n].call)'
                 \/ \E r \in Records' : r.key = sent'[n].key /\ (r.tx = n \/ Open(r))
      BY <1>4, <1>8, BroadcastKept
    <2>2. PICK c : c = w.call
      OBVIOUS
    <2>3. Settled(c) \/ \E r \in Records : r.key = w.key /\ Open(r)
      BY <2>2 DEF IInv, CallsInOrder, WindowsInOrder, WindowKept
    <2>4. Settled(c)' \/ \E r \in Records' : r.key = w.key /\ Open(r)
      BY <1>4, <1>8, <2>3, SettledKept
    <2>5. PICK n : n = Len(sent) + 1
      OBVIOUS
    <2>6. sent'[n].key = w.key /\ sent'[n].call = c
      BY <1>3, <2>2, <2>5
    <2>7. Settled(c)' <=> Settled(sent[n].call)'
      BY <2>6 DEF Settled
    <2>8. \A m \in DOMAIN sent' : m \in DOMAIN sent \/ m = n
      BY <1>2, <2>5
    <2> QED BY <2>1, <2>4, <2>6, <2>7, <2>8 DEF SentIsKept, Open
  <1>10. AskedOnce'
    <2>1. /\ \A v \in windows : v.key = w.key => v = w
          /\ \A v \in windows : \A n \in DOMAIN sent : sent[n].key # v.key
          /\ \A u, v \in windows : v.key = u.key => v = u
          /\ \A m, n \in DOMAIN sent : sent[m].key = sent[n].key => m = n
      BY DEF IInv, CallsInOrder, AskedOnce
    <2>2. PICK l : l = Len(sent) + 1
      OBVIOUS
    <2>3. \A n \in DOMAIN sent' : (n \in DOMAIN sent /\ sent'[n] = sent[n]) \/ n = l
      BY <1>2, <2>2
    <2>4. \A v \in windows' : v \in windows /\ v.key # w.key
      BY <1>1, <2>1
    <2>5. \A v \in windows' : \A n \in DOMAIN sent' : sent'[n].key # v.key
      BY <1>3, <2>1, <2>2, <2>3, <2>4
    <2>6. \A m, n \in DOMAIN sent' : sent'[m].key = sent'[n].key => m = n
      BY <1>3, <2>1, <2>2, <2>3
    <2> QED BY <2>1, <2>4, <2>5, <2>6 DEF AskedOnce
  <1>11. ASSUME NEW x \in Tabs PROVE TabInOrder(page[x])'
    <2>1. CASE page'[x] = page[x]
      <3>1. page[x] \in Page /\ TabInOrder(page[x])
        BY DEF IInv, TypeOK, CallsInOrder
      <3>2. Quieter(page'[x], page[x])
        BY <2>1, <3>1, QuieterSelf
      <3> QED BY <1>4, <1>6, <3>1, <3>2, QuieterInOrder
    <2>2. CASE x = w.tab /\ w.tab # None
      <3>1. PICK p, q : p = page[x] /\ q = page'[x]
        OBVIOUS
      <3>2. /\ p.op.rec \in Rec /\ q.submits = p.submits /\ q.op.at = "hash"
            /\ q.op.rec = [p.op.rec EXCEPT !.tx = Len(sent) + 1]
        BY <2>2, <3>1, ApproveEffect DEF IInv
      <3>3. TabInOrder(p) /\ p.op.rec.key = w.key /\ p.op.rec.call = w.call
        BY <2>2, <3>1 DEF IInv, CallsInOrder, WindowsInOrder, TabWaits
      <3>4. /\ q.op.rec.key = w.key /\ q.op.rec.call = w.call /\ q.op.rec.tx = Len(sent) + 1
        BY <3>2, <3>3 DEF Rec
      <3>5. TxKnown(q.op.rec)'
        BY <1>2, <1>3, <3>4 DEF TxKnown
      <3>6. ASSUME NEW s \in q.submits
            PROVE  TxKnown(s.rec)' /\ (s.ok => intents'[s.rec.call.id].tx = s.rec.tx)
        BY <1>4, <3>1, <3>2, <3>3, <3>6, ReportKept DEF TabInOrder, IInv
      <3>7. TabInOrder(q)'
        BY <3>2, <3>5, <3>6 DEF TabInOrder
      <3> QED BY <3>1, <3>7 DEF TabInOrder
    <2> QED BY <1>1, <2>1, <2>2
  <1>12. ASSUME NEW v \in windows' PROVE TabWaits(v)'
    <2>1. v \in windows /\ (v.tab # None => v.tab \in Tabs /\ v.tab # w.tab)
      BY <1>1 DEF IInv, TypeOK, Window
    <2>2. TabWaits(v)
      BY <2>1 DEF IInv, CallsInOrder, WindowsInOrder
    <2> QED BY <1>1, <2>1, <2>2 DEF TabWaits
  <1>13. OneAtATime'
    <2>1. \A x \in Tabs : \/ page'[x].op.at = page[x].op.at
                          \/ page'[x].op.at = "hash" /\ page[x].op.at = "window"
      BY <1>1, ApproveEffect DEF IInv
    <2>2. \A x \in Tabs : /\ page'[x].op.at \in Preparing => page[x].op.at \in Preparing
                          /\ page'[x].op.at \in Sending => page[x].op.at \in Sending
      BY <2>1 DEF Preparing, Sending
    <2> QED BY <2>2 DEF IInv, CallsInOrder, OneAtATime
  <1> QED BY <1>7, <1>9, <1>10, <1>11, <1>12, <1>13 DEF CallsInOrder, WindowsInOrder

\* The window of a tab is gone, and its record says whether it may still be
\* signed: the tab's record is then asked for only by a window nobody waits for.
LEMMA AnsweredInOrder ==
  ASSUME IInv, TypeOK', NEW w \in windows, w.tab # None, NEW rec \in Rec, Answered(w.tab, rec),
         rec.key = page[w.tab].op.rec.key, rec.call = page[w.tab].op.rec.call,
         rec.tx = page[w.tab].op.rec.tx, UNCHANGED <<intents, sent>>,
         \A v \in windows' : v \in windows \ {w} \/ (v = [w EXCEPT !.tab = None] /\ Open(rec)),
         Open(rec) => page'[w.tab].preview = None
  PROVE  CallsInOrder'
  <1>1. PICK t \in Tabs : t = w.tab
    BY DEF Answered
  <1>2. /\ page[t].op.at = "window" /\ page[t].op.rec \in Rec /\ Stored(t, With(rec))
        /\ page'[t].op.at = "idle" /\ page'[t].submits = page[t].submits
        /\ page'[t].preview \in {None, rec}
    BY <1>1, IdlePage DEF Answered
  <1>3. rec.key = w.key /\ rec.call = w.call /\ rec.tx = None
    BY <1>1, <1>2 DEF IInv, CallsInOrder, WindowsInOrder, TabWaits, TabInOrder
  <1>4. Written(t) /\ Range(pending') = {r \in Records : r.key # rec.key} \cup {rec}
    BY <1>2, StoredRecords DEF IInv
  <1>5. Records' = Range(pending')
    BY DEF Records
  <1>6. w \in Window /\ w.tab \in Tabs
    BY <1>1 DEF IInv, TypeOK
  <1>7. [w EXCEPT !.tab = None].key = w.key /\ [w EXCEPT !.tab = None].call = w.call
        /\ [w EXCEPT !.tab = None].tab = None
    BY <1>6 DEF Window
  <1>8. \A v \in windows' :
          \/ v \in windows /\ v # w
          \/ v = [w EXCEPT !.tab = None] /\ v.key = w.key /\ v.call = w.call /\ v.tab = None /\ Open(rec)
    BY <1>7
  <1>9. Grows
    BY DEF Grows
  <1>10. \A q \in Requests' : \E s \in Requests : s.key = q.key /\ s.call = q.call
    <2>1. /\ \A n \in DOMAIN sent : sent[n] \in Requests
          /\ \A v \in windows : v \in Requests
      BY HeldTypes DEF IInv, Requests
    <2>2. \A n \in DOMAIN sent' : \E s \in Requests : s.key = sent'[n].key /\ s.call = sent'[n].call
      BY <2>1
    <2>3. \A v \in windows' : \E s \in Requests : s.key = v.key /\ s.call = v.call
      BY <1>8, <2>1
    <2> QED BY <2>2, <2>3, RequestsNext
  <1>11. \A k : NoNews(k)
    BY <1>10 DEF NoNews
  <1>12. /\ \A v \in windows : v.key = w.key => v = w
         /\ \A n \in DOMAIN sent : sent[n].key # w.key
         /\ \A u, v \in windows : v.key = u.key => v = u
         /\ \A v \in windows : \A n \in DOMAIN sent : sent[n].key # v.key
    BY DEF IInv, CallsInOrder, AskedOnce
  <1>13. ~Open(rec) => rec.key \notin Asked'
    <2>1. ASSUME ~Open(rec), NEW q \in Requests' PROVE q.key # rec.key
      <3>1. CASE q \in windows'
        BY <1>3, <1>8, <1>12, <2>1, <3>1
      <3>2. ASSUME NEW n \in DOMAIN sent', q = sent'[n] PROVE q.key # rec.key
        BY <1>3, <1>12, <3>2
      <3> QED BY <3>1, <3>2, RequestsNext
    <2> QED BY <2>1 DEF Asked
  <1>14. RecordsInOrder'
    <2>1. RecordInOrder(rec)'
      <3>1. ~Handled(rec) => ~Open(rec)
        BY DEF Handled, Open
      <3>2. \A q \in Requests' : q.key = rec.key => q.call = rec.call
        <4>1. \A q \in Requests : q.key = w.key => q.call = w.call
          BY <1>12, HeldTypes DEF IInv
        <4> QED BY <1>3, <1>10, <4>1
      <3> QED BY <1>3, <1>13, <3>1, <3>2 DEF RecordInOrder, Handled
    <2>2. ASSUME NEW r \in Records, r.key # rec.key PROVE RecordInOrder(r)'
      BY <1>9, <1>11, RecordKept DEF IInv, CallsInOrder, RecordsInOrder
    <2> QED BY <1>4, <1>5, <2>1, <2>2 DEF RecordsInOrder
  <1>15. ASSUME NEW v \in windows' PROVE WindowKept(v)' /\ TabWaits(v)'
    <2>1. CASE v \in windows /\ v # w
      <3>1. PICK c : c = v.call
        OBVIOUS
      <3>2. v.key # rec.key
        BY <1>3, <1>12, <2>1
      <3>3. Settled(c) \/ \E r \in Records : r.key = v.key /\ Open(r)
        BY <2>1, <3>1 DEF IInv, CallsInOrder, WindowsInOrder, WindowKept
      <3>4. Settled(c)' \/ \E r \in Records' : r.key = v.key /\ Open(r)
        BY <1>4, <1>5, <1>9, <3>2, <3>3, SettledKept
      <3>5. WindowKept(v)'
        BY <3>1, <3>4 DEF WindowKept, Open
      <3>6. v.tab # t \/ v.tab = None
        BY <1>1, <1>6, <2>1 DEF IInv, TypeOK
      <3>7. TabWaits(v)'
        BY <1>4, <2>1, <3>6, WaitsKept
      <3> QED BY <3>5, <3>7
    <2>2. CASE v.key = w.key /\ v.tab = None /\ Open(rec)
      <3>1. rec \in Records' /\ rec.key = v.key
        BY <1>3, <1>4, <1>5, <2>2
      <3>2. WindowKept(v)'
        BY <2>2, <3>1 DEF WindowKept, Open
      <3> QED BY <2>2, <3>2 DEF TabWaits
    <2> QED BY <1>8, <2>1, <2>2
  <1>16. SentIsKept'
    <2>1. \A n \in DOMAIN sent : \A r \in Records :
            r.key = sent[n].key => r \in Records'
      BY <1>3, <1>4, <1>5, <1>12
    <2> QED BY <1>9, <2>1, BroadcastsKept
  <1>17. AskedOnce'
    <2>1. \A v \in windows' : \E u \in windows : v.key = u.key
      BY <1>8
    <2>2. \A u, v \in windows' : u.key = v.key => u = v
      BY <1>8, <1>12
    <2> QED BY <1>9, <2>1, <2>2, AskedOnceKept
  <1>18. \A x \in Tabs : TabInOrder(page[x])'
    <2>1. PICK p, q : p = page[t] /\ q = page'[t]
      OBVIOUS
    <2>2. TabInOrder(p) /\ q.submits = p.submits /\ q.op.at = "idle"
      BY <1>2, <2>1 DEF IInv, CallsInOrder
    <2>3. ASSUME NEW s \in q.submits
          PROVE  TxKnown(s.rec)' /\ (s.ok => intents'[s.rec.call.id].tx = s.rec.tx)
      BY <1>9, <2>1, <2>2, <2>3, ReportKept DEF TabInOrder, IInv
    <2>4. q.preview # None => q.preview.key \notin Asked'
      BY <1>1, <1>2, <1>13, <2>1
    <2>5. TabInOrder(q)'
      BY <2>2, <2>3, <2>4 DEF TabInOrder
    <2>6. TabInOrder(page[t])'
      BY <2>1, <2>5 DEF TabInOrder
    <2> QED BY <1>4, <1>9, <1>11, <2>6, OthersInOrder
  <1>19. OneAtATime'
    BY <1>2, <1>4, TurnsKept DEF Preparing, Sending
  <1> QED BY <1>14, <1>15, <1>16, <1>17, <1>18, <1>19 DEF CallsInOrder, WindowsInOrder

\* A window that nobody waits for is closed.
LEMMA ClosedInOrder ==
  ASSUME IInv, TypeOK', NEW w \in windows, windows' = windows \ {w},
         UNCHANGED <<intents, sent, pending, page>>
  PROVE  CallsInOrder'
  <1>1. Grows /\ \A v \in windows' : v \in windows
    BY DEF Grows
  <1>2. \A k : NoNews(k)
    <2>1. \A q \in Requests' : q \in Requests
      BY HeldTypes, RequestsNext DEF IInv, Requests
    <2> QED BY <2>1 DEF NoNews
  <1>3. RecordsInOrder' /\ \A v \in windows' : WindowKept(v)'
    BY <1>1, <1>2, KeptInOrder
  <1>4. Records' = Records
    BY DEF Records
  <1>5. SentIsKept'
    BY <1>1, <1>4, BroadcastsKept
  <1>6. AskedOnce'
    BY <1>1 DEF IInv, CallsInOrder, AskedOnce
  <1>7. \A x \in Tabs : TabInOrder(page[x])'
    BY <1>1, <1>2, QuieterSelf, QuieterInOrder DEF IInv, CallsInOrder, TypeOK
  <1>8. \A v \in windows' : TabWaits(v)'
    BY <1>1 DEF IInv, CallsInOrder, WindowsInOrder, TabWaits
  <1>9. OneAtATime'
    BY DEF IInv, CallsInOrder, OneAtATime
  <1> QED BY <1>3, <1>5, <1>6, <1>7, <1>8, <1>9 DEF CallsInOrder, WindowsInOrder

\* The user rejects, or the wallet answers with an error.
LEMMA RefusedInOrder ==
  ASSUME IInv, NEW w \in windows, Reject(w) \/ Fault(w)
  PROVE  CallsInOrder'
  <1>1. CASE Reject(w) /\ w.tab = None
    BY <1>1, ClosedInOrder, RejectEffect DEF IInv
  <1>2. CASE Reject(w) /\ w.tab # None
    <2>1. PICK rec : rec = [page[w.tab].op.rec EXCEPT !.phase = "AWAITING_SIGNATURE"]
      OBVIOUS
    <2>2. /\ TypeOK' /\ Answered(w.tab, rec) /\ windows' = windows \ {w}
          /\ UNCHANGED <<intents, sent>>
      BY <1>2, <2>1, RejectEffect DEF IInv
    <2>3. page[w.tab].op.rec \in Rec
      BY <2>2 DEF Answered
    <2>4. /\ rec \in Rec /\ rec.key = page[w.tab].op.rec.key /\ rec.call = page[w.tab].op.rec.call
          /\ rec.tx = page[w.tab].op.rec.tx /\ rec.phase = "AWAITING_SIGNATURE"
      BY <2>1, <2>3 DEF Rec, Phases
    <2>5. ~Open(rec)
      BY <2>4 DEF Open
    <2> QED BY <1>2, <2>2, <2>4, <2>5, AnsweredInOrder
  <1>3. CASE Fault(w)
    <2>1. PICK rec : rec = [page[w.tab].op.rec EXCEPT !.phase = "UNKNOWN"]
      OBVIOUS
    <2>2. /\ TypeOK' /\ Answered(w.tab, rec) /\ w.tab # None /\ page'[w.tab].preview = None
          /\ windows' \subseteq (windows \ {w}) \cup {[w EXCEPT !.tab = None]}
          /\ UNCHANGED <<intents, sent>>
      BY <1>3, <2>1, FaultEffect DEF IInv
    <2>3. page[w.tab].op.rec \in Rec
      BY <2>2 DEF Answered
    <2>4. /\ rec \in Rec /\ rec.key = page[w.tab].op.rec.key /\ rec.call = page[w.tab].op.rec.call
          /\ rec.tx = page[w.tab].op.rec.tx /\ rec.phase = "UNKNOWN"
      BY <2>1, <2>3 DEF Rec, Phases
    <2>5. Open(rec)
      BY <2>4 DEF Open
    <2>6. \A v \in windows' : v \in windows \ {w} \/ (v = [w EXCEPT !.tab = None] /\ Open(rec))
      BY <2>2, <2>5
    <2> QED BY <2>2, <2>4, <2>6, AnsweredInOrder
  <1> QED BY <1>1, <1>2, <1>3

LEMMA InitCalls == Init => CallsInOrder
  <1> SUFFICES ASSUME Init PROVE CallsInOrder
    OBVIOUS
  <1>1. /\ windows = {} /\ \A n : n \notin DOMAIN sent /\ n \notin DOMAIN pending
        /\ \A t \in Tabs : page[t] = Loaded
    BY DEF Init
  <1>2. \A r : r \notin Records
    <2>1. pending \in Seq(Rec)
      BY InitTypes DEF TypeOK
    <2> QED BY <1>1, <2>1, RecordsIn DEF Records
  <1>3. \A t \in Tabs : TabInOrder(page[t])
    BY <1>1, LoadedPage, IdlePage DEF TabInOrder
  <1>4. OneAtATime
    BY <1>1, LoadedPage, IdlePage DEF OneAtATime, Preparing
  <1> QED BY <1>1, <1>2, <1>3, <1>4
          DEF CallsInOrder, RecordsInOrder, WindowsInOrder, AskedOnce, SentIsKept

LEMMA StepCalls ==
  ASSUME ~Parallel, IInv, NEW t \in Tabs, Step(t)
  PROVE  CallsInOrder'
  <1>1. CASE QuietStep
    BY <1>1, QuietInOrder
  <1>2. CASE (\E rec : PreparedRecord(t, rec)) \/ (\E rec : StagedRecord(t, rec))
    BY <1>2, PreparedInOrder, StagedInOrder
  <1>3. CASE HashReturned(t) \/ Recover(t) \/ Retry(t) \/ SubmitServed(t)
    BY <1>3, HashReturnedInOrder, RecoverInOrder, RetryInOrder, SubmitServedInOrder
  <1>4. CASE EndSubmit(t) \/ Reload(t)
    BY <1>4, EndSubmitInOrder, ReloadInOrder
  <1>5. CASE EndCheck(t) /\ ~QuietStep
    BY <1>5, EndCheckInOrder
  <1> QED BY <1>1, <1>2, <1>3, <1>4, <1>5, StepEffect DEF IInv

LEMMA StutterCalls ==
  ASSUME IInv, UNCHANGED vars
  PROVE  CallsInOrder'
  <1>1. /\ UNCHANGED <<windows, sent, pending, page, intents>>
    BY DEF vars
  <1>2. Grows /\ \A k : NoNews(k)
    BY <1>1, RequestsKept DEF Grows, NoNews
  <1>3. RecordsInOrder' /\ \A v \in windows' : WindowKept(v)'
    BY <1>1, <1>2, KeptInOrder
  <1>4. Records' = Records
    BY <1>1 DEF Records
  <1>5. SentIsKept'
    BY <1>1, <1>2, <1>4, BroadcastsKept
  <1>6. AskedOnce' /\ OneAtATime' /\ \A v \in windows' : TabWaits(v)'
    BY <1>1 DEF IInv, CallsInOrder, AskedOnce, OneAtATime, WindowsInOrder, TabWaits
  <1>7. \A x \in Tabs : TabInOrder(page[x])'
    BY <1>1, <1>2, QuieterSelf, QuieterInOrder DEF IInv, CallsInOrder, TypeOK
  <1> QED BY <1>3, <1>5, <1>6, <1>7 DEF CallsInOrder, WindowsInOrder

\* The inductive invariant: types, names and what was asked for under which key.
LEMMA InitIInv == Init => IInv
  BY InitTypes, InitNames, InitCalls DEF IInv

LEMMA NextIInv ==
  ASSUME ~Parallel
  PROVE  IInv /\ [Next]_vars => IInv'
  <1> SUFFICES ASSUME IInv, [Next]_vars PROVE IInv'
    OBVIOUS
  <1>1. TypeOK' /\ NamesInOrder'
    BY NextTypes, NextNames DEF IInv
  <1>2. ASSUME NEW t \in Tabs, Step(t) PROVE CallsInOrder'
    BY <1>2, StepCalls
  <1>3. ASSUME NEW a \in Someone, SelectAccount(a) PROVE CallsInOrder'
    BY <1>3, SelectAccountQuiet, QuietInOrder DEF IInv
  <1>4. ASSUME NEW n \in DOMAIN sent, Mine(n) PROVE CallsInOrder'
    BY <1>4, MineInOrder
  <1>5. ASSUME NEW w \in windows, Approve(w) \/ Reject(w) \/ Fault(w) PROVE CallsInOrder'
    BY <1>5, ApproveInOrder, RefusedInOrder
  <1>6. ASSUME UNCHANGED vars PROVE CallsInOrder'
    BY <1>6, StutterCalls
  <1>7. CallsInOrder'
    BY <1>2, <1>3, <1>4, <1>5, <1>6 DEF Next
  <1> QED BY <1>1, <1>7 DEF IInv

\* One record never has two requests on show or broadcast, whatever is closed,
\* reloaded, rejected, lost or retried in any tab, as long as nobody prepares a
\* donation while another tab prepares or sends: signAndSubmit stores SENDING
\* before it asks the wallet, and only what nobody was asked for is shown.
THEOREM OneRecordAsksOnce ==
  ASSUME ~Parallel
  PROVE  Spec => []AskedOnce
  <1>1. IInv => AskedOnce
    BY DEF IInv, CallsInOrder
  <1> QED BY <1>1, InitIInv, NextIInv, PTL DEF Spec

\* No broadcast transaction is forgotten: the server has its hash, or a record
\* has it or lets the user type it in, or its donation's rest was already taken
\* back.  The saved UNKNOWN and SENDING records, and removing one only when the
\* server or the chain confirmed it, keep it so.
THEOREM BroadcastIsKept ==
  ASSUME ~Parallel
  PROVE  Spec => []SentIsKept
  <1>1. IInv => SentIsKept
    BY DEF IInv, CallsInOrder
  <1> QED BY <1>1, InitIInv, NextIInv, PTL DEF Spec
=============================================================================
