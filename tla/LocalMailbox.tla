----------------------------- MODULE LocalMailbox -----------------------------
(***************************************************************************)
(* The local test mailbox of backend/local-mailbox.js: one-time codes, one *)
(* per purpose and account, with their attempts, the send and check        *)
(* budgets and the cooldown.  It lives in memory and its calls are         *)
(* synchronous; time passes by the *Over actions, which stand for the      *)
(* lazy expiry of prune().                                                 *)
(***************************************************************************)
EXTENDS Integers, Sequences, FiniteSets

CONSTANTS
  Purposes, Emails,
  Codes,        \* the one-time codes
  MaxTries,     \* attempts per code (5)
  Capacity,     \* outstanding codes (1000)
  IpBudget,     \* action -> calls per window and client (30 and 60)
  KeyBudget,    \* action -> calls per window, purpose and account (5 and 30)
  MaxIssues     \* bound on the codes sent
ASSUME MailboxAssumption ==
  /\ MaxTries \in Nat \ {0} /\ Capacity \in Nat \ {0} /\ MaxIssues \in Nat
  /\ IpBudget \in [{"send", "check"} -> Nat] /\ KeyBudget \in [{"send", "check"} -> Nat]

VARIABLES
  codes,    \* outstanding codes: [key, code, tries, issue], the oldest with the least issue
  buckets,  \* bucket -> calls counted in its window
  cooling,  \* keys that were sent to in the last minute
  history   \* one record per code ever sent: how often it was guessed at and accepted
mailbox == <<codes, buckets, cooling, history>>

Keys == Purposes \X Emails
Buckets == {"send", "check"} \X ({<<"ip">>} \cup ({"email", "user"} \X Keys))
Outstanding(key) == {c \in codes : c.key = key}
Without(key) == {c \in codes : c.key # key}
Oldest(S) == CHOOSE c \in S : \A d \in S : c.issue <= d.issue

\* The buckets a call counts against, in the order they are taken; the last
\* only for an account that exists.
Charges(action, key, known) ==
  <<<<action, <<"ip">>>>, <<action, <<"email", key>>>>>> \o
  (IF known THEN <<<<action, <<"user", key>>>>>> ELSE <<>>)
Room(b) == buckets[b] < (IF b[2] = <<"ip">> THEN IpBudget ELSE KeyBudget)[b[1]]
Allowed(charges) == \A i \in DOMAIN charges : Room(charges[i])
\* A refused call still counts in the buckets before the full one.
Take(charges) ==
  LET taken == {charges[i] : i \in {n \in DOMAIN charges : \A j \in 1..n : Room(charges[j])}}
  IN  buckets' = [b \in Buckets |-> buckets[b] + (IF b \in taken THEN 1 ELSE 0)]

-----------------------------------------------------------------------------
NoCalls == [b \in Buckets |-> 0]
MailboxInit == codes = {} /\ buckets = NoCalls /\ cooling = {} /\ history = <<>>
\* A restart loses everything but what has happened.
Forget == codes' = {} /\ buckets' = NoCalls /\ cooling' = {} /\ UNCHANGED history

\* A new code differs from the one it replaces; the oldest gives way to it.
Send(key) ==
  LET kept == Without(key) IN
  \E code \in Codes \ {c.code : c \in Outstanding(key)} :
    /\ codes' = (IF Cardinality(kept) < Capacity THEN kept ELSE kept \ {Oldest(kept)}) \cup
                {[key |-> key, code |-> code, tries |-> 0, issue |-> Len(history) + 1]}
    /\ history' = Append(history, [guesses |-> 0, accepted |-> 0])

Issue(key, known) ==
  LET charges == Charges("send", key, known)
      sent == Allowed(charges) /\ key \notin cooling
  IN  /\ Take(charges)
      /\ cooling' = IF sent THEN cooling \cup {key} ELSE cooling
      /\ IF sent /\ known THEN Send(key) ELSE UNCHANGED <<codes, history>>

Valid(key, known, code) ==
  Allowed(Charges("check", key, known)) /\ \E c \in Outstanding(key) : c.code = code
\* An accepted code stays outstanding (a mutant).
KeptWhenRight(c, code) ==
  IF c.tries + 1 >= MaxTries THEN Without(c.key)
  ELSE (codes \ {c}) \cup {[c EXCEPT !.tries = @ + 1]}
\* What is left of the outstanding codes once c was guessed at.
Consumed(c, code) ==
  IF c.code = code \/ c.tries + 1 >= MaxTries THEN Without(c.key)
  ELSE (codes \ {c}) \cup {[c EXCEPT !.tries = @ + 1]}
Check(key, known, code) ==
  /\ Take(Charges("check", key, known))
  /\ IF Allowed(Charges("check", key, known)) /\ Outstanding(key) # {}
     THEN \E c \in Outstanding(key) :
            /\ codes' = Consumed(c, code)
            /\ history' = [history EXCEPT ![c.issue] =
                 [guesses |-> @.guesses + 1, accepted |-> @.accepted + (IF c.code = code THEN 1 ELSE 0)]]
     ELSE UNCHANGED <<codes, history>>
  /\ UNCHANGED cooling

Revoke(email) ==
  /\ codes' = {c \in codes : c.key[2] # email}
  /\ UNCHANGED <<buckets, cooling, history>>

CodeOver == \E c \in codes :
  codes' = Without(c.key) /\ UNCHANGED <<buckets, cooling, history>>
CooldownOver == \E key \in cooling :
  cooling' = cooling \ {key} /\ UNCHANGED <<codes, buckets, history>>
\* The budgets of one action start a new window.
WindowOver == \E a \in {"send", "check"} :
  /\ \E b \in Buckets : b[1] = a /\ buckets[b] > 0
  /\ buckets' = [b \in Buckets |-> IF b[1] = a THEN 0 ELSE buckets[b]]
  /\ UNCHANGED <<codes, cooling, history>>
-----------------------------------------------------------------------------
\* A code is accepted at most once and compared with at most MaxTries guesses,
\* however reissue, eviction, revocation, expiry and restarts interleave.
CodesSpentOnce ==
  \A i \in DOMAIN history : history[i].accepted <= 1 /\ history[i].guesses <= MaxTries

\* What a check relies on: no code was accepted and stays outstanding, each has
\* a guess left, and no two are one issue.
CodesInOrder ==
  \A c \in codes :
    /\ c.issue \in DOMAIN history
    /\ c.tries < MaxTries /\ history[c.issue] = [guesses |-> c.tries, accepted |-> 0]
    /\ \A d \in codes : d.issue = c.issue => d = c
=============================================================================
