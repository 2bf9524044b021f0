------------------------------ MODULE WalletSync ------------------------------
(***************************************************************************)
(* The ledger of backend/wallet-service.js: donations announced by their   *)
(* accounts, the pool contract's events scanned from a chain that may      *)
(* reorganise, and sync(), which joins the two.  A step of sync() ends at  *)
(* an await of the provider; mutate() writes a copy and renames it, so     *)
(* each change of the persisted ledger is one step and a crash of the      *)
(* process is a scan that stops wherever it is.                            *)
(*                                                                         *)
(* A block holds at most one call of the pool.  Its hash is the chain up   *)
(* to it: blocks of two branches never share a hash.  Requests that only   *)
(* read or that build an unsigned transaction change nothing and are left  *)
(* out, as is the fixed pool address.                                      *)
(***************************************************************************)
EXTENDS ReliefPool

CONSTANTS
  Donations,      \* donation ids
  Prepared,       \* id -> the call donate() its account is to sign
  FirstCalls,     \* calls already mined when the service starts
  Calls,          \* calls of the pool that may be mined
  Junk,           \* a transaction hash of no transaction
  Confirmations, BatchSize, MaxBatches,
  MaxHeight, MaxReorgs, MaxFaults,  \* bounds on the environment
  NoCall

\* A call as its arguments' types and the contract's checks on them leave it.
CallOK(c) ==
  /\ c.name \in {"configureTask", "donate", "allocateRemaining", "releaseTask",
                 "refundUnallocated"}
  /\ c.name = "configureTask" => /\ c.purpose \in 1..5 /\ c.urgency \in 1..3
                                 /\ c.target \in Nat /\ c.active \in BOOLEAN
  /\ c.name = "donate" => c.donation \in Donations /\ c.purpose \in 0..5 /\ c.amount \in Nat
  /\ c.name = "releaseTask" => c.amount \in Nat

ASSUME SyncAssumption ==
  /\ \A c \in Calls : CallOK(c)
  /\ FirstCalls \in Seq({FirstCalls[n] : n \in DOMAIN FirstCalls})
  /\ \A n \in DOMAIN FirstCalls : CallOK(FirstCalls[n]) /\ FirstCalls[n].name # "donate"
  /\ Confirmations \in Nat \ {0} /\ BatchSize \in Nat \ {0} /\ MaxTasks \in Nat
  /\ {MaxBatches, MaxHeight, MaxReorgs, MaxFaults} \subseteq Nat

VARIABLES
  chain,    \* blocks: [call, fork]
  forks,    \* reorganisations so far
  intents,  \* donation id -> [status, claim]; claim is the tx hash submitted
  asked,    \* prepare requests whose body is being read
  db,       \* events, through (the last block's number, 0 before the first),
            \*   anchor (its hash), tasks
  ready,    \* config().ready
  scan,     \* where sync() is, with its local variables
  faults    \* failed calls and crashes so far

syncVars == <<chain, forks, intents, asked, db, ready, scan, faults>>

-----------------------------------------------------------------------------
(* The chain *)

\* The pool and the log after block n, from those before it; every event carries
\* its block's number.
LogWith(st, n, done) ==
  [pool |-> done.pool,
   log |-> st.log \o [i \in DOMAIN done.events |-> [block |-> n, event |-> done.events[i]]]]
Block(st, n, call) ==
  IF call = NoCall \/ ~Admitted(st.pool, call) THEN st
  ELSE LogWith(st, n, Done(st.pool, call))
Mined(blocks) ==
  LET after[n \in 0..Len(blocks)] == IF n = 0 THEN [pool |-> NoPool, log |-> <<>>]
                                     ELSE Block(after[n - 1], n, blocks[n].call)
  IN  after[Len(blocks)]

Smaller(m, n) == IF m < n THEN m ELSE n
Hash(n) == SubSeq(chain, 1, n)
On(n, hash) == n <= Len(chain) /\ Hash(n) = hash

\* The log up to block n, and the logs of the blocks from..to, as far as there are
\* such blocks.
LogTo(blocks, n) == Mined(SubSeq(blocks, 1, Smaller(n, Len(blocks)))).log
Logs(blocks, from, to) ==
  SubSeq(LogTo(blocks, to), Len(LogTo(blocks, from - 1)) + 1, Len(LogTo(blocks, to)))

\* An id is random, so nobody donates under it before it was handed out.
Known(call) == call.name = "donate" => call.donation \in DOMAIN intents

\* A call other than donate that reverts leaves nothing behind: such a block is
\* an empty one.
Mine(call) ==
  /\ Len(chain) < MaxHeight
  /\ call # NoCall =>
       /\ Known(call) /\ \A n \in DOMAIN chain : chain[n].call # call
       /\ call.name = "donate" \/ Admitted(Mined(chain).pool, call)
  /\ chain' = Append(chain, [call |-> call, fork |-> forks])
  /\ UNCHANGED <<forks, intents, asked, db, ready, scan, faults>>

\* The blocks above n are dropped; those mined next belong to another branch.
Reorganise(n) ==
  /\ n >= Len(FirstCalls)
  /\ forks < MaxReorgs
  /\ n < Len(chain)
  /\ chain' = Hash(n)
  /\ forks' = forks + 1
  /\ UNCHANGED <<intents, asked, db, ready, scan, faults>>

-----------------------------------------------------------------------------
(* Requests of the accounts *)

\* donations/prepare checks that the pool is in sync before it reads the body.
Ask(d) ==
  /\ ready
  /\ d \notin DOMAIN intents \cup asked
  /\ asked' = asked \cup {d}
  /\ UNCHANGED <<chain, forks, intents, db, ready, scan, faults>>

Prepare(d) ==
  /\ d \in asked
  /\ asked' = asked \ {d}
  /\ intents' = [x \in DOMAIN intents \cup {d} |->
       IF x = d THEN [status |-> "AWAITING_SIGNATURE", claim |-> NoCall] ELSE intents[x]]
  /\ UNCHANGED <<chain, forks, db, ready, scan, faults>>

\* donations/submit: the hash is an untrusted claim, and the first one stays.
Submit(d, hash) ==
  /\ d \in DOMAIN intents
  /\ intents[d].claim = NoCall
  /\ intents' = [intents EXCEPT ![d] =
       [status |-> IF @.status = "AWAITING_SIGNATURE" THEN "SUBMITTED" ELSE @.status,
        claim |-> hash]]
  /\ UNCHANGED <<chain, forks, asked, db, ready, scan, faults>>

-----------------------------------------------------------------------------
(* sync() *)

Idle == [pc |-> "idle"]
Blank == [events |-> <<>>, through |-> 0, anchor |-> <<>>, tasks |-> <<>>]

\* The rows of a log that say donation d was received.
Received(log, d) == {i \in DOMAIN log : /\ log[i].event.name = "DonationReceived"
                                        /\ log[i].event.donation = d}
\* Does an event DonationReceived agree with what was prepared?
Matches(event) ==
  /\ event.amount = Prepared[event.donation].amount
  /\ event.purpose = Prepared[event.donation].purpose
InLedger(d) == \E i \in Received(db.events, d) : Matches(db.events[i].event)

\* resetChain.  Mutant: the confirmed intents are forgotten.
ResetIndexOnly == db' = Blank /\ UNCHANGED intents
ResetChain ==
  /\ db' = Blank
  /\ intents' = [d \in DOMAIN intents |->
       IF intents[d].status = "CONFIRMED" THEN [intents[d] EXCEPT !.status = "REORGED"]
                                          ELSE intents[d]]

\* The scan ends with an error.
Throw == scan' = Idle /\ ready' = FALSE
ResetAndThrow == ResetChain /\ Throw

\* The provider's height is read; the scan will not go beyond what it confirms.
Begin ==
  /\ scan = Idle
  /\ scan' = [pc |-> "anchor", final |-> Len(chain) - Confirmations + 1]
  /\ UNCHANGED <<chain, forks, intents, asked, db, ready, faults>>

CheckAnchor ==
  /\ scan.pc = "anchor"
  /\ IF db.through = 0 \/ On(db.through, db.anchor)
     THEN UNCHANGED <<intents, db, ready>>
     ELSE ResetChain /\ ready' = FALSE
  /\ scan' = [pc |-> "batch", final |-> scan.final, batch |-> 0]
  /\ UNCHANGED <<chain, forks, asked, faults>>

\* Intents inspectPending will ask the provider about.
Candidates ==
  {d \in DOMAIN intents : /\ intents[d].claim # NoCall
                          /\ intents[d].status \notin {"FAILED", "CONFIRMED"}
                          /\ ~InLedger(d)}

\* One more batch, whose last block is read now, or on to the pending intents.
NextBatch ==
  /\ scan.pc = "batch"
  /\ LET to == Smaller(db.through + BatchSize, scan.final)
     IN  IF db.through < scan.final /\ scan.batch < MaxBatches
         THEN IF to <= Len(chain)
              THEN /\ scan' = [pc |-> "logs", final |-> scan.final, batch |-> scan.batch + 1,
                               to |-> to, checkpoint |-> Hash(to)]
                   /\ UNCHANGED ready
              ELSE Throw
         ELSE /\ scan' = [pc |-> "inspect", final |-> scan.final, todo |-> Candidates]
              /\ UNCHANGED ready
  /\ UNCHANGED <<chain, forks, intents, asked, db, faults>>

\* getLogs answers from the chain as it is now.
ReadLogs ==
  /\ scan.pc = "logs"
  /\ scan' = [pc |-> "verify", final |-> scan.final, batch |-> scan.batch, to |-> scan.to,
              checkpoint |-> scan.checkpoint, branch |-> chain,
              logs |-> Logs(chain, db.through + 1, scan.to)]
  /\ UNCHANGED <<chain, forks, intents, asked, db, ready, faults>>

\* Every block with a log must still be on the chain.  (Nothing is asked about
\* the blocks without one.)
VerifyLogs ==
  /\ scan.pc = "verify"
  /\ IF \A i \in DOMAIN scan.logs :
          On(scan.logs[i].block, SubSeq(scan.branch, 1, scan.logs[i].block))
     THEN /\ scan' = [scan EXCEPT !.pc = "tasks"]
          /\ UNCHANGED <<intents, db, ready>>
     ELSE ResetAndThrow
  /\ UNCHANGED <<chain, forks, asked, faults>>

ReadTasks ==
  /\ scan.pc = "tasks"
  /\ IF scan.to <= Len(chain)
     THEN /\ scan' = [pc |-> "canonical", final |-> scan.final, batch |-> scan.batch,
                      to |-> scan.to, checkpoint |-> scan.checkpoint, branch |-> scan.branch,
                      logs |-> scan.logs, tasks |-> Mined(Hash(scan.to)).pool.tasks]
          /\ UNCHANGED ready
     ELSE Throw
  /\ UNCHANGED <<chain, forks, intents, asked, db, faults>>

\* The batch's last block is read again.  Mutant: it need only exist.
StillThere(to, checkpoint) == to <= Len(chain)
SameBlock(to, checkpoint) == On(to, checkpoint)
RereadBlock ==
  /\ scan.pc = "canonical"
  /\ IF SameBlock(scan.to, scan.checkpoint)
     THEN /\ scan' = [scan EXCEPT !.pc = "commit"]
          /\ UNCHANGED <<intents, db, ready>>
     ELSE ResetAndThrow
  /\ UNCHANGED <<chain, forks, asked, faults>>

\* The intent of a donation whose event arrives.  Mutant: FAILED is final.
JudgedOnce(intent, event) ==
  IF intent.status = "FAILED" THEN intent
  ELSE [intent EXCEPT !.status = IF Matches(event) THEN "CONFIRMED" ELSE "FAILED"]
Judged(intent, event) ==
  [intent EXCEPT !.status = IF Matches(event) THEN "CONFIRMED" ELSE "FAILED"]
Answered(intent, d, logs) ==
  LET event == logs[CHOOSE i \in Received(logs, d) : TRUE].event
  IN  [Judged(intent, event) EXCEPT !.claim = IF Matches(event) THEN Prepared[d] ELSE @]

\* The previous anchor is read again and the batch is written.
Commit ==
  /\ scan.pc = "commit"
  /\ IF db.through = 0 \/ On(db.through, db.anchor)
     THEN /\ db' = [events |-> db.events \o scan.logs, through |-> scan.to,
                    anchor |-> scan.checkpoint, tasks |-> scan.tasks]
          /\ intents' = [d \in DOMAIN intents |->
               IF Received(scan.logs, d) = {} THEN intents[d]
               ELSE Answered(intents[d], d, scan.logs)]
          /\ scan' = [pc |-> "batch", final |-> scan.final, batch |-> scan.batch]
          /\ UNCHANGED ready
     ELSE ResetAndThrow
  /\ UNCHANGED <<chain, forks, asked, faults>>

\* The transaction and the receipt of a pending intent are read.  One the
\* provider does not know is passed over; one not yet mined has no receipt.
ReadPending(d) ==
  /\ scan.pc = "inspect"
  /\ d \in scan.todo
  /\ LET rest == [scan EXCEPT !.todo = @ \ {d}]
         hash == intents[d].claim
         blocks == {n \in DOMAIN chain : chain[n].call = hash}
         Mark(status) == IF intents[d].status = status THEN rest
                         ELSE [pc |-> "mark", final |-> scan.final, todo |-> scan.todo \ {d},
                               mark |-> [id |-> d, status |-> status]]
     IN  \/ blocks = {} /\ scan' = rest
         \/ hash # Junk /\ hash # Prepared[d] /\ scan' = Mark("FAILED")
         \/ hash = Prepared[d] /\ blocks = {} /\ scan' = Mark("SUBMITTED")
         \/ /\ hash = Prepared[d]
            /\ \E n \in blocks :
                 scan' = Mark(IF Admitted(Mined(Hash(n - 1)).pool, hash) THEN "CONFIRMING"
                                                                         ELSE "FAILED")
  /\ UNCHANGED <<chain, forks, intents, asked, db, ready, faults>>

MarkPending ==
  /\ scan.pc = "mark"
  /\ intents' = [intents EXCEPT ![scan.mark.id].status = scan.mark.status]
  /\ scan' = [pc |-> "inspect", final |-> scan.final, todo |-> scan.todo]
  /\ UNCHANGED <<chain, forks, asked, db, ready, faults>>

\* All were looked at, or the time for it is up.
EndScan ==
  /\ scan.pc = "inspect"
  /\ scan' = Idle
  /\ ready' = (db.through >= scan.final)
  /\ UNCHANGED <<chain, forks, intents, asked, db, faults>>

\* A call fails, or the process stops and starts again with what was persisted.
Fault ==
  /\ scan # Idle
  /\ faults < MaxFaults
  /\ faults' = faults + 1
  /\ Throw
  /\ UNCHANGED <<chain, forks, intents, asked, db>>

-----------------------------------------------------------------------------
SyncInit ==
  /\ chain = [n \in DOMAIN FirstCalls |-> [call |-> FirstCalls[n], fork |-> 0]]
  /\ forks = 0 /\ faults = 0
  /\ intents = <<>> /\ asked = {}
  /\ db = Blank /\ ready = FALSE /\ scan = Idle

Sync ==
  \/ Begin \/ CheckAnchor \/ NextBatch \/ ReadLogs \/ VerifyLogs
  \/ ReadTasks \/ RereadBlock \/ Commit \/ MarkPending \/ EndScan
  \/ \E d \in Donations : ReadPending(d)

SyncNext ==
  \/ \E call \in Calls \cup {NoCall} : Mine(call)
  \/ \E n \in 0..MaxHeight : Reorganise(n)
  \/ \E d \in Donations : Ask(d) \/ Prepare(d)
  \/ \E d \in Donations, hash \in {c \in Calls : c.name = "donate"} \cup {Junk} : Submit(d, hash)
  \/ Sync
  \/ Fault

\* The timer calls sync() every two seconds, and a call to the provider answers
\* or times out.  Some step of Sync is enabled in every state, so this is weak
\* fairness of Sync.
SyncSpec == SyncInit /\ [][SyncNext]_syncVars /\ []<><<Sync>>_syncVars
-----------------------------------------------------------------------------
(* Properties *)

\* The sum of the amounts in rows of the log, over the events `name` and over
\* those of one donation.
Amount(log, rows) == Total([i \in rows |-> log[i].event.amount])
Named(log, name) == {i \in DOMAIN log : log[i].event.name = name}
About(log, name, d) == {i \in Named(log, name) : log[i].event.donation = d}
Sum(name) == Amount(db.events, Named(db.events, name))
SumFor(name, d) == Amount(db.events, About(db.events, name, d))

\* What is persisted is the history of one chain: the events up to the anchor
\* are exactly those of its branch, the tasks are the contract's at the anchor,
\* and the sums the ledger and the dashboard take over the events are the
\* contract's own books, so LEDGER_MISMATCH is never raised.
LedgerOfOneChain ==
  LET mined == Mined(db.anchor)
      pool == mined.pool
  IN  /\ db.through = Len(db.anchor)
      /\ db.events = mined.log
      /\ db.tasks = pool.tasks
      /\ \A d \in DOMAIN pool.donations :
           pool.donations[d].unallocated =
             SumFor("DonationReceived", d) - SumFor("DonationAllocated", d)
               - SumFor("DonationRefunded", d)
      /\ Sum("DonationReceived") = pool.donated
      /\ Sum("DonationAllocated") = pool.allocated
      /\ Sum("TaskReleased") = pool.released
      /\ Sum("DonationRefunded") = pool.refunded
      /\ pool.donated >= pool.allocated + pool.refunded /\ pool.allocated >= pool.released

\* An account reads CONFIRMED exactly while the donation it prepared is in the
\* ledger, through reorganisations, wrong claims and pending checks that finish
\* late.
ConfirmedIsIndexed ==
  \A d \in DOMAIN intents : intents[d].status = "CONFIRMED" <=> InLedger(d)

\* Once the chain has settled, a prepared donation that was mined and confirmed
\* on it is in the end CONFIRMED, whatever was claimed about it before.
Settled(d) ==
  \E n \in 1..(Len(chain) - Confirmations + 1) :
    /\ chain[n].call = Prepared[d]
    /\ Admitted(Mined(Hash(n - 1)).pool, Prepared[d])
EventuallyConfirmed ==
  <>[](\A d \in DOMAIN intents : Settled(d) => intents[d].status = "CONFIRMED")
=============================================================================
