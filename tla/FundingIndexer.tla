---------------------------- MODULE FundingIndexer ----------------------------
(***************************************************************************)
(* The scan of backend/funding-indexer.js between the chain it reads       *)
(* through an RPC provider and the two SQLite files it writes: the funding *)
(* store (backend/funding-store.js), whose canonical events are the        *)
(* projection, and its own checkpoint of the blocks already scanned.       *)
(*                                                                         *)
(* A step is what the code runs between two awaits, and the two commits    *)
(* are steps of their own, so that the chain may change at every await and *)
(* the process may die or a call may fail anywhere, the gap between the    *)
(* two commits included (scan is lost, the files stay).                    *)
(*                                                                         *)
(* A block's hash is the chain up to the block: equal hashes, equal        *)
(* ancestry.  Reading blocks one by one and checking that each names its   *)
(* predecessor as parent therefore yields the chain as it was at the last  *)
(* of these reads, and is one step.  A fork never comes back: blocks mined *)
(* after a reorganisation carry its number.  The provider serves the whole *)
(* chain: one that falls behind what it has shown is left out.             *)
(* startBlock is 1; the checks of the chain id, the contract code and the  *)
(* registrations are left out.                                             *)
(*                                                                         *)
(* backend/funding-indexer-runtime.js polls: it begins a scan whenever     *)
(* none is under way, and on shutdown waits for the last one.              *)
(***************************************************************************)
EXTENDS Integers, Sequences, FiniteSets

CONSTANTS
  Txs,            \* transactions with one funding event each
  Confirmations,  \* depth at which a block counts
  ScanRange,      \* blocks scanned per round
  MaxHeight,      \* bound on the chain
  MaxReorgs,      \* bound on reorganisations
  MaxAborts,      \* bound on crashes and failed calls
  MaxStops,       \* bound on orderly shutdowns
  None

ASSUME BoundsAssumption ==
  /\ Confirmations \in Nat \ {0}
  /\ ScanRange \in Nat \ {0}
  /\ MaxHeight \in Nat /\ MaxReorgs \in Nat /\ MaxAborts \in Nat /\ MaxStops \in Nat
ASSUME TxAssumption == None \notin Txs

VARIABLES
  chain,       \* the blocks of the chain: [tx, fork]
  forks,       \* reorganisations so far
  projection,  \* canonical events of the funding store: [tx, block]
  saved,       \* checkpoint: the hash and the events of every scanned block
  scan,        \* where synchronize() is, with its local variables
  error,       \* lastErrorCode, as far as FUNDING_CHECKPOINT_MISMATCH goes
  aborts,      \* crashes and failed calls so far
  runtime,     \* polling, stopping (a scan may be under way) or closed
  stops        \* shutdowns so far

chainVars == <<chain, forks>>
storeVars == <<projection, saved>>
runVars == <<aborts, runtime, stops>>
vars == <<chain, forks, projection, saved, scan, error, aborts, runtime, stops>>
head == Len(chain)

-----------------------------------------------------------------------------
(* The chain *)

Hash(n) == SubSeq(chain, 1, n)
Number(event) == Len(event.block)
Smaller(m, n) == IF m < n THEN m ELSE n

\* The events of a chain `blocks` from block `first` to block `last`.
EventsOf(blocks, first, last) ==
  {[tx |-> blocks[n].tx, block |-> SubSeq(blocks, 1, n)] :
     n \in {k \in first..last : blocks[k].tx # None}}

\* A transaction enters a chain at most once.
NoRepeats(blocks) ==
  \A m, n \in DOMAIN blocks : blocks[m].tx = blocks[n].tx /\ m # n => blocks[m].tx = None

Mine(tx) ==
  /\ Len(chain) < MaxHeight
  /\ chain' = Append(chain, [tx |-> tx, fork |-> forks])
  /\ NoRepeats(chain')
  /\ UNCHANGED <<forks, storeVars, scan, error, runVars>>

\* The blocks above n give way to as many others, holding the transactions
\* `txs` (a chain only gives way to one at least as long).
Reorganise(n, txs) ==
  /\ forks < MaxReorgs
  /\ n < Len(chain)
  /\ chain' = [k \in DOMAIN chain |-> IF k <= n THEN chain[k]
                                      ELSE [tx |-> txs[k], fork |-> forks + 1]]
  /\ NoRepeats(chain')
  /\ forks' = forks + 1
  /\ UNCHANGED <<storeVars, scan, error, runVars>>

-----------------------------------------------------------------------------
(* One scan *)

Idle == [pc |-> "idle"]
Through == Len(saved)

\* validateProjectionThrough: the store agrees with the checkpoint of every
\* block up to n.
Matches(n) ==
  /\ \A e \in projection : Number(e) <= n => e.block = saved[Number(e)].hash
  /\ \A k \in 1..n : saved[k].events = {e \in projection : Number(e) = k}

\* What funding-domain.js accepts after the events `kept`: nothing that
\* precedes them, and no transaction they hold in another block.
Admitted(kept, events) ==
  \A e \in events : e \in kept \/ \A f \in kept : Number(f) < Number(e) /\ f.tx # e.tx

\* The events that replaceFromBlock keeps.
Below(n) == {e \in projection : Number(e) < n}

Fail == scan' = Idle /\ UNCHANGED <<chainVars, storeVars, error, runVars>>
Goto(next) == scan' = next /\ UNCHANGED <<chainVars, storeVars, error, runVars>>

\* funding-store.js: what a transaction of append or replaceFromBlock leaves.
Appended(events) == projection \cup events
Replaced(fromBlock, events) == Below(fromBlock) \cup events

BeginScan ==
  LET confirmed == head - Confirmations + 1
  IN  /\ runtime = "polling"
      /\ scan.pc = "idle"
      /\ error' = None
      /\ scan' = IF Through = 0
                 THEN [pc |-> "reconcile", confirmed |-> confirmed, ancestor |-> 0]
                 ELSE IF Through > confirmed
                 THEN [pc |-> "ancestor", confirmed |-> confirmed,
                       probe |-> IF confirmed > 0 THEN confirmed ELSE 0]
                 ELSE [pc |-> "tip", confirmed |-> confirmed]
      /\ UNCHANGED <<chainVars, storeVars, runVars>>

\* Is the last scanned block still on the chain?
\* Mutant: a replaced tip fails the scan.
CheckTipOnly ==
  /\ scan.pc = "tip"
  /\ IF Through > head \/ Hash(Through) # saved[Through].hash THEN Fail
     ELSE Goto([pc |-> "reconcile", confirmed |-> scan.confirmed, ancestor |-> Through])
CheckTip ==
  /\ scan.pc = "tip"
  /\ IF Through > head THEN Fail
     ELSE Goto(IF Hash(Through) = saved[Through].hash
               THEN [pc |-> "reconcile", confirmed |-> scan.confirmed, ancestor |-> Through]
               ELSE [pc |-> "ancestor", confirmed |-> scan.confirmed, probe |-> Through])

\* commonAncestor, one block read per step.
ProbeAncestor ==
  LET n == scan.probe
  IN  /\ scan.pc = "ancestor"
      /\ IF n > head THEN Fail
         ELSE Goto(IF n = 0 \/ Hash(n) = saved[n].hash
                   THEN [pc |-> "reconcile", confirmed |-> scan.confirmed, ancestor |-> n]
                   ELSE [scan EXCEPT !.probe = n - 1])

\* Does the store hold anything the checkpoint does not vouch for?  Mutant: no
\* thought of a restart between the two commits.
Reorganised(ancestor) == ancestor # Through
Replacing(ancestor) == ancestor # Through \/ Below(ancestor + 1) # projection

\* Checks the store against the checkpoint up to the common ancestor.  What
\* the store holds above it will be replaced; when no confirmed block is left
\* there, it is removed at once.
Reconcile ==
  LET next == scan.ancestor + 1
      replacing == Replacing(scan.ancestor)
  IN  /\ scan.pc = "reconcile"
      /\ UNCHANGED <<chainVars, saved, runVars>>
      /\ IF ~Matches(scan.ancestor)
         THEN /\ scan' = Idle /\ error' = "FUNDING_CHECKPOINT_MISMATCH"
              /\ UNCHANGED projection
         ELSE /\ UNCHANGED error
              /\ IF next <= scan.confirmed
                 THEN /\ scan' = [pc |-> "before", confirmed |-> scan.confirmed,
                                  next |-> next, replacing |-> replacing]
                      /\ UNCHANGED projection
                 ELSE IF replacing
                 THEN /\ projection' = Replaced(next, {})
                      /\ scan' = [pc |-> "checkpoint", confirmed |-> scan.confirmed,
                                  next |-> next, seen |-> <<>>, events |-> {}]
                 ELSE scan' = Idle /\ UNCHANGED projection

\* Does block n + 1 follow the last block in the checkpoint?
Follows(n) == n = 0 \/ saved[n].hash = Hash(n)

\* scanRange: the blocks before, ...
ReadBlocks ==
  LET last == Smaller(scan.confirmed, scan.next + ScanRange - 1)
      n == scan.next - 1
  IN  /\ scan.pc = "before"
      /\ IF head < last \/ ~Follows(n) THEN Fail
         ELSE Goto([pc |-> "logs", confirmed |-> scan.confirmed, next |-> scan.next,
                    replacing |-> scan.replacing, seen |-> Hash(last)])

\* ... the logs the provider holds for the range, every one in a block just read, ...
ReadLogs ==
  LET events == EventsOf(chain, scan.next, Smaller(Len(scan.seen), head))
  IN  /\ scan.pc = "logs"
      /\ IF \E e \in events : e.block # SubSeq(scan.seen, 1, Number(e)) THEN Fail
         ELSE Goto([pc |-> "verify", confirmed |-> scan.confirmed, next |-> scan.next,
                    replacing |-> scan.replacing, seen |-> scan.seen, events |-> events])

\* ... their receipts, ...
VerifyReceipts ==
  /\ scan.pc = "verify"
  /\ IF \A e \in scan.events : /\ Number(e) + Confirmations - 1 <= head
                               /\ e.block = Hash(Number(e))
     THEN Goto([scan EXCEPT !.pc = "after"]) ELSE Fail

\* ... and the blocks again.  Mutant: not again.
SkipReread == scan.pc = "after" /\ Goto([scan EXCEPT !.pc = "commit"])
RereadBlocks ==
  LET last == Len(scan.seen)
  IN  /\ scan.pc = "after"
      /\ IF last <= head /\ Hash(last) = scan.seen
         THEN Goto([scan EXCEPT !.pc = "commit"]) ELSE Fail

\* commitProjection, after the last look at the head; what the store already
\* holds is left as it is.
CommitProjection ==
  LET kept == IF scan.replacing THEN Below(scan.next) ELSE projection
  IN  /\ scan.pc = "commit"
      /\ IF head < Len(scan.seen) + Confirmations - 1 \/ ~Admitted(kept, scan.events)
         THEN Fail
         ELSE /\ projection' = IF scan.replacing THEN Replaced(scan.next, scan.events)
                             ELSE Appended(scan.events)
              /\ scan' = [pc |-> "checkpoint", confirmed |-> scan.confirmed,
                          next |-> scan.next, seen |-> scan.seen, events |-> scan.events]
              /\ UNCHANGED <<chainVars, saved, error, runVars>>

WriteCheckpoint ==
  LET last == IF scan.seen = <<>> THEN scan.next - 1 ELSE Len(scan.seen)
      row(n) == [hash |-> SubSeq(scan.seen, 1, n),
                 events |-> {e \in scan.events : Number(e) = n}]
  IN  /\ scan.pc = "checkpoint"
      /\ saved' = [n \in 1..last |-> IF n < scan.next THEN saved[n] ELSE row(n)]
      /\ scan' = IF last + 1 > scan.confirmed THEN Idle
                 ELSE [pc |-> "before", confirmed |-> scan.confirmed, next |-> last + 1,
                       replacing |-> FALSE]
      /\ UNCHANGED <<chainVars, projection, error, runVars>>

\* A call fails and the scan throws, or the process dies and is started again.
Abort ==
  /\ scan # Idle
  /\ aborts < MaxAborts
  /\ scan' = Idle /\ aborts' = aborts + 1
  /\ runtime' \in {runtime, "polling"}
  /\ UNCHANGED <<chainVars, storeVars, error, stops>>

-----------------------------------------------------------------------------
(* The runtime *)

\* close() stops the polling, waits for the scan under way whatever comes of
\* it, and closes the files.
StopPolling ==
  /\ runtime = "polling" /\ stops < MaxStops
  /\ runtime' = "stopping" /\ stops' = stops + 1
  /\ UNCHANGED <<chainVars, storeVars, scan, error, aborts>>

Close ==
  /\ runtime = "stopping" /\ scan = Idle
  /\ runtime' = "closed"
  /\ UNCHANGED <<chainVars, storeVars, scan, error, aborts, stops>>

\* The service is started again.
Start ==
  /\ runtime = "closed"
  /\ runtime' = "polling" /\ error' = None
  /\ UNCHANGED <<chainVars, storeVars, scan, aborts, stops>>

-----------------------------------------------------------------------------
Init ==
  /\ chain = <<>> /\ forks = 0
  /\ projection = {} /\ saved = <<>>
  /\ scan = Idle /\ error = None /\ aborts = 0
  /\ runtime = "polling" /\ stops = 0

Chain == \/ \E tx \in Txs \cup {None} : Mine(tx)
         \/ \E n \in 0..MaxHeight, txs \in [DOMAIN chain -> Txs \cup {None}] :
              Reorganise(n, txs)
Scan == \/ BeginScan \/ CheckTip \/ ProbeAncestor \/ Reconcile
        \/ ReadBlocks \/ ReadLogs \/ VerifyReceipts \/ RereadBlocks
        \/ CommitProjection \/ WriteCheckpoint
Run == Close \/ Start
Next == Chain \/ Scan \/ Abort \/ StopPolling \/ Run
Spec == Init /\ [][Next]_vars

\* The runtime polls for as long as it runs, an awaited call returns, and a
\* service that was stopped is started again.
FairSpec == Spec /\ WF_vars(Scan) /\ WF_vars(Run)

-----------------------------------------------------------------------------
(* Properties *)

\* The store is at every moment, between the two commits included, the full
\* event history of one chain: an event comes with all the events of the
\* blocks below it and with none of another fork (so none is credited twice),
\* and a block counts as scanned only with every event it holds.
OneHistory ==
  /\ \A e \in projection :
       {f \in projection : Number(f) <= Number(e)} = EventsOf(e.block, 1, Number(e))
  /\ \A n \in DOMAIN saved : saved[n].events = EventsOf(saved[n].hash, n, n)

\* The store and the checkpoint never contradict each other for good: a
\* restart between the two commits is repaired by the next scan.
CrashRepaired == error = None

\* The checkpoint has followed the chain to its last confirmed block and the
\* store holds exactly that chain's events.
CaughtUp ==
  LET confirmed == IF head < Confirmations THEN 0 ELSE head - Confirmations + 1
  IN  /\ Through = confirmed
      /\ \A n \in DOMAIN saved : saved[n].hash = Hash(n)
      /\ projection = EventsOf(chain, 1, confirmed)

\* Once the chain settles, the ledger catches up and stays so, after any
\* reorganisations, crashes, failed calls and shutdowns.
EventuallyCaughtUp == <>[]CaughtUp
=============================================================================
