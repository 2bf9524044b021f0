------------------------- MODULE FundingIndexerProofs -------------------------
(***************************************************************************)
(* Proofs about the scan of the funding indexer: the store is always the   *)
(* history of one chain, and whatever a crash leaves between its two       *)
(* commits is repaired by the next scan, for any chain, any number of      *)
(* reorganisations and any number of crashes; and about its lock file: it  *)
(* keeps the store to one process, when one process starts at a time.      *)
(***************************************************************************)
EXTENDS FundingIndexer, IndexerLock, SequenceTheorems, FiniteSetTheorems, TLAPS

-----------------------------------------------------------------------------
(* Chains and their beginnings *)

Block == [tx : Txs \cup {None}, fork : Nat]
Event == [tx : Txs \cup {None}, block : Seq(Block)]
Row == [hash : Seq(Block), events : SUBSET Event]

\* The first n blocks of a chain.
LEMMA PrefixType ==
  ASSUME NEW R, NEW s \in Seq(R), NEW n \in 0..Len(s)
  PROVE  /\ SubSeq(s, 1, n) \in Seq(R) /\ Len(SubSeq(s, 1, n)) = n
         /\ DOMAIN SubSeq(s, 1, n) = 1..n
         /\ \A k \in 1..n : SubSeq(s, 1, n)[k] = s[k]
  OBVIOUS

\* Sequences with the same elements are equal.
LEMMA SameSeq ==
  ASSUME NEW R, NEW s \in Seq(R), NEW t \in Seq(R), Len(s) = Len(t),
         \A k \in 1..Len(s) : s[k] = t[k]
  PROVE  s = t
  OBVIOUS

\* The beginning of a beginning.
LEMMA PrefixOfPrefix ==
  ASSUME NEW R, NEW s \in Seq(R), NEW n \in 0..Len(s), NEW k \in 0..n
  PROVE  SubSeq(SubSeq(s, 1, n), 1, k) = SubSeq(s, 1, k)
  <1>1. SubSeq(s, 1, n) \in Seq(R) /\ Len(SubSeq(s, 1, n)) = n
        /\ \A i \in 1..n : SubSeq(s, 1, n)[i] = s[i]
    BY PrefixType
  <1>2. k \in 0..Len(s) /\ k \in 0..Len(SubSeq(s, 1, n))
    BY <1>1
  <1> DEFINE a == SubSeq(SubSeq(s, 1, n), 1, k)
             b == SubSeq(s, 1, k)
  <1>3. a \in Seq(R) /\ Len(a) = k /\ \A i \in 1..k : a[i] = SubSeq(s, 1, n)[i]
    BY <1>1, <1>2, PrefixType
  <1>4. b \in Seq(R) /\ Len(b) = k /\ \A i \in 1..k : b[i] = s[i]
    BY <1>2, PrefixType
  <1> HIDE DEF a, b
  <1>5. \A i \in 1..k : a[i] = b[i]
    BY <1>1, <1>3, <1>4
  <1>6. a = b
    BY <1>3, <1>4, <1>5, SameSeq
  <1>7. QED
    BY <1>6 DEF a, b

\* All blocks of a chain are the chain.
LEMMA WholePrefix == ASSUME NEW R, NEW s \in Seq(R) PROVE SubSeq(s, 1, Len(s)) = s
  <1>1. Len(s) \in 0..Len(s)
    OBVIOUS
  <1>2. QED
    BY <1>1, PrefixType, SameSeq

\* No block of a chain is the empty chain.
LEMMA NoPrefix == ASSUME NEW s PROVE SubSeq(s, 1, 0) = <<>>
  OBVIOUS

-----------------------------------------------------------------------------
(* The events of a chain *)

\* An event of blocks i..j of a chain says which of them it is in, and how the
\* chain came there.
LEMMA EventsType ==
  ASSUME NEW s \in Seq(Block), NEW i \in Nat \ {0}, NEW j \in 0..Len(s)
  PROVE  /\ EventsOf(s, i, j) \subseteq Event
         /\ \A e \in EventsOf(s, i, j) :
              /\ Number(e) \in i..j /\ s[Number(e)].tx # None
              /\ e = [tx |-> s[Number(e)].tx, block |-> SubSeq(s, 1, Number(e))]
  <1> SUFFICES ASSUME NEW n \in i..j, s[n].tx # None,
                      NEW e, e = [tx |-> s[n].tx, block |-> SubSeq(s, 1, n)]
               PROVE  /\ e \in Event /\ Number(e) = n
    BY DEF EventsOf
  <1>1. n \in 0..Len(s) /\ s[n] \in Block
    BY ElementOfSeq
  <1>2. SubSeq(s, 1, n) \in Seq(Block) /\ Len(SubSeq(s, 1, n)) = n
    BY <1>1, PrefixType
  <1>3. s[n].tx \in Txs \cup {None}
    BY <1>1 DEF Block
  <1>4. QED
    BY <1>2, <1>3 DEF Event, Number

\* A block with a transaction has its event.
LEMMA EventIn ==
  ASSUME NEW s, NEW i, NEW j, NEW n \in i..j, s[n].tx # None
  PROVE  [tx |-> s[n].tx, block |-> SubSeq(s, 1, n)] \in EventsOf(s, i, j)
  BY DEF EventsOf

\* The events of blocks lo..hi among those of blocks i..j.
LEMMA EventsAmong ==
  ASSUME NEW s \in Seq(Block), NEW i \in Nat \ {0}, NEW j \in 0..Len(s),
         NEW lo \in Nat, NEW hi \in Nat, i <= lo, hi <= j
  PROVE  {e \in EventsOf(s, i, j) : Number(e) \in lo..hi} = EventsOf(s, lo, hi)
  <1>1. ASSUME NEW e \in EventsOf(s, i, j), Number(e) \in lo..hi
        PROVE  e \in EventsOf(s, lo, hi)
    <2>1. /\ s[Number(e)].tx # None
          /\ e = [tx |-> s[Number(e)].tx, block |-> SubSeq(s, 1, Number(e))]
      BY EventsType
    <2>2. [tx |-> s[Number(e)].tx, block |-> SubSeq(s, 1, Number(e))] \in EventsOf(s, lo, hi)
      BY <1>1, <2>1, EventIn
    <2>3. QED
      BY <2>1, <2>2
  <1>2. ASSUME NEW e \in EventsOf(s, lo, hi)
        PROVE  e \in EventsOf(s, i, j) /\ Number(e) \in lo..hi
    <2>1. lo \in Nat \ {0} /\ hi \in 0..Len(s)
      OBVIOUS
    <2>2. /\ Number(e) \in lo..hi /\ s[Number(e)].tx # None
          /\ e = [tx |-> s[Number(e)].tx, block |-> SubSeq(s, 1, Number(e))]
      BY <1>2, <2>1, EventsType
    <2>3. Number(e) \in i..j
      BY <2>2
    <2>4. QED
      BY <2>2, <2>3, EventIn
  <1>3. QED
    BY <1>1, <1>2

\* The events of a range are those of its two parts.
LEMMA EventsSplit ==
  ASSUME NEW s, NEW i \in Nat, NEW j \in Nat, NEW k \in Nat, i <= k + 1, k <= j
  PROVE  EventsOf(s, i, k) \cup EventsOf(s, k + 1, j) = EventsOf(s, i, j)
  <1>1. i..j = (i..k) \cup ((k + 1)..j)
    OBVIOUS
  <1>2. QED
    BY <1>1 DEF EventsOf

\* The events up to a block depend on the chain up to it.
LEMMA EventsOfPrefix ==
  ASSUME NEW s \in Seq(Block), NEW n \in 0..Len(s), NEW i \in Nat \ {0}, NEW j \in 0..n
  PROVE  EventsOf(SubSeq(s, 1, n), i, j) = EventsOf(s, i, j)
  <1> DEFINE p == SubSeq(s, 1, n)
  <1>1. \A k \in i..j : p[k] = s[k]
    BY PrefixType
  <1>2. \A k \in i..j : SubSeq(p, 1, k) = SubSeq(s, 1, k)
    BY PrefixOfPrefix
  <1> HIDE DEF p
  <1>3. EventsOf(p, i, j) = EventsOf(s, i, j)
    BY <1>1, <1>2 DEF EventsOf
  <1>4. QED
    BY <1>3 DEF p

-----------------------------------------------------------------------------
(* The invariant *)

\* A chain the provider has shown: it is no longer than the chain is now and
\* holds no block of a fork to come.
Known(s) ==
  /\ s \in Seq(Block) /\ Len(s) <= Len(chain)
  /\ \A k \in DOMAIN s : s[k].fork <= forks
\* It is still part of the chain.
OnChain(s) == Len(s) <= Len(chain) /\ Hash(Len(s)) = s

ChainOK == Known(chain) /\ forks \in Nat

\* The checkpoint is one chain, block by block, with the events of each.
HashAt(n) == IF n = 0 THEN <<>> ELSE saved[n].hash
SavedOK ==
  /\ saved \in Seq(Row)
  /\ Through # 0 => Through <= head - Confirmations + 1
  /\ \A n \in DOMAIN saved :
       /\ Known(saved[n].hash) /\ Len(saved[n].hash) = n
       /\ saved[n].events = EventsOf(saved[n].hash, n, n)
  /\ \A n \in DOMAIN saved : \A m \in 1..n : saved[m].hash = SubSeq(saved[n].hash, 1, m)

\* The store is the history of some chain ...
HistoryOf(s) == s \in Seq(Block) /\ projection = EventsOf(s, 1, Len(s))
StoreOK == \E s : HistoryOf(s)
\* ... and agrees with the checkpoint of every block that is still on the chain.
Repairable == \A n \in DOMAIN saved : OnChain(saved[n].hash) => Matches(n)

\* What the checkpoint holds from block n on has left the chain.
Off(n) == \A k \in DOMAIN saved : k >= n => ~OnChain(saved[k].hash)

\* A round that will write from block scan.next on.
Round ==
  /\ scan.next \in 1..Through + 1 /\ Off(scan.next) /\ Matches(scan.next - 1)
\* The blocks it has read.
Reading ==
  /\ Known(scan.seen) /\ Len(scan.seen) <= scan.confirmed /\ scan.next <= Len(scan.seen)
  /\ HashAt(scan.next - 1) = SubSeq(scan.seen, 1, scan.next - 1)
Collected == scan.events = EventsOf(scan.seen, scan.next, Len(scan.seen))
Fresh == ~scan.replacing => Below(scan.next) = projection

AtTip == scan \in [pc : {"tip"}, confirmed : Int] /\ Through # 0
AtAncestor ==
  /\ scan \in [pc : {"ancestor"}, confirmed : Int, probe : 0..Through]
  /\ Off(scan.probe + 1)
AtReconcile ==
  /\ scan \in [pc : {"reconcile"}, confirmed : Int, ancestor : 0..Through]
  /\ Off(scan.ancestor + 1) /\ Matches(scan.ancestor)
AtBefore ==
  /\ scan \in [pc : {"before"}, confirmed : Int, next : Nat, replacing : BOOLEAN]
  /\ scan.next <= scan.confirmed /\ Round /\ Fresh
AtLogs ==
  /\ scan \in [pc : {"logs"}, confirmed : Int, next : Nat, replacing : BOOLEAN,
               seen : Seq(Block)]
  /\ Round /\ Fresh /\ Reading
\* The events are those of the blocks read, unless these have left the chain.
AtEvents ==
  /\ scan \in [pc : {"verify", "after", "commit"}, confirmed : Int, next : Nat,
               replacing : BOOLEAN, seen : Seq(Block), events : SUBSET Event]
  /\ Round /\ Fresh /\ Reading
  /\ Collected \/ (scan.pc # "commit" /\ ~OnChain(scan.seen))
\* The store holds what the checkpoint is about to say it holds.
AtCheckpoint ==
  /\ scan \in [pc : {"checkpoint"}, confirmed : Int, next : Nat,
               seen : Seq(Block), events : SUBSET Event]
  /\ Round /\ {e \in projection : Number(e) >= scan.next} = scan.events
  /\ \/ scan.seen = <<>> /\ scan.events = {} /\ scan.confirmed < scan.next
     \/ Reading /\ Collected
ScanOK ==
  \/ scan = Idle \/ AtTip \/ AtAncestor \/ AtReconcile
  \/ AtBefore \/ AtLogs \/ AtEvents \/ AtCheckpoint
\* The blocks a scan may count as confirmed are.
DepthOK == scan # Idle => scan.confirmed <= head - Confirmations + 1

IndexInv == ChainOK /\ SavedOK /\ StoreOK /\ Repairable /\ ScanOK /\ DepthOK

-----------------------------------------------------------------------------
(* Chains come and go *)

\* What the chain may do between two steps of the scan: the blocks it drops
\* give way to as many of a new fork.
Grows ==
  /\ chain' \in Seq(Block) /\ Len(chain) <= Len(chain')
  /\ forks' \in Nat /\ forks <= forks'
  /\ \A k \in DOMAIN chain' : chain'[k].fork <= forks'
  /\ \A k \in DOMAIN chain : chain'[k] = chain[k] \/ chain'[k].fork > forks

\* A block of a chain.
LEMMA BlockOf ==
  ASSUME NEW s \in Seq(Block), NEW k \in DOMAIN s
  PROVE  s[k] \in Block /\ s[k].fork \in Nat
  <1>1. s[k] \in Block
    BY ElementOfSeq
  <1>2. QED
    BY <1>1 DEF Block

\* All that mining and reorganisations do to the chain.
LEMMA ChainGrows ==
  ASSUME ChainOK, Chain \/ UNCHANGED chainVars
  PROVE  Grows
  <1>1. chain \in Seq(Block) /\ forks \in Nat /\ \A k \in DOMAIN chain : chain[k].fork <= forks
    BY DEF ChainOK, Known
  <1>2. \A k \in DOMAIN chain : chain[k] \in Block /\ chain[k].fork \in Nat
    BY <1>1, BlockOf
  <1>3. CASE UNCHANGED chainVars
    BY <1>1, <1>3 DEF Grows, chainVars
  <1>4. ASSUME NEW tx \in Txs \cup {None}, Mine(tx) PROVE Grows
    <2>1. [tx |-> tx, fork |-> forks] \in Block
      BY <1>1 DEF Block
    <2>2. chain' = Append(chain, [tx |-> tx, fork |-> forks]) /\ forks' = forks
      BY <1>4 DEF Mine
    <2>3. /\ chain' \in Seq(Block) /\ Len(chain') = Len(chain) + 1
          /\ \A k \in 1..Len(chain) : chain'[k] = chain[k]
          /\ chain'[Len(chain) + 1] = [tx |-> tx, fork |-> forks]
      BY <1>1, <2>1, <2>2, AppendProperties
    <2>4. \A k \in DOMAIN chain' : chain'[k].fork <= forks'
      BY <1>1, <1>2, <2>2, <2>3
    <2>5. QED
      BY <1>1, <2>2, <2>3, <2>4 DEF Grows
  <1>5. ASSUME NEW n \in 0..MaxHeight, NEW txs \in [DOMAIN chain -> Txs \cup {None}],
               Reorganise(n, txs)
        PROVE  Grows
    <2>1. /\ forks' = forks + 1
          /\ chain' = [k \in DOMAIN chain |-> IF k <= n THEN chain[k]
                                              ELSE [tx |-> txs[k], fork |-> forks + 1]]
      BY <1>5 DEF Reorganise
    <2>2. \A k \in DOMAIN chain : chain'[k] \in Block
      BY <1>1, <1>2, <2>1 DEF Block
    <2>3. DOMAIN chain' = 1..Len(chain) /\ DOMAIN chain = 1..Len(chain)
      BY <1>1, <2>1
    <2>4. chain' \in Seq(Block) /\ Len(chain') = Len(chain)
      <3>1. chain' \in [1..Len(chain) -> Block]
        BY <2>1, <2>2, <2>3
      <3>2. QED
        BY <1>1, <3>1
    <2>5. \A k \in DOMAIN chain : chain'[k] = chain[k] \/ chain'[k].fork = forks + 1
      BY <2>1
    <2>6. QED
      BY <1>1, <1>2, <2>1, <2>3, <2>4, <2>5 DEF Grows
  <1>6. QED
    BY <1>3, <1>4, <1>5 DEF Chain

\* A chain once seen is still a chain once seen, and one that has left the
\* chain does not come back.
LEMMA KnownStays ==
  ASSUME ChainOK, Grows
  PROVE  \A s : Known(s) => Known(s)' /\ (OnChain(s)' => OnChain(s))
  <1> SUFFICES ASSUME NEW s, Known(s)
               PROVE  Known(s)' /\ (OnChain(s)' => OnChain(s))
    OBVIOUS
  <1>1. /\ chain \in Seq(Block) /\ forks \in Nat
        /\ chain' \in Seq(Block) /\ Len(chain) <= Len(chain')
        /\ forks' \in Nat /\ forks <= forks'
        /\ \A k \in DOMAIN chain : chain'[k] = chain[k] \/ chain'[k].fork > forks
    BY DEF ChainOK, Known, Grows
  <1>2. /\ s \in Seq(Block) /\ Len(s) \in Nat /\ Len(s) <= Len(chain)
        /\ \A k \in DOMAIN s : s[k].fork <= forks
    BY DEF Known
  <1>3. \A k \in DOMAIN s : s[k] \in Block /\ s[k].fork \in Nat
    BY <1>2, BlockOf
  <1>4. Known(s)'
    BY <1>1, <1>2, <1>3 DEF Known
  <1>5. ASSUME OnChain(s)' PROVE OnChain(s)
    <2>1. SubSeq(chain', 1, Len(s)) = s
      BY <1>5 DEF OnChain, Hash
    <2>2. Len(s) \in 0..Len(chain) /\ Len(s) \in 0..Len(chain')
      BY <1>1, <1>2
    <2>3. \A k \in 1..Len(s) : s[k] = chain'[k]
      BY <1>1, <2>1, <2>2, PrefixType
    <2>4. \A k \in 1..Len(s) : s[k] = chain[k]
      BY <1>1, <1>2, <1>3, <2>2, <2>3
    <2>5. /\ SubSeq(chain, 1, Len(s)) \in Seq(Block) /\ Len(SubSeq(chain, 1, Len(s))) = Len(s)
          /\ \A k \in 1..Len(s) : SubSeq(chain, 1, Len(s))[k] = chain[k]
      BY <1>1, <2>2, PrefixType
    <2> DEFINE h == SubSeq(chain, 1, Len(s))
    <2> HIDE DEF h
    <2>6. h \in Seq(Block) /\ Len(h) = Len(s) /\ \A k \in 1..Len(h) : h[k] = s[k]
      BY <2>4, <2>5 DEF h
    <2>7. h = s
      BY <1>2, <2>6, SameSeq
    <2>8. QED
      BY <1>2, <2>7 DEF h, OnChain, Hash
  <1>6. QED
    BY <1>4, <1>5

\* With the files as they are, what left the chain stays off it.
LEMMA OffStays ==
  ASSUME ChainOK, SavedOK, Grows, UNCHANGED storeVars
  PROVE  /\ \A n : Off(n) => Off(n)'
         /\ \A n : Matches(n)' <=> Matches(n)
         /\ \A n : HashAt(n)' = HashAt(n)
         /\ \A n : Below(n)' = Below(n)
  <1>1. projection' = projection /\ saved' = saved
    BY DEF storeVars
  <1>2. \A k \in DOMAIN saved : OnChain(saved[k].hash)' => OnChain(saved[k].hash)
    <2>1. TAKE k \in DOMAIN saved
    <2>2. PICK s : s = saved[k].hash
      OBVIOUS
    <2>3. Known(s)
      BY <2>2 DEF SavedOK
    <2>4. OnChain(s)' => OnChain(s)
      BY <2>3, KnownStays
    <2>5. QED
      BY <1>1, <2>2, <2>4 DEF OnChain, Hash
  <1>3. \A n : Off(n) => Off(n)'
    BY <1>1, <1>2 DEF Off
  <1>4. QED
    BY <1>1, <1>3 DEF Matches, HashAt, Below

\* While the scan leaves the files alone, the chain cannot put them out of order
\* ...
LEMMA StoreStays ==
  ASSUME IndexInv, Grows, UNCHANGED storeVars
  PROVE  ChainOK' /\ SavedOK' /\ StoreOK' /\ Repairable'
  <1>1. projection' = projection /\ saved' = saved
    BY DEF storeVars
  <1>2. ChainOK /\ SavedOK
    BY DEF IndexInv
  <1>3. ChainOK'
    BY DEF Grows, ChainOK, Known
  <1>4. \A n \in DOMAIN saved : /\ Known(saved[n].hash)'
                                /\ OnChain(saved[n].hash)' => OnChain(saved[n].hash)
    <2>1. TAKE n \in DOMAIN saved
    <2>2. PICK s : s = saved[n].hash
      OBVIOUS
    <2>3. Known(s)
      BY <1>2, <2>2 DEF SavedOK
    <2>4. Known(s)' /\ (OnChain(s)' => OnChain(s))
      BY <1>2, <2>3, KnownStays
    <2>5. QED
      BY <1>1, <2>2, <2>4 DEF Known, OnChain, Hash
  <1>5. head \in Int /\ head' \in Int /\ head <= head' /\ Confirmations \in Int
    BY <1>2, BoundsAssumption DEF ChainOK, Known, Grows, head
  <1>6. saved \in Seq(Row) /\ (Through # 0 => Through <= head' - Confirmations + 1)
    BY <1>2, <1>5 DEF SavedOK, Through
  <1>7. SavedOK'
    <2>1. saved' \in Seq(Row) /\ (Through' # 0 => Through' <= head' - Confirmations + 1)
      BY <1>1, <1>6 DEF Through
    <2>2. \A n \in DOMAIN saved' :
            /\ Known(saved[n].hash)' /\ Len(saved'[n].hash) = n
            /\ saved'[n].events = EventsOf(saved'[n].hash, n, n)
      BY <1>1, <1>2, <1>4 DEF SavedOK
    <2>3. \A n \in DOMAIN saved' : \A m \in 1..n :
             saved'[m].hash = SubSeq(saved'[n].hash, 1, m)
      BY <1>1, <1>2 DEF SavedOK
    <2>4. QED
      BY <2>1, <2>2, <2>3 DEF SavedOK
  <1>8. StoreOK'
    <2>1. PICK s : HistoryOf(s)
      BY DEF IndexInv, StoreOK
    <2>2. HistoryOf(s)'
      BY <1>1, <2>1 DEF HistoryOf
    <2>3. QED
      BY <2>2 DEF StoreOK
  <1>9. Repairable'
    BY <1>1, <1>4 DEF IndexInv, Repairable, Matches
  <1>10. QED
    BY <1>3, <1>7, <1>8, <1>9

\* ... nor invalidate what a scan under way relies on.
LEMMA ScanStays ==
  ASSUME IndexInv, Grows, UNCHANGED storeVars, scan' = scan
  PROVE  ScanOK' /\ DepthOK'
  <1>1. projection' = projection /\ saved' = saved /\ Through' = Through
    BY DEF storeVars, Through
  <1>2. ChainOK /\ SavedOK /\ ScanOK /\ DepthOK
    BY DEF IndexInv
  <1>3. \A n : Off(n) => Off(n)'
    BY <1>2, OffStays
  <1>4. \A n : Matches(n) => Matches(n)'
    BY <1>2, OffStays
  <1>5. head \in Int /\ head' \in Int /\ head <= head' /\ Confirmations \in Int
    BY <1>2, BoundsAssumption DEF ChainOK, Known, Grows, head
  <1>6. scan # Idle => scan.confirmed \in Int
    BY <1>2 DEF ScanOK, AtTip, AtAncestor, AtReconcile, AtBefore, AtLogs, AtEvents, AtCheckpoint
  <1>7. DepthOK'
    BY <1>2, <1>5, <1>6 DEF DepthOK
  <1>8. Round => Round'
    BY <1>1, <1>3, <1>4 DEF Round
  <1>9. Reading => Reading'
    <2>1. ASSUME Reading PROVE Known(scan.seen)'
      <3>1. PICK s : s = scan.seen
        OBVIOUS
      <3>2. Known(s)'
        BY <1>2, <2>1, <3>1, KnownStays DEF Reading
      <3>3. QED
        BY <3>1, <3>2 DEF Known
    <2>2. QED
      BY <1>1, <2>1 DEF Reading, HashAt
  <1>10. Fresh => Fresh'
    BY <1>1 DEF Fresh, Below
  <1>11. Collected => Collected'
    BY DEF Collected
  <1>12. Reading /\ ~OnChain(scan.seen) => ~OnChain(scan.seen)'
    <2>1. PICK s : s = scan.seen
      OBVIOUS
    <2>2. Known(s) => (OnChain(s)' => OnChain(s))
      BY <1>2, KnownStays
    <2>3. QED
      BY <2>1, <2>2 DEF Reading, OnChain, Hash, Known
  <1>13. CASE scan = Idle
    BY <1>7, <1>13 DEF ScanOK
  <1>14. CASE AtTip
    <2>1. AtTip'
      BY <1>1, <1>14 DEF AtTip
    <2>2. QED
      BY <1>7, <2>1 DEF ScanOK
  <1>15. CASE AtAncestor
    <2>1. AtAncestor'
      BY <1>1, <1>3, <1>15 DEF AtAncestor
    <2>2. QED
      BY <1>7, <2>1 DEF ScanOK
  <1>16. CASE AtReconcile
    <2>1. AtReconcile'
      BY <1>1, <1>3, <1>4, <1>16 DEF AtReconcile
    <2>2. QED
      BY <1>7, <2>1 DEF ScanOK
  <1>17. CASE AtBefore
    <2>1. AtBefore'
      BY <1>1, <1>8, <1>10, <1>17 DEF AtBefore
    <2>2. QED
      BY <1>7, <2>1 DEF ScanOK
  <1>18. CASE AtLogs
    <2>1. AtLogs'
      BY <1>8, <1>9, <1>10, <1>18 DEF AtLogs
    <2>2. QED
      BY <1>7, <2>1 DEF ScanOK
  <1>19. CASE AtEvents
    <2>1. AtEvents'
      BY <1>8, <1>9, <1>10, <1>11, <1>12, <1>19 DEF AtEvents
    <2>2. QED
      BY <1>7, <2>1 DEF ScanOK
  <1>20. CASE AtCheckpoint
    <2>1. AtCheckpoint'
      BY <1>1, <1>8, <1>9, <1>11, <1>20 DEF AtCheckpoint
    <2>2. QED
      BY <1>7, <2>1 DEF ScanOK
  <1>21. QED
    BY <1>2, <1>13, <1>14, <1>15, <1>16, <1>17, <1>18, <1>19, <1>20 DEF ScanOK

\* A step that leaves the files alone and either the scan too or ends it.
LEMMA QuietStep ==
  ASSUME IndexInv, Grows, UNCHANGED storeVars, scan' = scan \/ scan' = Idle
  PROVE  IndexInv'
  <1>1. ChainOK' /\ SavedOK' /\ StoreOK' /\ Repairable'
    BY StoreStays
  <1>2. CASE scan' = scan
    BY <1>1, <1>2, ScanStays DEF IndexInv
  <1>3. CASE scan' = Idle
    BY <1>1, <1>3 DEF IndexInv, ScanOK, DepthOK
  <1>4. QED
    BY <1>2, <1>3

-----------------------------------------------------------------------------
(* The store against the checkpoint *)

\* Every stored event lies in a block of some height.
LEMMA StoredEvents ==
  ASSUME StoreOK
  PROVE  \A e \in projection : e \in Event /\ Number(e) \in Nat \ {0}
  <1>1. PICK s : HistoryOf(s)
    BY DEF StoreOK
  <1>2. s \in Seq(Block) /\ projection = EventsOf(s, 1, Len(s)) /\ Len(s) \in 0..Len(s)
    BY <1>1 DEF HistoryOf
  <1>3. EventsOf(s, 1, Len(s)) \subseteq Event
        /\ \A e \in EventsOf(s, 1, Len(s)) : Number(e) \in 1..Len(s)
    BY <1>2, EventsType
  <1>4. QED
    BY <1>2, <1>3

\* The empty checkpoint contradicts no store.
LEMMA MatchesNone == ASSUME StoreOK PROVE Matches(0)
  BY StoredEvents DEF Matches

\* Agreement with the checkpoint up to a block includes the blocks below it.
Downward == \A i \in Nat : \A m \in 0..i : Matches(i) => Matches(m)
\* So any prefix of a checkpoint that agrees agrees.
LEMMA MatchesBelow == ASSUME StoreOK PROVE Downward
  BY StoredEvents DEF Matches, Downward

\* A row of the checkpoint: the chain up to its block, and that chain's events.
LEMMA CheckpointRows ==
  ASSUME SavedOK, NEW n \in 0..Through
  PROVE  /\ HashAt(n) \in Seq(Block) /\ Len(HashAt(n)) = n
         /\ \A k \in 1..n : /\ saved[k].hash = SubSeq(HashAt(n), 1, k)
                            /\ saved[k].events = EventsOf(HashAt(n), k, k)
  <1>1. saved \in Seq(Row) /\ Through \in Nat /\ DOMAIN saved = 1..Through
    BY DEF SavedOK, Through
  <1>2. CASE n = 0
    <2>1. HashAt(n) = <<>>
      BY <1>2 DEF HashAt
    <2>2. <<>> \in Seq(Block) /\ Len(<<>>) = 0
      OBVIOUS
    <2>3. \A k \in 1..n : FALSE
      BY <1>2
    <2>4. QED
      BY <1>2, <2>1, <2>2, <2>3
  <1>3. CASE n # 0
    <2>1. PICK h : h = HashAt(n)
      OBVIOUS
    <2>2. n \in DOMAIN saved /\ h = saved[n].hash
      BY <1>1, <1>3, <2>1 DEF HashAt
    <2>3. h \in Seq(Block) /\ Len(h) = n
      BY <2>2 DEF SavedOK, Known
    <2>4. \A k \in 1..n : saved[k].hash = SubSeq(h, 1, k)
      BY <2>2 DEF SavedOK
    <2>5. ASSUME NEW k \in 1..n PROVE saved[k].events = EventsOf(h, k, k)
      <3>1. k \in DOMAIN saved
        BY <1>1
      <3>2. saved[k].events = EventsOf(SubSeq(h, 1, k), k, k)
        BY <2>4, <3>1 DEF SavedOK
      <3>3. k \in 0..Len(h) /\ k \in Nat \ {0} /\ k \in 0..k
        BY <2>3
      <3>4. EventsOf(SubSeq(h, 1, k), k, k) = EventsOf(h, k, k)
        BY <2>3, <3>3, EventsOfPrefix
      <3>5. QED
        BY <3>2, <3>4
    <2>6. QED
      BY <2>1, <2>3, <2>4, <2>5
  <1>4. QED
    BY <1>2, <1>3

\* What the store holds of the blocks the checkpoint vouches for is the
\* history of the checkpoint's chain.
LEMMA MatchesMeans ==
  ASSUME SavedOK, StoreOK, NEW n \in 0..Through, Matches(n)
  PROVE  Below(n + 1) = EventsOf(HashAt(n), 1, n)
  <1>1. PICK h : h = HashAt(n)
    OBVIOUS
  <1>2. /\ h \in Seq(Block) /\ Len(h) = n
        /\ \A k \in 1..n : saved[k].events = EventsOf(h, k, k)
    BY <1>1, CheckpointRows
  <1>3. Through \in Nat
    BY DEF SavedOK, Through
  <1>4. ASSUME NEW e \in Below(n + 1) PROVE e \in EventsOf(h, 1, n)
    <2>1. e \in projection /\ Number(e) \in 1..n
      BY <1>3, <1>4, StoredEvents DEF Below
    <2>2. e \in saved[Number(e)].events
      BY <2>1 DEF Matches
    <2>3. e \in EventsOf(h, Number(e), Number(e))
      BY <1>2, <2>1, <2>2
    <2>4. QED
      BY <2>1, <2>3 DEF EventsOf
  <1>5. ASSUME NEW e \in EventsOf(h, 1, n) PROVE e \in Below(n + 1)
    <2>1. n \in 0..Len(h) /\ 1 \in Nat \ {0}
      BY <1>2, <1>3
    <2>2. /\ Number(e) \in 1..n /\ h[Number(e)].tx # None
          /\ e = [tx |-> h[Number(e)].tx, block |-> SubSeq(h, 1, Number(e))]
      BY <1>2, <1>5, <2>1, EventsType
    <2>3. PICK k \in 1..n : k = Number(e)
      BY <2>2
    <2>4. e \in EventsOf(h, k, k)
      BY <2>2, <2>3 DEF EventsOf
    <2>5. e \in projection
      BY <1>2, <2>3, <2>4 DEF Matches
    <2>6. QED
      BY <1>3, <2>3, <2>5 DEF Below
  <1>6. QED
    BY <1>1, <1>4, <1>5

-----------------------------------------------------------------------------
(* The steps of a scan *)

\* Which part of ScanOK holds at which point of the scan.
LEMMA PcTells ==
  ASSUME ScanOK
  PROVE  /\ scan.pc = "tip" => AtTip
         /\ scan.pc = "ancestor" => AtAncestor
         /\ scan.pc = "reconcile" => AtReconcile
         /\ scan.pc = "before" => AtBefore
         /\ scan.pc = "logs" => AtLogs
         /\ scan.pc \in {"verify", "after", "commit"} => AtEvents
         /\ scan.pc = "checkpoint" => AtCheckpoint
         /\ scan.pc # "idle" /\ DepthOK => scan.confirmed <= head - Confirmations + 1
  <1>1. Idle.pc = "idle"
    BY DEF Idle
  <1>2. /\ AtTip => scan.pc = "tip"
        /\ AtAncestor => scan.pc = "ancestor"
        /\ AtReconcile => scan.pc = "reconcile"
        /\ AtBefore => scan.pc = "before"
        /\ AtLogs => scan.pc = "logs"
        /\ AtEvents => scan.pc \in {"verify", "after", "commit"}
        /\ AtCheckpoint => scan.pc = "checkpoint"
    BY DEF AtTip, AtAncestor, AtReconcile, AtBefore, AtLogs, AtEvents, AtCheckpoint
  <1>3. scan.pc # "idle" => scan # Idle
    BY <1>1
  <1>4. QED
    BY <1>1, <1>2, <1>3 DEF ScanOK, DepthOK

\* The chain stays, the files stay and the scan goes on: what is left to show.
LEMMA GoesOn ==
  ASSUME IndexInv, UNCHANGED <<chainVars, storeVars>>
  PROVE  /\ ChainOK' /\ SavedOK' /\ StoreOK' /\ Repairable'
         /\ head' = head /\ Through' = Through
         /\ \A n : Off(n)' <=> Off(n)
         /\ \A n : Matches(n)' <=> Matches(n)
         /\ \A n : Below(n)' = Below(n)
         /\ \A n : HashAt(n)' = HashAt(n)
         /\ \A s : Known(s)' <=> Known(s)
         /\ \A s : OnChain(s)' <=> OnChain(s)
  <1>1. chain' = chain /\ forks' = forks /\ projection' = projection /\ saved' = saved
    BY DEF chainVars, storeVars
  <1>2. ChainOK
    BY DEF IndexInv
  <1>3. Grows
    BY <1>2, ChainGrows
  <1>4. ChainOK' /\ SavedOK' /\ StoreOK' /\ Repairable'
    BY <1>3, StoreStays
  <1>5. QED
    BY <1>1, <1>4 DEF head, Through, Off, Matches, Below, HashAt, Known, OnChain, Hash

\* A scan begins: what was scanned is not above the confirmed depth.
LEMMA BeginKeeps ==
  ASSUME IndexInv, BeginScan
  PROVE  IndexInv'
  <1>1. ChainOK /\ SavedOK /\ StoreOK
    BY DEF IndexInv
  <1>2. head \in Int /\ Confirmations \in Int /\ Through \in Nat /\ DOMAIN saved = 1..Through
    BY <1>1, BoundsAssumption DEF ChainOK, Known, SavedOK, head, Through
  <1>3. PICK confirmed \in Int : confirmed = head - Confirmations + 1
    BY <1>2
  <1>4. UNCHANGED <<chainVars, storeVars>>
    BY DEF BeginScan
  <1>5. /\ ChainOK' /\ SavedOK' /\ StoreOK' /\ Repairable'
        /\ head' = head /\ Through' = Through
        /\ \A n : Off(n)' <=> Off(n)
        /\ \A n : Matches(n)' <=> Matches(n)
    BY <1>4, GoesOn
  <1>6. CASE Through = 0
    <2>1. scan' = [pc |-> "reconcile", confirmed |-> confirmed, ancestor |-> 0]
      BY <1>3, <1>6 DEF BeginScan
    <2>2. Off(1) /\ Matches(0)
      BY <1>1, <1>2, <1>6, MatchesNone DEF Off
    <2>3. scan' \in [pc : {"reconcile"}, confirmed : Int, ancestor : 0..Through]
          /\ scan'.ancestor = 0 /\ scan'.confirmed = confirmed
      BY <1>6, <2>1
    <2>4. AtReconcile'
      BY <1>5, <2>2, <2>3 DEF AtReconcile
    <2>5. QED
      BY <1>3, <1>5, <2>3, <2>4 DEF IndexInv, ScanOK, DepthOK
  <1>7. CASE Through # 0
    <2>1. ~(Through > confirmed)
      BY <1>1, <1>2, <1>3, <1>7 DEF SavedOK
    <2>2. scan' = [pc |-> "tip", confirmed |-> confirmed]
      BY <1>3, <1>7, <2>1 DEF BeginScan
    <2>3. AtTip' /\ scan'.confirmed = confirmed
      BY <1>5, <1>7, <2>2 DEF AtTip
    <2>4. QED
      BY <1>3, <1>5, <2>3 DEF IndexInv, ScanOK, DepthOK
  <1>8. QED
    BY <1>6, <1>7

\* The last scanned block found on the chain is vouched for, and nothing above
\* an ancestor not found yet is on the chain.
LEMMA TipKeeps ==
  ASSUME IndexInv, CheckTip
  PROVE  IndexInv'
  <1>1. ChainOK /\ SavedOK /\ StoreOK /\ Repairable /\ ScanOK /\ DepthOK
    BY DEF IndexInv
  <1>2. Through \in Nat /\ DOMAIN saved = 1..Through
    BY <1>1 DEF SavedOK, Through
  <1>3. UNCHANGED <<chainVars, storeVars>>
    BY DEF CheckTip, Fail, Goto
  <1>4. /\ ChainOK' /\ SavedOK' /\ StoreOK' /\ Repairable'
        /\ head' = head /\ Through' = Through
        /\ \A n : Off(n)' <=> Off(n)
        /\ \A n : Matches(n)' <=> Matches(n)
    BY <1>3, GoesOn
  <1>5. AtTip /\ scan.confirmed <= head - Confirmations + 1
    BY <1>1, PcTells DEF CheckTip
  <1>6. PICK confirmed \in Int : confirmed = scan.confirmed
    BY <1>5 DEF AtTip
  <1>7. Off(Through + 1)
    BY <1>2 DEF Off
  <1>8. CASE Through > head
    BY <1>4, <1>8 DEF CheckTip, Fail, IndexInv, ScanOK, DepthOK
  <1>9. CASE Through <= head /\ Hash(Through) = saved[Through].hash
    <2>1. Through \in DOMAIN saved /\ OnChain(saved[Through].hash)
      BY <1>1, <1>2, <1>5, <1>9 DEF SavedOK, AtTip, OnChain, head
    <2>2. Matches(Through)
      BY <1>1, <2>1 DEF Repairable
    <2>3. scan' = [pc |-> "reconcile", confirmed |-> confirmed, ancestor |-> Through]
      BY <1>1, <1>2, <1>6, <1>9 DEF CheckTip, Goto, ChainOK, Known, head
    <2>4. /\ scan' \in [pc : {"reconcile"}, confirmed : Int, ancestor : 0..Through]
          /\ scan'.ancestor = Through /\ scan'.confirmed = confirmed
      BY <1>2, <2>3
    <2>5. AtReconcile'
      BY <1>4, <1>7, <2>2, <2>4 DEF AtReconcile
    <2>6. QED
      BY <1>4, <1>5, <1>6, <2>4, <2>5 DEF IndexInv, ScanOK, DepthOK
  <1>10. CASE Through <= head /\ Hash(Through) # saved[Through].hash
    <2>1. scan' = [pc |-> "ancestor", confirmed |-> confirmed, probe |-> Through]
      BY <1>1, <1>2, <1>6, <1>10 DEF CheckTip, Goto, ChainOK, Known, head
    <2>2. /\ scan' \in [pc : {"ancestor"}, confirmed : Int, probe : 0..Through]
          /\ scan'.probe = Through /\ scan'.confirmed = confirmed
      BY <1>2, <2>1
    <2>3. AtAncestor'
      BY <1>4, <1>7, <2>2 DEF AtAncestor
    <2>4. QED
      BY <1>4, <1>5, <1>6, <2>2, <2>3 DEF IndexInv, ScanOK, DepthOK
  <1>11. head \in Int
    BY <1>1 DEF ChainOK, Known, head
  <1>12. QED
    BY <1>2, <1>8, <1>9, <1>10, <1>11

\* The probe goes down block by block and stops where the checkpoint's chain is
\* still on the chain.
LEMMA ProbeKeeps ==
  ASSUME IndexInv, ProbeAncestor
  PROVE  IndexInv'
  <1>1. ChainOK /\ SavedOK /\ StoreOK /\ Repairable /\ ScanOK /\ DepthOK
    BY DEF IndexInv
  <1>2. Through \in Nat /\ DOMAIN saved = 1..Through /\ head \in Nat
    BY <1>1 DEF SavedOK, Through, ChainOK, Known, head
  <1>3. UNCHANGED <<chainVars, storeVars>>
    BY DEF ProbeAncestor, Fail, Goto
  <1>4. /\ ChainOK' /\ SavedOK' /\ StoreOK' /\ Repairable'
        /\ head' = head /\ Through' = Through
        /\ \A n : Off(n)' <=> Off(n)
        /\ \A n : Matches(n)' <=> Matches(n)
    BY <1>3, GoesOn
  <1>5. AtAncestor /\ scan.confirmed <= head - Confirmations + 1
    BY <1>1, PcTells DEF ProbeAncestor
  <1>6. PICK confirmed \in Int, n \in 0..Through :
          /\ scan = [pc |-> "ancestor", confirmed |-> confirmed, probe |-> n]
          /\ Off(n + 1)
    BY <1>5 DEF AtAncestor
  <1>7. CASE n > head
    BY <1>4, <1>6, <1>7 DEF ProbeAncestor, Fail, IndexInv, ScanOK, DepthOK
  <1>8. CASE n <= head /\ (n = 0 \/ Hash(n) = saved[n].hash)
    <2>1. ASSUME n = 0 PROVE Matches(n)
      BY <1>1, <2>1, MatchesNone
    <2>2. ASSUME n # 0 PROVE Matches(n)
      <3>1. n \in DOMAIN saved /\ OnChain(saved[n].hash)
        BY <1>1, <1>2, <1>8, <2>2 DEF SavedOK, OnChain, head
      <3>2. Matches(n)
        BY <1>1, <3>1 DEF Repairable
      <3>3. QED
        BY <3>2
    <2>3. Matches(n)
      BY <2>1, <2>2
    <2>4. scan' = [pc |-> "reconcile", confirmed |-> confirmed, ancestor |-> n]
      BY <1>2, <1>6, <1>8 DEF ProbeAncestor, Goto
    <2>5. AtReconcile' /\ scan'.confirmed = scan.confirmed
      BY <1>4, <1>6, <2>3, <2>4 DEF AtReconcile
    <2>6. QED
      BY <1>4, <1>5, <2>5 DEF IndexInv, ScanOK, DepthOK
  <1>9. CASE n <= head /\ n # 0 /\ Hash(n) # saved[n].hash
    <2>1. n \in DOMAIN saved /\ ~OnChain(saved[n].hash)
      BY <1>1, <1>2, <1>9 DEF SavedOK, OnChain
    <2>2. Off(n)
      BY <1>2, <1>6, <2>1 DEF Off
    <2>3. scan' = [pc |-> "ancestor", confirmed |-> confirmed, probe |-> n - 1]
      BY <1>2, <1>6, <1>9 DEF ProbeAncestor, Goto
    <2>4. n - 1 \in 0..Through /\ (n - 1) + 1 = n
      BY <1>2, <1>9
    <2>5. scan' \in [pc : {"ancestor"}, confirmed : Int, probe : 0..Through]
          /\ scan'.probe = n - 1 /\ scan'.confirmed = confirmed
      BY <2>3, <2>4
    <2>6. AtAncestor' /\ scan'.confirmed = scan.confirmed
      BY <1>4, <1>6, <2>2, <2>4, <2>5 DEF AtAncestor
    <2>7. QED
      BY <1>4, <1>5, <2>6 DEF IndexInv, ScanOK, DepthOK
  <1>10. QED
    BY <1>2, <1>7, <1>8, <1>9

\* What a removal leaves is what the checkpoint vouches for.
LEMMA CutBack ==
  ASSUME IndexInv, NEW n \in 0..Through, Matches(n), Off(n + 1),
         UNCHANGED <<chainVars, saved>>,
         NEW s \in Seq(Block), n <= Len(s), SubSeq(s, 1, n) = HashAt(n),
         projection' = Below(n + 1) \cup EventsOf(s, n + 1, Len(s))
  PROVE  /\ ChainOK' /\ SavedOK' /\ StoreOK' /\ Repairable'
         /\ Matches(n)' /\ Off(n + 1)'
         /\ {e \in projection' : Number(e) >= n + 1} = EventsOf(s, n + 1, Len(s))
         /\ head' = head /\ Through' = Through
  <1>1. ChainOK /\ SavedOK /\ StoreOK
    BY DEF IndexInv
  <1>2. chain' = chain /\ forks' = forks /\ saved' = saved
    BY DEF chainVars
  <1>3. Through \in Nat /\ n \in Nat /\ DOMAIN saved = 1..Through /\ Len(s) \in Nat
    BY <1>1 DEF SavedOK, Through
  <1>4. ChainOK' /\ head' = head /\ Through' = Through /\ Off(n + 1)'
    BY <1>1, <1>2 DEF ChainOK, Known, head, Through, Off, OnChain, Hash
  <1>5. SavedOK'
    BY <1>1, <1>2 DEF SavedOK, Known, head, Through
  <1>6. \A e \in EventsOf(s, n + 1, Len(s)) : Number(e) \in (n + 1)..Len(s)
    BY <1>3, EventsType
  <1>7. \A e \in Below(n + 1) : e \in projection /\ Number(e) \in 1..n
    BY <1>1, <1>3, StoredEvents DEF Below
  <1>8. {e \in projection' : Number(e) >= n + 1} = EventsOf(s, n + 1, Len(s))
    BY <1>3, <1>6, <1>7
  <1>9. \A k \in 1..n : {e \in projection' : Number(e) = k} = {e \in projection : Number(e) = k}
    BY <1>3, <1>6, <1>7 DEF Below
  <1>10. \A e \in projection' : Number(e) <= n => e \in projection
    BY <1>3, <1>6, <1>7
  <1>11. Matches(n)'
    <2>1. \A e \in projection' : Number(e) <= n => e.block = saved'[Number(e)].hash
      BY <1>2, <1>10 DEF Matches
    <2>2. \A k \in 1..n : saved'[k].events = {e \in projection' : Number(e) = k}
      BY <1>2, <1>9 DEF Matches
    <2>3. QED
      BY <1>2, <2>1, <2>2 DEF Matches
  <1>12. projection' = EventsOf(s, 1, Len(s))
    <2>1. Below(n + 1) = EventsOf(SubSeq(s, 1, n), 1, n)
      BY <1>1, MatchesMeans
    <2>2. n \in 0..Len(s) /\ n \in 0..n /\ 1 \in Nat \ {0}
      BY <1>3
    <2>3. EventsOf(SubSeq(s, 1, n), 1, n) = EventsOf(s, 1, n)
      BY <2>2, EventsOfPrefix
    <2>4. EventsOf(s, 1, n) \cup EventsOf(s, n + 1, Len(s)) = EventsOf(s, 1, Len(s))
      BY <1>3, EventsSplit
    <2>5. QED
      BY <2>1, <2>3, <2>4
  <1>13. StoreOK'
    BY <1>12 DEF StoreOK, HistoryOf
  <1>14. Downward'
    BY <1>13, MatchesBelow, PTL
  <1>15. Repairable'
    <2>1. SUFFICES ASSUME NEW k \in DOMAIN saved', OnChain(saved[k].hash)'
                   PROVE  Matches(k)'
      BY <1>2 DEF Repairable
    <2>2. k \in 0..n
      BY <1>2, <1>3, <1>4, <2>1 DEF Off
    <2>3. QED
      BY <1>3, <1>11, <1>14, <2>2 DEF Downward
  <1>16. QED
    BY <1>4, <1>5, <1>8, <1>11, <1>13, <1>15

\* The store and the checkpoint are never found to contradict each other.
LEMMA ReconcileKeeps ==
  ASSUME IndexInv, Reconcile
  PROVE  IndexInv' /\ UNCHANGED error
  <1>1. ChainOK /\ SavedOK /\ StoreOK /\ Repairable /\ ScanOK /\ DepthOK
    BY DEF IndexInv
  <1>2. Through \in Nat /\ head \in Nat
    BY <1>1 DEF SavedOK, Through, ChainOK, Known, head
  <1>3. AtReconcile /\ scan.confirmed <= head - Confirmations + 1
    BY <1>1, PcTells DEF Reconcile
  <1>4. PICK confirmed \in Int, n \in 0..Through :
          /\ scan = [pc |-> "reconcile", confirmed |-> confirmed, ancestor |-> n]
          /\ Off(n + 1) /\ Matches(n)
    BY <1>3 DEF AtReconcile
  <1>5. UNCHANGED error /\ UNCHANGED <<chainVars, saved>>
    BY <1>4 DEF Reconcile
  <1>6. n + 1 \in 1..Through + 1 /\ (n + 1) - 1 = n /\ n + 1 \in Nat /\ n \in Nat
    BY <1>2
  <1>7. CASE n + 1 <= confirmed
    <2>1. PICK replacing : replacing = Replacing(n)
      OBVIOUS
    <2>2. replacing \in BOOLEAN
      BY <2>1 DEF Replacing
    <2>3. /\ scan' = [pc |-> "before", confirmed |-> confirmed, next |-> n + 1,
                      replacing |-> replacing]
          /\ UNCHANGED projection
      BY <1>4, <1>7, <2>1 DEF Reconcile
    <2>4. UNCHANGED <<chainVars, storeVars>>
      BY <1>5, <2>3 DEF storeVars
    <2>5. /\ ChainOK' /\ SavedOK' /\ StoreOK' /\ Repairable'
          /\ head' = head /\ Through' = Through
          /\ \A k : Off(k)' <=> Off(k)
          /\ \A k : Matches(k)' <=> Matches(k)
          /\ \A k : Below(k)' = Below(k)
      BY <2>4, GoesOn
    <2>6. /\ scan' \in [pc : {"before"}, confirmed : Int, next : Nat, replacing : BOOLEAN]
          /\ scan'.next = n + 1 /\ scan'.confirmed = confirmed /\ scan'.replacing = replacing
      BY <1>6, <2>2, <2>3
    <2>7. Round'
      BY <1>4, <1>6, <2>5, <2>6 DEF Round
    <2>8. Fresh'
      BY <2>1, <2>3, <2>5, <2>6 DEF Fresh, Replacing
    <2>9. AtBefore'
      BY <1>7, <2>6, <2>7, <2>8 DEF AtBefore
    <2>10. QED
      BY <1>3, <1>4, <1>5, <2>5, <2>6, <2>9 DEF IndexInv, ScanOK, DepthOK
  <1>8. CASE ~(n + 1 <= confirmed) /\ Replacing(n)
    <2>1. /\ scan' = [pc |-> "checkpoint", confirmed |-> confirmed, next |-> n + 1,
                      seen |-> <<>>, events |-> {}]
          /\ projection' = Below(n + 1) \cup {}
      BY <1>4, <1>8 DEF Reconcile, Replaced
    <2>2. PICK h : h = HashAt(n)
      OBVIOUS
    <2>3. h \in Seq(Block) /\ Len(h) = n
      BY <1>1, <2>2, CheckpointRows
    <2>4. SubSeq(h, 1, n) = h
      BY <2>3, WholePrefix
    <2>5. EventsOf(h, n + 1, Len(h)) = {}
      BY <1>2, <2>3 DEF EventsOf
    <2>6. /\ ChainOK' /\ SavedOK' /\ StoreOK' /\ Repairable'
          /\ Matches(n)' /\ Off(n + 1)'
          /\ {e \in projection' : Number(e) >= n + 1} = {}
          /\ head' = head /\ Through' = Through
      <3>1. projection' = Below(n + 1) \cup EventsOf(h, n + 1, Len(h))
        BY <2>1, <2>5
      <3>2. n <= Len(h) /\ SubSeq(h, 1, n) = HashAt(n)
        BY <1>6, <2>2, <2>3, <2>4
      <3>3. /\ ChainOK' /\ SavedOK' /\ StoreOK' /\ Repairable'
            /\ Matches(n)' /\ Off(n + 1)'
            /\ {e \in projection' : Number(e) >= n + 1} = EventsOf(h, n + 1, Len(h))
            /\ head' = head /\ Through' = Through
        BY <1>4, <1>5, <2>3, <3>1, <3>2, CutBack
      <3>4. QED
        BY <2>5, <3>3
    <2>7. /\ scan' \in [pc : {"checkpoint"}, confirmed : Int, next : Nat,
                        seen : Seq(Block), events : SUBSET Event]
          /\ scan'.next = n + 1 /\ scan'.confirmed = confirmed
          /\ scan'.seen = <<>> /\ scan'.events = {}
      <3>1. <<>> \in Seq(Block) /\ {} \in SUBSET Event
        OBVIOUS
      <3>2. QED
        BY <1>6, <2>1, <3>1
    <2>8. Round'
      BY <1>6, <2>6, <2>7 DEF Round
    <2>9. AtCheckpoint'
      BY <1>6, <1>8, <2>6, <2>7, <2>8 DEF AtCheckpoint
    <2>10. QED
      BY <1>3, <1>4, <1>5, <2>6, <2>7, <2>9 DEF IndexInv, ScanOK, DepthOK
  <1>9. CASE ~(n + 1 <= confirmed) /\ ~Replacing(n)
    <2>1. scan' = Idle /\ UNCHANGED <<chainVars, storeVars>>
      BY <1>4, <1>5, <1>9 DEF Reconcile, storeVars
    <2>2. QED
      BY <1>5, <2>1, GoesOn DEF IndexInv, ScanOK, DepthOK
  <1>10. QED
    BY <1>7, <1>8, <1>9

\* The blocks read follow the last block of the checkpoint.
LEMMA ReadBlocksKeeps ==
  ASSUME IndexInv, ReadBlocks
  PROVE  IndexInv'
  <1>1. ChainOK /\ SavedOK /\ StoreOK /\ Repairable /\ ScanOK /\ DepthOK
    BY DEF IndexInv
  <1>2. /\ Through \in Nat /\ head \in Nat /\ ScanRange \in Nat \ {0}
        /\ chain \in Seq(Block) /\ head = Len(chain)
        /\ \A k \in DOMAIN chain : chain[k].fork <= forks
    BY <1>1, BoundsAssumption DEF SavedOK, Through, ChainOK, Known, head
  <1>3. UNCHANGED <<chainVars, storeVars>>
    BY DEF ReadBlocks, Fail, Goto
  <1>4. /\ ChainOK' /\ SavedOK' /\ StoreOK' /\ Repairable'
        /\ head' = head /\ Through' = Through
        /\ \A n : Off(n)' <=> Off(n)
        /\ \A n : Matches(n)' <=> Matches(n)
        /\ \A n : Below(n)' = Below(n)
        /\ \A n : HashAt(n)' = HashAt(n)
        /\ \A s : Known(s)' <=> Known(s)
    BY <1>3, GoesOn
  <1>5. AtBefore /\ scan.confirmed <= head - Confirmations + 1
    BY <1>1, PcTells DEF ReadBlocks
  <1>6. PICK confirmed \in Int, next \in Nat, replacing \in BOOLEAN :
          scan = [pc |-> "before", confirmed |-> confirmed, next |-> next,
                  replacing |-> replacing]
    BY <1>5 DEF AtBefore
  <1>7. /\ next <= confirmed /\ next \in 1..Through + 1
        /\ Off(next) /\ Matches(next - 1) /\ (~replacing => Below(next) = projection)
    BY <1>5, <1>6 DEF AtBefore, Round, Fresh
  <1>8. PICK last : last = Smaller(confirmed, next + ScanRange - 1)
    OBVIOUS
  <1>9. last \in Nat /\ next <= last /\ last <= confirmed
    BY <1>2, <1>7, <1>8 DEF Smaller
  <1>10. CASE head < last \/ ~Follows(next - 1)
    BY <1>4, <1>6, <1>8, <1>10 DEF ReadBlocks, Fail, IndexInv, ScanOK, DepthOK
  <1>11. CASE last <= head /\ Follows(next - 1)
    <2>1. PICK seen : seen = SubSeq(chain, 1, last)
      OBVIOUS
    <2>2. scan' = [pc |-> "logs", confirmed |-> confirmed, next |-> next,
                   replacing |-> replacing, seen |-> seen]
      BY <1>2, <1>6, <1>8, <1>9, <1>11, <2>1 DEF ReadBlocks, Goto, Hash
    <2>3. last \in 0..Len(chain)
      BY <1>2, <1>9, <1>11
    <2>4. /\ seen \in Seq(Block) /\ Len(seen) = last /\ DOMAIN seen = 1..last
          /\ \A k \in 1..last : seen[k] = chain[k]
      BY <1>2, <2>1, <2>3, PrefixType
    <2>5. Known(seen)
      BY <1>2, <2>3, <2>4 DEF Known
    <2>6. HashAt(next - 1) = SubSeq(seen, 1, next - 1)
      <3>1. ASSUME next = 1 PROVE HashAt(next - 1) = SubSeq(seen, 1, next - 1)
        BY <3>1, NoPrefix DEF HashAt
      <3>2. ASSUME next # 1 PROVE HashAt(next - 1) = SubSeq(seen, 1, next - 1)
        <4>1. HashAt(next - 1) = SubSeq(chain, 1, next - 1)
          BY <1>7, <1>11, <3>2 DEF HashAt, Follows, Hash
        <4>2. next - 1 \in 0..last
          BY <1>7, <1>9
        <4>3. SubSeq(seen, 1, next - 1) = SubSeq(chain, 1, next - 1)
          BY <1>2, <2>1, <2>3, <4>2, PrefixOfPrefix
        <4>4. QED
          BY <4>1, <4>3
      <3>3. QED
        BY <3>1, <3>2
    <2>7. /\ scan' \in [pc : {"logs"}, confirmed : Int, next : Nat, replacing : BOOLEAN,
                        seen : Seq(Block)]
          /\ scan'.next = next /\ scan'.confirmed = confirmed
          /\ scan'.replacing = replacing /\ scan'.seen = seen
      BY <2>2, <2>4
    <2>8. Round'
      BY <1>4, <1>7, <2>7 DEF Round
    <2>9. Fresh'
      BY <1>3, <1>4, <1>7, <2>7 DEF Fresh, storeVars
    <2>10. Reading'
      <3>1. Known(seen)'
        BY <1>4, <2>5
      <3>2. (HashAt(next - 1) = SubSeq(seen, 1, next - 1))'
        BY <1>4, <2>6
      <3>3. Known(scan.seen)'
        BY <2>7, <3>1 DEF Known
      <3>4. HashAt(scan.next - 1)' = SubSeq(scan'.seen, 1, scan'.next - 1)
        BY <2>7, <3>2 DEF HashAt
      <3>5. QED
        BY <1>9, <2>4, <2>7, <3>3, <3>4 DEF Reading
    <2>11. AtLogs'
      BY <2>7, <2>8, <2>9, <2>10 DEF AtLogs
    <2>12. QED
      BY <1>4, <1>5, <1>6, <2>7, <2>11 DEF IndexInv, ScanOK, DepthOK
  <1>12. QED
    BY <1>2, <1>9, <1>10, <1>11

\* The scan goes on with the blocks it has read.
LEMMA ReadingGoesOn ==
  ASSUME IndexInv, UNCHANGED <<chainVars, storeVars>>, Round, Fresh, Reading,
         scan'.next = scan.next, scan'.seen = scan.seen,
         scan'.replacing = scan.replacing, scan'.confirmed = scan.confirmed
  PROVE  Round' /\ Fresh' /\ Reading' /\ (OnChain(scan.seen)' <=> OnChain(scan.seen))
  <1>1. /\ Through' = Through
        /\ \A n : Off(n)' <=> Off(n)
        /\ \A n : Matches(n)' <=> Matches(n)
    BY GoesOn
  <1>2. chain' = chain /\ forks' = forks /\ projection' = projection /\ saved' = saved
    BY DEF chainVars, storeVars
  <1>3. Round'
    BY <1>1 DEF Round
  <1>4. Fresh'
    BY <1>2 DEF Fresh, Below
  <1>5. Reading'
    BY <1>2 DEF Reading, Known, HashAt
  <1>6. OnChain(scan.seen)' <=> OnChain(scan.seen)
    BY <1>2 DEF OnChain, Hash
  <1>7. QED
    BY <1>3, <1>4, <1>5, <1>6

\* Logs read while the blocks were on the chain are all their events.
LEMMA ReadLogsKeeps ==
  ASSUME IndexInv, ReadLogs
  PROVE  IndexInv'
  <1>1. ChainOK /\ ScanOK /\ DepthOK
    BY DEF IndexInv
  <1>2. head \in Nat /\ chain \in Seq(Block) /\ head = Len(chain)
    BY <1>1 DEF ChainOK, Known, head
  <1>3. UNCHANGED <<chainVars, storeVars>>
    BY DEF ReadLogs, Fail, Goto
  <1>4. ChainOK' /\ SavedOK' /\ StoreOK' /\ Repairable' /\ head' = head
    BY <1>3, GoesOn
  <1>5. AtLogs /\ scan.confirmed <= head - Confirmations + 1
    BY <1>1, PcTells DEF ReadLogs
  <1>6. Round /\ Fresh /\ Reading
    BY <1>5 DEF AtLogs
  <1>7. PICK confirmed \in Int, next \in Nat, replacing \in BOOLEAN, seen \in Seq(Block) :
          scan = [pc |-> "logs", confirmed |-> confirmed, next |-> next,
                  replacing |-> replacing, seen |-> seen]
    BY <1>5 DEF AtLogs
  <1>8. next \in Nat \ {0} /\ Len(seen) \in 0..Len(chain) /\ Len(seen) \in 0..Len(seen)
    <2>1. next \in 1..Through + 1 /\ Len(seen) <= Len(chain) /\ Len(seen) \in Nat
      BY <1>6, <1>7 DEF Round, Reading, Known
    <2>2. QED
      BY <1>2, <1>7, <2>1
  <1>9. PICK events : events = EventsOf(chain, next, Len(seen))
    OBVIOUS
  <1>10. Smaller(Len(seen), head) = Len(seen)
    BY <1>2, <1>8 DEF Smaller
  <1>11. CASE \E e \in events : e.block # SubSeq(seen, 1, Number(e))
    BY <1>4, <1>7, <1>9, <1>10, <1>11 DEF ReadLogs, Fail, IndexInv, ScanOK, DepthOK
  <1>12. CASE ~\E e \in events : e.block # SubSeq(seen, 1, Number(e))
    <2>1. scan' = [pc |-> "verify", confirmed |-> confirmed, next |-> next,
                   replacing |-> replacing, seen |-> seen, events |-> events]
      BY <1>7, <1>9, <1>10, <1>12 DEF ReadLogs, Goto
    <2>2. events \in SUBSET Event
      BY <1>2, <1>8, <1>9, EventsType
    <2>3. /\ scan' \in [pc : {"verify", "after", "commit"}, confirmed : Int, next : Nat,
                        replacing : BOOLEAN, seen : Seq(Block), events : SUBSET Event]
          /\ scan'.pc = "verify" /\ scan'.next = next /\ scan'.confirmed = confirmed
          /\ scan'.replacing = replacing /\ scan'.seen = seen /\ scan'.events = events
      BY <2>1, <2>2
    <2>4. /\ scan.next = next /\ scan.confirmed = confirmed
          /\ scan.replacing = replacing /\ scan.seen = seen
      BY <1>7
    <2>5. Round' /\ Fresh' /\ Reading' /\ (OnChain(scan.seen)' <=> OnChain(scan.seen))
      BY <1>3, <1>6, <2>3, <2>4, ReadingGoesOn
    <2>6. ASSUME OnChain(seen) PROVE events = EventsOf(seen, next, Len(seen))
      <3>1. seen = SubSeq(chain, 1, Len(seen))
        BY <2>6 DEF OnChain, Hash
      <3>2. EventsOf(SubSeq(chain, 1, Len(seen)), next, Len(seen))
              = EventsOf(chain, next, Len(seen))
        BY <1>2, <1>8, EventsOfPrefix
      <3>3. QED
        BY <1>9, <3>1, <3>2
    <2>7. Collected' \/ (scan'.pc # "commit" /\ ~OnChain(scan.seen)')
      BY <2>3, <2>4, <2>5, <2>6 DEF Collected
    <2>8. AtEvents'
      BY <2>3, <2>5, <2>7 DEF AtEvents
    <2>9. QED
      BY <1>4, <1>5, <2>3, <2>4, <2>8 DEF IndexInv, ScanOK, DepthOK
  <1>13. QED
    BY <1>11, <1>12

\* Receipts and blocks are read once more before the commit.
LEMMA ChecksKeep ==
  ASSUME IndexInv, VerifyReceipts \/ RereadBlocks
  PROVE  IndexInv'
  <1>1. ChainOK /\ ScanOK /\ DepthOK
    BY DEF IndexInv
  <1>2. UNCHANGED <<chainVars, storeVars>>
    BY DEF VerifyReceipts, RereadBlocks, Fail, Goto
  <1>3. ChainOK' /\ SavedOK' /\ StoreOK' /\ Repairable' /\ head' = head
    BY <1>2, GoesOn
  <1>4. AtEvents /\ scan.confirmed <= head - Confirmations + 1
    BY <1>1, PcTells DEF VerifyReceipts, RereadBlocks
  <1>5. Round /\ Fresh /\ Reading
    BY <1>4 DEF AtEvents
  <1>6. CASE scan' = Idle
    BY <1>3, <1>6 DEF IndexInv, ScanOK, DepthOK
  <1>7. ASSUME NEW stage \in {"after", "commit"}, scan' = [scan EXCEPT !.pc = stage],
               stage = "commit" => OnChain(scan.seen)
        PROVE  IndexInv'
    <2>1. /\ scan' \in [pc : {"verify", "after", "commit"}, confirmed : Int, next : Nat,
                        replacing : BOOLEAN, seen : Seq(Block), events : SUBSET Event]
          /\ scan'.pc = stage /\ scan'.next = scan.next /\ scan'.confirmed = scan.confirmed
          /\ scan'.replacing = scan.replacing /\ scan'.seen = scan.seen
          /\ scan'.events = scan.events
      BY <1>4, <1>7 DEF AtEvents
    <2>2. Round' /\ Fresh' /\ Reading' /\ (OnChain(scan.seen)' <=> OnChain(scan.seen))
      BY <1>2, <1>5, <2>1, ReadingGoesOn
    <2>3. Collected \/ (stage # "commit" /\ ~OnChain(scan.seen))
      BY <1>4, <1>7 DEF AtEvents
    <2>4. Collected' \/ (scan'.pc # "commit" /\ ~OnChain(scan.seen)')
      BY <2>1, <2>2, <2>3 DEF Collected
    <2>5. AtEvents'
      BY <2>1, <2>2, <2>4 DEF AtEvents
    <2>6. QED
      BY <1>3, <1>4, <2>1, <2>5 DEF IndexInv, ScanOK, DepthOK
  <1>8. CASE VerifyReceipts
    <2>1. scan' = Idle \/ scan' = [scan EXCEPT !.pc = "after"]
      BY <1>8 DEF VerifyReceipts, Fail, Goto
    <2>2. QED
      BY <1>6, <1>7, <2>1
  <1>9. CASE RereadBlocks
    <2>1. scan' = Idle \/ (scan' = [scan EXCEPT !.pc = "commit"] /\ OnChain(scan.seen))
      BY <1>9 DEF RereadBlocks, Fail, Goto, OnChain, head
    <2>2. QED
      BY <1>6, <1>7, <2>1
  <1>10. QED
    BY <1>8, <1>9

\* A committed range continues the history the store holds.
LEMMA CommitKeeps ==
  ASSUME IndexInv, CommitProjection
  PROVE  IndexInv'
  <1>1. ChainOK /\ SavedOK /\ ScanOK /\ DepthOK
    BY DEF IndexInv
  <1>2. UNCHANGED <<chainVars, saved, error>>
    BY DEF CommitProjection, Fail, storeVars
  <1>3. AtEvents /\ scan.confirmed <= head - Confirmations + 1
    BY <1>1, PcTells DEF CommitProjection
  <1>4. Round /\ Fresh /\ Reading /\ Collected
    BY <1>3 DEF AtEvents, CommitProjection
  <1>5. PICK confirmed \in Int, next \in Nat, replacing \in BOOLEAN, seen \in Seq(Block),
             events \in SUBSET Event :
          scan = [pc |-> "commit", confirmed |-> confirmed, next |-> next,
                  replacing |-> replacing, seen |-> seen, events |-> events]
    BY <1>3 DEF AtEvents, CommitProjection
  <1>6. /\ next \in 1..Through + 1 /\ next <= Len(seen) /\ Len(seen) \in Nat
        /\ HashAt(next - 1) = SubSeq(seen, 1, next - 1)
        /\ Off(next) /\ Matches(next - 1)
        /\ events = EventsOf(seen, next, Len(seen))
        /\ (~replacing => Below(next) = projection)
    BY <1>4, <1>5 DEF Round, Reading, Collected, Fresh
  <1>7. Through \in Nat
    BY <1>1 DEF SavedOK, Through
  <1>8. PICK n \in 0..Through : n = next - 1 /\ n + 1 = next /\ n <= Len(seen)
    <2>1. next - 1 \in 0..Through /\ (next - 1) + 1 = next /\ next - 1 <= Len(seen)
      BY <1>6, <1>7
    <2>2. QED
      BY <2>1
  <1>9. CASE scan' = Idle /\ UNCHANGED <<chainVars, storeVars>>
    BY <1>9, GoesOn DEF IndexInv, ScanOK, DepthOK
  <1>10. CASE /\ projection' = Below(next) \cup events
              /\ scan' = [pc |-> "checkpoint", confirmed |-> confirmed, next |-> next,
                          seen |-> seen, events |-> events]
    <2>1. projection' = Below(n + 1) \cup EventsOf(seen, n + 1, Len(seen))
      BY <1>6, <1>8, <1>10
    <2>2. Matches(n) /\ Off(n + 1) /\ SubSeq(seen, 1, n) = HashAt(n)
      BY <1>6, <1>8
    <2>3. /\ ChainOK' /\ SavedOK' /\ StoreOK' /\ Repairable'
          /\ Matches(n)' /\ Off(n + 1)'
          /\ {e \in projection' : Number(e) >= n + 1} = EventsOf(seen, n + 1, Len(seen))
          /\ head' = head /\ Through' = Through
      BY <1>2, <1>5, <1>8, <2>1, <2>2, CutBack
    <2>4. /\ scan' \in [pc : {"checkpoint"}, confirmed : Int, next : Nat,
                        seen : Seq(Block), events : SUBSET Event]
          /\ scan'.next = next /\ scan'.confirmed = confirmed
          /\ scan'.seen = seen /\ scan'.events = events
      BY <1>10
    <2>5. Round'
      BY <1>6, <1>8, <2>3, <2>4 DEF Round
    <2>6. Reading'
      <3>1. chain' = chain /\ forks' = forks /\ saved' = saved
        BY <1>2 DEF chainVars
      <3>2. scan.seen = seen /\ scan.next = next /\ scan.confirmed = confirmed
        BY <1>5
      <3>3. QED
        BY <1>4, <2>4, <3>1, <3>2 DEF Reading, Known, HashAt
    <2>7. Collected'
      BY <1>6, <2>4 DEF Collected
    <2>8. {e \in projection' : Number(e) >= scan'.next} = scan'.events
      BY <1>6, <1>8, <2>3, <2>4
    <2>9. AtCheckpoint'
      BY <2>4, <2>5, <2>6, <2>7, <2>8 DEF AtCheckpoint
    <2>10. QED
      BY <1>3, <1>5, <2>3, <2>4, <2>9 DEF IndexInv, ScanOK, DepthOK
  <1>11. QED
    <2>1. CASE scan' = Idle
      BY <1>9, <2>1 DEF CommitProjection, Fail, Idle
    <2>2. CASE scan' # Idle
      <3>1. /\ projection' = IF replacing THEN Replaced(next, events) ELSE Appended(events)
            /\ scan' = [pc |-> "checkpoint", confirmed |-> confirmed, next |-> next,
                        seen |-> seen, events |-> events]
        BY <1>5, <2>2 DEF CommitProjection, Fail
      <3>2. projection' = Below(next) \cup events
        BY <1>6, <3>1 DEF Replaced, Appended
      <3>3. QED
        BY <1>10, <3>1, <3>2
    <2>3. QED
      BY <2>1, <2>2

\* The checkpoint of a chain h whose history the store holds.
LEMMA CheckpointOf ==
  ASSUME IndexInv, UNCHANGED <<chainVars, projection>>,
         NEW h, Known(h), Len(h) # 0 => Len(h) <= head - Confirmations + 1,
         saved' = [k \in 1..Len(h) |-> [hash |-> SubSeq(h, 1, k), events |-> EventsOf(h, k, k)]],
         projection = EventsOf(h, 1, Len(h))
  PROVE  /\ ChainOK' /\ SavedOK' /\ StoreOK' /\ Repairable'
         /\ Matches(Len(h))' /\ Off(Len(h) + 1)'
         /\ head' = head /\ Through' = Len(h) /\ projection' = projection
         /\ \A e \in projection : Number(e) \in 1..Len(h)
  <1>1. chain' = chain /\ forks' = forks /\ projection' = projection
    BY DEF chainVars
  <1>2. ChainOK /\ SavedOK
    BY DEF IndexInv
  <1>3. /\ h \in Seq(Block) /\ Len(h) \in Nat /\ Len(h) <= Len(chain)
        /\ \A k \in DOMAIN h : h[k].fork <= forks
    BY DEF Known
  <1>4. \A k \in 1..Len(h) : /\ k \in Nat \ {0} /\ k \in 0..Len(h)
                             /\ saved'[k].hash = SubSeq(h, 1, k)
                             /\ saved'[k].events = EventsOf(h, k, k)
    BY <1>3
  <1>5. \A k \in 1..Len(h) : /\ SubSeq(h, 1, k) \in Seq(Block) /\ Len(SubSeq(h, 1, k)) = k
                             /\ DOMAIN SubSeq(h, 1, k) = 1..k
                             /\ \A i \in 1..k : SubSeq(h, 1, k)[i] = h[i]
    BY <1>3, <1>4, PrefixType
  <1>6. \A k \in 1..Len(h) : EventsOf(h, k, k) \subseteq Event
    BY <1>3, <1>4, EventsType
  <1>7. saved' \in Seq(Row) /\ Len(saved') = Len(h) /\ DOMAIN saved' = 1..Len(h)
    <2>1. saved' \in [1..Len(h) -> Row]
      BY <1>5, <1>6 DEF Row
    <2>2. PICK t : t = saved' /\ t \in [1..Len(h) -> Row]
      BY <2>1
    <2>3. PICK n \in Nat : n = Len(h)
      BY <1>3
    <2>4. t \in Seq(Row) /\ Len(t) = n /\ DOMAIN t = 1..n
      <3>1. t \in [1..n -> Row]
        BY <2>2, <2>3
      <3>2. QED
        BY <3>1
    <2>5. QED
      BY <2>2, <2>3, <2>4
  <1>8. ChainOK' /\ head' = head /\ Through' = Len(h)
    BY <1>1, <1>2, <1>7 DEF ChainOK, Known, head, Through
  <1>9. SavedOK'
    <2>1. ASSUME NEW k \in 1..Len(h)
          PROVE  /\ Known(saved[k].hash)' /\ Len(saved'[k].hash) = k
                 /\ saved'[k].events = EventsOf(saved'[k].hash, k, k)
      <3>1. EventsOf(SubSeq(h, 1, k), k, k) = EventsOf(h, k, k)
        BY <1>3, <1>4, EventsOfPrefix
      <3>2. k <= Len(chain) /\ \A i \in 1..k : i \in DOMAIN h
        BY <1>3, <1>4
      <3>3. Known(saved[k].hash)'
        BY <1>1, <1>3, <1>4, <1>5, <3>2 DEF Known
      <3>4. QED
        BY <1>4, <1>5, <3>1, <3>3
    <2>2. ASSUME NEW k \in 1..Len(h), NEW m \in 1..k
          PROVE  saved'[m].hash = SubSeq(saved'[k].hash, 1, m)
      <3>1. m \in 1..Len(h) /\ m \in 0..k
        BY <1>3
      <3>2. SubSeq(SubSeq(h, 1, k), 1, m) = SubSeq(h, 1, m)
        BY <1>3, <1>4, <3>1, PrefixOfPrefix
      <3>3. QED
        BY <1>4, <3>1, <3>2
    <2>3. QED
      BY <1>7, <1>8, <2>1, <2>2 DEF SavedOK
  <1>10. StoreOK'
    BY <1>1, <1>3 DEF StoreOK, HistoryOf
  <1>11. /\ \A e \in projection : /\ Number(e) \in 1..Len(h) /\ h[Number(e)].tx # None
                                  /\ e = [tx |-> h[Number(e)].tx,
                                          block |-> SubSeq(h, 1, Number(e))]
    <2>1. Len(h) \in 0..Len(h) /\ 1 \in Nat \ {0}
      BY <1>3
    <2>2. QED
      BY <1>3, <2>1, EventsType
  <1>12. \A k \in 1..Len(h) : {e \in projection : Number(e) = k} = EventsOf(h, k, k)
    <2>1. TAKE k \in 1..Len(h)
    <2>2. Len(h) \in 0..Len(h) /\ 1 \in Nat \ {0} /\ k \in Nat /\ 1 <= k /\ k <= Len(h)
      BY <1>3
    <2>3. {e \in EventsOf(h, 1, Len(h)) : Number(e) \in k..k} = EventsOf(h, k, k)
      BY <1>3, <2>2, EventsAmong
    <2>4. \A e \in projection : Number(e) \in k..k <=> Number(e) = k
      BY <1>11, <2>2
    <2>5. QED
      BY <2>3, <2>4
  <1>13. Matches(Len(h))'
    <2>1. ASSUME NEW e \in projection' PROVE e.block = saved'[Number(e)].hash
      <3>1. /\ Number(e) \in 1..Len(h)
            /\ e = [tx |-> h[Number(e)].tx, block |-> SubSeq(h, 1, Number(e))]
        BY <1>1, <1>11
      <3>2. saved'[Number(e)].hash = SubSeq(h, 1, Number(e))
        BY <1>4, <3>1
      <3>3. e.block = SubSeq(h, 1, Number(e))
        BY <3>1
      <3>4. QED
        BY <3>2, <3>3
    <2>2. \A k \in 1..Len(h) : saved'[k].events = {e \in projection' : Number(e) = k}
      BY <1>1, <1>4, <1>12
    <2>3. QED
      BY <2>1, <2>2 DEF Matches
  <1>14. Downward'
    BY <1>10, MatchesBelow, PTL
  <1>15. Repairable'
    <2>1. SUFFICES ASSUME NEW k \in DOMAIN saved' PROVE Matches(k)'
      BY DEF Repairable
    <2>2. k \in 0..Len(h)
      BY <1>4, <1>7
    <2>3. QED
      BY <1>3, <1>13, <1>14, <2>2 DEF Downward
  <1>16. Off(Len(h) + 1)'
    BY <1>3, <1>7 DEF Off
  <1>17. QED
    BY <1>1, <1>8, <1>9, <1>10, <1>11, <1>13, <1>15, <1>16

\* Writing the checkpoint makes it the chain the store is the history of.
LEMMA WriteKeeps ==
  ASSUME IndexInv, WriteCheckpoint
  PROVE  IndexInv'
  <1>1. ChainOK /\ SavedOK /\ StoreOK /\ ScanOK /\ DepthOK
    BY DEF IndexInv
  <1>2. UNCHANGED <<chainVars, projection>>
    BY DEF WriteCheckpoint
  <1>3. AtCheckpoint /\ scan.confirmed <= head - Confirmations + 1
    BY <1>1, PcTells DEF WriteCheckpoint
  <1>4. PICK confirmed \in Int, next \in Nat, seen \in Seq(Block), events \in SUBSET Event :
          scan = [pc |-> "checkpoint", confirmed |-> confirmed, next |-> next,
                  seen |-> seen, events |-> events]
    BY <1>3 DEF AtCheckpoint
  <1>5. /\ next \in 1..Through + 1 /\ Off(next) /\ Matches(next - 1)
        /\ {e \in projection : Number(e) >= next} = events
    BY <1>3, <1>4 DEF AtCheckpoint, Round
  <1>6. Through \in Nat /\ DOMAIN saved = 1..Through /\ saved \in Seq(Row) /\ head \in Nat
    BY <1>1 DEF SavedOK, Through, ChainOK, Known, head
  <1>7. PICK n \in 0..Through : n = next - 1 /\ n + 1 = next
    <2>1. next - 1 \in 0..Through /\ (next - 1) + 1 = next
      BY <1>5, <1>6
    <2>2. QED
      BY <2>1
  <1>8. Confirmations \in Nat \ {0}
    BY BoundsAssumption
  <1>9. /\ HashAt(n) \in Seq(Block) /\ Len(HashAt(n)) = n
        /\ \A k \in 1..n : /\ saved[k].hash = SubSeq(HashAt(n), 1, k)
                           /\ saved[k].events = EventsOf(HashAt(n), k, k)
    BY <1>1, CheckpointRows
  <1>10. \A k \in DOMAIN saved : saved[k] = [hash |-> saved[k].hash, events |-> saved[k].events]
    <2>1. \A k \in DOMAIN saved : saved[k] \in Row
      BY <1>6, ElementOfSeq
    <2>2. \A r \in Row : r = [hash |-> r.hash, events |-> r.events]
      BY DEF Row
    <2>3. QED
      BY <2>1, <2>2
  <1>11. Below(n + 1) = EventsOf(HashAt(n), 1, n)
    BY <1>1, <1>5, <1>7, MatchesMeans
  <1>12. \A e \in projection : Number(e) \in Nat
    BY <1>1, StoredEvents
  <1>13. projection = Below(n + 1) \cup events
    BY <1>5, <1>6, <1>7, <1>12 DEF Below
  <1>14. CASE seen = <<>>
    <2>1. events = {} /\ confirmed < next
      BY <1>3, <1>4, <1>5, <1>14 DEF AtCheckpoint, Reading
    <2>2. PICK h : h = HashAt(n)
      OBVIOUS
    <2>3. Known(h)
      <3>1. ASSUME n = 0 PROVE Known(h)
        BY <1>1, <1>6, <1>9, <2>2, <3>1 DEF Known
      <3>2. ASSUME n # 0 PROVE Known(h)
        BY <1>1, <1>6, <2>2, <3>2 DEF HashAt, SavedOK
      <3>3. QED
        BY <3>1, <3>2
    <2>4. Len(h) # 0 => Len(h) <= head - Confirmations + 1
      BY <1>1, <1>6, <1>8, <1>9, <2>2 DEF SavedOK
    <2>5. saved' = [k \in 1..n |-> saved[k]] /\ scan' = Idle
      BY <1>4, <1>6, <1>7, <1>14, <2>1 DEF WriteCheckpoint
    <2>6. saved' = [k \in 1..Len(h) |-> [hash |-> SubSeq(h, 1, k),
                                         events |-> EventsOf(h, k, k)]]
      <3>1. \A k \in 1..n : k \in DOMAIN saved
        BY <1>6
      <3>2. \A k \in 1..n : saved[k] = [hash |-> SubSeq(h, 1, k), events |-> EventsOf(h, k, k)]
        BY <1>9, <1>10, <2>2, <3>1
      <3>3. QED
        BY <1>9, <2>2, <2>5, <3>2
    <2>7. projection = EventsOf(h, 1, Len(h))
      BY <1>9, <1>11, <1>13, <2>1, <2>2
    <2>8. ChainOK' /\ SavedOK' /\ StoreOK' /\ Repairable'
      BY <1>2, <2>3, <2>4, <2>6, <2>7, CheckpointOf
    <2>9. QED
      BY <2>5, <2>8 DEF IndexInv, ScanOK, DepthOK
  <1>15. CASE seen # <<>>
    <2>1. Reading /\ Collected
      BY <1>3, <1>4, <1>15 DEF AtCheckpoint
    <2>2. /\ Known(seen) /\ Len(seen) <= confirmed /\ next <= Len(seen) /\ Len(seen) \in Nat
          /\ HashAt(n) = SubSeq(seen, 1, n)
          /\ events = EventsOf(seen, next, Len(seen))
      BY <1>4, <1>7, <2>1 DEF Reading, Collected
    <2>3. Len(seen) <= head - Confirmations + 1
      BY <1>3, <1>4, <1>6, <1>8, <2>2
    <2>4. n \in 0..Len(seen) /\ n \in Nat /\ Len(seen) \in 0..Len(seen) /\ next \in Nat \ {0}
      BY <1>6, <1>7, <2>2
    <2>5. saved' = [k \in 1..Len(seen) |-> IF k < next THEN saved[k]
                                           ELSE [hash |-> SubSeq(seen, 1, k),
                                                 events |-> {e \in events : Number(e) = k}]]
      BY <1>4, <1>15 DEF WriteCheckpoint
    <2>6. ASSUME NEW k \in 1..n
          PROVE  saved[k] = [hash |-> SubSeq(seen, 1, k), events |-> EventsOf(seen, k, k)]
      <3>1. k \in DOMAIN saved /\ k \in 0..n /\ k \in Nat \ {0} /\ k \in 0..k
        BY <1>6
      <3>2. SubSeq(SubSeq(seen, 1, n), 1, k) = SubSeq(seen, 1, k)
        BY <2>4, <3>1, PrefixOfPrefix
      <3>3. EventsOf(SubSeq(seen, 1, n), k, k) = EventsOf(seen, k, k)
        BY <2>4, <3>1, EventsOfPrefix
      <3>4. saved[k].hash = SubSeq(seen, 1, k) /\ saved[k].events = EventsOf(seen, k, k)
        BY <1>9, <2>2, <3>2, <3>3
      <3>5. QED
        BY <1>10, <3>1, <3>4
    <2>7. ASSUME NEW k \in next..Len(seen)
          PROVE  {e \in events : Number(e) = k} = EventsOf(seen, k, k)
      <3>1. k \in Nat /\ next <= k /\ k <= Len(seen)
        BY <2>2, <2>4
      <3>2. {e \in EventsOf(seen, next, Len(seen)) : Number(e) \in k..k} = EventsOf(seen, k, k)
        BY <2>4, <3>1, EventsAmong
      <3>3. \A e \in events : Number(e) \in Nat
        BY <1>5, <1>12
      <3>4. \A e \in events : Number(e) \in k..k <=> Number(e) = k
        BY <3>1, <3>3
      <3>5. QED
        BY <2>2, <3>2, <3>4
    <2>8. saved' = [k \in 1..Len(seen) |-> [hash |-> SubSeq(seen, 1, k),
                                            events |-> EventsOf(seen, k, k)]]
      <3>1. ASSUME NEW k \in 1..Len(seen), k < next
            PROVE  saved[k] = [hash |-> SubSeq(seen, 1, k), events |-> EventsOf(seen, k, k)]
        <4>1. k \in 1..n
          BY <1>6, <1>7, <2>2, <2>4, <3>1
        <4>2. QED
          BY <2>6, <4>1
      <3>2. ASSUME NEW k \in 1..Len(seen), ~(k < next)
            PROVE  {e \in events : Number(e) = k} = EventsOf(seen, k, k)
        <4>1. k \in next..Len(seen)
          BY <2>2, <2>4, <3>2
        <4>2. QED
          BY <2>7, <4>1
      <3>3. QED
        BY <2>5, <3>1, <3>2
    <2>9. projection = EventsOf(seen, 1, Len(seen))
      <3>1. EventsOf(SubSeq(seen, 1, n), 1, n) = EventsOf(seen, 1, n)
        BY <2>4, EventsOfPrefix
      <3>2. EventsOf(seen, 1, n) \cup EventsOf(seen, n + 1, Len(seen)) = EventsOf(seen, 1, Len(seen))
        BY <2>4, EventsSplit
      <3>3. QED
        BY <1>7, <1>11, <1>13, <2>2, <3>1, <3>2
    <2>10. /\ ChainOK' /\ SavedOK' /\ StoreOK' /\ Repairable'
           /\ Matches(Len(seen))' /\ Off(Len(seen) + 1)'
           /\ head' = head /\ Through' = Len(seen) /\ projection' = projection
           /\ \A e \in projection : Number(e) \in 1..Len(seen)
      BY <1>2, <2>2, <2>3, <2>8, <2>9, CheckpointOf
    <2>11. CASE Len(seen) + 1 > confirmed
      <3>1. scan' = Idle
        BY <1>4, <1>15, <2>11 DEF WriteCheckpoint
      <3>2. QED
        BY <2>10, <3>1 DEF IndexInv, ScanOK, DepthOK
    <2>12. CASE ~(Len(seen) + 1 > confirmed)
      <3>1. scan' = [pc |-> "before", confirmed |-> confirmed, next |-> Len(seen) + 1,
                     replacing |-> FALSE]
        BY <1>4, <1>15, <2>12 DEF WriteCheckpoint
      <3>2. /\ scan' \in [pc : {"before"}, confirmed : Int, next : Nat, replacing : BOOLEAN]
            /\ scan'.next = Len(seen) + 1 /\ scan'.confirmed = confirmed
            /\ scan'.replacing = FALSE
        BY <2>2, <3>1
      <3>3. Round'
        <4>1. (Len(seen) + 1) - 1 = Len(seen) /\ Len(seen) + 1 \in 1..Len(seen) + 1
          BY <2>2
        <4>2. QED
          BY <2>10, <3>2, <4>1 DEF Round
      <3>4. Fresh'
        <4>1. \A e \in projection : Number(e) < Len(seen) + 1
          BY <2>2, <2>10
        <4>2. QED
          BY <2>10, <3>2, <4>1 DEF Fresh, Below
      <3>5. AtBefore'
        BY <2>2, <2>12, <3>2, <3>3, <3>4 DEF AtBefore
      <3>6. QED
        BY <1>3, <1>4, <2>10, <3>2, <3>5 DEF IndexInv, ScanOK, DepthOK
    <2>13. QED
      BY <2>11, <2>12
  <1>16. QED
    BY <1>14, <1>15

-----------------------------------------------------------------------------
(* The theorems *)

\* At the start store and checkpoint are empty and no scan runs.
LEMMA InvInit == Init => IndexInv
  <1> SUFFICES ASSUME Init PROVE IndexInv
    OBVIOUS
  <1>1. chain = <<>> /\ forks = 0 /\ projection = {} /\ saved = <<>> /\ scan = Idle
    BY DEF Init
  <1>2. <<>> \in Seq(Block) /\ <<>> \in Seq(Row) /\ Len(<<>>) = 0 /\ DOMAIN <<>> = {}
    OBVIOUS
  <1>3. ChainOK /\ SavedOK /\ Repairable
    BY <1>1, <1>2 DEF ChainOK, Known, SavedOK, Through, Repairable
  <1>4. EventsOf(<<>>, 1, 0) = {}
    BY DEF EventsOf
  <1>5. StoreOK
    BY <1>1, <1>2, <1>4 DEF StoreOK, HistoryOf
  <1>6. QED
    BY <1>1, <1>3, <1>5 DEF IndexInv, ScanOK, DepthOK

\* Every step keeps the invariant, and finds no contradiction.
LEMMA InvNext ==
  ASSUME IndexInv, [Next]_vars
  PROVE  IndexInv' /\ (error = None => error' = None)
  <1>1. ChainOK
    BY DEF IndexInv
  <1>2. CASE Chain
    <2>1. UNCHANGED <<storeVars, scan, error>>
      BY <1>2 DEF Chain, Mine, Reorganise
    <2>2. QED
      BY <1>1, <1>2, <2>1, ChainGrows, QuietStep
  <1>3. CASE Abort \/ StopPolling \/ Run \/ UNCHANGED vars
    <2>1. UNCHANGED <<chainVars, storeVars>> /\ (scan' = scan \/ scan' = Idle)
          /\ (error = None => error' = None)
      BY <1>3 DEF Abort, StopPolling, Run, Close, Start, vars, chainVars, storeVars
    <2>2. QED
      BY <1>1, <2>1, ChainGrows, QuietStep
  <1>4. CASE BeginScan
    BY <1>4, BeginKeeps DEF BeginScan
  <1>5. CASE CheckTip
    BY <1>5, TipKeeps DEF CheckTip, Fail, Goto
  <1>6. CASE ProbeAncestor
    BY <1>6, ProbeKeeps DEF ProbeAncestor, Fail, Goto
  <1>7. CASE Reconcile
    BY <1>7, ReconcileKeeps
  <1>8. CASE ReadBlocks
    BY <1>8, ReadBlocksKeeps DEF ReadBlocks, Fail, Goto
  <1>9. CASE ReadLogs
    BY <1>9, ReadLogsKeeps DEF ReadLogs, Fail, Goto
  <1>10. CASE VerifyReceipts \/ RereadBlocks
    BY <1>10, ChecksKeep DEF VerifyReceipts, RereadBlocks, Fail, Goto
  <1>11. CASE CommitProjection
    BY <1>11, CommitKeeps DEF CommitProjection, Fail
  <1>12. CASE WriteCheckpoint
    BY <1>12, WriteKeeps DEF WriteCheckpoint
  <1>13. QED
    BY <1>2, <1>3, <1>4, <1>5, <1>6, <1>7, <1>8, <1>9, <1>10, <1>11, <1>12 DEF Next, Scan

\* The invariant always holds.
LEMMA AlwaysIndexInv == Spec => []IndexInv
  <1>1. IndexInv /\ [Next]_vars => IndexInv'
    BY InvNext
  <1>2. QED
    BY <1>1, InvInit, PTL DEF Spec

\* The invariant says what a reader wants to know of the store.
LEMMA InvTells == IndexInv => OneHistory
  <1> SUFFICES ASSUME IndexInv PROVE OneHistory
    OBVIOUS
  <1>1. PICK s : HistoryOf(s)
    BY DEF IndexInv, StoreOK
  <1>2. /\ s \in Seq(Block) /\ projection = EventsOf(s, 1, Len(s))
        /\ Len(s) \in Nat /\ Len(s) \in 0..Len(s) /\ 1 \in Nat \ {0}
    BY <1>1 DEF HistoryOf
  <1>3. ASSUME NEW e \in projection
        PROVE  {f \in projection : Number(f) <= Number(e)} = EventsOf(e.block, 1, Number(e))
    <2>1. PICK k \in 1..Len(s) : k = Number(e) /\ e = [tx |-> s[k].tx, block |-> SubSeq(s, 1, k)]
      BY <1>2, EventsType
    <2>2. k \in Nat /\ k \in 0..Len(s) /\ k \in 0..k /\ 1 <= 1 /\ k <= Len(s)
      BY <1>2
    <2>3. EventsOf(SubSeq(s, 1, k), 1, k) = EventsOf(s, 1, k)
      BY <1>2, <2>2, EventsOfPrefix
    <2>4. {f \in EventsOf(s, 1, Len(s)) : Number(f) \in 1..k} = EventsOf(s, 1, k)
      BY <1>2, <2>2, EventsAmong
    <2>5. \A f \in projection : Number(f) \in 1..Len(s)
      BY <1>2, EventsType
    <2>6. \A f \in projection : Number(f) \in 1..k <=> Number(f) <= k
      BY <1>2, <2>2, <2>5
    <2> DEFINE b == SubSeq(s, 1, k)
    <2> HIDE DEF b
    <2>7. e.block = b
      <3>1. e = [tx |-> s[k].tx, block |-> b]
        BY <2>1 DEF b
      <3>2. QED
        BY <3>1
    <2>8. QED
      BY <1>2, <2>1, <2>3, <2>4, <2>6, <2>7 DEF b
  <1>4. \A n \in DOMAIN saved : saved[n].events = EventsOf(saved[n].hash, n, n)
    BY DEF IndexInv, SavedOK
  <1>5. QED
    BY <1>3, <1>4 DEF OneHistory

\* Whatever the chain, the provider's failures, crashes and shutdowns, the
\* store is at every moment the full event history of one chain.
THEOREM AlwaysOneHistory == Spec => []OneHistory
  BY AlwaysIndexInv, InvTells, PTL

\* The scan never finds the store and the checkpoint in contradiction: what a
\* crash between the two commits leaves is always repaired.
THEOREM CrashesAlwaysRepaired == Spec => []CrashRepaired
  <1>1. Init => CrashRepaired
    BY DEF Init, CrashRepaired
  <1>2. IndexInv /\ CrashRepaired /\ [Next]_vars => CrashRepaired'
    BY InvNext DEF CrashRepaired
  <1>3. QED
    BY <1>1, <1>2, AlwaysIndexInv, PTL DEF Spec

-----------------------------------------------------------------------------
(* The lock that keeps a second process away from the index *)

\* One process starts at a time.
LoneStarter ==
  \E i \in Instances : \A j \in Instances : pc[j] \in Starting => j = i

\* A lock is of a process that has started; who creates or holds it finds it
\* in place, complete once he holds it.
LockInPlace ==
  /\ lock.owner # Nobody => lock.owner \in Instances /\ pc[lock.owner] # "new"
  /\ \A i \in Instances :
       /\ pc[i] = "write" => lock = [owner |-> i, written |-> FALSE]
       /\ pc[i] = "holding" => lock = [owner |-> i, written |-> TRUE]

\* A starter judges the lock that is there, unless it is gone by then; the one
\* it moves aside is of a dead process, which stays dead.
JudgedRight ==
  \A i \in Instances :
    /\ pc[i] \in {"check", "rename"} =>
         /\ found[i] \in Instances /\ pc[found[i]] # "new"
         /\ lock = NoLock \/ lock.owner = found[i]
    /\ pc[i] = "rename" => pc[found[i]] = "dead"

LockTypeOK ==
  /\ pc \in [Instances -> Starting \cup {"new", "holding", "closed", "refused", "dead"}]
  /\ found \in [Instances -> Instances \cup {Nobody}]
  /\ lock \in [owner : Instances \cup {Nobody}, written : BOOLEAN]
  /\ lock.written => lock.owner # Nobody

LockInv ==
  /\ LockTypeOK
  /\ Instances = {} \/ LoneStarter
  /\ LockInPlace
  /\ JudgedRight

\* A process only starts when no other is starting.
LEMMA StartsAlone ==
  ASSUME LockInv, MaxStarting = 1, NEW i \in Instances, Launch(i)
  PROVE  \A j \in Instances : pc[j] \notin Starting
  <1> DEFINE S == {j \in Instances : pc[j] \in Starting}
  <1>1. PICK k \in Instances : S \subseteq {k}
    BY DEF LockInv, LoneStarter
  <1>2. Cardinality(S) < 1
    BY DEF Launch
  <1>3. S = {} \/ S = {k}
    BY <1>1
  <1>4. Cardinality({k}) = 1
    BY FS_Singleton
  <1>5. S = {}
    BY <1>2, <1>3, <1>4
  <1>6. QED
    BY <1>5

LEMMA LockInitInv == LockInit => LockInv
  BY LockAssumption
  DEF LockInit, LockInv, LockTypeOK, LoneStarter, LockInPlace, JudgedRight, NoLock, Starting

LEMMA LockNextInv ==
  ASSUME MaxStarting = 1, LockInv, [LockNext]_lockVars
  PROVE  LockInv'
  <1> USE LockAssumption
      DEF LockInv, LockTypeOK, LoneStarter, LockInPlace, JudgedRight, Starting, NoLock, Move
  <1>1. ASSUME NEW i \in Instances, Launch(i) PROVE LockInv'
    <2>1. \A j \in Instances : pc[j] \notin Starting
      BY <1>1, StartsAlone
    <2>2. QED
      BY <1>1, <2>1 DEF Launch
  <1>2. ASSUME NEW i \in Instances, Open(i) PROVE LockInv'
    <2>1. LockTypeOK'
      <3> HIDE DEF LockInv, LoneStarter, LockInPlace, JudgedRight
      <3>1. LockTypeOK
        BY DEF LockInv
      <3>2. pc' \in [Instances -> Starting \cup {"new", "holding", "closed", "refused", "dead"}]
        BY <1>2, <3>1 DEF Open
      <3>3. lock' = lock \/ lock' = [owner |-> i, written |-> FALSE]
        BY <1>2 DEF Open
      <3>4. found' = found
        BY <1>2 DEF Open
      <3>5. /\ lock' \in [owner : Instances \cup {Nobody}, written : BOOLEAN]
            /\ lock'.written => lock'.owner # Nobody
        <4>1. CASE lock' = lock
          BY <3>1, <4>1
        <4>2. CASE lock' = [owner |-> i, written |-> FALSE]
          BY <4>2
        <4>3. QED
          BY <3>3, <4>1, <4>2
      <3>6. QED
        BY <3>1, <3>2, <3>4, <3>5
    <2>2. LoneStarter'
      BY <1>2 DEF Open
    <2>3. LockInPlace'
      BY <1>2 DEF Open
    <2>4. JudgedRight'
      BY <1>2 DEF Open
    <2>5. QED
      BY <2>1, <2>2, <2>3, <2>4 DEF LockInv
  <1>3. ASSUME NEW i \in Instances, Write(i) PROVE LockInv'
    <2>1. LockTypeOK'
      BY <1>3 DEF Write
    <2>2. LoneStarter'
      BY <1>3 DEF Write
    <2>3. LockInPlace'
      <3>1. lock = [owner |-> i, written |-> FALSE] /\ pc[i] = "write" /\ i # Nobody
        BY <1>3 DEF Write
      <3>2. lock' = [owner |-> i, written |-> TRUE]
        BY <1>3, <3>1 DEF Write
      <3>3. pc'[i] = "holding" /\ \A j \in Instances : j # i => pc'[j] = pc[j]
        BY <1>3 DEF Write
      <3>4. \A j \in Instances : j # i => pc[j] \notin {"write", "holding"}
        BY <3>1
      <3>5. QED
        BY <3>2, <3>3, <3>4 DEF LockInPlace
    <2>4. JudgedRight'
      BY <1>3 DEF Write
    <2>5. QED
      BY <2>1, <2>2, <2>3, <2>4 DEF LockInv
  <1>4. ASSUME NEW i \in Instances, Read(i) PROVE LockInv'
    BY <1>4 DEF Read
  <1>5. ASSUME NEW i \in Instances, Check(i) PROVE LockInv'
    BY <1>5 DEF Check, Live
  <1>6. ASSUME NEW i \in Instances, Rename(i) PROVE LockInv'
    <2>1. LockTypeOK'
      <3> HIDE DEF LockInv, LoneStarter, LockInPlace, JudgedRight
      <3>1. LockTypeOK
        BY DEF LockInv
      <3>2. pc' \in [Instances -> Starting \cup {"new", "holding", "closed", "refused", "dead"}]
        BY <1>6, <3>1 DEF Rename
      <3>3. lock' = lock \/ lock' = [owner |-> Nobody, written |-> FALSE]
        BY <1>6 DEF Rename
      <3>4. found' = found
        BY <1>6 DEF Rename
      <3>5. /\ lock' \in [owner : Instances \cup {Nobody}, written : BOOLEAN]
            /\ lock'.written => lock'.owner # Nobody
        <4>1. CASE lock' = lock
          BY <3>1, <4>1
        <4>2. CASE lock' = [owner |-> Nobody, written |-> FALSE]
          BY <4>2
        <4>3. QED
          BY <3>3, <4>1, <4>2
      <3>6. QED
        BY <3>1, <3>2, <3>4, <3>5
    <2>2. LoneStarter'
      BY <1>6 DEF Rename
    <2>3. LockInPlace'
      BY <1>6 DEF Rename
    <2>4. JudgedRight'
      BY <1>6 DEF Rename
    <2>5. QED
      BY <2>1, <2>2, <2>3, <2>4 DEF LockInv
  <1>7. ASSUME NEW i \in Instances, Release(i) PROVE LockInv'
    BY <1>7 DEF Release
  <1>8. ASSUME NEW i \in Instances, Exit(i) PROVE LockInv'
    BY <1>8 DEF Exit
  <1>9. ASSUME NEW i \in Instances, Crash(i) PROVE LockInv'
    BY <1>9 DEF Crash
  <1>10. CASE UNCHANGED lockVars
    BY <1>10 DEF lockVars
  <1>11. QED
    BY <1>1, <1>2, <1>3, <1>4, <1>5, <1>6, <1>7, <1>8, <1>9, <1>10 DEF LockNext, Acquire

\* Two processes never hold the lock of one index, whatever died before them
\* and however the closing of one overlaps with the start of another, as long
\* as one process starts at a time: what a start judged by its pid is what it
\* moves aside.
THEOREM AlwaysOneHolder ==
  ASSUME MaxStarting = 1
  PROVE  LockSpec => []OneHolder
  <1>1. LockInit => LockInv
    BY LockInitInv
  <1>2. LockInv /\ [LockNext]_lockVars => LockInv'
    BY LockNextInv
  <1>3. LockInv => OneHolder
    BY DEF LockInv, LockInPlace, OneHolder
  <1>4. QED
    BY <1>1, <1>2, <1>3, PTL DEF LockSpec
=============================================================================
