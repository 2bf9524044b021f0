---------------------------- MODULE BusinessServer ----------------------------
(***************************************************************************)
(* write() of backend/server.js around the handlers of BusinessRecords and *)
(* over the file of StateStore.  A request notes the version of the state  *)
(* and looks its record up when it arrives, waits for its body, and then   *)
(* runs write() in one go: the stored answer of its Idempotency-Key, or a  *)
(* refusal when the version moved, or the callback and the commit, undone  *)
(* together when either fails.                                             *)
(*                                                                         *)
(* The version counter is kept as what it decides, whether a waiting       *)
(* request still has the current one.  Of all keys one is followed: other  *)
(* requests bring keys nobody used.  key.runs counts, inside the state and *)
(* for the properties only, how often the callback of that key took        *)
(* effect.  A request whose checks fail is the operation Bad: one that     *)
(* could not pass when it arrived cannot pass later at the same version.   *)
(***************************************************************************)
EXTENDS BusinessRecords, StateStore

CONSTANTS
  Slots,       \* requests under way at one time
  Keyed,       \* kinds of operations that may come with the key that is followed
  Bad,         \* a request its handler refuses
  None

\* All that one file holds.
States == [rec : Records, key : [of : Operations \cup {None}, runs : Nat]]

ASSUME ServerAssumption == None \notin Operations /\ NoFile \notin States

VARIABLES
  state,     \* what memory holds, in States
  waiting,   \* slot -> None or [op, keyed, current, live]
  failed,    \* storageFailure
  running,   \* is the process up
  answered   \* the operation a client was told has succeeded under the key

vars == <<file, tmp, state, waiting, failed, running, answered>>

Initial == [rec |-> EmptyState, key |-> [of |-> None, runs |-> 0]]

Init ==
  /\ StoreInit
  /\ state = Initial
  /\ waiting = [p \in Slots |-> None]
  /\ failed = FALSE /\ running = TRUE
  /\ answered = None

\* A request arrives and awaits its body.  One that comes when writing has
\* stopped is only turned away.
Arrive(p) ==
  /\ running /\ ~failed /\ waiting[p] = None
  /\ \E op \in {o \in Ops(state.rec) : Can(state.rec, o)} \cup {Bad}, keyed \in BOOLEAN :
       /\ keyed => op # Bad /\ op.do \in Keyed
       /\ waiting' = [waiting EXCEPT ![p] =
                       [op |-> op, keyed |-> keyed, current |-> TRUE, live |-> TRUE]]
  /\ UNCHANGED <<file, tmp, state, failed, running, answered>>

Leave(p) == [waiting EXCEPT ![p] = None]

\* The version moves on: no request that waits has it any more, and those that
\* have no stored answer to hope for will be turned away.  After a rollback or a
\* reset the records they looked up are not the state's either.
Outdate(p, replaced) ==
  [s \in Slots |->
     IF s = p \/ waiting[s] = None \/ ~waiting[s].keyed THEN None
     ELSE [waiting[s] EXCEPT !.current = FALSE, !.live = @ /\ ~replaced]]

\* A rollback moves it too.  Mutant: it does not, nothing having changed.
SameVersion(p) ==
  [s \in Slots |-> IF s = p \/ waiting[s] = None THEN None
                    ELSE [waiting[s] EXCEPT !.live = FALSE]]
OutdateUndone(p) == Outdate(p, TRUE)

HasAnswer(p) == waiting[p].keyed /\ state.key.of # None

\* The key is known: its answer again, or a refusal of another request.
Replay(p) ==
  /\ running /\ waiting[p] # None /\ ~failed /\ HasAnswer(p)
  /\ answered' = IF waiting[p].op = state.key.of THEN state.key.of ELSE answered
  /\ waiting' = Leave(p)
  /\ UNCHANGED <<file, tmp, state, failed, running>>

\* Writing has stopped, or the version has moved.
TurnAway(p) ==
  /\ running /\ waiting[p] # None
  /\ failed \/ (~HasAnswer(p) /\ ~waiting[p].current)
  /\ waiting' = Leave(p)
  /\ UNCHANGED <<file, tmp, state, failed, running, answered>>

Admitted(p) ==
  running /\ waiting[p] # None /\ ~failed /\ ~HasAnswer(p) /\ waiting[p].current

\* The callback throws.
Refuse(p) ==
  /\ Admitted(p) /\ waiting[p].op = Bad
  /\ waiting' = OutdateUndone(p)
  /\ UNCHANGED <<file, tmp, state, failed, running, answered>>

\* A market order's handler looks its records up in the callback, the others
\* before; what those change is lost if the state was replaced since.
LooksUpLate == {"donate", "order", "approveOrder", "rejectOrder", "reset"}

\* The callback and the answer stored for the key.
Executed(p) ==
  LET op   == waiting[p].op
      hits == waiting[p].live \/ op.do \in LooksUpLate
      key  == IF op.do = "reset" THEN Initial.key ELSE state.key
  IN  [rec |-> IF hits THEN Effect(state.rec, op) ELSE state.rec,
       key |-> IF ~waiting[p].keyed THEN key
               ELSE [of |-> op, runs |-> key.runs + IF hits THEN 1 ELSE 0]]

Succeed(p) ==
  /\ Admitted(p) /\ waiting[p].op # Bad
  /\ Commit(Executed(p))
  /\ state' = Executed(p)
  /\ waiting' = Outdate(p, waiting[p].op.do = "reset")
  /\ answered' = IF waiting[p].keyed THEN waiting[p].op
                 ELSE IF waiting[p].op.do = "reset" THEN None ELSE answered
  /\ UNCHANGED <<failed, running>>

\* What memory holds after a commit that failed.  Mutant: the new state.
KeptNew(p) == Executed(p)
RolledBack(p) == state

\* commit throws: everything is undone and writing stops.
FailToSave(p) ==
  /\ Admitted(p) /\ waiting[p].op # Bad
  /\ FailCommit
  /\ state' = RolledBack(p)
  /\ waiting' = OutdateUndone(p)
  /\ failed' = TRUE
  /\ UNCHANGED <<running, answered>>

Down ==
  /\ running' = FALSE /\ failed' = FALSE
  /\ waiting' = [p \in Slots |-> None]
  /\ state' = Initial

\* The process dies inside a commit; a reset that got through undoes answers.
DieWriting(p) ==
  /\ Admitted(p) /\ waiting[p].op # Bad
  /\ DieInCommit(Executed(p))
  /\ answered' = IF waiting[p].op.do = "reset" /\ file' # file THEN None ELSE answered
  /\ Down

\* It dies elsewhere, or is stopped because of failed.
Die == running /\ Down /\ UNCHANGED <<file, tmp, answered>>

\* The next process loads the file.
Restart ==
  /\ ~running /\ Loadable
  /\ running' = TRUE
  /\ state' = Loaded(Initial)
  /\ UNCHANGED <<file, tmp, waiting, failed, answered>>

Repair == ~running /\ Recover /\ UNCHANGED <<state, waiting, failed, running, answered>>

Next ==
  \/ \E p \in Slots : Arrive(p) \/ Replay(p) \/ TurnAway(p) \/ Refuse(p)
                      \/ Succeed(p) \/ FailToSave(p) \/ DieWriting(p)
  \/ Die \/ Restart \/ Repair

Spec == Init /\ [][Next]_vars

----------------------------------------------------------------------------
\* What the server serves is what a restart would load, whatever was refused,
\* undone or interrupted.
ServedIsDurable == running => state = Loaded(Initial)

\* An operation a client was told has succeeded is in the file, and no retry,
\* crash or rollback makes a key's operation take effect twice or get lost.
AnswersKept ==
  /\ Loaded(Initial).key.runs = IF Loaded(Initial).key.of = None THEN 0 ELSE 1
  /\ answered # None => Loaded(Initial).key.of = answered

\* Whatever came in whichever order, no goods are sold twice and every claim on
\* money is backed, though a transaction may be confirmed again and several
\* redemptions draw on one settlement.
GoodsAndMoneyBacked == GoodsSoldOnce(Loaded(Initial).rec) /\ ClaimsBacked(Loaded(Initial).rec)
=============================================================================
