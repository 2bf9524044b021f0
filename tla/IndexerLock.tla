------------------------------ MODULE IndexerLock ------------------------------
(***************************************************************************)
(* The lock file with which backend/funding-indexer.js keeps two processes *)
(* from writing the same index: created exclusively, filled with the       *)
(* owner's pid and token, and taken over by renaming it aside when the     *)
(* owner is dead.  Every file-system call is a step of its own.            *)
(*                                                                         *)
(* An instance is one start of a process: it has a pid and a token of its  *)
(* own, so the lock's content is named by the instance that wrote it.      *)
(***************************************************************************)
EXTENDS Integers, FiniteSets

CONSTANTS
  Instances,
  MaxStarting,  \* instances that may be acquiring the lock at the same time
  MaxCrashes,   \* bound on crashes
  Nobody        \* no lock file
ASSUME LockAssumption ==
  /\ Nobody \notin Instances
  /\ MaxStarting \in Nat \ {0}
  /\ MaxCrashes \in Nat

VARIABLES
  pc,        \* instance -> where it is
  attempts,  \* instance -> rounds of the loop begun
  found,     \* instance -> the owner it read from the lock file
  lock,      \* the lock file: of Nobody, or [owner, written]
  stale,     \* owners whose lock was renamed aside
  crashes
lockVars == <<pc, attempts, found, lock, stale, crashes>>

Starting == {"open", "write", "read", "check", "rename"}
Live(i) == pc[i] \notin {"new", "dead"}   \* its pid exists
Move(i, stage) == pc' = [pc EXCEPT ![i] = stage]
NoLock == [owner |-> Nobody, written |-> FALSE]

-----------------------------------------------------------------------------
LockInit ==
  /\ pc = [i \in Instances |-> "new"] /\ attempts = [i \in Instances |-> 0]
  /\ found = [i \in Instances |-> Nobody]
  /\ lock = NoLock /\ stale = {} /\ crashes = 0

Launch(i) ==
  /\ pc[i] = "new"
  /\ Cardinality({j \in Instances : pc[j] \in Starting}) < MaxStarting
  /\ Move(i, "open")
  /\ UNCHANGED <<attempts, found, lock, stale, crashes>>

\* openSync(lockFile, "wx"): at most three times.
Open(i) ==
  /\ pc[i] = "open"
  /\ IF attempts[i] = 3 THEN Move(i, "refused") /\ UNCHANGED <<attempts, lock>>
     ELSE /\ attempts' = [attempts EXCEPT ![i] = @ + 1]
          /\ IF lock = NoLock
             THEN lock' = [owner |-> i, written |-> FALSE] /\ Move(i, "write")
             ELSE Move(i, "read") /\ UNCHANGED lock
  /\ UNCHANGED <<found, stale, crashes>>

\* writeFileSync through the open handle: it fills the file this instance
\* created, wherever that was renamed to meanwhile.
Write(i) ==
  /\ pc[i] = "write"
  /\ lock' = IF lock.owner = i THEN [lock EXCEPT !.written = TRUE] ELSE lock
  /\ Move(i, "holding")
  /\ UNCHANGED <<attempts, found, stale, crashes>>

\* A file that vanished or is not a complete lock refuses the start.
Read(i) ==
  /\ pc[i] = "read"
  /\ IF lock.written THEN Move(i, "check") /\ found' = [found EXCEPT ![i] = lock.owner]
     ELSE Move(i, "refused") /\ UNCHANGED found
  /\ UNCHANGED <<attempts, lock, stale, crashes>>

\* Mutant: only the name of the stale file is checked.
CheckName(i) ==
  /\ pc[i] = "check"
  /\ Move(i, IF found[i] \in stale THEN "refused" ELSE "rename")
  /\ UNCHANGED <<attempts, found, lock, stale, crashes>>

\* processExists and existsSync(stale).
Check(i) ==
  /\ pc[i] = "check"
  /\ Move(i, IF Live(found[i]) \/ found[i] \in stale THEN "refused" ELSE "rename")
  /\ UNCHANGED <<attempts, found, lock, stale, crashes>>

\* Mutant: takes the lock aside and gives up.
RenameAndStop(i) ==
  /\ pc[i] = "rename"
  /\ lock' = NoLock /\ stale' = stale \cup {found[i]}
  /\ Move(i, "refused")
  /\ UNCHANGED <<attempts, found, crashes>>

\* renameSync moves whatever is the lock file now to the name computed from
\* the lock that was read; when there is none any more the loop goes on.
Rename(i) ==
  /\ pc[i] = "rename"
  /\ IF lock = NoLock THEN UNCHANGED <<lock, stale>>
     ELSE lock' = NoLock /\ stale' = stale \cup {found[i]}
  /\ Move(i, "open")
  /\ UNCHANGED <<attempts, found, crashes>>

\* close(): releaseInstanceLock removes the file only when it is still its own
\* (otherwise INDEXER_LOCK_CHANGED).
Release(i) ==
  /\ pc[i] = "holding"
  /\ lock' = IF lock = [owner |-> i, written |-> TRUE] THEN NoLock ELSE lock
  /\ Move(i, "closed")
  /\ UNCHANGED <<attempts, found, stale, crashes>>

\* A process whose start was refused, or that closed the index, ends.
Exit(i) ==
  /\ pc[i] \in {"closed", "refused"}
  /\ Move(i, "dead")
  /\ UNCHANGED <<attempts, found, lock, stale, crashes>>

Crash(i) ==
  /\ pc[i] \in Starting \cup {"holding"}
  /\ crashes < MaxCrashes
  /\ crashes' = crashes + 1
  /\ Move(i, "dead")
  /\ UNCHANGED <<attempts, found, lock, stale>>

Acquire(i) == Open(i) \/ Write(i) \/ Read(i) \/ Check(i) \/ Rename(i)
LockNext == \E i \in Instances : Launch(i) \/ Acquire(i) \/ Release(i) \/ Exit(i) \/ Crash(i)
LockSpec == LockInit /\ [][LockNext]_lockVars
FairLockSpec == LockSpec /\ \A i \in Instances : WF_lockVars(Acquire(i))

-----------------------------------------------------------------------------
(* Properties *)

\* The file a starter judges was written by some instance.
TypeOK ==
  /\ pc \in [Instances -> Starting \cup {"new", "holding", "closed", "refused", "dead"}]
  /\ attempts \in [Instances -> 0..3]
  /\ found \in [Instances -> Instances \cup {Nobody}]
  /\ \A i \in Instances : pc[i] \in {"check", "rename"} => found[i] # Nobody
  /\ lock \in [owner : Instances \cup {Nobody}, written : BOOLEAN]
  /\ stale \subseteq Instances
  /\ crashes \in 0..MaxCrashes

\* Two processes never hold the lock of one index at the same time, whatever
\* died before them.
OneHolder == \A i, j \in Instances : pc[i] = "holding" /\ pc[j] = "holding" => i = j

\* A complete lock of a dead process does not keep a lone new start out.
DeadLockTakenOver ==
  \A i \in Instances :
    (/\ pc[i] = "open" /\ attempts[i] = 0 /\ lock.written
     /\ \A j \in Instances \ {i} : ~Live(j))
      ~> (pc[i] \in {"holding", "closed", "dead"} \/ \E j \in Instances \ {i} : Live(j))
=============================================================================
