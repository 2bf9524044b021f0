------------------------------ MODULE StateStore ------------------------------
(***************************************************************************)
(* backend/state-store.js: one JSON file, replaced as a whole.  commit     *)
(* creates file.tmp exclusively, writes it, flushes it and renames it, all *)
(* synchronously, so other requests see none of the steps between, but a   *)
(* crash or an I/O error may strike at any of them.  A temporary file that *)
(* stays behind makes later commits fail, and the start too when there is  *)
(* no main file, until an operator has looked at it and taken it away.     *)
(* validate and checkJson never refuse what the server commits; contents   *)
(* damaged from outside are left out.                                      *)
(***************************************************************************)
CONSTANT NoFile

VARIABLES
  file,  \* the state last renamed into place, or NoFile
  tmp    \* is there a temporary file

storeVars == <<file, tmp>>

StoreInit == file = NoFile /\ tmp = FALSE

\* commit(value) succeeds.
Commit(value) == ~tmp /\ file' = value /\ UNCHANGED tmp

\* It fails before the rename: nothing was created, or what was created stays.
FailCommit == tmp' \in {tmp, TRUE} /\ UNCHANGED file

\* The process dies inside commit: before the rename, or after it.
DieInCommit(value) ==
  \/ ~tmp /\ tmp' = TRUE /\ UNCHANGED file
  \/ Commit(value)

\* load, with what a first start begins from; a state to recover is not loaded.
Loadable == file # NoFile \/ ~tmp
Loaded(initial) == IF file = NoFile THEN initial ELSE file

\* External: the operator removes the temporary file while the server is down.
Recover == tmp /\ tmp' = FALSE /\ UNCHANGED file
=============================================================================
