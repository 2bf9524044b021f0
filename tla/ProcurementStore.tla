--------------------------- MODULE ProcurementStore ---------------------------
(***************************************************************************)
(* The journal of backend/procurement-store.js: commands that ran, in the  *)
(* order of their sequence numbers, the evidence files uploaded for them   *)
(* and the command each file is bound to.  The domain state is the replay  *)
(* of the journal, so it is kept beside it and not recomputed; a restart   *)
(* (hydrate) changes nothing.  execute and putEvidence are one SQLite      *)
(* transaction each.  A request retried with its idempotency key gets its  *)
(* stored answer, one with a stale expectedVersion or a key of another     *)
(* request is refused: neither is a step.  File contents, names, texts and *)
(* their hashes are left out.                                              *)
(***************************************************************************)
EXTENDS Procurement

CONSTANTS
  MaxFiles,    \* evidence files a contract may have (100)
  MaxCommands  \* bound on the length of the journal
ASSUME StoreAssumption == MaxFiles \in Nat /\ MaxCommands \in Nat

VARIABLES
  journal,   \* sequence of [method, actorId, subject]
  evidence   \* sequence of files: [contract, version, batch, method, actor,
             \*   reviewAssignment, boundTo]; boundTo = 0 while unbound

domainVars == vars
storeVars == <<vars, journal, evidence>>

StoreInit == Init /\ journal = <<>> /\ evidence = <<>>

\* validateEvidenceScope: is file e one that `actor` uploaded for this stage of
\* this batch?  `batch` is the command's result.  Mutant: of this batch will do.
OfBatch(e, method, b, batch, actor) == evidence[e].batch = b
InScope(e, method, b, batch, actor) ==
  /\ evidence[e].contract = batch.contract
  /\ evidence[e].version = batch.version
  /\ evidence[e].batch = b
  /\ evidence[e].method = method
  /\ evidence[e].actor = actor
  /\ method = "resolveDispute" =>
       evidence[e].reviewAssignment = batch.assignments[Len(batch.assignments)].id

Record(method, actorId, subject) ==
  /\ Len(journal) < MaxCommands
  /\ journal' = Append(journal, [method |-> method, actorId |-> actorId, subject |-> subject])

\* A command without attestation.
Execute(method, actorId, subject, Command) ==
  Command /\ Record(method, actorId, subject) /\ UNCHANGED evidence

\* A command on batch b with its statement and original files.
Attest(method, actor, b, ids) ==
  /\ \A e \in ids : evidence[e].boundTo = 0 /\ InScope(e, method, b, batches'[b], actor)
  /\ Record(method, actor.id, b)
  /\ evidence' = [e \in DOMAIN evidence |->
       IF e \in ids THEN [evidence[e] EXCEPT !.boundTo = Len(journal) + 1] ELSE evidence[e]]
ExecuteAttested(method, actor, b, ids, Command) == Command /\ Attest(method, actor, b, ids)

\* getAttestations: has `method` run on batch b with files bound to it?
Attested(b, method) ==
  \E e \in DOMAIN evidence :
    /\ evidence[e].boundTo # 0
    /\ journal[evidence[e].boundTo].method = method
    /\ journal[evidence[e].boundTo].subject = b

\* getParticipantActorIds: the accounts that had a hand in contract c.
ConcernsContract(entry, c) ==
  LET versions == {contracts[c].versions[v] : v \in DOMAIN contracts[c].versions}
      held == {t.reservation : t \in versions}
  IN  CASE entry.method = "addQuote" -> entry.subject \in {reservations[r].quote : r \in held}
        [] entry.method = "reserve" -> entry.subject \in held
        [] entry.method \in {"createContract", "signContract"} -> entry.subject = c
        [] entry.method \in {"deliverBatch", "acceptBatch", "derivePayable"} ->
             entry.subject \in BatchesOf(c)
        [] OTHER -> FALSE
Participants(c) ==
  {journal[i].actorId : i \in {j \in DOMAIN journal : ConcernsContract(journal[j], c)}}

\* uploadGate: would the command the file is meant for be taken now?  The probe
\* runs on a replay that is thrown away.
UploadGate(c, version, b, method, actor, a) ==
  /\ c \in DOMAIN contracts
  /\ Version(c) = version
  /\ FulfilledContract(c)
  /\ CASE method = "deliverBatch" -> ENABLED DeliverBatch(b, c, 1, actor)
       [] method = "acceptBatch" ->
            /\ b \in BatchesOf(c) /\ batches[b].version = version
            /\ ENABLED AcceptBatch(b, "REJECTED", 0, actor)
       [] method = "resolveDispute" ->
            /\ b \in BatchesOf(c) /\ batches[b].version = version
            /\ batches[b].assignments # <<>>
            /\ ENABLED ResolveDispute(b, 0, actor, a)

FilesOf(c) == {e \in DOMAIN evidence : evidence[e].contract = c}
\* Mutant: files not yet bound are not counted.
BoundWithinQuota(c) == Cardinality({e \in FilesOf(c) : evidence[e].boundTo # 0}) < MaxFiles
WithinQuota(c) == Cardinality(FilesOf(c)) < MaxFiles

PutEvidence(c, version, b, method, actor, a) ==
  /\ UploadGate(c, version, b, method, actor, a)
  /\ WithinQuota(c)
  /\ evidence' = Append(evidence,
       [contract |-> c, version |-> version, batch |-> b, method |-> method,
        actor |-> actor, reviewAssignment |-> a, boundTo |-> 0])
  /\ UNCHANGED <<domainVars, journal>>

-----------------------------------------------------------------------------
\* The files of a contract stay within its quota, those uploaded and never used
\* included, whoever uploads at the same time.
EvidenceWithinQuota == \A c \in ContractIds : Cardinality(FilesOf(c)) <= MaxFiles

\* Every payable rests on material of its own batch and version, uploaded by
\* the very person who delivered, accepted or reviewed it, each file spent on
\* that one command.
PayablesAttested ==
  \A b \in DOMAIN payables :
    LET ShownBy(method, person) ==
          \E e \in DOMAIN evidence :
            /\ evidence[e].boundTo # 0
            /\ evidence[e].batch = b /\ evidence[e].version = batches[b].version
            /\ evidence[e].method = method /\ evidence[e].actor = person
            /\ journal[evidence[e].boundTo] =
                 [method |-> method, actorId |-> person.id, subject |-> b]
    IN  /\ ShownBy("deliverBatch", batches[b].deliveryActor)
        /\ ShownBy("acceptBatch", batches[b].acceptance)
        /\ batches[b].review # None => ShownBy("resolveDispute", batches[b].review)
=============================================================================
