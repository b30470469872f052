------------------------------ MODULE S3Uploads ------------------------------
(* The S3 surface of Grove Storage: PutObject, multipart uploads, the logical *)
(* key table and the reconciler jobs that recover, clean and purge them.      *)
(* PostgreSQL rows are the first group of variables, the external provider    *)
(* the second, the volatile state of API requests and reconciler passes the   *)
(* third.  Each transaction of db::s3_registry is one action: every one of    *)
(* them takes the files row with FOR UPDATE first and re-reads the upload and *)
(* lease rows in later statements, so transactions on one file are serial.    *)
(* Reads of transaction_now() that waited for that lock are stale; as every   *)
(* transaction that acts on a lapsed lease holds the same lock, the stale     *)
(* reading is the run in which the lapse comes later.                         *)
EXTENDS Naturals, FiniteSets

CONSTANTS
  Files,        \* file ids, one per upload (UUIDs, never reused)
  Multiparts,   \* the files opened by CreateMultipartUpload
  Conditional,  \* the single PUTs that carry If-None-Match: *
  Keys, KeyOf,  \* logical keys of one client, and the key of each upload
  Parts, Data,  \* part numbers and part or object bodies (with their MD5)
  Requests,     \* API requests running at one time, on any pod
  Workers,      \* reconciler passes running at one time
  MaxLate,      \* bound on provider calls in flight without a caller
  NoFile, Nothing

ASSUME ConstantsAssumption ==
  /\ Multiparts \subseteq Files
  /\ Conditional \subseteq Files \ Multiparts
  /\ KeyOf \in [Files -> Keys]
  /\ MaxLate \in Nat
  /\ NoFile \notin Files
  /\ Nothing \notin Data
  /\ \A S \in SUBSET Parts : Nothing \notin [S -> Data]

VARIABLES
  file,     \* files.state; "none" before the insert, "gone" after the prune
  upload,   \* uploads.state; "none" when there is no uploads row
  claim,    \* uploads.expected_size and expected_etag, as the content they name
  lease,    \* write lease: state, with "lapsed" = issued and past expires_at
  handle,   \* leases.upload_id is recorded
  ledger,   \* lease_parts: state and measured body of each part
  located,  \* the locations row exists
  etag,     \* files.declared_size and files.etag, as the content they name
  due,      \* recovery_after has passed
  key,      \* s3_object_keys
  object,   \* provider: the object under the file's own object_key
  session,  \* provider: the multipart session of that object_key
  vpart,    \* provider: the parts of that session
  late,     \* provider calls still in flight after their caller went away
  req, worker

rows     == <<file, upload, claim, lease, handle, ledger, located, etag, due, key>>
provider == <<object, session, vpart>>
vars     == <<rows, provider, late, req, worker>>

Lists  == UNION {[S -> Data] : S \in (SUBSET Parts) \ {{}}}
Bodies == Data \cup Lists

Idle == [at |-> "idle", op |-> "none", file |-> NoFile, part |-> Nothing, body |-> Nothing]
Asleep == [at |-> "idle", job |-> "none", file |-> NoFile, want |-> Nothing]
NoParts == [p \in Parts |-> [state |-> "absent", md5 |-> Nothing]]
NoVendorParts == [p \in Parts |-> Nothing]

Init ==
  /\ file = [f \in Files |-> "none"]
  /\ upload = [f \in Files |-> "none"]
  /\ claim = [f \in Files |-> Nothing]
  /\ lease = [f \in Files |-> "none"]
  /\ handle = [f \in Files |-> FALSE]
  /\ ledger = [f \in Files |-> NoParts]
  /\ located = [f \in Files |-> FALSE]
  /\ etag = [f \in Files |-> Nothing]
  /\ due = [f \in Files |-> FALSE]
  /\ key = [k \in Keys |-> NoFile]
  /\ object = [f \in Files |-> Nothing]
  /\ session = [f \in Files |-> "none"]
  /\ vpart = [f \in Files |-> NoVendorParts]
  /\ late = {}
  /\ req = [r \in Requests |-> Idle]
  /\ worker = [w \in Workers |-> Asleep]

-----------------------------------------------------------------------------
(* The external provider.  The AWS SDK sends a call up to three times and no  *)
(* operation has a timeout: the attempt that is answered is applied then, an  *)
(* attempt given up on is applied never or later, when its caller may be gone.*)

Apply(c) ==
  \/ /\ c.op = "put"
     /\ object' = [object EXCEPT ![c.file] = c.body]
     /\ UNCHANGED <<session, vpart>>
  \/ /\ c.op = "create"
     /\ session[c.file] = "none"
     /\ session' = [session EXCEPT ![c.file] = "open"]
     /\ UNCHANGED <<object, vpart>>
  \/ /\ c.op = "part"
     /\ session[c.file] = "open"
     /\ vpart' = [vpart EXCEPT ![c.file][c.part] = c.body]
     /\ UNCHANGED <<object, session>>
  \/ /\ c.op = "complete"
     /\ session[c.file] = "open"
     /\ \A p \in DOMAIN c.body : vpart[c.file][p] = c.body[p]
     /\ object' = [object EXCEPT ![c.file] = c.body]
     /\ session' = [session EXCEPT ![c.file] = "closed"]
     /\ vpart' = [vpart EXCEPT ![c.file] = NoVendorParts]
  \/ /\ c.op \in {"cleanup", "remove"}
     /\ object' = [object EXCEPT ![c.file] = Nothing]
     /\ IF c.op = "cleanup" /\ session[c.file] = "open"
        THEN /\ session' = [session EXCEPT ![c.file] = "closed"]
             /\ vpart' = [vpart EXCEPT ![c.file] = NoVendorParts]
        ELSE UNCHANGED <<session, vpart>>

Call(x, op) == [op |-> op, file |-> x.file, part |-> x.part, body |-> x.body]

(* An attempt given up on was never sent, refused, or is still in flight. *)
Abandon(c) == late' \in {l \in {late, late \cup {c}} : Cardinality(l) <= MaxLate}

LateApplies(c) ==
  /\ c \in late
  /\ late' = late \ {c}
  /\ \/ Apply(c)
     \/ /\ c.op = "cleanup"             \* only the abort took effect
        /\ session[c.file] = "open"
        /\ session' = [session EXCEPT ![c.file] = "closed"]
        /\ vpart' = [vpart EXCEPT ![c.file] = NoVendorParts]
        /\ UNCHANGED object
     \/ /\ c.op = "cleanup"             \* only the delete took effect
        /\ object' = [object EXCEPT ![c.file] = Nothing]
        /\ UNCHANGED <<session, vpart>>
  /\ UNCHANGED <<rows, req, worker>>

-----------------------------------------------------------------------------
(* Transactions of db::s3_registry shared by requests and reconciler passes.  *)

Pending(f, s)  == file[f] = "pending" /\ upload[f] = s
LeaseHeld(f)   == lease[f] \in {"issued", "lapsed"}      \* leases.state = 'issued'
PartClaimed(f) == \E p \in Parts : ledger[f][p].state = "claimed"

CreateUpload(f) ==
  /\ file[f] = "none"
  /\ file' = [file EXCEPT ![f] = "pending"]
  /\ upload' = [upload EXCEPT ![f] = "open"]
  /\ lease' = [lease EXCEPT ![f] = "issued"]
  /\ located' = [located EXCEPT ![f] = TRUE]
  /\ UNCHANGED <<claim, handle, ledger, etag, due, key>>

(* open -> completing, with the expected content recorded and the lease renewed *)
ClaimCompletion(f, b) ==
  /\ Pending(f, "open") /\ LeaseHeld(f)
  /\ upload' = [upload EXCEPT ![f] = "completing"]
  /\ claim' = [claim EXCEPT ![f] = b]
  /\ lease' = [lease EXCEPT ![f] = "issued"]
  /\ due' = [due EXCEPT ![f] = TRUE]
  /\ UNCHANGED <<file, handle, ledger, located, etag, key>>

ToCleaning(f) ==
  /\ upload' = [upload EXCEPT ![f] = "cleaning"]
  /\ claim' = [claim EXCEPT ![f] = Nothing]
  /\ due' = [due EXCEPT ![f] = TRUE]
  /\ UNCHANGED <<file, handle, ledger, located, etag, key>>

ClaimAbort(f) ==
  /\ Pending(f, "open") /\ ~PartClaimed(f)
  /\ ToCleaning(f)
  /\ UNCHANGED lease

(* Mutant: the replaced file is left active (detach is a separate step). *)
DisplacedLater(f) == {}
Displaced(f) == {g \in Files : g = key[KeyOf[f]] /\ g # f /\ file[g] = "active"}

(* Mutant: recovery and requests replace the key without the condition. *)
KeyTakenIgnored(f) == f \in Conditional /\ key[KeyOf[f]] = f
KeyTaken(f) == f \in Conditional /\ key[KeyOf[f]] # NoFile

(* Mutant: the uploads row is not read again under the file lock. *)
FinalizableUnfenced(f) == file[f] = "pending" /\ upload[f] # "none"
Finalizable(f) == Pending(f, "completing")

CommitUpload(f) ==
  /\ Finalizable(f) /\ ~KeyTaken(f)
  /\ file' = [g \in Files |-> IF g = f THEN "active"
                              ELSE IF g \in Displaced(f) THEN "deleted" ELSE file[g]]
  /\ due' = [g \in Files |-> IF g \in Displaced(f) THEN TRUE ELSE due[g]]
  /\ etag' = [etag EXCEPT ![f] = claim[f]]
  /\ lease' = [lease EXCEPT ![f] = IF LeaseHeld(f) THEN "committed" ELSE @]
  /\ key' = [key EXCEPT ![KeyOf[f]] = f]
  /\ upload' = [upload EXCEPT ![f] = "none"]
  /\ claim' = [claim EXCEPT ![f] = Nothing]
  /\ UNCHANGED <<handle, ledger, located>>

PreconditionFailed(f) ==
  /\ Finalizable(f) /\ KeyTaken(f)
  /\ ToCleaning(f)
  /\ UNCHANGED lease

FinalizeUpload(f) ==
  \/ CommitUpload(f)
  \/ PreconditionFailed(f)
  \/ ~Finalizable(f) /\ UNCHANGED rows       \* NotPending

(* finalize_abort (required = "cleaning") and discard_unstarted_upload ("open") *)
FinalizeReclaimed(f, required) ==
  \/ /\ Pending(f, required)
     /\ file' = [file EXCEPT ![f] = "reclaimed"]
     /\ lease' = [lease EXCEPT ![f] = IF LeaseHeld(f) THEN "expired" ELSE @]
     /\ located' = [located EXCEPT ![f] = FALSE]
     /\ upload' = [upload EXCEPT ![f] = "none"]
     /\ claim' = [claim EXCEPT ![f] = Nothing]
     /\ UNCHANGED <<handle, ledger, etag, due, key>>
  \/ ~Pending(f, required) /\ UNCHANGED rows

-----------------------------------------------------------------------------
(* API requests.  "spooling" receives the body, "calling" awaits the provider *)
(* under the lease heartbeat, "answered" holds the provider's success.  The   *)
(* checks and the extend_write_lease that precede a claim are repeated by the *)
(* claim's own transaction, so a request starts at its first effective one.   *)

Start(r, at, op, f, p, b) ==
  /\ req[r] = Idle
  /\ req' = [req EXCEPT ![r] = [at |-> at, op |-> op, file |-> f, part |-> p, body |-> b]]
At(r, at, ops) == req[r].at = at /\ req[r].op \in ops
Move(r, at)    == req' = [req EXCEPT ![r].at = at]
Return(r)      == req' = [req EXCEPT ![r] = Idle]

PutObject(r, f, d) ==
  /\ f \notin Multiparts
  /\ CreateUpload(f)
  /\ Start(r, "spooling", "put", f, Nothing, d)
  /\ UNCHANGED <<provider, late, worker>>

ClaimPut(r) ==
  /\ At(r, "spooling", {"put"})
  /\ LET f == req[r].file IN
       \/ ClaimCompletion(f, req[r].body) /\ Move(r, "calling")
       \/ ~(Pending(f, "open") /\ LeaseHeld(f)) /\ Return(r) /\ UNCHANGED rows
  /\ UNCHANGED <<provider, late, worker>>

CreateMultipart(r, f) ==
  /\ f \in Multiparts
  /\ CreateUpload(f)
  /\ Start(r, "calling", "create", f, Nothing, Nothing)
  /\ UNCHANGED <<provider, late, worker>>

AttachUploadId(r) ==
  /\ At(r, "answered", {"create"})
  /\ handle' = [handle EXCEPT ![req[r].file] = lease[req[r].file] # "none"]
  /\ Return(r)
  /\ UNCHANGED <<file, upload, claim, lease, ledger, located, etag, due, key,
                 provider, late, worker>>

(* the vendor create failed, or the vendor session could not be aborted *)
ScheduleCreateCleanup(r) ==
  /\ \/ At(r, "calling", {"create"}) /\ Abandon(Call(req[r], "create"))
     \/ At(r, "answered", {"create"}) /\ UNCHANGED late
  /\ LET f == req[r].file IN
       \/ ClaimAbort(f)
       \/ ~(Pending(f, "open") /\ ~PartClaimed(f)) /\ UNCHANGED rows
  /\ Return(r)
  /\ UNCHANGED <<provider, worker>>

(* attach_upload_id failed: abort the session just opened, then discard *)
AttachFails(r) ==
  /\ At(r, "answered", {"create"})
  /\ session' = [session EXCEPT ![req[r].file] = "closed"]
  /\ vpart' = [vpart EXCEPT ![req[r].file] = NoVendorParts]
  /\ Move(r, "aborted")
  /\ UNCHANGED <<rows, object, late, worker>>

(* also when the storage's stored settings are unreadable: no call is sent *)
DiscardUnstarted(r) ==
  /\ At(r, "aborted", {"create"}) \/ At(r, "calling", {"create"})
  /\ FinalizeReclaimed(req[r].file, "open")
  /\ Return(r)
  /\ UNCHANGED <<provider, late, worker>>

(* Mutants: a claimed row may be claimed again; the session's state is not    *)
(* read again under the file lock.                                            *)
PartGrantedTwice(f, p) == Pending(f, "open") /\ lease[f] = "issued"
PartGrantedLate(f, p)  ==
  upload[f] # "none" /\ lease[f] = "issued" /\ ledger[f][p].state # "claimed"
PartGranted(f, p) ==
  Pending(f, "open") /\ lease[f] = "issued" /\ ledger[f][p].state # "claimed"

ClaimPart(r, f, p, d) ==
  /\ handle[f]                       \* the client holds the UploadId
  /\ PartGranted(f, p)
  /\ ledger' = [ledger EXCEPT ![f][p].state = "claimed"]
  /\ Start(r, "calling", "part", f, p, d)
  /\ UNCHANGED <<file, upload, claim, lease, handle, located, etag, due, key,
                 provider, late, worker>>

FinishPart(r) ==
  /\ At(r, "answered", {"part"})
  /\ LET f == req[r].file  p == req[r].part IN
       IF Pending(f, "open") /\ ledger[f][p].state = "claimed"
       THEN ledger' = [ledger EXCEPT ![f][p] = [state |-> "done", md5 |-> req[r].body]]
       ELSE UNCHANGED ledger
  /\ Return(r)
  /\ UNCHANGED <<file, upload, claim, lease, handle, located, etag, due, key,
                 provider, late, worker>>

(* Mutant: the row of a refused first attempt is kept. *)
CancelledKept(row) == "done"
Cancelled(row) == IF row.md5 = Nothing THEN "absent" ELSE "done"

(* the vendor refused the part or its answer was lost *)
CancelPart(r) ==
  /\ At(r, "calling", {"part"})
  /\ Abandon(Call(req[r], "part"))
  /\ LET f == req[r].file  p == req[r].part IN
       IF ledger[f][p].state = "claimed"
       THEN ledger' = [ledger EXCEPT ![f][p].state = Cancelled(ledger[f][p])]
       ELSE UNCHANGED ledger
  /\ Return(r)
  /\ UNCHANGED <<file, upload, claim, lease, handle, located, etag, due, key,
                 provider, worker>>

(* the request lists some recorded parts; reconcile checks them on the ledger *)
Reconciled(f, list) ==
  /\ list \in Lists
  /\ \A p \in DOMAIN list : ledger[f][p] = [state |-> "done", md5 |-> list[p]]

CompleteMultipart(r, f, list) ==
  /\ handle[f] /\ ~PartClaimed(f)
  /\ Reconciled(f, list)
  /\ ClaimCompletion(f, list)
  /\ Start(r, "calling", "complete", f, Nothing, list)
  /\ UNCHANGED <<provider, late, worker>>

FinalizeRequest(r) ==
  /\ At(r, "answered", {"put", "complete"})
  /\ FinalizeUpload(req[r].file)
  /\ Return(r)
  /\ UNCHANGED <<provider, late, worker>>

AbortMultipart(r, f) ==
  /\ handle[f]
  /\ ClaimAbort(f)
  /\ Start(r, "calling", "cleanup", f, Nothing, Nothing)
  /\ UNCHANGED <<provider, late, worker>>

FinalizeAbort(r) ==
  /\ At(r, "answered", {"cleanup"})
  /\ FinalizeReclaimed(req[r].file, "cleaning")
  /\ Return(r)
  /\ UNCHANGED <<provider, late, worker>>

ProviderAnswers(r) ==
  /\ req[r].at = "calling"
  /\ Apply(Call(req[r], req[r].op))
  /\ Abandon(Call(req[r], req[r].op))
  /\ Move(r, "answered")
  /\ UNCHANGED <<rows, worker>>

(* run_with_write_heartbeat: the lease of a live operation is renewed when its *)
(* row is still in the state the operation works in                           *)
StillOwned(r) ==
  LET f == req[r].file IN
    \/ At(r, "calling", {"put", "complete"}) /\ Pending(f, "completing")
    \/ /\ At(r, "calling", {"part"}) /\ Pending(f, "open")
       /\ ledger[f][req[r].part].state = "claimed"

Heartbeat(r) ==
  /\ StillOwned(r)
  /\ lease[req[r].file] = "lapsed"
  /\ lease' = [lease EXCEPT ![req[r].file] = "issued"]
  /\ UNCHANGED <<file, upload, claim, handle, ledger, located, etag, due, key,
                 provider, late, req, worker>>

(* The request ends without another transaction: its process crashed, the     *)
(* client left, the heartbeat saw the ownership lost, the spool, the provider *)
(* or the database failed.  A call it was waiting for may still be applied.   *)
RequestDies(r) ==
  /\ req[r] # Idle
  /\ IF req[r].at = "calling" THEN Abandon(Call(req[r], req[r].op)) ELSE UNCHANGED late
  /\ Return(r)
  /\ UNCHANGED <<rows, provider, worker>>

DeleteObject(k) ==
  /\ key[k] # NoFile
  /\ key' = [key EXCEPT ![k] = NoFile]
  /\ LET f == key[k] IN
       IF file[f] = "active"
       THEN /\ file' = [file EXCEPT ![f] = "deleted"]
            /\ due' = [due EXCEPT ![f] = TRUE]
       ELSE UNCHANGED <<file, due>>
  /\ UNCHANGED <<upload, claim, lease, handle, ledger, located, etag,
                 provider, late, req, worker>>

(* files::mark_deleted: the native DELETE by file id.  A client learns the id *)
(* of an S3 object only for a multipart upload, where it is the UploadId.     *)
NativeDelete(f) ==
  /\ f \in Multiparts /\ file[f] = "active"
  /\ file' = [file EXCEPT ![f] = "deleted"]
  /\ due' = [due EXCEPT ![f] = TRUE]
  /\ UNCHANGED <<upload, claim, lease, handle, ledger, located, etag, key,
                 provider, late, req, worker>>

-----------------------------------------------------------------------------
(* Time.  A pass ends within PASS_TIMEOUT = 20 s of its retry claim; a claim  *)
(* defers the next one by RECOVERY_RETRY = 30 s and a renewed lease holds for *)
(* WRITE_LEASE_TTL = 15 min, so neither runs out under a pass on the file.    *)

NoPassOn(f) == \A w \in Workers : worker[w].file # f

LeaseLapses(f) ==
  /\ lease[f] = "issued" /\ NoPassOn(f)
  /\ lease' = [lease EXCEPT ![f] = "lapsed"]
  /\ UNCHANGED <<file, upload, claim, handle, ledger, located, etag, due, key,
                 provider, late, req, worker>>

RetryDue(f) ==
  /\ file[f] # "none" /\ ~due[f] /\ NoPassOn(f)
  /\ due' = [due EXCEPT ![f] = TRUE]
  /\ UNCHANGED <<file, upload, claim, lease, handle, ledger, located, etag, key,
                 provider, late, req, worker>>

-----------------------------------------------------------------------------
(* The reconciler's S3 jobs.  A pass may stop at any step (timeout, crash).   *)

ExpiredCompletion(f) == Pending(f, "completing") /\ lease[f] = "lapsed"

(* begin_recovery: the retry delay is recorded before the provider call *)
BeginRecovery(w, job, f, at) ==
  /\ worker[w] = Asleep
  /\ due[f]
  /\ due' = [due EXCEPT ![f] = FALSE]
  /\ worker' = [worker EXCEPT ![w] = [at |-> at, job |-> job, file |-> f, want |-> claim[f]]]
  /\ UNCHANGED <<file, upload, claim, lease, handle, ledger, located, etag, key,
                 provider, late, req>>

RecoverCompletion(w, f) ==
  ExpiredCompletion(f) /\ BeginRecovery(w, "complete", f, "observing")
(* Mutants: an expired open session is swept without being claimed first; a   *)
(* session is swept only when its vendor upload_id is known; the metadata is  *)
(* released although the physical cleanup failed.                             *)
CleaningOrExpired(f) ==
  \/ Pending(f, "cleaning")
  \/ Pending(f, "open") /\ lease[f] = "lapsed"
CleaningWithHandle(f) == Pending(f, "cleaning") /\ handle[f]
CleanupCandidate(f) == Pending(f, "cleaning")
RecoverUnswept(w, f) ==
  CleanupCandidate(f) /\ BeginRecovery(w, "cleanup", f, "swept")
RecoverCleaning(w, f) ==
  CleanupCandidate(f) /\ BeginRecovery(w, "cleanup", f, "sweeping")

(* Mutant: only files that still have their lease are purged. *)
PurgeableLeased(f) == file[f] = "deleted" /\ located[f] /\ lease[f] # "none"
Purgeable(f) == file[f] = "deleted" /\ located[f] /\ upload[f] = "none"
RecoverDeleted(w, f) ==
  Purgeable(f) /\ BeginRecovery(w, "remove", f, "sweeping")

(* Mutants: an absent single object is taken for stored; an absent object is  *)
(* never concluded on.                                                        *)
CompletionPresumed(f, want) ==
  IF object[f] = Nothing /\ f \in Multiparts THEN "reopen" ELSE "finalize"
CompletionUndecided(f, want) == IF object[f] = want THEN "finalize" ELSE "observing"
CompletionAction(f, want) ==
  IF object[f] = want THEN "finalize"
  ELSE IF object[f] = Nothing /\ f \in Multiparts THEN "reopen" ELSE "clean"

Observe(w) ==
  /\ worker[w].at = "observing"
  /\ worker' = [worker EXCEPT ![w].at = CompletionAction(worker[w].file, worker[w].want)]
  /\ UNCHANGED <<rows, provider, late, req>>

ReopenCompletion(f) ==
  /\ ExpiredCompletion(f)
  /\ upload' = [upload EXCEPT ![f] = "open"]
  /\ claim' = [claim EXCEPT ![f] = Nothing]
  /\ lease' = [lease EXCEPT ![f] = "issued"]
  /\ due' = [due EXCEPT ![f] = TRUE]
  /\ UNCHANGED <<file, handle, ledger, located, etag, key>>

MarkCompletionAborting(f) == ExpiredCompletion(f) /\ ToCleaning(f) /\ UNCHANGED lease

Act(w) ==
  /\ LET f == worker[w].file IN
       \/ worker[w].at = "finalize" /\ FinalizeUpload(f)
       \/ worker[w].at = "reopen" /\ ReopenCompletion(f)
       \/ worker[w].at = "clean" /\ MarkCompletionAborting(f)
       \/ worker[w].at \in {"reopen", "clean"} /\ ~ExpiredCompletion(f) /\ UNCHANGED rows
  /\ worker' = [worker EXCEPT ![w] = Asleep]
  /\ UNCHANGED <<provider, late, req>>

SweepCall(w) == [op |-> worker[w].job, file |-> worker[w].file,
                 part |-> Nothing, body |-> Nothing]

SweepObject(w) ==
  /\ worker[w].at = "sweeping"
  /\ Apply(SweepCall(w))
  /\ Abandon(SweepCall(w))
  /\ worker' = [worker EXCEPT ![w].at = "swept"]
  /\ UNCHANGED <<rows, req>>

FinalizePurge(f) ==
  /\ located' = [located EXCEPT ![f] = located[f] /\ file[f] # "deleted"]
  /\ UNCHANGED <<file, upload, claim, lease, handle, ledger, etag, due, key>>

FinishSweep(w) ==
  /\ worker[w].at = "swept"
  /\ \/ worker[w].job = "cleanup" /\ FinalizeReclaimed(worker[w].file, "cleaning")
     \/ worker[w].job = "remove" /\ FinalizePurge(worker[w].file)
  /\ worker' = [worker EXCEPT ![w] = Asleep]
  /\ UNCHANGED <<provider, late, req>>

PassStops(w) ==
  /\ worker[w] # Asleep
  /\ IF worker[w].at = "sweeping" THEN Abandon(SweepCall(w)) ELSE UNCHANGED late
  /\ worker' = [worker EXCEPT ![w] = Asleep]
  /\ UNCHANGED <<rows, provider, req>>

ExpireOpen(f) ==
  /\ Pending(f, "open") /\ lease[f] = "lapsed"
  /\ lease' = [lease EXCEPT ![f] = "expired"]
  /\ ToCleaning(f)
  /\ UNCHANGED <<provider, late, req, worker>>

(* Mutant: the terminal lease of a running session is pruned. *)
LeasePrunableEarly(f) == lease[f] \in {"committed", "expired"}
LeasePrunable(f) ==
  /\ lease[f] \in {"committed", "expired"}
  /\ upload[f] = "none" /\ ~(file[f] = "reclaimed" /\ located[f])

PruneLease(f) ==
  /\ LeasePrunable(f)
  /\ lease' = [lease EXCEPT ![f] = "none"]
  /\ handle' = [handle EXCEPT ![f] = FALSE]
  /\ ledger' = [ledger EXCEPT ![f] = NoParts]
  /\ UNCHANGED <<file, upload, claim, located, etag, due, key,
                 provider, late, req, worker>>

(* the key row falls with the file (ON DELETE CASCADE) *)
PruneFile(f) ==
  /\ file[f] \in {"deleted", "reclaimed"}
  /\ ~located[f] /\ lease[f] = "none" /\ upload[f] = "none"
  /\ file' = [file EXCEPT ![f] = "gone"]
  /\ key' = [k \in Keys |-> IF key[k] = f THEN NoFile ELSE key[k]]
  /\ UNCHANGED <<upload, claim, lease, handle, ledger, located, etag, due,
                 provider, late, req, worker>>

-----------------------------------------------------------------------------
Continue(r) ==
  \/ ClaimPut(r) \/ AttachUploadId(r) \/ ScheduleCreateCleanup(r)
  \/ AttachFails(r) \/ DiscardUnstarted(r)
  \/ FinishPart(r) \/ CancelPart(r)
  \/ FinalizeRequest(r) \/ FinalizeAbort(r)
  \/ ProviderAnswers(r) \/ RequestDies(r)

RequestStep(r) ==
  \/ \E f \in Files, d \in Data : PutObject(r, f, d)
  \/ \E f \in Files : CreateMultipart(r, f) \/ AbortMultipart(r, f)
  \/ \E f \in Files, p \in Parts, d \in Data : ClaimPart(r, f, p, d)
  \/ \E f \in Files, list \in Lists : CompleteMultipart(r, f, list)
  \/ Continue(r) \/ Heartbeat(r)

ContinuePass(w) == Observe(w) \/ Act(w) \/ SweepObject(w) \/ FinishSweep(w) \/ PassStops(w)

PassStep(w) ==
  \/ \E f \in Files : RecoverCompletion(w, f) \/ RecoverCleaning(w, f) \/ RecoverDeleted(w, f)
  \/ ContinuePass(w)

Next ==
  \/ \E r \in Requests : RequestStep(r)
  \/ \E w \in Workers : PassStep(w)
  \/ \E c \in late : LateApplies(c)
  \/ \E k \in Keys : DeleteObject(k)
  \/ \E f \in Files : \/ NativeDelete(f) \/ LeaseLapses(f) \/ RetryDue(f)
                      \/ ExpireOpen(f) \/ PruneLease(f) \/ PruneFile(f)

Spec == Init /\ [][Next]_vars

(* Fairness.  A request ends, by an answer or otherwise; a pass ends, at the  *)
(* latest by its timeout; time passes for a file no request works on; the     *)
(* schedule gives every job its turn; and the provider and the database do    *)
(* not fail the passes on one file for ever.                                  *)
Unattended(f) == \A r \in Requests : req[r].file # f
OnFile(w, f)  == worker[w].file = f

FairSpec ==
  /\ Spec
  /\ \A r \in Requests : WF_vars(Continue(r))
  /\ \A w \in Workers : WF_vars(ContinuePass(w))
  /\ \A f \in Files :
       /\ WF_vars(Unattended(f) /\ LeaseLapses(f))
       /\ WF_vars(RetryDue(f))
       /\ WF_vars(ExpireOpen(f))
       /\ \A w \in Workers :
            /\ SF_vars(RecoverCompletion(w, f))
            /\ SF_vars(RecoverCleaning(w, f))
            /\ SF_vars(RecoverDeleted(w, f))
            /\ SF_vars(OnFile(w, f) /\ Observe(w))
            /\ SF_vars(OnFile(w, f) /\ Act(w))
            /\ SF_vars(OnFile(w, f) /\ SweepObject(w))
            /\ SF_vars(OnFile(w, f) /\ FinishSweep(w))

-----------------------------------------------------------------------------
PartRows ==
  [state : {"absent"}, md5 : {Nothing}]
    \cup [state : {"claimed"}, md5 : Data \cup {Nothing}]
    \cup [state : {"done"}, md5 : Data]

CallStates ==
  [op : {"put"}, file : Files, part : {Nothing}, body : Data]
    \cup [op : {"create", "cleanup", "remove"}, file : Files, part : {Nothing}, body : {Nothing}]
    \cup [op : {"part"}, file : Files, part : Parts, body : Data]
    \cup [op : {"complete"}, file : Files, part : {Nothing}, body : Lists]

RequestStates ==
  {Idle}
    \cup [at : {"spooling", "calling", "answered"}, op : {"put"},
          file : Files, part : {Nothing}, body : Data]
    \cup [at : {"calling", "answered", "aborted"}, op : {"create"},
          file : Files, part : {Nothing}, body : {Nothing}]
    \cup [at : {"calling", "answered"}, op : {"part"}, file : Files, part : Parts, body : Data]
    \cup [at : {"calling", "answered"}, op : {"complete"},
          file : Files, part : {Nothing}, body : Lists]
    \cup [at : {"calling", "answered"}, op : {"cleanup"},
          file : Files, part : {Nothing}, body : {Nothing}]

WorkerStates ==
  {Asleep}
    \cup [at : {"observing", "finalize", "reopen", "clean"}, job : {"complete"},
          file : Files, want : Bodies \cup {Nothing}]
    \cup [at : {"sweeping", "swept"}, job : {"cleanup", "remove"},
          file : Files, want : Bodies \cup {Nothing}]

RowsOK ==
  /\ file \in [Files -> {"none", "pending", "active", "deleted", "reclaimed", "gone"}]
  /\ upload \in [Files -> {"none", "open", "completing", "cleaning"}]
  /\ claim \in [Files -> Bodies \cup {Nothing}]
  /\ lease \in [Files -> {"none", "issued", "lapsed", "committed", "expired"}]
  /\ handle \in [Files -> BOOLEAN]
  /\ ledger \in [Files -> [Parts -> PartRows]]
  /\ located \in [Files -> BOOLEAN]
  /\ etag \in [Files -> Bodies \cup {Nothing}]
  /\ due \in [Files -> BOOLEAN]
  /\ key \in [Keys -> Files \cup {NoFile}]

(* Every row keeps to the CHECK constraints of its table; in particular a     *)
(* part is "done" only with a measured body (lease_parts.uploaded_md5), and   *)
(* requests and passes hold what their step needs.                            *)
TypeOK ==
  /\ RowsOK
  /\ object \in [Files -> Bodies \cup {Nothing}]
  /\ session \in [Files -> {"none", "open", "closed"}]
  /\ vpart \in [Files -> [Parts -> Data \cup {Nothing}]]
  /\ late \subseteq CallStates
  /\ req \in [Requests -> RequestStates]
  /\ worker \in [Workers -> WorkerStates]

(* The state diagram of spec 03, with the deletion of spec 00 behind it: no    *)
(* handler, whatever it read before it took the file lock, moves an upload    *)
(* along any other edge.                                                      *)
LifeOf(f) == IF file[f] = "pending" THEN upload[f] ELSE file[f]

Transitions ==
  {<<"none", "open">>, <<"open", "completing">>, <<"open", "cleaning">>,
   <<"completing", "active">>, <<"completing", "open">>, <<"completing", "cleaning">>,
   <<"cleaning", "reclaimed">>, <<"open", "reclaimed">>,
   <<"active", "deleted">>, <<"deleted", "gone">>, <<"reclaimed", "gone">>}

LifecycleStep ==
  \A f \in Files : LifeOf(f)' = LifeOf(f) \/ <<LifeOf(f), LifeOf(f)'>> \in Transitions

FollowsLifecycle == [][LifecycleStep]_vars

(* A file whose content may be destroyed: no transaction can make it active.  *)
Condemned(f) ==
  file[f] \in {"deleted", "reclaimed", "gone"} \/ Pending(f, "cleaning")

(* Physical deletion is only ever under way for a condemned file: whatever    *)
(* a pass or an Abort has sent, or left in flight when it timed out, cannot   *)
(* reach the object of a file that is active or may still become so.          *)
DeletesOnlyCondemned ==
  /\ \A c \in late : c.op \in {"cleanup", "remove"} => Condemned(c.file)
  /\ \A r \in Requests : At(r, "calling", {"cleanup"}) => Condemned(req[r].file)
  /\ \A w \in Workers : worker[w].at = "sweeping" => Condemned(worker[w].file)

(* An active file has its location and its object, whichever of the request   *)
(* and the recovery finalized it and whatever either of them has in flight.   *)
ActiveIsStored ==
  \A f \in Files : file[f] = "active" => located[f] /\ object[f] # Nothing

(* The size and ETag of an active single PUT are those of its object.         *)
SinglePutIsFaithful ==
  \A f \in Files \ Multiparts : file[f] = "active" => object[f] = etag[f]

(* keys.rs: an active file that no key names would be out of reach of its     *)
(* client and of the purge scan.                                              *)
ActiveIsReachable == \A f \in Files : file[f] = "active" => key[KeyOf[f]] = f

(* Every pending file is in the scan of some reconciler job as soon as its    *)
(* lease lapses or its retry falls due: no step of a request or of a pass     *)
(* takes away a row that the scans join (location, lease, session).           *)
AlwaysScannable ==
  \A f \in Files : file[f] = "pending" =>
    /\ located[f]
    /\ \/ upload[f] \in {"open", "completing"} /\ LeaseHeld(f)
       \/ upload[f] = "cleaning" /\ lease[f] # "none"

(* What a multipart completion has claimed stays what the ledger records, so  *)
(* the parts it sends to the provider are the ones it has verified.           *)
ClaimMatchesLedger ==
  \A f \in Multiparts : upload[f] = "completing" => Reconciled(f, claim[f])

(* "Concurrent promotion of one part: one proceeds" (spec 03).                *)
PartWritesExclusive ==
  \A r, s \in Requests :
    r # s /\ req[r].op = "part" /\ req[s].op = "part" /\ req[r].file = req[s].file
      => req[r].part # req[s].part

(* A multipart file whose location row is released leaves no object behind,   *)
(* late provider calls included.                                              *)
ReleasedMultipartIsEmpty ==
  \A f \in Multiparts : file[f] # "none" /\ ~located[f] => object[f] = Nothing

(* A completion is concluded: the claim of a request that is gone is found    *)
(* by recovery and finalized, reopened or cleaned.                            *)
CompletionConcludes ==
  \A f \in Files : upload[f] = "completing" ~> upload[f] # "completing"

(* An upload nobody works on any more is published or reclaimed.              *)
AbandonedUploadSettles ==
  \A f \in Files : (<>[]Unattended(f)) => ([]<>(file[f] # "pending"))

(* A deleted object is purged and its location released.                      *)
DeletedIsPurged == \A f \in Files : file[f] = "deleted" ~> ~located[f]

(* The S3 surface keeps the promise of KeyedStore: an upload is visible while *)
(* its file is active and its key names it.                                   *)
FateOf(s) == CASE s = "none" -> "unborn"
               [] s = "pending" -> "running"
               [] s = "active" -> "visible"
               [] OTHER -> "dropped"

Store == INSTANCE KeyedStore WITH
  fate    <- [f \in Files |-> FateOf(file[f])],
  visible <- [k \in Keys |-> IF key[k] # NoFile /\ file[key[k]] = "active"
                             THEN key[k] ELSE NoFile]

ImplementsKeyedStore == Store!Spec

-----------------------------------------------------------------------------
(* What the repository's text says and the code does not do.                  *)

(* keys.rs, line 1: the key table maps keys to active files.                  *)
KeyNamesActive == \A k \in Keys : key[k] # NoFile => file[key[k]] = "active"

(* spec 03: the file is activated when the object is the expected one.        *)
ActiveIsFaithful == \A f \in Files : file[f] = "active" => object[f] = etag[f]
=============================================================================
