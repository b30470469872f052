------------------------------ MODULE NativeFile ------------------------------
(* The native surface of Grove Storage: the life of one file from create to   *)
(* the prune of its row, with the two transfer modes (direct by presigned URL,*)
(* relayed through a spool), single and multipart uploads, reads, and the     *)
(* reconciler jobs Observe, NativeComplete, NativeCleanup, Reclaim,           *)
(* ReclaimCleanup, Purge, ReadLeases, PruneLeases and PruneFiles.  Native     *)
(* files share no row, object key or provider session with one another, so    *)
(* one file is the whole state.  Transactions are actions, as in S3Uploads:   *)
(* each takes the files row first and re-reads uploads and leases under it.   *)
(* finalize_reclaim is the exception: its NOT EXISTS(uploads) may be older    *)
(* than the lock; the claim it would miss has renewed the lease, which the    *)
(* next statement checks, so it rolls back.                                   *)
EXTENDS Naturals, FiniteSets

CONSTANTS
  Parts, Data,  \* part numbers, and bodies of a part or of a single object
  Fits,         \* the bodies of the declared size and, if declared, MD5
  Requests,     \* API requests running at one time, on any pod
  Workers,      \* reconciler passes running at one time
  MaxLate,      \* bound on provider calls in flight without a caller
  MaxReads,     \* bound on read leases at one time, 0 or 1
  Nothing

ASSUME NativeAssumption ==
  /\ Fits \subseteq Data
  /\ MaxLate \in Nat /\ MaxReads \in {0, 1}
  /\ Nothing \notin Data
  /\ Nothing \notin [Parts -> Data]

VARIABLES
  file,      \* files.state; "none" before the insert, "gone" after the prune
  multi,     \* files.part_size IS NOT NULL
  upload,    \* uploads.state; "none" when there is no uploads row
  claim,     \* uploads.expected_etag, as the list of parts it is computed from
  lease,     \* write lease: state, with "lapsed" = issued and past expires_at
  handle,    \* leases.upload_id is recorded
  secret,    \* leases.secret_hash is recorded
  recorded,  \* leases.uploaded_size and uploaded_md5, as the body they name
  ledger,    \* lease_parts: state and measured body of each part
  located,   \* the locations row exists
  etag,      \* files.etag, as the content it names
  due,       \* recovery_after has passed
  reads,     \* a read lease, with the states of lease
  relay,     \* storages.force_relay
  url,       \* presigned PUT or UploadPart URLs: "none", "valid", "expired"
  object,    \* provider: the object under the file's object_key
  session,   \* provider: the multipart session
  vpart,     \* provider: the parts of that session
  reading,   \* what a download that is open delivers
  late,      \* provider calls still in flight after their caller went away
  req, worker

leaserow == <<lease, handle, secret, recorded, ledger>>
rows     == <<file, multi, upload, claim, leaserow, located, etag, due>>
provider == <<object, session, vpart>>
outside  == <<reads, relay, url, reading>>
vars     == <<rows, provider, outside, late, req, worker>>

Lists  == [Parts -> Data]
Bodies == Data \cup Lists

Idle   == [at |-> "idle", op |-> "none", part |-> Nothing, body |-> Nothing, mode |-> FALSE]
Asleep == [at |-> "idle", job |-> "none", want |-> Nothing, mode |-> FALSE]
NoParts == [p \in Parts |-> [state |-> "absent", md5 |-> Nothing]]
NoVendorParts == [p \in Parts |-> Nothing]

Init ==
  /\ file = "none" /\ multi = FALSE /\ upload = "none" /\ claim = Nothing
  /\ lease = "none" /\ handle = FALSE /\ secret = FALSE
  /\ recorded = Nothing /\ ledger = NoParts
  /\ located = FALSE /\ etag = Nothing /\ due = FALSE
  /\ reads = "none" /\ relay \in BOOLEAN /\ url = "none" /\ reading = Nothing
  /\ object = Nothing /\ session = "none" /\ vpart = NoVendorParts
  /\ late = {}
  /\ req = [r \in Requests |-> Idle]
  /\ worker = [w \in Workers |-> Asleep]

-----------------------------------------------------------------------------
(* The external provider, with the delivery of S3Uploads: the attempt that is *)
(* answered is applied, one given up on is applied never or later.            *)

PutObject(b) == object' = b /\ UNCHANGED <<session, vpart>>

CreateSession ==
  /\ session = "none" /\ session' = "open"
  /\ UNCHANGED <<object, vpart>>

UploadPart(p, b) ==
  /\ session = "open"
  /\ vpart' = [vpart EXCEPT ![p] = b]
  /\ UNCHANGED <<object, session>>

(* the provider compares the ETags it is sent with those of the parts it has  *)
CompleteSession(list) ==
  /\ session = "open" /\ vpart = list
  /\ object' = list /\ session' = "closed" /\ vpart' = NoVendorParts

CloseSession ==
  IF session = "open"
  THEN session' = "closed" /\ vpart' = NoVendorParts
  ELSE UNCHANGED <<session, vpart>>

AbortSession == CloseSession /\ UNCHANGED object
DeleteObject == object' = Nothing /\ UNCHANGED <<session, vpart>>
CleanupUpload == CloseSession /\ object' = Nothing

Apply(c) ==
  \/ c.op = "put"      /\ PutObject(c.body)
  \/ c.op = "create"   /\ CreateSession
  \/ c.op = "part"     /\ UploadPart(c.part, c.body)
  \/ c.op = "complete" /\ CompleteSession(c.body)
  \/ c.op = "abort"    /\ AbortSession
  \/ c.op = "remove"   /\ DeleteObject
  \/ c.op = "cleanup"  /\ CleanupUpload

Call(op, p, b) == [op |-> op, part |-> p, body |-> b]
CallOf(x) == Call(x.op, x.part, x.body)

Abandon(c) == late' \in {l \in {late, late \cup {c}} : Cardinality(l) <= MaxLate}

(* a late cleanup may have taken effect by halves *)
LateApplies(c) ==
  /\ c \in late
  /\ late' = late \ {c}
  /\ \/ Apply(c)
     \/ c.op = "cleanup" /\ Apply([c EXCEPT !.op = "abort"])
     \/ c.op = "cleanup" /\ Apply([c EXCEPT !.op = "remove"])
  /\ UNCHANGED <<rows, outside, req, worker>>

(* The bearer of a presigned URL writes to the provider at any time while the *)
(* URL is valid; "expired" comes after the last write begun with it.          *)
DirectPut(d) ==
  /\ url = "valid" /\ ~multi
  /\ PutObject(d)
  /\ UNCHANGED <<rows, outside, late, req, worker>>

DirectPart(p, d) ==
  /\ url = "valid" /\ multi
  /\ UploadPart(p, d)
  /\ UNCHANGED <<rows, outside, late, req, worker>>

UrlExpires ==
  /\ url = "valid"
  /\ url' = "expired"
  /\ UNCHANGED <<rows, reads, relay, reading, provider, late, req, worker>>

(* Address and bucket are frozen while a location exists; force_relay is not. *)
ReplaceStorage ==
  /\ relay' = ~relay
  /\ UNCHANGED <<rows, reads, url, reading, provider, late, req, worker>>

-----------------------------------------------------------------------------
(* Transactions of db::files on the pending file.                             *)

LeaseHeld   == lease \in {"issued", "lapsed"}             \* leases.state = 'issued'
Settled(s)  == IF LeaseHeld THEN s ELSE lease
Unowned     == file = "pending" /\ upload = "none"
PartClaimed == \E p \in Parts : ledger[p].state = "claimed"

(* claim_relay_upload holds the files row until its transaction ends; every   *)
(* other transaction on the pending file waits for it.                        *)
Locked == \E r \in Requests : req[r].op = "put"

(* Mutant: an expired or taken-over pending file is committed all the same. *)
CommittableAlways == file \in {"pending", "reclaimed"}
Committable == file = "pending" /\ upload = "none"

FinalizeCommit(b) ==
  /\ ~Locked
  /\ \/ /\ Committable
        /\ file' = "active" /\ etag' = b /\ lease' = Settled("committed")
        /\ UNCHANGED <<multi, upload, claim, handle, secret, recorded, ledger, located, due>>
     \/ ~Committable /\ UNCHANGED rows

Claimable == Unowned /\ multi /\ LeaseHeld /\ ~PartClaimed

ClaimCompletion(b) ==
  /\ Claimable
  /\ upload' = "completing" /\ claim' = b /\ lease' = "issued" /\ due' = TRUE
  /\ UNCHANGED <<file, multi, handle, secret, recorded, ledger, located, etag>>

Finalizable(b) == file = "pending" /\ upload = "completing" /\ claim = b

FinalizeCompletion(b) ==
  \/ /\ Finalizable(b)
     /\ file' = "active" /\ etag' = b /\ lease' = Settled("committed")
     /\ upload' = "none" /\ claim' = Nothing
     /\ UNCHANGED <<multi, handle, secret, recorded, ledger, located, due>>
  \/ ~Finalizable(b) /\ UNCHANGED rows

-----------------------------------------------------------------------------
(* API requests.  "calling" awaits the provider, "answered" has its success.  *)

Start(r, at, op, p, b) ==
  /\ req[r] = Idle
  /\ req' = [req EXCEPT ![r] = [at |-> at, op |-> op, part |-> p, body |-> b, mode |-> relay]]
At(r, at, op) == req[r].at = at /\ req[r].op = op
Move(r, at)   == req' = [req EXCEPT ![r].at = at]
Return(r)     == req' = [req EXCEPT ![r] = Idle]

Reserve(m) ==
  /\ file = "none"
  /\ file' = "pending" /\ multi' = m /\ lease' = "issued" /\ located' = TRUE /\ due' = TRUE
  /\ UNCHANGED <<upload, claim, handle, recorded, ledger, etag>>

CreateSingle ==
  /\ Reserve(FALSE)
  /\ secret' = relay
  /\ url' = IF relay THEN "none" ELSE "valid"
  /\ UNCHANGED <<reads, relay, reading, provider, late, req, worker>>

CreateMultipart(r) ==
  /\ Reserve(TRUE)
  /\ Start(r, "calling", "create", Nothing, Nothing)
  /\ UNCHANGED <<secret, outside, provider, late, worker>>

AttachUploadId(r) ==
  /\ At(r, "answered", "create")
  /\ handle' = (lease # "none") /\ secret' = (lease # "none" /\ req[r].mode)
  /\ Return(r)
  /\ UNCHANGED <<file, multi, upload, claim, lease, recorded, ledger, located, etag, due,
                 outside, provider, late, worker>>

(* compensation of a failed create: abort by id, or by key when it is unknown *)
CreateFails(r) ==
  /\ \/ At(r, "calling", "create") /\ Abandon(CallOf(req[r])) /\ UNCHANGED handle
     \/ At(r, "answered", "create") /\ handle' \in {handle, lease # "none"} /\ UNCHANGED late
  /\ req' = [req EXCEPT ![r].at = "calling", ![r].op = "abort"]
  /\ UNCHANGED <<file, multi, upload, claim, lease, secret, recorded, ledger, located, etag,
                 due, outside, provider, worker>>

ReclaimPending(r) ==
  /\ At(r, "answered", "abort")
  /\ \/ /\ Unowned
        /\ file' = "reclaimed" /\ lease' = Settled("expired") /\ located' = FALSE
        /\ UNCHANGED <<multi, upload, claim, handle, secret, recorded, ledger, etag, due>>
     \/ ~Unowned /\ UNCHANGED rows
  /\ Return(r)
  /\ UNCHANGED <<outside, provider, late, worker>>

(* POST /files/{id}/parts: the lease is renewed while it has not lapsed *)
IssueParts ==
  /\ Unowned /\ multi /\ located /\ lease = "issued" /\ handle /\ ~relay
  /\ url' = "valid"
  /\ UNCHANGED <<rows, reads, relay, reading, provider, late, req, worker>>

(* PUT /blobs/{lease} of a single upload *)
RelayPut(r, d) ==
  /\ Unowned /\ ~multi /\ located /\ secret /\ lease = "issued" /\ ~Locked
  /\ Start(r, "spooling", "put", Nothing, d)
  /\ UNCHANGED <<rows, outside, provider, late, worker>>

Record(b) ==
  /\ recorded' = b /\ lease' = "issued"
  /\ UNCHANGED <<file, multi, upload, claim, handle, secret, ledger, located, etag, due>>

(* Mutant: a second upload replaces the first. *)
PromotedAgain(b) == b \in Fits
Promoted(b) == b \in Fits /\ recorded = Nothing

Spooled(r) ==
  /\ At(r, "spooling", "put")
  /\ \/ Promoted(req[r].body) /\ Move(r, "calling") /\ UNCHANGED rows
     \/ ~Promoted(req[r].body) /\ recorded = req[r].body /\ Record(recorded) /\ Return(r)
     \/ ~Promoted(req[r].body) /\ recorded # req[r].body /\ Return(r) /\ UNCHANGED rows
  /\ UNCHANGED <<outside, provider, late, worker>>

RecordUpload(r) ==
  /\ At(r, "answered", "put")
  /\ Record(req[r].body)
  /\ Return(r)
  /\ UNCHANGED <<outside, provider, late, worker>>

(* PUT /blobs/{lease}?part=n *)
ClaimPart(r, p, d) ==
  /\ Unowned /\ multi /\ located /\ secret /\ handle /\ lease = "issued"
  /\ ledger[p].state # "claimed"
  /\ d \in Fits
  /\ ledger' = [ledger EXCEPT ![p].state = "claimed"]
  /\ Start(r, "calling", "part", p, d)
  /\ UNCHANGED <<file, multi, upload, claim, lease, handle, secret, recorded, located, etag,
                 due, outside, provider, late, worker>>

SetPart(p, row) ==
  /\ ledger' = [ledger EXCEPT ![p] = row]
  /\ UNCHANGED <<file, multi, upload, claim, lease, handle, secret, recorded, located, etag, due>>

Finishable(p) == file = "pending" /\ ledger[p].state = "claimed"

FinishPart(r) ==
  /\ At(r, "answered", "part")
  /\ LET p == req[r].part IN
       \/ Finishable(p) /\ SetPart(p, [state |-> "done", md5 |-> req[r].body])
       \/ ~Finishable(p) /\ UNCHANGED rows
  /\ Return(r)
  /\ UNCHANGED <<outside, provider, late, worker>>

(* Mutant: a first attempt that fails is recorded as done. *)
RestoredDone(row) == [row EXCEPT !.state = "done"]
Restored(row) == [row EXCEPT !.state = IF row.md5 = Nothing THEN "absent" ELSE "done"]

CancelPart(r) ==
  /\ At(r, "calling", "part")
  /\ Abandon(CallOf(req[r]))
  /\ LET p == req[r].part  row == ledger[p] IN
       \/ row.state = "claimed" /\ SetPart(p, Restored(row))
       \/ row.state # "claimed" /\ UNCHANGED rows
  /\ Return(r)
  /\ UNCHANGED <<outside, provider, worker>>

(* POST /files/{id}/commit.  A direct upload is observed at the provider      *)
(* before, and outside, the transaction that acts on the observation.         *)
Uploaded(mode) == IF mode THEN recorded ELSE object

Accepted(b) == b \in Fits

ObserveForCommit(r) ==
  /\ file = "pending" /\ ~multi /\ located
  /\ Accepted(Uploaded(relay))
  /\ Start(r, "observed", "commit", Nothing, Uploaded(relay))
  /\ UNCHANGED <<rows, outside, provider, late, worker>>

CommitSingle(r) ==
  /\ At(r, "observed", "commit")
  /\ FinalizeCommit(req[r].body)
  /\ Return(r)
  /\ UNCHANGED <<outside, provider, late, worker>>

ListParts(r) ==
  /\ file = "pending" /\ multi /\ located /\ handle /\ ~relay
  /\ session = "open"
  /\ \A p \in Parts : vpart[p] \in Fits
  /\ Start(r, "listed", "complete", Nothing, vpart)
  /\ UNCHANGED <<rows, outside, provider, late, worker>>

ClaimListed(r) ==
  /\ At(r, "listed", "complete")
  /\ \/ ClaimCompletion(req[r].body) /\ Move(r, "calling")
     \/ ~Claimable /\ UNCHANGED rows /\ Return(r)
  /\ UNCHANGED <<outside, provider, late, worker>>

LedgerList == [p \in Parts |-> ledger[p].md5]

CompleteRelayed(r) ==
  /\ located /\ relay
  /\ \A p \in Parts : ledger[p].state # "absent"   \* a claimed part makes it busy
  /\ ClaimCompletion(LedgerList)
  /\ Start(r, "calling", "complete", Nothing, LedgerList)
  /\ UNCHANGED <<outside, provider, late, worker>>

CommitMultipart(r) ==
  /\ At(r, "answered", "complete")
  /\ FinalizeCompletion(req[r].body)
  /\ Return(r)
  /\ UNCHANGED <<outside, provider, late, worker>>

ProviderAnswers(r) ==
  /\ req[r].at = "calling"
  /\ Apply(CallOf(req[r]))
  /\ Abandon(CallOf(req[r]))
  /\ Move(r, "answered")
  /\ UNCHANGED <<rows, outside, worker>>

StillOwned(r) ==
  \/ At(r, "calling", "complete") /\ file = "pending" /\ upload = "completing"
  \/ At(r, "calling", "part") /\ Unowned /\ ledger[req[r].part].state = "claimed"

Heartbeat(r) ==
  /\ StillOwned(r)
  /\ lease = "lapsed" /\ lease' = "issued"
  /\ UNCHANGED <<file, multi, upload, claim, handle, secret, recorded, ledger, located, etag,
                 due, outside, provider, late, req, worker>>

(* Crash, cancellation, lost ownership, failed spool, provider or database.   *)
(* A relayed PUT whose database connection is lost goes on at the provider.   *)
RequestDies(r) ==
  /\ req[r] # Idle
  /\ IF req[r].at = "calling" THEN Abandon(CallOf(req[r])) ELSE UNCHANGED late
  /\ Return(r)
  /\ UNCHANGED <<rows, outside, provider, worker>>

MarkDeleted ==
  /\ file = "active"
  /\ file' = "deleted" /\ due' = TRUE
  /\ UNCHANGED <<multi, upload, claim, leaserow, located, etag, outside, provider, late,
                 req, worker>>

-----------------------------------------------------------------------------
(* Reads.  A direct read is a presigned GET whose lease row is only an audit  *)
(* record; a relayed one is checked against the lease and the location.       *)

(* Mutant: a file is readable as soon as it has an object key. *)
ReadableEarly == file \in {"pending", "active"}
Readable == file = "active"

IssueRead ==
  /\ Readable /\ located /\ reads = "none" /\ MaxReads > 0
  /\ reads' = "issued"
  /\ UNCHANGED <<rows, relay, url, reading, provider, late, req, worker>>

Download ==
  /\ reads = "issued" /\ (relay => located)
  /\ reading = Nothing /\ reading' = object
  /\ UNCHANGED <<rows, reads, relay, url, provider, late, req, worker>>

DownloadEnds ==
  /\ reading # Nothing /\ reading' = Nothing
  /\ UNCHANGED <<rows, reads, relay, url, provider, late, req, worker>>

ReadLeaseMoves(from, to) ==
  /\ reads = from /\ reads' = to
  /\ UNCHANGED <<rows, relay, url, reading, provider, late, req, worker>>

ReadLapses == ReadLeaseMoves("issued", "lapsed")
ExpireReadLease == ReadLeaseMoves("lapsed", "expired")
PruneReadLease ==
  upload = "none" /\ ~(file = "reclaimed" /\ located) /\ ReadLeaseMoves("expired", "none")

-----------------------------------------------------------------------------
(* Time, as in S3Uploads: a renewed lease and a retry delay outlast a pass.   *)

LeaseLapses ==
  /\ lease = "issued" /\ lease' = "lapsed"
  /\ \A w \in Workers : worker[w].job # "complete"
  /\ UNCHANGED <<file, multi, upload, claim, handle, secret, recorded, ledger, located, etag,
                 due, outside, provider, late, req, worker>>

RetryDue ==
  /\ file # "none" /\ ~due /\ due' = TRUE
  /\ \A w \in Workers : worker[w] = Asleep
  /\ UNCHANGED <<file, multi, upload, claim, leaserow, located, etag, outside, provider, late,
                 req, worker>>

-----------------------------------------------------------------------------
(* Reconciler jobs.                                                           *)

BeginRecovery(w, job, at) ==
  /\ worker[w] = Asleep
  /\ due /\ due' = FALSE
  /\ worker' = [worker EXCEPT ![w] = [at |-> at, job |-> job, want |-> claim, mode |-> relay]]
  /\ UNCHANGED <<file, multi, upload, claim, leaserow, located, etag, outside, provider, late, req>>

ExpiredCompletion == file = "pending" /\ upload = "completing" /\ lease = "lapsed"

(* Mutants: the sweep does not wait for the reclaim; a reclaimed file, or a   *)
(* cleanup, needs a lease that is alive.                                      *)
ReclaimedOrLapsed == located /\ (file = "reclaimed" \/ (file = "pending" /\ lease = "lapsed"))
ReclaimedWithLease == file = "reclaimed" /\ located /\ LeaseHeld
ReclaimCandidate == file = "reclaimed" /\ located /\ upload = "none"
CleanupWithLease == file = "pending" /\ upload = "cleaning" /\ LeaseHeld
CleanupCandidate == file = "pending" /\ upload = "cleaning"
Purgeable == file = "deleted" /\ located /\ upload = "none"

RecoverObserve(w) ==
  /\ Unowned /\ ~multi /\ located /\ lease = "issued" /\ ~Locked
  /\ BeginRecovery(w, "observe", "observing")
RecoverCompletion(w) == ExpiredCompletion /\ BeginRecovery(w, "complete", "observing")
RecoverCleaning(w)   == CleanupCandidate /\ BeginRecovery(w, "cleanup", "sweeping")
RecoverReclaimed(w)  == ReclaimCandidate /\ BeginRecovery(w, "reclaim", "sweeping")
RecoverDeleted(w)    == Purgeable /\ BeginRecovery(w, "remove", "sweeping")

(* Mutants: an unexpected object is left alone; an absent one is given up. *)
CompletionUndecided(want) == IF object = want THEN "finalize" ELSE "idle"
CompletionForced(want) == IF object = Nothing THEN "reopen" ELSE "finalize"
CompletionAction(want) ==
  IF object = want THEN "finalize" ELSE IF object = Nothing THEN "reopen" ELSE "clean"

Observe(w) ==
  /\ worker[w].at = "observing"
  /\ \/ /\ worker[w].job = "complete"
        /\ worker' = [worker EXCEPT ![w].at = CompletionAction(worker[w].want)]
     \/ /\ worker[w].job = "observe"
        /\ LET b == Uploaded(worker[w].mode) IN
             worker' = [worker EXCEPT ![w] = IF Accepted(b)
                                             THEN [@ EXCEPT !.at = "commit", !.want = b]
                                             ELSE Asleep]
  /\ UNCHANGED <<rows, outside, provider, late, req>>

ReopenCompletion ==
  /\ ExpiredCompletion
  /\ upload' = "none" /\ claim' = Nothing /\ lease' = "issued"
  /\ UNCHANGED <<file, multi, handle, secret, recorded, ledger, located, etag, due>>

ClaimCleanup ==
  /\ ExpiredCompletion
  /\ upload' = "cleaning" /\ lease' = "expired" /\ due' = TRUE
  /\ UNCHANGED <<file, multi, claim, handle, secret, recorded, ledger, located, etag>>

Act(w) ==
  /\ \/ worker[w].at = "commit" /\ FinalizeCommit(worker[w].want)
     \/ worker[w].at = "finalize" /\ FinalizeCompletion(worker[w].want)
     \/ worker[w].at = "reopen" /\ ReopenCompletion
     \/ worker[w].at = "clean" /\ ClaimCleanup
     \/ worker[w].at \in {"reopen", "clean"} /\ ~ExpiredCompletion /\ UNCHANGED rows
  /\ worker' = [worker EXCEPT ![w] = Asleep]
  /\ UNCHANGED <<outside, provider, late, req>>

SweepCall(w) ==
  Call(IF multi /\ worker[w].job # "remove" THEN "cleanup" ELSE "remove", Nothing, Nothing)

SweepObject(w) ==
  /\ worker[w].at = "sweeping"
  /\ Apply(SweepCall(w))
  /\ Abandon(SweepCall(w))
  /\ worker' = [worker EXCEPT ![w].at = "swept"]
  /\ UNCHANGED <<rows, outside, req>>

FinalizeCleanup ==
  \/ /\ file = "pending" /\ upload = "cleaning"
     /\ file' = "reclaimed" /\ located' = FALSE /\ upload' = "none" /\ claim' = Nothing
     /\ UNCHANGED <<multi, leaserow, etag, due>>
  \/ ~(file = "pending" /\ upload = "cleaning") /\ UNCHANGED rows

(* finalize_reclaim_cleanup and finalize_purge *)
ReleaseLocation(state) ==
  /\ located' = (located /\ file # state)
  /\ UNCHANGED <<file, multi, upload, claim, leaserow, etag, due>>

FinishSweep(w) ==
  /\ worker[w].at = "swept"
  /\ \/ worker[w].job = "cleanup" /\ FinalizeCleanup
     \/ worker[w].job = "reclaim" /\ ReleaseLocation("reclaimed")
     \/ worker[w].job = "remove" /\ ReleaseLocation("deleted")
  /\ worker' = [worker EXCEPT ![w] = Asleep]
  /\ UNCHANGED <<outside, provider, late, req>>

PassStops(w) ==
  /\ worker[w] # Asleep
  /\ IF worker[w].at = "sweeping" THEN Abandon(SweepCall(w)) ELSE UNCHANGED late
  /\ worker' = [worker EXCEPT ![w] = Asleep]
  /\ UNCHANGED <<rows, outside, provider, req>>

Reclaimable == Unowned /\ lease = "lapsed" /\ ~Locked

ReclaimExpired ==
  /\ Reclaimable
  /\ file' = "reclaimed" /\ lease' = "expired" /\ due' = TRUE
  /\ UNCHANGED <<multi, upload, claim, handle, secret, recorded, ledger, located, etag,
                 outside, provider, late, req, worker>>

(* Mutant: terminal leases are collected whoever still needs their handle. *)
LeasePrunableEarly == lease \in {"committed", "expired"}
LeasePrunable ==
  /\ lease \in {"committed", "expired"}
  /\ upload = "none" /\ ~(file = "reclaimed" /\ located)

PruneLease ==
  /\ LeasePrunable
  /\ lease' = "none" /\ handle' = FALSE /\ secret' = FALSE
  /\ recorded' = Nothing /\ ledger' = NoParts
  /\ UNCHANGED <<file, multi, upload, claim, located, etag, due, outside, provider, late,
                 req, worker>>

PruneFile ==
  /\ file \in {"deleted", "reclaimed"}
  /\ ~located /\ lease = "none" /\ reads = "none" /\ upload = "none"
  /\ file' = "gone"
  /\ UNCHANGED <<multi, upload, claim, leaserow, located, etag, due, outside, provider, late,
                 req, worker>>

-----------------------------------------------------------------------------
Continue(r) ==
  \/ AttachUploadId(r) \/ CreateFails(r) \/ ReclaimPending(r)
  \/ Spooled(r) \/ RecordUpload(r) \/ FinishPart(r) \/ CancelPart(r)
  \/ CommitSingle(r) \/ ClaimListed(r) \/ CommitMultipart(r)
  \/ ProviderAnswers(r) \/ RequestDies(r)

RequestStep(r) ==
  \/ Continue(r) \/ Heartbeat(r) \/ CreateMultipart(r)
  \/ ObserveForCommit(r) \/ ListParts(r) \/ CompleteRelayed(r)
  \/ \E d \in Data : RelayPut(r, d) \/ \E p \in Parts : ClaimPart(r, p, d)

ContinuePass(w) == Observe(w) \/ Act(w) \/ SweepObject(w) \/ FinishSweep(w) \/ PassStops(w)

PassStep(w) ==
  \/ RecoverObserve(w) \/ RecoverCompletion(w) \/ RecoverCleaning(w)
  \/ RecoverReclaimed(w) \/ RecoverDeleted(w) \/ ContinuePass(w)

Direct == \E d \in Data : DirectPut(d) \/ \E p \in Parts : DirectPart(p, d)

Next ==
  \/ \E r \in Requests : RequestStep(r)
  \/ \E w \in Workers : PassStep(w)
  \/ \E c \in late : LateApplies(c)
  \/ Direct \/ UrlExpires \/ ReplaceStorage
  \/ CreateSingle \/ IssueParts \/ MarkDeleted
  \/ IssueRead \/ Download \/ DownloadEnds
  \/ ReadLapses \/ ExpireReadLease \/ PruneReadLease
  \/ LeaseLapses \/ RetryDue
  \/ ReclaimExpired \/ PruneLease \/ PruneFile

Spec == Init /\ [][Next]_vars

(* Fairness, as in S3Uploads: requests and passes end; time passes, and a     *)
(* lease lapses that no heartbeat, upload or freshly issued URL renews; every *)
(* job gets its turn, and neither the provider nor the database fails the     *)
(* passes for ever.                                                           *)
Unrenewed  == url # "valid" /\ ~Locked /\ \A r \in Requests : ~StillOwned(r)
Unattended == url # "valid" /\ \A r \in Requests : req[r] = Idle

FairSpec ==
  /\ Spec
  /\ \A r \in Requests : WF_vars(Continue(r))
  /\ WF_vars(UrlExpires)
  /\ WF_vars(Unrenewed /\ LeaseLapses)
  /\ WF_vars(RetryDue)
  /\ WF_vars(ReclaimExpired)
  /\ \A w \in Workers :
       /\ WF_vars(ContinuePass(w))
       /\ SF_vars(RecoverCompletion(w)) /\ SF_vars(RecoverCleaning(w))
       /\ SF_vars(RecoverReclaimed(w))  /\ SF_vars(RecoverDeleted(w))
       /\ SF_vars(Observe(w)) /\ SF_vars(Act(w))
       /\ SF_vars(SweepObject(w)) /\ SF_vars(FinishSweep(w))

-----------------------------------------------------------------------------
PartRows ==
  [state : {"absent"}, md5 : {Nothing}]
    \cup [state : {"claimed"}, md5 : Data \cup {Nothing}]
    \cup [state : {"done"}, md5 : Data]

CallStates ==
  [op : {"put"}, part : {Nothing}, body : Data]
    \cup [op : {"create", "abort", "cleanup", "remove"}, part : {Nothing}, body : {Nothing}]
    \cup [op : {"part"}, part : Parts, body : Data]
    \cup [op : {"complete"}, part : {Nothing}, body : Lists]

RequestStates ==
  {Idle}
    \cup [at : {"spooling", "calling", "answered"}, op : {"put"},
          part : {Nothing}, body : Data, mode : BOOLEAN]
    \cup [at : {"calling", "answered"}, op : {"create", "abort"},
          part : {Nothing}, body : {Nothing}, mode : BOOLEAN]
    \cup [at : {"calling", "answered"}, op : {"part"},
          part : Parts, body : Data, mode : BOOLEAN]
    \cup [at : {"observed"}, op : {"commit"}, part : {Nothing}, body : Bodies, mode : BOOLEAN]
    \cup [at : {"listed", "calling", "answered"}, op : {"complete"},
          part : {Nothing}, body : Lists, mode : BOOLEAN]

WorkerStates ==
  {Asleep}
    \cup [at : {"observing", "commit"}, job : {"observe"},
          want : Bodies \cup {Nothing}, mode : BOOLEAN]
    \cup [at : {"observing", "finalize", "reopen", "clean"}, job : {"complete"},
          want : Lists, mode : BOOLEAN]
    \cup [at : {"sweeping", "swept"}, job : {"cleanup", "reclaim", "remove"},
          want : Lists \cup {Nothing}, mode : BOOLEAN]

(* The rows keep to the CHECK constraints of their tables, with the ETag of   *)
(* an active file and the claim of a completing one recorded, and a request   *)
(* or a pass that has got as far as a call holds what the call needs.         *)
TypeOK ==
  /\ file \in {"none", "pending", "active", "deleted", "reclaimed", "gone"}
  /\ multi \in BOOLEAN
  /\ upload \in {"none", "completing", "cleaning"}
  /\ claim \in IF upload = "none" THEN {Nothing} ELSE Lists
  /\ lease \in {"none", "issued", "lapsed", "committed", "expired"}
  /\ handle \in BOOLEAN /\ secret \in BOOLEAN
  /\ recorded \in Data \cup {Nothing}
  /\ ledger \in [Parts -> PartRows]
  /\ located \in BOOLEAN
  /\ etag \in Bodies \cup {Nothing}
  /\ due \in BOOLEAN
  /\ reads \in {"none", "issued", "lapsed", "expired"}
  /\ relay \in BOOLEAN
  /\ url \in {"none", "valid", "expired"}
  /\ object \in Bodies \cup {Nothing} /\ reading \in Bodies \cup {Nothing}
  /\ session \in {"none", "open", "closed"}
  /\ vpart \in [Parts -> Data \cup {Nothing}]
  /\ late \subseteq CallStates
  /\ req \in [Requests -> RequestStates]
  /\ worker \in [Workers -> WorkerStates]

(* The fate of a pending file is decided by its uploads row.                  *)
Life == IF file = "pending" /\ upload # "none" THEN upload ELSE file

Transitions ==
  {<<"none", "pending">>, <<"pending", "active">>, <<"pending", "completing">>,
   <<"completing", "active">>, <<"completing", "pending">>, <<"completing", "cleaning">>,
   <<"cleaning", "reclaimed">>, <<"pending", "reclaimed">>,
   <<"active", "deleted">>, <<"deleted", "gone">>, <<"reclaimed", "gone">>}

(* The state diagrams of spec 00 and spec 02: no handler, whatever it read    *)
(* before it took the file lock, moves a file along any other edge; a         *)
(* multipart file becomes active through its completion claim only.           *)
LifecycleStep ==
  /\ Life' = Life \/ <<Life, Life'>> \in Transitions
  /\ Life = "pending" /\ Life' = "active" => ~multi

FollowsLifecycle == [][LifecycleStep]_vars

Condemned ==
  file \in {"deleted", "reclaimed", "gone"} \/ (file = "pending" /\ upload = "cleaning")

(* Whatever a pass has sent, or left in flight when it timed out, cannot      *)
(* reach the object of a file that is active or may still become so.          *)
DeletesOnlyCondemned ==
  \/ Condemned
  \/ /\ \A c \in late : c.op \notin {"cleanup", "remove"}
     /\ \A w \in Workers : worker[w].at # "sweeping"

(* The ETag of an active multipart file is that of its object: parts written  *)
(* by URLs that are still valid, by a relayed upload that lost its claim, or  *)
(* by a late call, never get into what a commit or a recovery has published.  *)
MultipartIsFaithful ==
  file = "active" /\ multi => located /\ object # Nothing /\ object = etag

(* Every pending file stays in the scan of a job: the rows that the scans     *)
(* join (location, write lease in its state) outlive every step.  So does a   *)
(* reclaimed file whose provider session only its lease row can name.         *)
AlwaysScannable ==
  /\ file = "pending" =>
       /\ located
       /\ IF upload = "cleaning" THEN lease # "none" ELSE LeaseHeld
  /\ file = "reclaimed" /\ located => lease # "none"

(* A relayed single upload that was recorded, hence acknowledged, stays what  *)
(* the provider holds, whatever later uploads of the same lease, their        *)
(* failures and their crashes do (comment at lease_relay.rs:169).  It is      *)
(* about calls that end with their callers: see RelayedIsKept.                *)
RecordedIsStored ==
  url = "none" /\ ~multi /\ recorded # Nothing /\ file \in {"pending", "active"}
    => object = recorded

(* A completion is concluded: the claim of a request that is gone is found    *)
(* by recovery and finalized, reopened or cleaned.                            *)
CompletionConcludes == upload = "completing" ~> upload # "completing"

(* A file nobody works on any more is published or reclaimed.                 *)
AbandonedFileSettles == (<>[]Unattended) => []<>(file # "pending")

(* A file that is reclaimed or deleted gives up its object and its location,  *)
(* whether the expiry scan, the cleanup of a completion or the client's       *)
(* delete condemned it.                                                       *)
CondemnedIsReleased == Condemned ~> ~located

-----------------------------------------------------------------------------
(* A multipart file keeps the promise of WriteOnce.                           *)
FateOf(s) == CASE s = "none" -> "unborn"
               [] s = "pending" -> "running"
               [] s = "active" -> "visible"
               [] OTHER -> "dropped"

Store == INSTANCE WriteOnce WITH
  Contents <- Lists \cup {Nothing},
  fate     <- FateOf(file),
  content  <- IF multi THEN etag ELSE Nothing,
  served   <- IF multi THEN reading ELSE Nothing

ImplementsWriteOnce == Store!Spec

(* spec 00: of two uploads of one relayed file, "the bytes that succeeded are *)
(* kept".                                                                     *)
RelayedIsKept == RecordedIsStored
=============================================================================
