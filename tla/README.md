# Grove Storage: TLA+ models and proofs

Grove Storage is an S3-compatible gateway: clients speak S3 or a native HTTP API to
it, metadata is kept in PostgreSQL, and the bytes go to external S3 providers.  The
hard part is that no transaction spans the database and the provider.  Every upload
is a small state machine in the database, the provider is told what to do between
two of its transactions, and a reconciler on some pod finishes, reopens or undoes
what a request left behind.  This directory models that machinery.

Paths below are relative to `src/backend/crates/` unless they begin with `docs/`.

## 1. The system

| Part | State it keeps | Operations | Talks to |
|---|---|---|---|
| S3 upload registry (`db/src/s3_registry/uploads.rs`) | `uploads` (open, completing, cleaning; expected size and ETag), `lease_parts` | create, claim completion, claim/renew/finish/cancel part, claim abort, finalize, reopen, mark aborting, expire | `files`, `leases`, `locations` |
| S3 key table (`db/src/s3_registry/keys.rs`) | `s3_object_keys` | insert or replace inside a finalization, delete, detach the displaced file | `files` |
| S3 handlers (`api/src/s3/`) | the request in progress | PutObject, Create/UploadPart/Complete/Abort, GET, HEAD, DELETE | registry, provider, spool |
| Lease heartbeat (`api/src/lease.rs`) | none | renews the write lease every TTL/3 while a provider call runs; cancels it when the row is no longer owned | registry |
| Reconciler (`api/src/reconciler*`) | schedule cursor, advisory lock | 13 jobs: observe, complete, clean up, expire, reclaim, purge, prune, snapshot | registry, files, provider |
| Files (`db/src/files/`) | `files`, `locations`, `leases` | create, commit, delete, reclaim, purge, prune, read leases, native completion | provider |
| Native API (`api/src/native/`) | the request in progress | create, direct or relayed PUT, multipart, commit, read, delete | files, provider, spool |
| Provider gateway (`infra/src/s3_io.rs`, `storage-provider/src/s3.rs`) | client cache | put, multipart, head, delete, abort by id or by key | external S3 |
| Spool (`api/src/spool.rs`) | 16 slots, a byte budget in MiB | reserve, receive with idle and rate limits | disk |
| Object policy (`object-policy/`) | none | multipart geometry, validation, completion decision | |
| Management plane (`management-*`, `db/src/management/`, `api/src/accounts`, `api/src/mcp`) | accounts, sessions, tokens, password set-up links, audit | commands, login, revocation | database |
| Registry, usage, observations, retention (`db/src/*.rs`) | storages, clients, snapshots, histories | register, aggregate, age out | database |
| Logging, metrics, shutdown, OpenAPI, console, CLI | | | |

What makes each part correct, and hard:

* **Upload registry and recovery.**  An upload goes along the state diagram of
  `docs/spec/03-s3-surface.md` and no other way; what becomes active is stored, and is
  described by the size and ETag of what is stored; a completion whose owner is gone
  is concluded; an abandoned upload is published or reclaimed.  Hard: requests and
  passes of several pods interleave, leases lapse under live requests, provider calls
  are lost, repeated by the SDK, or applied after everybody has given up on them.
* **Key table.**  A key's replacement, the activation of the new file and the
  retirement of the old one are one step; `If-None-Match: *` holds under concurrency
  and through recovery.
* **Physical cleanup.**  Only content that can never become visible is deleted; the
  rows that a retry needs stay until the provider has confirmed.
* **Reconciler schedule.**  Every job gets its turn in spite of timeouts and batches.
* **Native uploads.**  As the S3 ones, with two paths (direct, relayed), an observer
  and a generic reclaim that must keep away from uploads owned by a completion.
* **Spool.**  Permits are returned on every path; no partial reservation waits.
* **Management plane.**  Revoked or superseded credentials stop working; one-time
  links work once.

The hazards, with their lines and the properties that answer them, are in
`PROJECT.json`.

## 2. Plan

| # | Modules | What it adds | State |
|---|---|---|---|
| 1 | `S3Uploads`, `MCS3Uploads` | S3 uploads, keys, provider, S3 jobs, purge | done |
| 2 | `KeyedStore` | abstract promise of the S3 surface; refinement checked | done |
| 3 | `S3UploadsProofs`, `S3StorageProofs`, `S3ContentProofs` | types, the key table and the refinement; state diagram, safe deletion, storage of active files; content, ledger and vendor sessions | done |
| 4 | `NativeFile`, `MCNativeFile`, `NativeFileProofs` | the native surface: single and multipart, direct and relayed, reads, every job on a native file | done |
| 5 | `WriteOnce` | abstract promise of the native surface; refinement checked and proved | done |
| 6 | `Accounts`, `MCAccounts`, `AccountsProofs` | accounts, passwords, links, sessions, tokens | done |
| 7 | `Registry`, `Management`, `MCManagement`, `RegistryProofs`, `ManagementProofs` | storages, clients, keys, the client cache; composed with the accounts that may change them | done |
| 8 | `Spool`, `Schedule`, `Server`, `MCServer`, `ServerProofs` | permits, claims, connections; passes, cursor, batches; composed over the pool and the row locks | done |

Which module uses which: `S3Uploads` and `NativeFile` instantiate `KeyedStore` and `WriteOnce`
as what they implement; `Management` extends `Accounts` and instantiates `Registry` with the
rights the accounts give; `Server` extends `Spool` and instantiates `Schedule` with the
connections and row locks the uploads leave.  The upload modules and the others are not
composed: what they share is the rows of a file, which `Registry` and `Schedule` take as
input in the coarse form they need (a location that exists, a row that is locked).

Every safety invariant and action property that a passing run checks is also a theorem
(section 7).  Still worth proving: the step-by-step facts behind the liveness properties, such
as that a claimed candidate goes behind all the others.

## 3. The model of the S3 surface: `S3Uploads`

**Variables.**  `file`, `upload`, `claim`, `lease`, `handle`, `ledger`, `located`,
`etag`, `due` and `key` are the rows.  `file[f]` is `files.state`, with `"none"` before
the insert and `"gone"` after `prune_terminal_files`.  `claim[f]` stands for
`expected_size` and `expected_etag`, as the content they name; a multipart content is a
function from part numbers to part bodies, which is what the composite ETag depends on.
`lease[f]` is the write lease: `"issued"` and `"lapsed"` are both `state = 'issued'`,
before and after `expires_at`.  `handle[f]` says that `leases.upload_id` is recorded.
`due[f]` says that `recovery_after` has passed.  `object`, `session` and `vpart` are the
provider's objects and its multipart session and parts under the file's own
`object_key`; `late` holds provider calls still in flight whose caller has gone.
`req[r]` and `worker[w]` are the requests and reconciler passes, on whatever pod.

**Transactions.**  Each transaction of `db::s3_registry` is one action or one named part
of an action.  That is justified by the code's lock order: each of them first takes the
`files` row with `FOR UPDATE` and reads the upload and lease rows in later statements,
so those on one file are serial.  Transactions that replace a key take two files and
the key row; PostgreSQL's unique index and row locks serialise those too.  An
INSERT that loses to a key which is deleted before the following SELECT fails the
transaction (`keys.rs:52`), which is `RequestDies` in `"answered"` or `PassStops`.

**Requests.**  A request is `"spooling"` (receiving the body), `"calling"` (awaiting the
provider under the heartbeat), `"answered"` (the provider's success is at hand) or
`"aborted"` (a vendor session opened and closed again by a failed create).  Read-only
checks before a claim, and the `extend_write_lease` of UploadPart, are repeated by the
claim's own transaction, so a request starts at its first effective one; a request that
a check turns away changes nothing.  `RequestDies` covers a crash, a client
that goes away, a failed spool, provider or database call, and a heartbeat that finds
the ownership lost: in each the request does nothing more.

**Provider.**  The AWS client is built without a retry or timeout configuration
(`storage-provider/src/s3.rs:119`), so a call is sent up to three times and never times
out by itself.  `ProviderAnswers` applies one attempt and may leave another in flight
(`Abandon`); `RequestDies`, `CancelPart`, `PassStops` and the others that give up on a
call may leave it in flight; `LateApplies` applies it at any later time, cleanup calls
possibly by halves (abort without delete or the reverse).

**Reconciler.**  `BeginRecovery` is `upload_recovery::claim` or `files::claim_recovery`:
the retry time is written before the provider call.  Then the pass observes the object
(`Observe`, deciding by `completion_action`) and makes the transition (`Act`), or sweeps
(`SweepObject`) and releases the rows (`FinishSweep`).  `PassStops` is a timeout or
crash at any point.  Passes are not mutually excluded in the model: the advisory lock
belongs to a connection that can be lost while the pass goes on.  The values a candidate
carries from the scan equal those at `BeginRecovery`: changing them takes a new claim,
which takes a lapsed lease, which takes 15 minutes, while a pass ends after 20 seconds.

**Time.**  There is no clock.  A lease lapses and a retry falls due at any moment, except
under a pass that works on the file (`NoPassOn`): a pass ends within
`PASS_TIMEOUT` = 20 s of its claim, a claim defers the next one by `RECOVERY_RETRY` =
30 s, and a reopened or renewed lease holds for `WRITE_LEASE_TTL` = 15 min.  Leases may
lapse under live requests, heartbeat or not: renewals fail for as long as the database
does, and a suspended process does not renew.

**Abstractions.**  Sizes, checksums and names are dropped except where they decide
something (the claimed content, the conditional header, the key).  The two
`recovery_after` columns are one `due`, because an upload row and a deleted file never
coexist.  There is one vendor session per object key.  CreateMultipartUpload has no
heartbeat: one that takes over 15 minutes may be attached after its cleanup, which the
model includes.  GET and HEAD, signatures, XML and the read leases are not modelled.

**`KeyedStore`** says what a client may rely on: an upload is begun, and either published
under its key in one step that retires the upload it replaces, or dropped; a
conditional upload is published only under a free key; a published one can be
withdrawn.  `Store` maps `fate` from `file`, and `visible` from the keys that name an
active file.

## 4. The other models

### The native surface: `NativeFile` and `WriteOnce`

Native files share no row, object key or provider session with one another, so the module has
one file.  The rows are those of section 3 (a native file has no key row), with
`secret` for `leases.secret_hash` and `recorded` for the size and MD5 that a relayed single PUT
records.  `relay` is `storages.force_relay`, which a command may switch at any moment; a
request and a pass keep the value they were started with (`mode`).  `url` is the set of
presigned write URLs a client holds: a bearer writes with `DirectPut` and `DirectPart`
whenever it likes until they expire, also when the file is active, deleted or purged.
`reads` and `reading` are a read lease and the download open under it.

* **A relayed single PUT** keeps the row of its file locked from the claim to the end of the
  storage call (`Locked`); other transactions on the pending file wait.  The record is made
  after the provider's answer, so a repetition is judged on what was recorded (`Promoted`).
* **Relayed parts** are claimed in the ledger, sent, and marked done or restored
  (`ClaimPart`, `FinishPart`, `CancelPart`); a part whose request dies stays claimed.
* **Commit** of a direct upload acts on an observation made before and outside its transaction
  (`ObserveForCommit`, `CommitSingle`; `ListParts`, `ClaimListed`).
* **Jobs.**  Observe, NativeComplete, NativeCleanup, Reclaim, ReclaimCleanup, Purge, ReadLeases,
  PruneLeases and PruneFiles; those that call the provider are cut in the same steps as in
  section 3.

`WriteOnce` says that the content of a file is fixed when it is committed, and that a download
opened from then on, however late, delivers that content or nothing.  A multipart file
implements it.  A single file is mapped to one whose content says nothing: its URL may
outlive the commit, and the documents leave a late write to the client's care.

### The management plane: `Accounts`, `Registry`, `Management`

Every identity or resource transaction takes one advisory lock, so each is one action; what a
request reads before it, to verify a password or to hash one without holding the lock, is an
action of its own (`Begin`, `IdentifyAgain`, `Verify`), and the commit rechecks exactly what
the code rechecks.  A password is its generation number.  A token is `Nobody` before it is
issued and `"revoked"` when it no longer works, for whatever reason.  `Refuse` ends a request
at any point: a failed check, a full admission budget or a client that goes away.

A storage command resolves its caller twice: its probe of the submitted settings runs between
two transactions (`Admit`, then `CreateStorage` or `BeginReplace`).  A replacement then waits for
the storage row, which a reservation holds `FOR SHARE` (`Shared`), with the advisory lock in
its hand (`FenceFree`).  On the data plane a request reads the storage row with the
location, without a lock, and takes a provider client from the cache or builds one
(`Lookup`, `Build`); the cache is keyed by the whole specification of the client.  `Management`
substitutes for `authority` the tokens and sessions whose account may write now, and lets
identity transactions commit only when no resource transaction holds the lock.

### The process: `Spool`, `Schedule`, `Server`

`Spool` has the semaphores of `spool.rs` and `lease_relay.rs` and the temporary file.  Permits
are taken one by one and given back in the drop order of the code: the file is unlinked, then
the claim, the slot and the bytes.  `Schedule` has the cursor, the advisory lock with its
connection, the batch of a scan and the retry times; a pass is cut only while it waits for
something (a connection, a row lock, the provider), because what does not wait takes no
time that matters against the 20 seconds.  `SpoolWithinBudget` counts what is stored and held as the
cardinalities of sets (`Stored`, `Taken`, `Slotted`, `Claiming`): a byte or a unit is a pair of
its transfer and a number.  `Server` puts both on one pool of connections: a
relayed PUT holds one, and a row lock, for its whole transfer; a pass needs one for the advisory
lock and another one for each transaction.  `Restart` returns everything the process holds; the
retry times are rows and stay.

## 5. Runs

| Run | Instance | Distinct states | Shows |
|---|---|---|---|
| `S3SinglePuts` | 2 PUTs (1 conditional) on a key, 2 bodies, 2 requests, 1 pass, 1 late call | 199 k | an active single PUT is stored, is what it is described by, and is named by its key |
| `S3Multipart` | 1 multipart, 2 parts, 2 requests, 2 passes, 1 late call | 67 k | types, scans, ledger against claim, part exclusion, empty release, state diagram |
| `S3Mixed` | 1 multipart and 1 conditional PUT on a key, 2 requests, 1 pass, 1 late call | 739 k | deletions only of condemned files; `KeyedStore` is implemented |
| `S3Liveness` | 1 multipart, 2 parts, 2 requests, 1 pass | 14 k | completions conclude, abandoned uploads settle, deleted files are purged |
| `NativeMultipart` | 1 file of either kind, 1 part, 2 bodies, 2 requests, 1 pass, 1 late call, 1 read lease | 1.17 M | types, state diagram, safe deletion, scans, faithful multipart; `WriteOnce` is implemented |
| `NativeLiveness` | 1 file of either kind, 2 bodies, 1 request, 1 pass | 24 k | recorded uploads stay stored; completions conclude, abandoned files settle, condemned ones release their storage |
| `Accounts` | 2 accounts and roles, 2 sessions (limit 1), 1 token (limit 1), 3 passwords, 2 links, 1 form, 1 console request | 2.57 M | types, an administrator remains, limits, ended sessions stay ended, passwords are proven, credentials are authorised |
| `Management` | 1 storage with 2 addresses and 2 secrets, 1 client, 1 key, 1 file, 1 command, 2 data-plane requests, 1 session, 1 token | 1.47 M | references, addresses of stored objects, transfers reach their object, writes are authorised |
| `Server` | 2 uploads for 2 files or none, 2 slots, 4 units, 2 claims, 3 connections, 2 jobs, batch 1, 1 restart | 551 k | the budget; every job runs, every candidate is tried |
| `S3StaleFinalize` | 1 multipart, 2 parts, 2 requests, 1 pass | | violation, section 6 |
| `S3DanglingKey` | 1 multipart, 1 PUT, 1 request, 1 pass | | violation, section 6 |
| `NativeRelayRewritten` | as `NativeMultipart` | | violation, section 6 |

`CHECK_DEADLOCK` is off where an instance uses its identifiers or its bounded counters up (the
files of the upload models, the tokens and sessions of `Management`, the claims and restarts
of `Server`): it stops then, as the system would with no more requests.  Sets whose
members are interchangeable are symmetric in the safety runs, and in none with liveness.

**Bounds.**  Interference on one file takes its owner, another request or a late call, and a
pass; on one key, the file it names and its successor.  Two parts give two different lists
where lists are compared with one another, and two bodies tell an upload's object from
another's; the native run has one part with two bodies, which gives two lists too.  `MaxLate`
bounds the provider calls in flight without a caller: one of them, besides the live calls,
is enough to arrive after any step.  Two accounts are the last administrator and somebody
else; a session limit of 1 with 2 sessions makes every second login evict; three passwords allow
a replacement of a replacement; two links allow one to be superseded.  `Management` starts from a moment of
`Accounts` with an administrator signed in and another one with a token, because its own steps
need both and the way there is the business of `Accounts`.  A batch of 1 with two candidates of
one job makes the order of the retry times matter.  `Server` has three connections, which
is one more than a pass needs; see the hazards for fewer.  `MaxClaims` bounds the relayed PUTs:
without it they could hold the row of a candidate whenever a pass comes to it.

**Fairness.**  In `S3Uploads!FairSpec` and `NativeFile!FairSpec`: weak fairness of a request's
continuation, as it answers or dies.  Weak fairness of a pass's continuation: at the latest
the pass timeout ends it (`PassStops` is one of its disjuncts, so a pass may end without having
achieved anything).  Weak fairness of lapsing only for leases nobody renews: a heartbeat may keep
a lease alive for as long as its request lives, a URL for as long as it is valid.  Weak
fairness of the expiry of URLs, of retry times and of the expiry job: `Schedule::run` gives
every job its turn and candidates are ordered by `recovery_after`, which is what `EveryJobRuns`
and `EveryCandidateTried` show.  Strong fairness, per file, of a pass being started and of each
of its steps: timeouts and database failures may interrupt the passes on a file any number
of times but not for ever.  The last is an assumption on the environment, and nothing
weaker would do: with a provider that is down for ever nothing is cleaned.  In `Server`: weak
fairness of the reconciler's work (which it can always satisfy by timing out), of each
upload in progress (deadlines end its receive and its provider call), and of retry times.  A
request need never come, and one that has come need not be admitted.

## 6. What the code does not do

* **`S3StaleFinalize`.**  `finalize_upload` checks that the upload is `completing`, not
  that the completion is the one its caller claimed.  If a request's lease lapses while its
  CompleteMultipartUpload is pending, recovery reopens the session and another request
  claims it with a different list, the first request's call can be the one the provider
  applies, and its finalization activates the file with the other list's size and ETag.
  (`SinglePutIsFaithful` shows that single PUTs are not exposed: recovery
  never reopens them.)
* **`S3DanglingKey`.**  The native DELETE retires an S3 multipart file by its id without
  touching its key row.  Until the file row is pruned the key answers 404 to GET and HEAD
  and 412 to a conditional PUT.
* **`NativeRelayRewritten`.**  `docs/spec/00-operations.md` promises that of two relayed PUTs of
  one file the bytes that succeeded are kept.  The second is judged on what the first has
  recorded, and it records after the provider's answer.  If the request or the database
  connection of a first PUT is lost while its storage call is pending, the row lock is
  gone and the call goes on; a second PUT with other bytes is stored and recorded, and
  then the first call lands.  (`RecordedIsStored` in `NativeLiveness`, without
  calls in flight, shows that everything else keeps the promise.  It takes a declaration
  without an MD5, so that both bodies fit.)

A single-PUT object can also outlive its location row, when its PutObject is applied after
the cleanup; `docs/spec/00-operations.md` leaves auditing such objects to later work.  For
multipart uploads `ReleasedMultipartIsEmpty` shows that this cannot happen.

## 7. Proofs

The proofs hold for every value of the constants under the named assumptions of the modules.
`ConstantsAssumption` (S3): uploads have one key each, conditional uploads are single PUTs,
`NoFile` is not a file, `Nothing` is not a content.  `NativeAssumption`: the bodies that fit
are bodies, `Nothing` is not a content, the bounds are numbers.  `AccountsAssumption`:
`"admin"` is a role, the limits are positive, `Nobody` and `"revoked"` are not accounts.
`ManagementAssumption`: `Nobody` is none of the things it stands in for.  `SpoolAssumption`: the
unit is positive, the sizes, budget and limits are numbers, `Nothing` is not a file; the set of
transfers may be infinite.

| Theorem | Module | Property |
|---|---|---|
| `TypeCorrect`, `ActiveReachable`, `KeyedStoreImplemented` | `S3UploadsProofs` | `TypeOK`, `ActiveIsReachable`, `ImplementsKeyedStore` |
| `LifecycleFollowed`, `DeletionsOfCondemned`, `ActiveStored` | `S3StorageProofs` | `FollowsLifecycle`, `DeletesOnlyCondemned`, `ActiveIsStored` |
| `PendingScannable`, `PartsExclusive`, `ClaimsMatch`, `SinglePutsFaithful`, `ReleasedMultipartsEmpty` | `S3ContentProofs` | `AlwaysScannable`, `PartWritesExclusive`, `ClaimMatchesLedger`, `SinglePutIsFaithful`, `ReleasedMultipartIsEmpty` |
| `TypeCorrect`, `LifecycleFollowed`, `DeletionsOfCondemned`, `ScannableAlways`, `MultipartFaithful`, `WriteOnceImplemented`, `RecordedStored` | `NativeFileProofs` | `TypeOK`, `FollowsLifecycle`, `DeletesOnlyCondemned`, `AlwaysScannable`, `MultipartIsFaithful`, `ImplementsWriteOnce`, `RecordedIsStored` |
| `TypeCorrect`, `SessionsEnd`, `AdminStays`, `PasswordsProven`, `IssuanceProven`, `LimitsKept` | `AccountsProofs` | `TypeOK`, `SessionsStayEnded`, `AdminRemains`, `PasswordsAreProven`, `IssuanceIsAuthorised`, `WithinLimits` |
| `RegistryTyped`, `AddressesKept`, `TransfersArrive`, `WritesAuthorised` | `ManagementProofs` | `RegistryTypeOK`, `ObjectsStayAddressed`, `TransfersReachTheirObject`, `WritesAreAuthorised` |
| `BudgetKept` | `ServerProofs` | `SpoolWithinBudget` |

### The S3 surface

* **Types.**  `TypeOK` is inductive.  Lemmas say what each request and pass holds in each
  of its states, and what the shared transactions and the provider do to the types; one
  lemma covers each group of actions.
* **State diagram.**  Each shared transaction moves at most one file, and along one edge
  (`RowMoves`); a commit may move a second one, from active to deleted.  Every action is
  one of those transactions, under the guard that the lemma asks for.
* **Safe deletion.**  `DeletesOnlyCondemned` is inductive on top of `TypeOK`.  The diagram
  has no edge out of the condemned states, so a condemned file stays condemned
  (`CondemnedStable`, from `LifecycleStep`); and what a step adds to the deletions under
  way is aimed at a file that is condemned when it is added (`StepDeletions`).  A call
  that its caller gave up on keeps the file it was aimed at.
* **Storage.**  `ActiveIsStored` alone is not inductive: a finalization is decided on an
  answer that was received some steps ago.  `StorageInv` adds that whoever is about to
  finalize has seen an object that is still there, unless the file is condemned
  (`SeenStored`, `StoredStable`), that a completion names a content, so that a pass cannot
  take an absent object for the expected one, and that a file keeps its location until
  it is condemned (`RowsReady`).  That the object is still there is where
  `DeletesOnlyCondemned` is needed.
* **Keys.**  Every step is one of six changes of `file` and `key`, or of neither
  (`NextIsTableStep`).  `ActiveIsReachable` needs `KeysNameOwn`: a key names an upload that
  was made under it and that is active or deleted.  Without it a deletion or a
  replacement under one key could take the name of another key's file.
* **Refinement.**  On the same six changes and the same invariant: a create is a `Begin`,
  a commit a `Publish` that displaces exactly what the key showed (`CommitPublishes`), a
  reclaim a `Drop`, a deletion of an active file a `Withdraw` (`WithdrawsActive`); pruning
  and deleting a name that no longer shows anything are stutters.
* **Content** (`S3ContentProofs`).  What a step may do is said once for the rows of one file
  (`RowStep`), one request (`ReqStep`), the calls in flight, the provider, a pass, the recorded
  handle and a ledger row (`ProviderStep`, `WorkerStep`, `HandleStep`, `PartStep`); `StepMoves`
  collects them, and the invariants below are proved from it, not from the actions.
  * `AlwaysScannable` is inductive with the types.
  * `LedgerInv` carries `PartWritesExclusive` and `ClaimMatchesLedger`.  A part
    request that is at work has its ledger row claimed for it until the file is condemned
    (`PartsClaimed`), so a second claim of the part, and a completion, are turned away; a file
    nobody has inserted yet is known to nobody (`Fresh`), and single PUTs and multipart
    uploads never meet in a request or a call (`Kinds`).
  * `SinglePutIsFaithful` rests on `SinglePutOnce`: before the completion of a single PUT is claimed
    nothing is stored or on its way, and afterwards the object is empty or the content
    claimed, and so is every put of the file that is running or in flight.  So
    neither a late put nor one sent twice can change what an ETag describes.
  * `ReleasedMultipartIsEmpty` rests on `SessionInv`: one request creates the vendor session and
    is alone with its file until then; a closed session stays closed; a completion call is sent
    only under a recorded handle; and what a cleanup or removal has swept has neither an object
    nor a session through which one could appear.  A delete that overtakes a completion call
    given up on is therefore harmless, once its abort has been applied as well.

### The native surface

One inductive invariant carries all the theorems: `IInv` of `NativeFileProofs`.

* What a step may do is said once for the rows (`RowMove`), the provider (`ProviderMove`), each
  request, pass and call in flight (`RequestMove`, `WorkerMove`, `LateMove`) and the readers
  (`ReaderMove`); `NextMoves...` prove that every step does no more.  The conjuncts of `IInv`
  are then proved from these, not from the forty actions.
* `DeletesOnlyCondemned` is inductive because the condemned states have no way out
  (`StaysCondemned`), `AlwaysScannable` because every transition that leaves the lease in a
  terminal state leaves the scan that needs it alive.
* `MultipartIsFaithful` is not inductive: a completion is published on an answer, or an
  observation, received some steps earlier.  `ObjectStands` adds that whoever is about to
  publish has seen an object that is still there, unless the file is condemned, and that a
  multipart object exists only after its session was closed.  So nothing can replace it
  (`ObjectKept`): parts need an open session, nobody puts (`Modes`), and deletions reach
  condemned files only.  `Published` carries the same through activation and deletion.
* The refinement needs nothing more: `Published` says what a download of a file that is active
  or deleted can find.
* `RecordedStored` is proved under the premise `[]NoLatePut`: no PUT reaches the storage after the
  request that sent it has ended.  The premise is about the environment, and it cannot be
  dropped: `NativeRelayRewritten` violates what the theorem says where a late PUT lands
  (section 6).  `RelayInv` adds to `IInv` that the request which uploads has the row of a pending
  single file to itself (`PutAlone`), that nothing is recorded before the provider has answered
  (`Unrecorded`), and that what is recorded, or about to be, is stored (`Kept`).  `RecordedStays`
  is the instance of it that `NativeLiveness` checks: with `MaxLate = 0` the premise holds.

### The management plane

* `AccountsProofs`.  `IInv` is `TypeOK` with `SessionsAreCurrent` (a session that is not revoked
  was opened with the current password of an active account), `SessionsOK` (and that password
  exists) and `RequestsOK` (what a request carries from its reads to its commit: whose its
  session is and, while that is not revoked, that the password it has verified is the one the
  session was opened with).  So every unrevoked session resolves, one that does not has been
  revoked or has expired, and that has no way back: `SessionsStayEnded`.  The others are action
  properties of the commits, from `RequestsOK` and the commits' own checks.  `WithinLimits` needs
  of the rest only the types and that the sets it counts are finite: whatever the order of the
  sessions, what an eviction keeps are those with fewer than `SessionLimit - 1` newer ones, and of a
  finite set of numbers at most n elements have fewer than n greater ones (`NewestOf`, shown by an
  injection into 1..n, which needs no induction); a token is issued only while a count made in
  the same transaction is below the limit.
* `RegistryProofs` proves `Registry` against an environment that may change the callers' rights
  whenever no resource transaction holds the identity lock (`Fenced`); `ManagementProofs` shows
  that `Accounts` is such an environment and takes the theorems over by `INSTANCE`.  The
  invariant says that a locked storage row excludes reservations that share it
  (`LocksExclude`), and that a request which has a file has the row that its location was
  placed by, for as long as it has the location (`RequestsFollowFiles`).

### The process

`ServerProofs` proves `SpoolWithinBudget` for `Server`, hence with restarts at any moment.  `SpoolInv` adds
that a temporary file holds no more than its transfer has declared, and only while it is paid for
(`DiskDeclared`), and that the units taken, the slots held and the claims held are finite sets
that, with the free permits, make up the limits (`BytesOK`, `SlotsOK`, `ClaimsOK`).  Each step moves
one transfer, and a lemma per set says what that adds or removes (`TakenMoves`, `SlottedMoves`,
`ClaimingMoves`).  The bytes on the disk are then covered by the units taken: byte i of a transfer
lies in its unit (i - 1) \div Unit, an injection into Taken \X 1..Unit (`DiskCovered`).  It needs
that a reservation is rounded up and the capacity down.

### What is only model-checked

Liveness under fairness is out of the prover's reach: `CompletionConcludes`,
`AbandonedUploadSettles`, `DeletedIsPurged`, `AbandonedFileSettles`, `CondemnedIsReleased`,
`EveryJobRuns`, `EveryCandidateTried`.  The three violated statements of section 6
(`ActiveIsFaithful`, `KeyNamesActive`, `RelayedIsKept`) are refuted by TLC and have nothing to prove.
Everything else that a run checks is a theorem.

## 8. Not modelled

* **Reads of bytes.**  Ranges, headers, streaming, GET and HEAD of the S3 surface: they read.  A
  download delivers one state of the object.
* **Multipart geometry and validation.**  Pure arithmetic on validated sizes and syntax checks;
  the models take the results as given (`Fits`, `Parts`).
* **Signatures, XML, HTTP, MCP, OpenAPI, console, CLI.**  Parsing, cryptography and rendering.
* **Usage, observations, retention, logging, metrics, audit rows.**  Single statements whose
  results no other part reads.
* **Management details.**  The exchange of a token for a session, which no route offers; the
  admission budgets, which appear only as a refusal; `StorageTest`, which writes nothing; the
  replacement of a client's metadata; the reserved client ids.
* **Provider clients and configuration.**  Construction, TLS, timeouts of the SDK beyond
  the repeated and unanswered call.
* **Clocks.**  Time is the order of lapses, as section 3 says; a pass that takes longer than a
  lease, or clocks of pods and database that disagree by minutes, are outside.

Objects outside the rows: a PutObject may be applied after its location was released, a
presigned URL may be used after the purge, and a request dropped while its temporary file is
being opened leaves an empty one for the 48-hour sweep.  `docs/spec/00-operations.md` leaves
such objects to an audit; no property of the models is about them.
