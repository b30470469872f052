--------------------------- MODULE NativeFileProofs ---------------------------
(* Proofs about NativeFile, for every set of parts, bodies, requests and       *)
(* passes and every bound on late calls.                                       *)
EXTENDS NativeFile, FiniteSetTheorems, TLAPS

-----------------------------------------------------------------------------
(* The inductive invariant.                                                    *)

\* Nothing has happened before the file is created.
Fresh ==
  file = "none" =>
    /\ upload = "none" /\ etag = Nothing /\ late = {} /\ url = "none"
    /\ object = Nothing /\ session = "none" /\ reading = Nothing
    /\ \A r \in Requests : req[r] = Idle
    /\ \A w \in Workers : worker[w] = Asleep

\* The operations of single and of multipart files do not mix.
Modes ==
  /\ upload # "none" => multi
  /\ \A r \in Requests :
       /\ req[r].op \in {"create", "abort", "part", "complete"} => multi
       /\ req[r].op \in {"put", "commit"} => ~multi
  /\ \A w \in Workers :
       /\ worker[w].job = "complete" => multi
       /\ worker[w].job = "observe" => ~multi
  /\ \A c \in late : (c.op = "put" => ~multi) /\ (c.op = "complete" => multi)

\* A multipart object is made once, by the completion that closes its session,
\* and whoever is about to publish it has seen it.
ObjectStands ==
  /\ multi /\ object # Nothing => session = "closed"
  /\ \A r \in Requests : At(r, "answered", "complete") => Condemned \/ object = req[r].body
  /\ \A w \in Workers : worker[w].at = "finalize" => Condemned \/ object = worker[w].want

\* What has been published stays what it is, until it is deleted.
Published ==
  /\ file = "active" => located
  /\ multi /\ file = "active" => object # Nothing /\ object = etag
  /\ multi /\ file = "deleted" => object \in {Nothing, etag}
  /\ multi /\ file \in {"active", "deleted"} => session = "closed"
  /\ reads # "none" => file \in {"active", "deleted"}

IInv ==
  /\ TypeOK
  /\ Fresh
  /\ Modes
  /\ DeletesOnlyCondemned
  /\ AlwaysScannable
  /\ ObjectStands
  /\ Published

-----------------------------------------------------------------------------
(* What requests, passes and provider calls carry.                             *)

(* What a request holds in each of its states, and the states it moves to. *)
LEMMA RequestFields ==
  ASSUME NEW x \in RequestStates
  PROVE  /\ x.op = "put" => x.body \in Data
         /\ x.op = "part" => x.part \in Parts /\ x.body \in Data
         /\ x.op = "complete" => x.body \in Lists
         /\ x.op = "commit" => x.body \in Bodies
         /\ x.at = "calling" =>
              /\ CallOf(x) \in CallStates
              /\ x.op \in {"put", "create", "abort", "part", "complete"}
              /\ [x EXCEPT !.at = "answered"] \in RequestStates
         /\ x.at \in {"spooling", "listed"} => [x EXCEPT !.at = "calling"] \in RequestStates
  BY DEF RequestStates, CallStates, CallOf, Call, Idle

(* A failed create goes on to abort the session it may have made. *)
LEMMA CreateToAbort ==
  ASSUME NEW x \in RequestStates, x.op = "create"
  PROVE  [x EXCEPT !.at = "calling", !.op = "abort"] \in RequestStates
  <1> DEFINE S == [at : {"calling", "answered"}, op : {"create", "abort"},
                   part : {Nothing}, body : {Nothing}, mode : BOOLEAN]
  <1>1. x \in S
    BY DEF RequestStates, Idle
  <1>2. [x EXCEPT !.at = "calling"] \in S
    BY <1>1
  <1>3. \A y \in S : [y EXCEPT !.op = "abort"] \in S
    OBVIOUS
  <1>4. [x EXCEPT !.at = "calling", !.op = "abort"] \in S
    BY <1>2, <1>3
  <1> QED BY <1>4 DEF RequestStates

(* What a pass holds in each of its states, and the states it moves to. *)
LEMMA WorkerFields ==
  ASSUME NEW x \in WorkerStates
  PROVE  /\ x.at = "observing" => x.job \in {"observe", "complete"}
         /\ x.job = "complete" => x.want \in Lists
         /\ x.at = "observing" /\ x.job = "complete" =>
              \A a \in {"finalize", "reopen", "clean"} : [x EXCEPT !.at = a] \in WorkerStates
         /\ x.at = "commit" => x.want \in Bodies \cup {Nothing} /\ x.job = "observe"
         /\ x.at \in {"finalize", "reopen", "clean"} => x.job = "complete"
         /\ x.at = "sweeping" => [x EXCEPT !.at = "swept"] \in WorkerStates
         /\ x.at \in {"sweeping", "swept"} => x.job \in {"cleanup", "reclaim", "remove"}
  BY DEF WorkerStates, Asleep

(* A pass that has found an upload goes on to commit it. *)
LEMMA ObserveToCommit ==
  ASSUME NEW x \in WorkerStates, x.at = "observing", x.job = "observe", NEW b \in Bodies
  PROVE  [x EXCEPT !.at = "commit", !.want = b] \in WorkerStates
  <1> DEFINE S == [at : {"observing", "commit"}, job : {"observe"},
                   want : Bodies \cup {Nothing}, mode : BOOLEAN]
  <1>1. x \in S
    BY DEF WorkerStates, Asleep
  <1>2. [x EXCEPT !.at = "commit", !.want = b] \in S
    BY <1>1
  <1> QED BY <1>2 DEF WorkerStates

(* A request that returns, or that moves to a well-formed state, is typed. *)
LEMMA ReturnTyped ==
  ASSUME TypeOK, NEW r \in Requests, Return(r)
  PROVE  req' \in [Requests -> RequestStates]
  BY DEF TypeOK, Return, RequestStates

(* A request that moves within its operation keeps its fields. *)
LEMMA MoveTyped ==
  ASSUME TypeOK, NEW r \in Requests, NEW at, Move(r, at),
         [req[r] EXCEPT !.at = at] \in RequestStates
  PROVE  req' \in [Requests -> RequestStates]
  BY DEF TypeOK, Move

(* A request that starts is well-formed when its first state is. *)
LEMMA StartTyped ==
  ASSUME TypeOK, NEW r \in Requests, NEW p, NEW b, NEW at, NEW op,
         Start(r, at, op, p, b),
         [at |-> at, op |-> op, part |-> p, body |-> b, mode |-> relay] \in RequestStates
  PROVE  req' \in [Requests -> RequestStates]
  BY DEF TypeOK, Start

(* A call given up on joins the calls in flight, or not. *)
LEMMA AbandonTyped ==
  ASSUME TypeOK, NEW c \in CallStates, Abandon(c)
  PROVE  late' \subseteq CallStates
  BY DEF TypeOK, Abandon

(* What a provider call carries. *)
LEMMA CallFields ==
  ASSUME NEW c \in CallStates
  PROVE  /\ c.op \in {"put", "create", "part", "complete", "abort", "cleanup", "remove"}
         /\ c.op = "put" => c.body \in Data
         /\ c.op = "part" => c.part \in Parts /\ c.body \in Data
         /\ c.op = "complete" => c.body \in Lists
         /\ c.op = "cleanup" => \A o \in {"abort", "remove"} : [c EXCEPT !.op = o] \in CallStates
  BY DEF CallStates

ProviderOK ==
  /\ object \in Bodies \cup {Nothing}
  /\ session \in {"none", "open", "closed"}
  /\ vpart \in [Parts -> Data \cup {Nothing}]

(* A call the provider applies leaves its state well-formed. *)
LEMMA ApplyTyped ==
  ASSUME ProviderOK, NEW c \in CallStates, Apply(c)
  PROVE  ProviderOK'
  <1>1. NoVendorParts \in [Parts -> Data \cup {Nothing}]
    BY DEF NoVendorParts
  <1>2. CASE c.op = "part"
    BY <1>2, CallFields DEF Apply, UploadPart, ProviderOK
  <1>3. CASE c.op # "part"
    BY <1>1, <1>3, CallFields
       DEF Apply, PutObject, CreateSession, CompleteSession, AbortSession, DeleteObject,
           CleanupUpload, CloseSession, ProviderOK, Bodies
  <1> QED BY <1>2, <1>3

(* The sweep of a pass is one of two calls. *)
LEMMA SweepCallTyped ==
  ASSUME NEW w
  PROVE  SweepCall(w) \in CallStates /\ SweepCall(w).op \in {"cleanup", "remove"}
  BY DEF SweepCall, Call, CallStates

-----------------------------------------------------------------------------
(* The transactions keep the rows well-formed.                                 *)

RowsOK ==
  /\ file \in {"none", "pending", "active", "deleted", "reclaimed", "gone"}
  /\ multi \in BOOLEAN
  /\ upload \in {"none", "completing", "cleaning"}
  /\ claim \in IF upload = "none" THEN {Nothing} ELSE Lists
  /\ lease \in {"none", "issued", "lapsed", "committed", "expired"}
  /\ handle \in BOOLEAN /\ secret \in BOOLEAN
  /\ recorded \in Data \cup {Nothing}
  /\ ledger \in [Parts -> PartRows]
  /\ located \in BOOLEAN
  /\ etag \in Bodies \cup {Nothing}
  /\ due \in BOOLEAN

OutsideOK ==
  /\ reads \in {"none", "issued", "lapsed", "expired"}
  /\ relay \in BOOLEAN
  /\ url \in {"none", "valid", "expired"}
  /\ reading \in Bodies \cup {Nothing}

ActorsOK ==
  /\ late \subseteq CallStates
  /\ req \in [Requests -> RequestStates]
  /\ worker \in [Workers -> WorkerStates]

(* The parts of the type invariant. *)
LEMMA TypeParts == TypeOK <=> RowsOK /\ OutsideOK /\ ProviderOK /\ ActorsOK
  BY DEF TypeOK, RowsOK, OutsideOK, ProviderOK, ActorsOK

(* A step that leaves every row alone. *)
LEMMA RowsUnchanged == ASSUME RowsOK, UNCHANGED rows PROVE RowsOK'
  BY DEF RowsOK, rows, leaserow

(* finalize_commit, for an upload that was observed. *)
LEMMA FinalizeCommitTyped ==
  ASSUME RowsOK, NEW b \in Bodies \cup {Nothing}, FinalizeCommit(b)
  PROVE  RowsOK'
  BY DEF RowsOK, FinalizeCommit, Settled, rows, leaserow

(* Claiming a completion. *)
LEMMA ClaimCompletionTyped ==
  ASSUME RowsOK, NEW b \in Lists, ClaimCompletion(b)
  PROVE  RowsOK'
  BY DEF RowsOK, ClaimCompletion

(* Finalizing one. *)
LEMMA FinalizeCompletionTyped ==
  ASSUME RowsOK, NEW b \in Lists, FinalizeCompletion(b)
  PROVE  RowsOK'
  BY DEF RowsOK, FinalizeCompletion, Settled, rows, leaserow, Bodies

(* Reserving the rows of a new file. *)
LEMMA ReserveTyped ==
  ASSUME RowsOK, NEW m \in BOOLEAN, Reserve(m), secret' \in BOOLEAN
  PROVE  RowsOK'
  BY DEF RowsOK, Reserve

(* Recording a relayed upload. *)
LEMMA RecordTyped ==
  ASSUME RowsOK, NEW b \in Data \cup {Nothing}, Record(b)
  PROVE  RowsOK'
  BY DEF RowsOK, Record

(* The rows of the part ledger. *)
LEMMA PartRowMoves ==
  ASSUME NEW x \in PartRows
  PROVE  /\ [x EXCEPT !.state = "claimed"] \in PartRows
         /\ x.state = "claimed" => Restored(x) \in PartRows
         /\ \A d \in Data : [state |-> "done", md5 |-> d] \in PartRows
  BY DEF PartRows, Restored

(* Writing one of them. *)
LEMMA SetPartTyped ==
  ASSUME RowsOK, NEW p \in Parts, NEW row \in PartRows, SetPart(p, row)
  PROVE  RowsOK'
  BY DEF RowsOK, SetPart

-----------------------------------------------------------------------------
(* Every step keeps the types.                                                 *)

(* A step that moves the file, its lease or its deadline and leaves the other  *)
(* rows alone keeps the rows typed.                                            *)
LEMMA RowsMoved ==
  ASSUME RowsOK,
         file' \in {"none", "pending", "active", "deleted", "reclaimed", "gone"},
         lease' \in {"none", "issued", "lapsed", "committed", "expired"},
         located' \in BOOLEAN, due' \in BOOLEAN,
         UNCHANGED <<multi, upload, claim, handle, secret, recorded, ledger, etag>>
  PROVE  RowsOK'
  <1>1. /\ multi' = multi /\ upload' = upload /\ claim' = claim /\ etag' = etag
        /\ handle' = handle /\ secret' = secret /\ recorded' = recorded /\ ledger' = ledger
    OBVIOUS
  <1>2. claim' \in IF upload' = "none" THEN {Nothing} ELSE Lists
    BY <1>1 DEF RowsOK
  <1>3. handle' \in BOOLEAN /\ secret' \in BOOLEAN /\ multi' \in BOOLEAN
    BY <1>1, Zenon DEF RowsOK
  <1>4. /\ upload' \in {"none", "completing", "cleaning"}
        /\ recorded' \in Data \cup {Nothing}
        /\ ledger' \in [Parts -> PartRows]
        /\ etag' \in Bodies \cup {Nothing}
    BY <1>1 DEF RowsOK
  <1> QED BY <1>2, <1>3, <1>4 DEF RowsOK

(* What a step of a request leaves to be shown. *)
LEMMA TypedByParts ==
  ASSUME TypeOK, RowsOK', OutsideOK', ProviderOK', late' \subseteq CallStates,
         req' \in [Requests -> RequestStates], worker' \in [Workers -> WorkerStates]
  PROVE  TypeOK'
  BY DEF TypeOK, RowsOK, OutsideOK, ProviderOK

(* A step that leaves the outside or the provider alone. *)
LEMMA OthersUnchanged ==
  ASSUME TypeOK
  PROVE  /\ UNCHANGED outside => OutsideOK'
         /\ UNCHANGED provider => ProviderOK'
         /\ UNCHANGED late => late' \subseteq CallStates
         /\ UNCHANGED req => req' \in [Requests -> RequestStates]
         /\ UNCHANGED worker => worker' \in [Workers -> WorkerStates]
         /\ UNCHANGED rows => RowsOK'
  BY DEF TypeOK, RowsOK, OutsideOK, ProviderOK, outside, provider, rows, leaserow

(* The first steps of a request. *)
LEMMA StartsTyped ==
  ASSUME TypeOK, NEW r \in Requests,
         \/ CreateMultipart(r) \/ ObserveForCommit(r) \/ ListParts(r) \/ CompleteRelayed(r)
         \/ \E d \in Data : RelayPut(r, d) \/ \E p \in Parts : ClaimPart(r, p, d)
  PROVE  TypeOK'
  <1>0. RowsOK /\ OutsideOK /\ ProviderOK /\ relay \in BOOLEAN
    BY TypeParts DEF OutsideOK
  <1>1. CASE CreateMultipart(r)
    <2>1. [at |-> "calling", op |-> "create", part |-> Nothing, body |-> Nothing,
           mode |-> relay] \in RequestStates
      BY <1>0 DEF RequestStates
    <2>2. req' \in [Requests -> RequestStates]
      BY <1>1, <2>1, StartTyped DEF CreateMultipart
    <2>3. RowsOK'
      <3>1. Reserve(TRUE) /\ secret' \in BOOLEAN
        BY <1>0, <1>1 DEF CreateMultipart, RowsOK
      <3> QED BY <1>0, <3>1, ReserveTyped
    <2> QED BY <1>1, <2>2, <2>3, OthersUnchanged, TypedByParts DEF CreateMultipart
  <1>2. CASE ObserveForCommit(r)
    <2>1. Uploaded(relay) \in Bodies
      BY <1>2, NativeAssumption DEF ObserveForCommit, Accepted, Bodies
    <2>2. [at |-> "observed", op |-> "commit", part |-> Nothing, body |-> Uploaded(relay),
           mode |-> relay] \in RequestStates
      BY <1>0, <2>1 DEF RequestStates
    <2>3. req' \in [Requests -> RequestStates]
      BY <1>2, <2>2, StartTyped DEF ObserveForCommit
    <2> QED BY <1>2, <2>3, OthersUnchanged, TypedByParts DEF ObserveForCommit
  <1>3. CASE ListParts(r)
    <2>1. vpart \in Lists
      BY <1>0, <1>3, NativeAssumption DEF ListParts, ProviderOK, Lists
    <2>2. [at |-> "listed", op |-> "complete", part |-> Nothing, body |-> vpart,
           mode |-> relay] \in RequestStates
      BY <1>0, <2>1 DEF RequestStates
    <2>3. req' \in [Requests -> RequestStates]
      BY <1>3, <2>2, StartTyped DEF ListParts
    <2> QED BY <1>3, <2>3, OthersUnchanged, TypedByParts DEF ListParts
  <1>4. CASE CompleteRelayed(r)
    <2>1. LedgerList \in Lists
      BY <1>0, <1>4 DEF CompleteRelayed, LedgerList, Lists, RowsOK, PartRows, ClaimCompletion,
                        Claimable, PartClaimed
    <2>2. [at |-> "calling", op |-> "complete", part |-> Nothing, body |-> LedgerList,
           mode |-> relay] \in RequestStates
      BY <1>0, <2>1 DEF RequestStates
    <2>3. req' \in [Requests -> RequestStates]
      BY <1>4, <2>2, StartTyped DEF CompleteRelayed
    <2>4. RowsOK'
      BY <1>0, <1>4, <2>1, ClaimCompletionTyped DEF CompleteRelayed
    <2> QED BY <1>4, <2>3, <2>4, OthersUnchanged, TypedByParts DEF CompleteRelayed
  <1>5. ASSUME NEW d \in Data, RelayPut(r, d)
        PROVE  TypeOK'
    <2>1. [at |-> "spooling", op |-> "put", part |-> Nothing, body |-> d, mode |-> relay]
             \in RequestStates
      BY <1>0 DEF RequestStates
    <2>2. req' \in [Requests -> RequestStates]
      BY <1>5, <2>1, StartTyped DEF RelayPut
    <2> QED BY <1>5, <2>2, OthersUnchanged, TypedByParts DEF RelayPut
  <1>6. ASSUME NEW d \in Data, NEW p \in Parts, ClaimPart(r, p, d)
        PROVE  TypeOK'
    <2>1. [at |-> "calling", op |-> "part", part |-> p, body |-> d, mode |-> relay]
             \in RequestStates
      BY <1>0 DEF RequestStates
    <2>2. req' \in [Requests -> RequestStates]
      BY <1>6, <2>1, StartTyped DEF ClaimPart
    <2>3. [ledger[p] EXCEPT !.state = "claimed"] \in PartRows
      BY <1>0, PartRowMoves DEF RowsOK
    <2>4. ledger' = [ledger EXCEPT ![p] = [ledger[p] EXCEPT !.state = "claimed"]]
      BY <1>6 DEF ClaimPart
    <2>5. RowsOK'
      BY <1>0, <1>6, <2>3, <2>4 DEF ClaimPart, RowsOK
    <2> QED BY <1>6, <2>2, <2>5, OthersUnchanged, TypedByParts DEF ClaimPart
  <1> QED BY <1>1, <1>2, <1>3, <1>4, <1>5, <1>6

(* The later steps of a request. *)
LEMMA ContinueTyped ==
  ASSUME TypeOK, NEW r \in Requests, Continue(r) \/ Heartbeat(r)
  PROVE  TypeOK'
  <1>0. RowsOK /\ OutsideOK /\ ProviderOK /\ req[r] \in RequestStates
    BY TypeParts DEF TypeOK
  <1>1. CASE AttachUploadId(r)
    <2>1. req' \in [Requests -> RequestStates]
      BY <1>1, ReturnTyped DEF AttachUploadId
    <2>2. RowsOK'
      <3>1. handle' \in BOOLEAN /\ secret' \in BOOLEAN
        BY <1>1 DEF AttachUploadId
      <3> QED BY <1>0, <1>1, <3>1 DEF AttachUploadId, RowsOK
    <2> QED BY <1>1, <2>1, <2>2, OthersUnchanged, TypedByParts DEF AttachUploadId
  <1>2. CASE CreateFails(r)
    <2>1. req[r].op = "create"
      BY <1>2 DEF CreateFails, At
    <2>2. req' \in [Requests -> RequestStates]
      BY <1>0, <1>2, <2>1, CreateToAbort DEF CreateFails, TypeOK
    <2>3. late' \subseteq CallStates
      BY <1>0, <1>2, RequestFields, AbandonTyped, OthersUnchanged DEF CreateFails, At
    <2>4. RowsOK'
      <3>1. handle \in BOOLEAN
        BY <1>0 DEF RowsOK
      <3>2. handle' \in BOOLEAN
        BY <1>2, <3>1, Zenon DEF CreateFails
      <3> QED BY <1>0, <1>2, <3>2 DEF CreateFails, RowsOK
    <2> QED BY <1>2, <2>2, <2>3, <2>4, OthersUnchanged, TypedByParts DEF CreateFails
  <1>3. CASE ReclaimPending(r)
    <2>1. req' \in [Requests -> RequestStates]
      BY <1>3, ReturnTyped DEF ReclaimPending
    <2>2. RowsOK'
      <3>1. CASE Unowned
        <4>1. /\ file' = "reclaimed" /\ lease' = Settled("expired") /\ located' = FALSE
              /\ UNCHANGED <<multi, upload, claim, handle, secret, recorded, ledger, etag, due>>
          BY <1>3, <3>1 DEF ReclaimPending
        <4>2. lease' \in {"none", "issued", "lapsed", "committed", "expired"}
          BY <1>0, <4>1 DEF RowsOK, Settled
        <4>3. due' \in BOOLEAN
          BY <1>0, <4>1, Zenon DEF RowsOK
        <4> QED BY <1>0, <4>1, <4>2, <4>3, RowsMoved
      <3>2. CASE ~Unowned
        BY <1>0, <1>3, <3>2, RowsUnchanged DEF ReclaimPending
      <3> QED BY <3>1, <3>2
    <2> QED BY <1>3, <2>1, <2>2, OthersUnchanged, TypedByParts DEF ReclaimPending
  <1>4. CASE Spooled(r)
    <2>1. req' \in [Requests -> RequestStates]
      BY <1>0, <1>4, RequestFields, MoveTyped, ReturnTyped DEF Spooled, At
    <2>2. RowsOK'
      BY <1>0, <1>4, RowsUnchanged, RecordTyped DEF Spooled, RowsOK
    <2> QED BY <1>4, <2>1, <2>2, OthersUnchanged, TypedByParts DEF Spooled
  <1>5. CASE RecordUpload(r)
    <2>1. req' \in [Requests -> RequestStates]
      BY <1>5, ReturnTyped DEF RecordUpload
    <2>2. RowsOK'
      BY <1>0, <1>5, RequestFields, RecordTyped DEF RecordUpload, At
    <2> QED BY <1>5, <2>1, <2>2, OthersUnchanged, TypedByParts DEF RecordUpload
  <1>6. CASE FinishPart(r)
    <2>1. req' \in [Requests -> RequestStates]
      BY <1>6, ReturnTyped DEF FinishPart
    <2>2. req[r].part \in Parts /\ req[r].body \in Data
      BY <1>0, <1>6, RequestFields DEF FinishPart, At
    <2>3. [state |-> "done", md5 |-> req[r].body] \in PartRows
      BY <2>2 DEF PartRows
    <2>4. RowsOK'
      BY <1>0, <1>6, <2>2, <2>3, SetPartTyped, RowsUnchanged DEF FinishPart
    <2> QED BY <1>6, <2>1, <2>4, OthersUnchanged, TypedByParts DEF FinishPart
  <1>7. CASE CancelPart(r)
    <2>1. req' \in [Requests -> RequestStates]
      BY <1>7, ReturnTyped DEF CancelPart
    <2>2. req[r].part \in Parts /\ CallOf(req[r]) \in CallStates
      BY <1>0, <1>7, RequestFields DEF CancelPart, At
    <2>3. ledger[req[r].part] \in PartRows
      BY <1>0, <2>2 DEF RowsOK
    <2>4. RowsOK'
      BY <1>0, <1>7, <2>2, <2>3, PartRowMoves, SetPartTyped, RowsUnchanged DEF CancelPart
    <2>5. late' \subseteq CallStates
      BY <1>7, <2>2, AbandonTyped DEF CancelPart
    <2> QED BY <1>7, <2>1, <2>4, <2>5, OthersUnchanged, TypedByParts DEF CancelPart
  <1>8. CASE CommitSingle(r)
    <2>1. req' \in [Requests -> RequestStates]
      BY <1>8, ReturnTyped DEF CommitSingle
    <2>2. RowsOK'
      BY <1>0, <1>8, RequestFields, FinalizeCommitTyped DEF CommitSingle, At
    <2> QED BY <1>8, <2>1, <2>2, OthersUnchanged, TypedByParts DEF CommitSingle
  <1>9. CASE ClaimListed(r)
    <2>1. req' \in [Requests -> RequestStates]
      BY <1>0, <1>9, RequestFields, MoveTyped, ReturnTyped DEF ClaimListed, At
    <2>2. RowsOK'
      BY <1>0, <1>9, RequestFields, ClaimCompletionTyped, RowsUnchanged DEF ClaimListed, At
    <2> QED BY <1>9, <2>1, <2>2, OthersUnchanged, TypedByParts DEF ClaimListed
  <1>10. CASE CommitMultipart(r)
    <2>1. req' \in [Requests -> RequestStates]
      BY <1>10, ReturnTyped DEF CommitMultipart
    <2>2. RowsOK'
      BY <1>0, <1>10, RequestFields, FinalizeCompletionTyped DEF CommitMultipart, At
    <2> QED BY <1>10, <2>1, <2>2, OthersUnchanged, TypedByParts DEF CommitMultipart
  <1>11. CASE ProviderAnswers(r)
    <2>1. CallOf(req[r]) \in CallStates
      BY <1>0, <1>11, RequestFields DEF ProviderAnswers
    <2>2. req' \in [Requests -> RequestStates]
      BY <1>0, <1>11, RequestFields, MoveTyped DEF ProviderAnswers
    <2>3. late' \subseteq CallStates
      BY <1>11, <2>1, AbandonTyped DEF ProviderAnswers
    <2>4. ProviderOK'
      BY <1>0, <1>11, <2>1, ApplyTyped DEF ProviderAnswers
    <2> QED BY <1>11, <2>2, <2>3, <2>4, OthersUnchanged, TypedByParts DEF ProviderAnswers
  <1>12. CASE RequestDies(r)
    <2>1. req' \in [Requests -> RequestStates]
      BY <1>12, ReturnTyped DEF RequestDies
    <2>2. late' \subseteq CallStates
      BY <1>0, <1>12, RequestFields, AbandonTyped, OthersUnchanged DEF RequestDies
    <2> QED BY <1>12, <2>1, <2>2, OthersUnchanged, TypedByParts DEF RequestDies
  <1>13. CASE Heartbeat(r)
    <2>1. RowsOK'
      BY <1>0, <1>13 DEF Heartbeat, RowsOK
    <2> QED BY <1>13, <2>1, OthersUnchanged, TypedByParts DEF Heartbeat
  <1> QED BY <1>1, <1>2, <1>3, <1>4, <1>5, <1>6, <1>7, <1>8, <1>9, <1>10, <1>11, <1>12, <1>13
          DEF Continue

(* The claim of a job, and what a pass does after it. *)
LEMMA PassTyped ==
  ASSUME TypeOK, NEW w \in Workers, PassStep(w)
  PROVE  TypeOK'
  <1>0. /\ RowsOK /\ OutsideOK /\ ProviderOK /\ worker[w] \in WorkerStates
        /\ relay \in BOOLEAN
    BY TypeParts DEF TypeOK
  <1>1. ASSUME NEW job, NEW at, BeginRecovery(w, job, at),
               [at |-> at, job |-> job, want |-> claim, mode |-> relay] \in WorkerStates
        PROVE  TypeOK'
    <2>1. worker' \in [Workers -> WorkerStates]
      BY <1>1 DEF BeginRecovery, TypeOK
    <2>2. RowsOK'
      <3>1. /\ due' = FALSE
            /\ UNCHANGED <<file, multi, upload, claim, lease, handle, secret, recorded, ledger,
                           located, etag>>
        BY <1>1 DEF BeginRecovery, leaserow
      <3>2. located' \in BOOLEAN
        BY <1>0, <3>1, Zenon DEF RowsOK
      <3>3. /\ file' \in {"none", "pending", "active", "deleted", "reclaimed", "gone"}
            /\ lease' \in {"none", "issued", "lapsed", "committed", "expired"}
        BY <1>0, <3>1 DEF RowsOK
      <3> QED BY <1>0, <3>1, <3>2, <3>3, RowsMoved
    <2> QED BY <1>1, <2>1, <2>2, OthersUnchanged, TypedByParts DEF BeginRecovery
  <1>2. CASE RecoverObserve(w)
    <2>1. [at |-> "observing", job |-> "observe", want |-> claim, mode |-> relay] \in WorkerStates
      BY <1>0, <1>2 DEF RecoverObserve, Unowned, RowsOK, WorkerStates
    <2> QED BY <1>1, <1>2, <2>1 DEF RecoverObserve
  <1>3. CASE RecoverCompletion(w)
    <2>1. [at |-> "observing", job |-> "complete", want |-> claim, mode |-> relay]
             \in WorkerStates
      BY <1>0, <1>3 DEF RecoverCompletion, ExpiredCompletion, RowsOK, WorkerStates
    <2> QED BY <1>1, <1>3, <2>1 DEF RecoverCompletion
  <1>4. CASE RecoverCleaning(w) \/ RecoverReclaimed(w) \/ RecoverDeleted(w)
    <2>1. \A job \in {"cleanup", "reclaim", "remove"} :
            [at |-> "sweeping", job |-> job, want |-> claim, mode |-> relay] \in WorkerStates
      BY <1>0 DEF RowsOK, WorkerStates
    <2> QED BY <1>1, <1>4, <2>1 DEF RecoverCleaning, RecoverReclaimed, RecoverDeleted
  <1>5. CASE Observe(w)
    <2>1. CASE worker[w].job = "complete"
      <3>1. worker' = [worker EXCEPT ![w].at = CompletionAction(worker[w].want)]
        BY <1>5, <2>1 DEF Observe
      <3>2. CompletionAction(worker[w].want) \in {"finalize", "reopen", "clean"}
        BY DEF CompletionAction
      <3>3. worker' \in [Workers -> WorkerStates]
        BY <1>0, <1>5, <2>1, <3>1, <3>2, WorkerFields DEF Observe, TypeOK
      <3> QED BY <1>5, <3>3, OthersUnchanged, TypedByParts DEF Observe
    <2>2. CASE worker[w].job = "observe"
      <3> DEFINE b == Uploaded(worker[w].mode)
      <3>1. worker' = [worker EXCEPT ![w] = IF Accepted(b)
                                            THEN [@ EXCEPT !.at = "commit", !.want = b]
                                            ELSE Asleep]
        BY <1>5, <2>2 DEF Observe
      <3>2. Accepted(b) => b \in Bodies
        BY NativeAssumption DEF Accepted, Bodies
      <3>3. Accepted(b) => [worker[w] EXCEPT !.at = "commit", !.want = b] \in WorkerStates
        BY <1>0, <1>5, <2>2, <3>2, ObserveToCommit DEF Observe
      <3>4. Asleep \in WorkerStates
        BY DEF WorkerStates
      <3>5. worker' \in [Workers -> WorkerStates]
        BY <3>1, <3>3, <3>4 DEF TypeOK
      <3> QED BY <1>5, <3>5, OthersUnchanged, TypedByParts DEF Observe
    <2> QED BY <1>5, <2>1, <2>2 DEF Observe
  <1>6. ASSUME worker' = [worker EXCEPT ![w] = Asleep]
        PROVE  worker' \in [Workers -> WorkerStates]
    BY <1>6 DEF TypeOK, WorkerStates
  <1>7. CASE Act(w)
    <2>1. RowsOK'
      <3>1. CASE worker[w].at = "commit" /\ FinalizeCommit(worker[w].want)
        BY <1>0, <3>1, WorkerFields, FinalizeCommitTyped
      <3>2. CASE worker[w].at = "finalize" /\ FinalizeCompletion(worker[w].want)
        BY <1>0, <3>2, WorkerFields, FinalizeCompletionTyped
      <3>3. CASE ReopenCompletion \/ ClaimCleanup \/ UNCHANGED rows
        BY <1>0, <3>3, RowsUnchanged DEF ReopenCompletion, ClaimCleanup, RowsOK, ExpiredCompletion
      <3> QED BY <1>7, <3>1, <3>2, <3>3 DEF Act
    <2> QED BY <1>6, <1>7, <2>1, OthersUnchanged, TypedByParts DEF Act
  <1>8. CASE SweepObject(w)
    <2>1. SweepCall(w) \in CallStates
      BY SweepCallTyped
    <2>2. late' \subseteq CallStates
      BY <1>8, <2>1, AbandonTyped DEF SweepObject
    <2>3. ProviderOK'
      BY <1>0, <1>8, <2>1, ApplyTyped DEF SweepObject
    <2>4. worker' \in [Workers -> WorkerStates]
      BY <1>0, <1>8, WorkerFields DEF SweepObject, TypeOK
    <2> QED BY <1>8, <2>2, <2>3, <2>4, OthersUnchanged, TypedByParts DEF SweepObject
  <1>9. CASE FinishSweep(w)
    <2>1. RowsOK'
      BY <1>0, <1>9, RowsUnchanged
         DEF FinishSweep, FinalizeCleanup, ReleaseLocation, RowsOK, leaserow
    <2> QED BY <1>6, <1>9, <2>1, OthersUnchanged, TypedByParts DEF FinishSweep
  <1>10. CASE PassStops(w)
    <2>1. late' \subseteq CallStates
      BY <1>10, SweepCallTyped, AbandonTyped, OthersUnchanged DEF PassStops
    <2> QED BY <1>6, <1>10, <2>1, OthersUnchanged, TypedByParts DEF PassStops
  <1> QED BY <1>2, <1>3, <1>4, <1>5, <1>7, <1>8, <1>9, <1>10 DEF PassStep, ContinuePass

(* The steps of the provider, of the bearers of URLs, of readers and of time, *)
(* and the transactions of one statement.                                     *)
Others ==
  \/ \E c \in late : LateApplies(c)
  \/ Direct \/ UrlExpires \/ ReplaceStorage
  \/ CreateSingle \/ IssueParts \/ MarkDeleted
  \/ IssueRead \/ Download \/ DownloadEnds
  \/ ReadLapses \/ ExpireReadLease \/ PruneReadLease
  \/ LeaseLapses \/ RetryDue
  \/ ReclaimExpired \/ PruneLease \/ PruneFile

LEMMA OthersTyped == ASSUME TypeOK, Others PROVE TypeOK'
  <1>0. RowsOK /\ OutsideOK /\ ProviderOK /\ late \subseteq CallStates
    BY TypeParts DEF ActorsOK
  <1>1. ASSUME NEW c \in late, LateApplies(c) PROVE TypeOK'
    <2>1. c \in CallStates /\ late' \subseteq CallStates
      BY <1>0, <1>1 DEF LateApplies
    <2>2. ProviderOK'
      BY <1>0, <1>1, <2>1, CallFields, ApplyTyped DEF LateApplies
    <2> QED BY <1>1, <2>1, <2>2, OthersUnchanged, TypedByParts DEF LateApplies
  <1>2. ASSUME NEW d \in Data, DirectPut(d) PROVE TypeOK'
    <2>1. ProviderOK'
      BY <1>0, <1>2 DEF DirectPut, PutObject, ProviderOK, Bodies
    <2> QED BY <1>2, <2>1, OthersUnchanged, TypedByParts DEF DirectPut
  <1>3. ASSUME NEW d \in Data, NEW p \in Parts, DirectPart(p, d) PROVE TypeOK'
    <2>1. ProviderOK'
      BY <1>0, <1>3 DEF DirectPart, UploadPart, ProviderOK
    <2> QED BY <1>3, <2>1, OthersUnchanged, TypedByParts DEF DirectPart
  <1>4. CASE UrlExpires \/ ReplaceStorage \/ IssueParts
    <2>1. OutsideOK'
      BY <1>0, <1>4 DEF UrlExpires, ReplaceStorage, IssueParts, OutsideOK
    <2> QED BY <1>4, <2>1, OthersUnchanged, TypedByParts
            DEF UrlExpires, ReplaceStorage, IssueParts
  <1>5. CASE IssueRead \/ Download \/ DownloadEnds \/ ReadLapses \/ ExpireReadLease
             \/ PruneReadLease
    <2>1. OutsideOK'
      BY <1>0, <1>5 DEF IssueRead, Download, DownloadEnds, ReadLapses, ExpireReadLease,
                        PruneReadLease, ReadLeaseMoves, OutsideOK, ProviderOK
    <2> QED BY <1>5, <2>1, OthersUnchanged, TypedByParts
            DEF IssueRead, Download, DownloadEnds, ReadLapses, ExpireReadLease,
                PruneReadLease, ReadLeaseMoves
  <1>6. CASE CreateSingle
    <2>1. relay \in BOOLEAN
      BY <1>0 DEF OutsideOK
    <2>2. RowsOK'
      BY <1>0, <1>6, <2>1, ReserveTyped DEF CreateSingle
    <2>3. OutsideOK'
      BY <1>0, <1>6 DEF CreateSingle, OutsideOK
    <2> QED BY <1>6, <2>2, <2>3, OthersUnchanged, TypedByParts DEF CreateSingle
  <1>7. CASE MarkDeleted \/ LeaseLapses \/ RetryDue \/ ReclaimExpired \/ PruneFile
    <2>1. RowsOK'
      <3>0. /\ file \in {"none", "pending", "active", "deleted", "reclaimed", "gone"}
            /\ lease \in {"none", "issued", "lapsed", "committed", "expired"}
            /\ located \in BOOLEAN /\ due \in BOOLEAN
        BY <1>0 DEF RowsOK
      <3>1. CASE MarkDeleted
        <4>1. /\ file' = "deleted" /\ due' = TRUE
              /\ UNCHANGED <<multi, upload, claim, lease, handle, secret, recorded, ledger,
                             located, etag>>
          BY <3>1 DEF MarkDeleted, leaserow
        <4> QED BY <1>0, <3>0, <4>1, RowsMoved
      <3>2. CASE LeaseLapses
        <4>1. /\ lease' = "lapsed"
              /\ UNCHANGED <<file, multi, upload, claim, handle, secret, recorded, ledger,
                             located, etag, due>>
          BY <3>2 DEF LeaseLapses
        <4> QED BY <1>0, <3>0, <4>1, RowsMoved
      <3>3. CASE RetryDue
        <4>1. /\ due' = TRUE
              /\ UNCHANGED <<file, multi, upload, claim, lease, handle, secret, recorded, ledger,
                             located, etag>>
          BY <3>3 DEF RetryDue, leaserow
        <4> QED BY <1>0, <3>0, <4>1, RowsMoved
      <3>4. CASE ReclaimExpired
        <4>1. /\ file' = "reclaimed" /\ lease' = "expired" /\ due' = TRUE
              /\ UNCHANGED <<multi, upload, claim, handle, secret, recorded, ledger, located, etag>>
          BY <3>4 DEF ReclaimExpired
        <4> QED BY <1>0, <3>0, <4>1, RowsMoved
      <3>5. CASE PruneFile
        <4>1. /\ file' = "gone"
              /\ UNCHANGED <<multi, upload, claim, lease, handle, secret, recorded, ledger,
                             located, etag, due>>
          BY <3>5 DEF PruneFile, leaserow
        <4> QED BY <1>0, <3>0, <4>1, RowsMoved
      <3> QED BY <1>7, <3>1, <3>2, <3>3, <3>4, <3>5
    <2> QED BY <1>7, <2>1, OthersUnchanged, TypedByParts
            DEF MarkDeleted, LeaseLapses, RetryDue, ReclaimExpired, PruneFile
  <1>8. CASE PruneLease
    <2>1. NoParts \in [Parts -> PartRows]
      BY DEF NoParts, PartRows
    <2>2. RowsOK'
      BY <1>0, <1>8, <2>1 DEF PruneLease, RowsOK
    <2> QED BY <1>8, <2>2, OthersUnchanged, TypedByParts DEF PruneLease
  <1> QED BY <1>1, <1>2, <1>3, <1>4, <1>5, <1>6, <1>7, <1>8 DEF Others, Direct

LEMMA InitTyped == Init => TypeOK
  <1> SUFFICES ASSUME Init PROVE TypeOK
    OBVIOUS
  <1>1. NoParts \in [Parts -> PartRows] /\ NoVendorParts \in [Parts -> Data \cup {Nothing}]
    BY DEF NoParts, NoVendorParts, PartRows
  <1>2. req \in [Requests -> RequestStates] /\ worker \in [Workers -> WorkerStates]
    BY DEF Init, RequestStates, WorkerStates
  <1> QED BY <1>1, <1>2 DEF Init, TypeOK

(* The steps, as the proofs take them apart. *)
LEMMA StepKinds ==
  ASSUME Next
  PROVE  Others \/ (\E r \in Requests : RequestStep(r)) \/ (\E w \in Workers : PassStep(w))
  BY DEF Next, Others

LEMMA NextTyped == TypeOK /\ [Next]_vars => TypeOK'
  <1> SUFFICES ASSUME TypeOK, [Next]_vars PROVE TypeOK'
    OBVIOUS
  <1>1. ASSUME NEW r \in Requests, RequestStep(r) PROVE TypeOK'
    BY <1>1, StartsTyped, ContinueTyped DEF RequestStep
  <1>2. CASE UNCHANGED vars
    <2>1. UNCHANGED rows /\ UNCHANGED provider /\ UNCHANGED outside /\ UNCHANGED late
          /\ UNCHANGED req /\ UNCHANGED worker
      BY <1>2 DEF vars
    <2> QED BY <2>1, OthersUnchanged, TypedByParts
  <1> QED BY <1>1, <1>2, StepKinds, PassTyped, OthersTyped

(* Every row keeps to the CHECK constraints of its table, an active file has   *)
(* its ETag and a completing one its claim, and whatever a request or a pass   *)
(* has got as far as, it holds what its next call and transaction need.        *)
THEOREM TypeCorrect == Spec => []TypeOK
  BY InitTyped, NextTyped, PTL DEF Spec

-----------------------------------------------------------------------------
(* What a step may do to the rows that decide the fate of the file.            *)

Fate == <<file, multi, upload, located, etag>>

RowMove ==
  \/ UNCHANGED Fate /\ (LeaseHeld => LeaseHeld') /\ (lease # "none" => lease' # "none")
  \/ PruneLease
  \/ \E m \in BOOLEAN : Reserve(m)
  \/ /\ Committable /\ ~multi /\ file' = "active" /\ UNCHANGED <<multi, upload, located>>
  \/ /\ Claimable /\ upload' = "completing" /\ lease' = "issued"
     /\ UNCHANGED <<file, multi, located, etag>>
  \/ /\ file = "pending" /\ upload = "completing" /\ file' = "active" /\ upload' = "none"
     /\ object = etag' /\ etag' \in Lists /\ UNCHANGED <<multi, located>>
  \/ /\ ExpiredCompletion /\ UNCHANGED <<file, multi, located, etag>>
     /\ \/ upload' = "none" /\ lease' = "issued"
        \/ upload' = "cleaning" /\ lease' = "expired"
  \/ /\ file = "pending" /\ upload \in {"none", "cleaning"}
     /\ file' = "reclaimed" /\ upload' = "none" /\ (located' => lease' # "none")
     /\ UNCHANGED <<multi, etag>>
  \/ \E s \in {"reclaimed", "deleted"} : ReleaseLocation(s)
  \/ MarkDeleted
  \/ PruneFile

(* The first steps of a request move no row, or reserve, claim or count it. *)
LEMMA StartsMoveRows ==
  ASSUME IInv, NEW r \in Requests,
         \/ CreateMultipart(r) \/ ObserveForCommit(r) \/ ListParts(r) \/ CompleteRelayed(r)
         \/ \E d \in Data : RelayPut(r, d) \/ \E p \in Parts : ClaimPart(r, p, d)
  PROVE  RowMove
  <1>1. CASE CreateMultipart(r)
    BY <1>1 DEF CreateMultipart, RowMove
  <1>2. CASE CompleteRelayed(r)
    BY <1>2 DEF CompleteRelayed, ClaimCompletion, RowMove
  <1>3. CASE \/ ObserveForCommit(r) \/ ListParts(r)
             \/ \E d \in Data : RelayPut(r, d) \/ \E p \in Parts : ClaimPart(r, p, d)
    BY <1>3 DEF ObserveForCommit, ListParts, RelayPut, ClaimPart, rows, leaserow, RowMove, Fate,
                LeaseHeld
  <1> QED BY <1>1, <1>2, <1>3

(* finalize_commit of a single file, and finalize_completion of a multipart    *)
(* one whose object stands.                                                    *)
LEMMA CommitMovesRows ==
  ASSUME NEW b, FinalizeCommit(b), ~multi
  PROVE  RowMove
  BY DEF FinalizeCommit, Committable, rows, leaserow, RowMove, Fate, LeaseHeld

LEMMA CompletionMovesRows ==
  ASSUME NEW b \in Lists, FinalizeCompletion(b), Condemned \/ object = b
  PROVE  RowMove
  <1>1. CASE Finalizable(b)
    <2>1. file = "pending" /\ upload = "completing" /\ object = b
      BY <1>1 DEF Finalizable, Condemned
    <2> QED BY <1>1, <2>1 DEF FinalizeCompletion, RowMove
  <1>2. CASE ~Finalizable(b)
    BY <1>2 DEF FinalizeCompletion, rows, leaserow, RowMove, Fate, LeaseHeld
  <1> QED BY <1>1, <1>2

(* The later ones. *)
LEMMA ContinueMovesRows ==
  ASSUME IInv, NEW r \in Requests, Continue(r) \/ Heartbeat(r)
  PROVE  RowMove
  <1>0. TypeOK /\ req[r] \in RequestStates
    BY DEF IInv, TypeOK
  <1>1. CASE CommitSingle(r)
    BY <1>1, CommitMovesRows DEF CommitSingle, At, IInv, Modes
  <1>2. CASE CommitMultipart(r)
    <2>1. req[r].body \in Lists /\ (Condemned \/ object = req[r].body)
      BY <1>0, <1>2, RequestFields DEF CommitMultipart, At, IInv, ObjectStands
    <2> QED BY <1>2, <2>1, CompletionMovesRows DEF CommitMultipart
  <1>3. CASE ClaimListed(r)
    BY <1>3 DEF ClaimListed, ClaimCompletion, RowMove, rows, leaserow, Fate, LeaseHeld
  <1>4. CASE ReclaimPending(r)
    BY <1>4 DEF ReclaimPending, Unowned, RowMove, rows, leaserow, Fate, LeaseHeld
  <1>5. CASE AttachUploadId(r) \/ CreateFails(r) \/ CancelPart(r) \/ FinishPart(r)
             \/ ProviderAnswers(r) \/ RequestDies(r) \/ Heartbeat(r)
    BY <1>5 DEF AttachUploadId, CreateFails, CancelPart, FinishPart, SetPart, ProviderAnswers,
                RequestDies, Heartbeat, RowMove, rows, leaserow, Fate, LeaseHeld
  <1>6. CASE Spooled(r) \/ RecordUpload(r)
    BY <1>6 DEF Spooled, RecordUpload, Record, RowMove, rows, leaserow, Fate, LeaseHeld
  <1> QED BY <1>1, <1>2, <1>3, <1>4, <1>5, <1>6 DEF Continue

(* The steps of a pass. *)
LEMMA PassMovesRows ==
  ASSUME IInv, NEW w \in Workers, PassStep(w)
  PROVE  RowMove
  <1>0. TypeOK /\ worker[w] \in WorkerStates
    BY DEF IInv, TypeOK
  <1>1. ASSUME NEW job, NEW at, BeginRecovery(w, job, at) PROVE RowMove
    BY <1>1 DEF BeginRecovery, RowMove, Fate, LeaseHeld, leaserow
  <1>2. CASE Act(w)
    <2>1. CASE worker[w].at = "commit" /\ FinalizeCommit(worker[w].want)
      BY <1>0, <2>1, WorkerFields, CommitMovesRows DEF IInv, Modes
    <2>2. CASE worker[w].at = "finalize" /\ FinalizeCompletion(worker[w].want)
      BY <1>0, <2>2, WorkerFields, CompletionMovesRows DEF IInv, ObjectStands
    <2>3. CASE ReopenCompletion \/ ClaimCleanup \/ UNCHANGED rows
      BY <2>3 DEF ReopenCompletion, ClaimCleanup, RowMove, rows, leaserow, Fate, LeaseHeld
    <2> QED BY <1>2, <2>1, <2>2, <2>3 DEF Act
  <1>3. CASE FinishSweep(w)
    BY <1>3 DEF FinishSweep, FinalizeCleanup, RowMove, rows, leaserow, Fate, LeaseHeld
  <1>4. CASE Observe(w) \/ SweepObject(w) \/ PassStops(w)
    BY <1>4 DEF Observe, SweepObject, PassStops, RowMove, rows, leaserow, Fate, LeaseHeld
  <1> QED BY <1>1, <1>2, <1>3, <1>4
          DEF PassStep, ContinuePass, RecoverObserve, RecoverCompletion, RecoverCleaning,
              RecoverReclaimed, RecoverDeleted

LEMMA OthersMoveRows == ASSUME Others PROVE RowMove
  <1>1. CASE CreateSingle \/ MarkDeleted \/ PruneLease \/ PruneFile
    BY <1>1 DEF CreateSingle, RowMove
  <1>2. CASE ReclaimExpired
    BY <1>2 DEF ReclaimExpired, Reclaimable, Unowned, RowMove
  <1>3. CASE LeaseLapses \/ RetryDue
    BY <1>3 DEF LeaseLapses, RetryDue, RowMove, Fate, LeaseHeld, leaserow
  <1>4. CASE UNCHANGED rows
    BY <1>4 DEF RowMove, rows, leaserow, Fate, LeaseHeld
  <1> QED BY <1>1, <1>2, <1>3, <1>4
          DEF Others, LateApplies, Direct, DirectPut, DirectPart, UrlExpires, ReplaceStorage,
              IssueParts, IssueRead, Download, DownloadEnds, ReadLapses, ExpireReadLease,
              PruneReadLease, ReadLeaseMoves

LEMMA NextMovesRows == ASSUME IInv, [Next]_vars PROVE RowMove
  <1>1. ASSUME NEW r \in Requests, RequestStep(r) PROVE RowMove
    BY <1>1, StartsMoveRows, ContinueMovesRows DEF RequestStep
  <1>2. CASE UNCHANGED vars
    BY <1>2 DEF vars, RowMove, rows, leaserow, Fate, LeaseHeld
  <1> QED BY <1>1, <1>2, StepKinds, PassMovesRows, OthersMoveRows

-----------------------------------------------------------------------------
(* What follows from the rows alone.                                           *)

LEMMA StaysCondemned == ASSUME IInv, RowMove, Condemned PROVE Condemned'
  BY DEF IInv, TypeOK, RowMove, Fate, PruneLease, Reserve, Committable, Claimable, Unowned,
         ExpiredCompletion, ReleaseLocation, MarkDeleted, PruneFile, Condemned

LEMMA StaysScannable == ASSUME IInv, RowMove PROVE AlwaysScannable'
  BY DEF IInv, TypeOK, AlwaysScannable, RowMove, Fate, PruneLease, LeasePrunable, Reserve, Fresh,
         Committable, Claimable, Unowned, ExpiredCompletion, ReleaseLocation, MarkDeleted,
         PruneFile, LeaseHeld, leaserow

LEMMA MovesFollowLifecycle == ASSUME IInv, RowMove PROVE LifecycleStep
  <1> USE DEF LifecycleStep, Life, Transitions
  <1>1. CASE UNCHANGED Fate \/ PruneLease \/ \E s \in {"reclaimed", "deleted"} : ReleaseLocation(s)
    BY <1>1 DEF Fate, PruneLease, ReleaseLocation
  <1>2. ASSUME NEW m \in BOOLEAN, Reserve(m) PROVE LifecycleStep
    BY <1>2 DEF Reserve, IInv, Fresh
  <1>3. CASE Committable /\ ~multi /\ file' = "active" /\ UNCHANGED <<multi, upload, located>>
    BY <1>3 DEF Committable
  <1>4. CASE /\ Claimable /\ upload' = "completing" /\ UNCHANGED file
    BY <1>4 DEF Claimable, Unowned
  <1>5. CASE file = "pending" /\ upload = "completing" /\ file' = "active" /\ upload' = "none"
    BY <1>5
  <1>6. CASE ExpiredCompletion /\ UNCHANGED file /\ upload' \in {"none", "cleaning"}
    BY <1>6 DEF ExpiredCompletion
  <1>7. CASE /\ file = "pending" /\ upload \in {"none", "cleaning"}
             /\ file' = "reclaimed" /\ upload' = "none"
    BY <1>7
  <1>8. CASE MarkDeleted \/ PruneFile
    BY <1>8 DEF MarkDeleted, PruneFile
  <1> QED BY <1>1, <1>2, <1>3, <1>4, <1>5, <1>6, <1>7, <1>8 DEF RowMove

-----------------------------------------------------------------------------
(* What a step may do to the provider.                                         *)

StoreMove ==
  \/ UNCHANGED <<object, session>>
  \/ /\ ~multi
  \/ /\ session = "none" /\ session' = "open" /\ UNCHANGED object
  \/ /\ session = "open" /\ session' = "closed"
     /\ object' = object \/ object' \in Lists
  \/ /\ Condemned /\ object' = Nothing
     /\ session' = session \/ (session = "open" /\ session' = "closed")

ProviderMove == UNCHANGED <<object, session>> \/ (UNCHANGED rows /\ StoreMove)

LEMMA ApplyMovesStore ==
  ASSUME NEW c \in CallStates, Apply(c),
         c.op = "put" => ~multi, c.op \in {"cleanup", "remove"} => Condemned
  PROVE  StoreMove
  <1>1. CASE c.op \in {"put", "part", "create", "complete"}
    BY <1>1, CallFields
       DEF Apply, PutObject, UploadPart, CreateSession, CompleteSession, StoreMove
  <1>2. CASE c.op \in {"abort", "cleanup", "remove"}
    BY <1>2 DEF Apply, AbortSession, CleanupUpload, DeleteObject, CloseSession, StoreMove
  <1> QED BY <1>1, <1>2, CallFields

LEMMA NextMovesProvider == ASSUME IInv, [Next]_vars PROVE ProviderMove
  <1>0. TypeOK /\ Modes /\ DeletesOnlyCondemned
    BY DEF IInv
  <1>1. ASSUME NEW r \in Requests, RequestStep(r) PROVE ProviderMove
    <2>1. CASE ProviderAnswers(r)
      <3>1. /\ CallOf(req[r]) \in CallStates /\ CallOf(req[r]).op = req[r].op
            /\ req[r].op \in {"put", "create", "abort", "part", "complete"}
        BY <1>0, <2>1, RequestFields DEF ProviderAnswers, TypeOK, CallOf, Call
      <3>2. req[r].op = "put" => ~multi
        BY <1>0 DEF Modes
      <3> QED BY <2>1, <3>1, <3>2, ApplyMovesStore DEF ProviderAnswers, ProviderMove
    <2>2. CASE UNCHANGED provider
      BY <2>2 DEF provider, ProviderMove
    <2>3. CASE Continue(r)
      BY <2>1, <2>2, <2>3
         DEF Continue, AttachUploadId, CreateFails, ReclaimPending, Spooled, RecordUpload,
             FinishPart, CancelPart, CommitSingle, ClaimListed, CommitMultipart, RequestDies
    <2> QED BY <1>1, <2>2, <2>3
            DEF RequestStep, Heartbeat, CreateMultipart, ObserveForCommit, ListParts,
                CompleteRelayed, RelayPut, ClaimPart
  <1>2. ASSUME NEW w \in Workers, PassStep(w) PROVE ProviderMove
    <2>1. CASE SweepObject(w)
      <3>1. Condemned
        BY <1>0, <2>1 DEF SweepObject, DeletesOnlyCondemned
      <3>2. SweepCall(w).op # "put"
        BY SweepCallTyped
      <3>3. StoreMove
        BY <2>1, <3>1, <3>2, SweepCallTyped, ApplyMovesStore DEF SweepObject
      <3> QED BY <2>1, <3>3 DEF SweepObject, ProviderMove
    <2>2. CASE UNCHANGED provider
      BY <2>2 DEF provider, ProviderMove
    <2> QED BY <1>2, <2>1, <2>2
            DEF PassStep, ContinuePass, RecoverObserve, RecoverCompletion, RecoverCleaning,
                RecoverReclaimed, RecoverDeleted, BeginRecovery, Observe, Act, FinishSweep,
                PassStops
  <1>3. ASSUME NEW c \in late, LateApplies(c) PROVE ProviderMove
    <2>1. c \in CallStates /\ UNCHANGED rows
      BY <1>0, <1>3 DEF TypeOK, LateApplies
    <2>2. (c.op = "put" => ~multi) /\ (c.op \in {"cleanup", "remove"} => Condemned)
      BY <1>0 DEF Modes, DeletesOnlyCondemned
    <2>3. CASE Apply(c)
      BY <2>1, <2>2, <2>3, ApplyMovesStore DEF ProviderMove
    <2>4. ASSUME NEW o \in {"abort", "remove"}, c.op = "cleanup", Apply([c EXCEPT !.op = o])
          PROVE  ProviderMove
      <3>1. [c EXCEPT !.op = o] \in CallStates /\ [c EXCEPT !.op = o].op = o
        BY <2>1, <2>4, CallFields DEF CallStates
      <3> QED BY <2>1, <2>2, <2>4, <3>1, ApplyMovesStore DEF ProviderMove
    <2> QED BY <1>3, <2>3, <2>4 DEF LateApplies
  <1>4. ASSUME NEW d \in Data, DirectPut(d) \/ \E p \in Parts : DirectPart(p, d)
        PROVE  ProviderMove
    BY <1>4 DEF DirectPut, DirectPart, UploadPart, ProviderMove, StoreMove
  <1>5. CASE UNCHANGED provider
    BY <1>5 DEF provider, ProviderMove
  <1>6. CASE UNCHANGED vars
    BY <1>5, <1>6 DEF vars
  <1> QED BY <1>1, <1>2, <1>3, <1>4, <1>5, <1>6, StepKinds
          DEF Others, Direct, UrlExpires, ReplaceStorage, CreateSingle, IssueParts, MarkDeleted,
              IssueRead, Download, DownloadEnds, ReadLapses, ExpireReadLease, PruneReadLease,
              ReadLeaseMoves, LeaseLapses, RetryDue, ReclaimExpired, PruneLease, PruneFile

-----------------------------------------------------------------------------
(* What a step may do to a request, a pass and the calls in flight.            *)

RequestMove(r) ==
  \/ req'[r] \in {req[r], Idle}
  \/ /\ file' # "none"
     /\ req'[r].op \in {"create", "abort", "part", "complete"} => multi'
     /\ req'[r].op \in {"put", "commit"} => ~multi'
     /\ req'[r].at = "answered" /\ req'[r].op = "complete" => object' = req'[r].body

WorkerMove(w) ==
  \/ worker'[w] \in {worker[w], Asleep}
  \/ /\ file' # "none"
     /\ worker'[w].job = "complete" => multi'
     /\ worker'[w].job = "observe" => ~multi'
     /\ worker'[w].at = "finalize" => object' = worker'[w].want
     /\ worker'[w].at = "sweeping" => Condemned'

LateMove ==
  \A c \in late' : \/ c \in late
                   \/ /\ file' # "none"
                      /\ c.op = "put" => ~multi'
                      /\ c.op = "complete" => multi'
                      /\ c.op \in {"cleanup", "remove"} => Condemned'

LEMMA StaysBorn == ASSUME RowMove, file # "none" PROVE file' # "none" /\ multi' = multi
  BY DEF RowMove, Fate, PruneLease, Reserve, Committable, Claimable, Unowned, ExpiredCompletion,
         ReleaseLocation, MarkDeleted, PruneFile

(* A request that moves keeps its operation and its body. *)
LEMMA MovedRequest ==
  ASSUME NEW x \in RequestStates, NEW a
  PROVE  /\ [x EXCEPT !.at = a].at = a
         /\ [x EXCEPT !.at = a].op = x.op
         /\ [x EXCEPT !.at = a].body = x.body
  BY DEF RequestStates, Idle

LEMMA MovedPass ==
  ASSUME NEW x \in WorkerStates, NEW a
  PROVE  /\ [x EXCEPT !.at = a].at = a
         /\ [x EXCEPT !.at = a].job = x.job
         /\ [x EXCEPT !.at = a].want = x.want
  BY DEF WorkerStates, Asleep

(* The request whose step it is. *)
LEMMA OwnMove == ASSUME IInv, NEW r \in Requests, RequestStep(r) PROVE RequestMove(r)
  <1>0. /\ req \in [Requests -> RequestStates] /\ req[r] \in RequestStates
        /\ req[r] # Idle => file # "none"
        /\ req[r].op \in {"create", "abort", "part", "complete"} => multi
        /\ req[r].op \in {"put", "commit"} => ~multi
        /\ TypeOK
    BY DEF IInv, TypeOK, Fresh, Modes
  <1>1. CASE Return(r) \/ UNCHANGED req
    BY <1>0, <1>1 DEF Return, RequestMove
  <1>2. ASSUME NEW a \in {"calling", "answered"}, Move(r, a), UNCHANGED <<file, multi>>,
               req[r].at # "idle",
               a = "answered" /\ req[r].op = "complete" => object' = req[r].body
        PROVE  RequestMove(r)
    <2>1. req'[r] = [req[r] EXCEPT !.at = a]
      BY <1>0, <1>2 DEF Move
    <2>2. req'[r].at = a /\ req'[r].op = req[r].op /\ req'[r].body = req[r].body
      BY <1>0, <2>1, MovedRequest
    <2> QED BY <1>0, <1>2, <2>2 DEF RequestMove, Idle
  <1>3. CASE ProviderAnswers(r)
    <2>1. req[r].op = "complete" => object' = req[r].body
      BY <1>3 DEF ProviderAnswers, Apply, CallOf, Call, CompleteSession
    <2> QED BY <1>2, <1>3, <2>1 DEF ProviderAnswers, rows
  <1>4. CASE Spooled(r)
    BY <1>1, <1>2, <1>4 DEF Spooled, At, rows
  <1>5. CASE ClaimListed(r)
    BY <1>1, <1>2, <1>5 DEF ClaimListed, At, ClaimCompletion
  <1>6. CASE CreateFails(r)
    <2>1. req[r].op = "create" /\ UNCHANGED <<file, multi>> /\ req[r].at # "idle"
      BY <1>6 DEF CreateFails, At
    <2>2. req'[r] = [req[r] EXCEPT !.at = "calling", !.op = "abort"]
      BY <1>0, <1>6 DEF CreateFails
    <2>3. req'[r].at = "calling" /\ req'[r].op = "abort"
      BY <1>0, <2>2 DEF RequestStates, Idle
    <2> QED BY <1>0, <2>1, <2>3 DEF RequestMove, Idle
  <1>7. ASSUME NEW a \in {"calling", "spooling", "listed", "observed"}, NEW o, NEW p, NEW b,
               Start(r, a, o, p, b), file' # "none",
               o \in {"create", "part", "complete"} => multi', o \in {"put", "commit"} => ~multi',
               o # "abort"
        PROVE  RequestMove(r)
    <2>1. req'[r].at = a /\ req'[r].op = o
      BY <1>0, <1>7 DEF Start
    <2> QED BY <1>7, <2>1 DEF RequestMove
  <1>8. CASE CreateMultipart(r)
    <2>1. Start(r, "calling", "create", Nothing, Nothing) /\ file' = "pending" /\ multi'
      BY <1>8 DEF CreateMultipart, Reserve
    <2> QED BY <1>7, <2>1
  <1>9. CASE CompleteRelayed(r)
    <2>1. /\ Start(r, "calling", "complete", Nothing, LedgerList)
          /\ file' = "pending" /\ multi'
      BY <1>9 DEF CompleteRelayed, ClaimCompletion, Claimable, Unowned
    <2> QED BY <1>7, <2>1
  <1>10. CASE \/ ObserveForCommit(r) \/ ListParts(r)
              \/ \E d \in Data : RelayPut(r, d) \/ \E p \in Parts : ClaimPart(r, p, d)
    <2>1. CASE ObserveForCommit(r)
      <3>1. /\ Start(r, "observed", "commit", Nothing, Uploaded(relay))
            /\ file' = "pending" /\ ~multi'
        BY <2>1 DEF ObserveForCommit, rows
      <3> QED BY <1>7, <3>1
    <2>2. CASE ListParts(r)
      <3>1. Start(r, "listed", "complete", Nothing, vpart) /\ file' = "pending" /\ multi'
        BY <2>2 DEF ListParts, rows
      <3> QED BY <1>7, <3>1
    <2>3. ASSUME NEW d \in Data, RelayPut(r, d) PROVE RequestMove(r)
      <3>1. Start(r, "spooling", "put", Nothing, d) /\ file' = "pending" /\ ~multi'
        BY <2>3 DEF RelayPut, Unowned, rows
      <3> QED BY <1>7, <3>1
    <2>4. ASSUME NEW d \in Data, NEW p \in Parts, ClaimPart(r, p, d) PROVE RequestMove(r)
      <3>1. Start(r, "calling", "part", p, d) /\ file' = "pending" /\ multi'
        BY <2>4 DEF ClaimPart, Unowned
      <3> QED BY <1>7, <3>1
    <2> QED BY <1>10, <2>1, <2>2, <2>3, <2>4
  <1>11. CASE Continue(r)
    BY <1>1, <1>3, <1>4, <1>5, <1>6, <1>11
       DEF Continue, AttachUploadId, ReclaimPending, RecordUpload, FinishPart, CancelPart,
           CommitSingle, CommitMultipart, RequestDies
  <1> QED BY <1>1, <1>8, <1>9, <1>10, <1>11 DEF RequestStep, Heartbeat

(* A step of one request leaves the others where they are. *)
LEMMA OneRequestMoves ==
  ASSUME TypeOK, NEW q \in Requests, RequestStep(q), NEW r \in Requests, r # q
  PROVE  req'[r] = req[r]
  <1>0. req \in [Requests -> RequestStates]
    BY DEF TypeOK
  <1>1. CASE Continue(q)
    BY <1>0, <1>1
       DEF Continue, AttachUploadId, CreateFails, ReclaimPending, Spooled, RecordUpload,
           FinishPart, CancelPart, CommitSingle, ClaimListed, CommitMultipart, ProviderAnswers,
           RequestDies, Move, Return
  <1> QED BY <1>0, <1>1
          DEF RequestStep, Heartbeat, CreateMultipart, ObserveForCommit, ListParts,
              CompleteRelayed, RelayPut, ClaimPart, Start

LEMMA OthersLeaveActors == ASSUME Others PROVE UNCHANGED <<req, worker>>
  BY DEF Others, LateApplies, Direct, DirectPut, DirectPart, UrlExpires, ReplaceStorage,
         CreateSingle, IssueParts, MarkDeleted, IssueRead, Download, DownloadEnds, ReadLapses,
         ExpireReadLease, PruneReadLease, ReadLeaseMoves, LeaseLapses, RetryDue,
         ReclaimExpired, PruneLease, PruneFile

LEMMA PassLeavesRequests == ASSUME NEW w, PassStep(w) PROVE UNCHANGED req
  BY DEF PassStep, ContinuePass, RecoverObserve, RecoverCompletion, RecoverCleaning,
         RecoverReclaimed, RecoverDeleted, BeginRecovery, Observe, Act, SweepObject,
         FinishSweep, PassStops

LEMMA RequestLeavesPasses == ASSUME NEW r, RequestStep(r) PROVE UNCHANGED worker
  <1>1. CASE Continue(r)
    BY <1>1
       DEF Continue, AttachUploadId, CreateFails, ReclaimPending, Spooled, RecordUpload,
           FinishPart, CancelPart, CommitSingle, ClaimListed, CommitMultipart, ProviderAnswers,
           RequestDies
  <1> QED BY <1>1
          DEF RequestStep, Heartbeat, CreateMultipart, ObserveForCommit, ListParts,
              CompleteRelayed, RelayPut, ClaimPart

LEMMA NextMovesRequests ==
  ASSUME IInv, [Next]_vars, NEW r \in Requests
  PROVE  RequestMove(r)
  <1>1. CASE UNCHANGED req
    BY <1>1 DEF RequestMove
  <1>2. ASSUME NEW q \in Requests, RequestStep(q) PROVE RequestMove(r)
    <2>1. CASE q = r
      BY <1>2, <2>1, OwnMove
    <2>2. CASE q # r
      BY <1>2, <2>2, OneRequestMoves DEF RequestMove, IInv
    <2> QED BY <2>1, <2>2
  <1> QED BY <1>1, <1>2, StepKinds, OthersLeaveActors, PassLeavesRequests DEF vars

LEMMA OwnPassMove == ASSUME IInv, NEW w \in Workers, PassStep(w) PROVE WorkerMove(w)
  <1>0. /\ worker \in [Workers -> WorkerStates] /\ worker[w] \in WorkerStates
        /\ worker[w] # Asleep => file # "none"
        /\ worker[w].job = "complete" => multi
        /\ worker[w].job = "observe" => ~multi
        /\ upload # "none" => multi
    BY DEF IInv, TypeOK, Fresh, Modes
  <1>1. CASE worker' = [worker EXCEPT ![w] = Asleep]
    BY <1>0, <1>1 DEF WorkerMove
  <1>2. ASSUME NEW job, NEW at, BeginRecovery(w, job, at), file # "none",
               job = "complete" => multi, job = "observe" => ~multi, at # "finalize",
               at = "sweeping" => Condemned
        PROVE  WorkerMove(w)
    <2>1. UNCHANGED <<file, multi, upload>>
      BY <1>2 DEF BeginRecovery
    <2>2. worker'[w].job = job /\ worker'[w].at = at
      BY <1>0, <1>2 DEF BeginRecovery
    <2> QED BY <1>2, <2>1, <2>2 DEF WorkerMove, Condemned
  <1>3. CASE RecoverObserve(w)
    BY <1>2, <1>3 DEF RecoverObserve, Unowned
  <1>4. CASE RecoverCompletion(w)
    BY <1>0, <1>2, <1>4 DEF RecoverCompletion, ExpiredCompletion
  <1>5. CASE RecoverCleaning(w) \/ RecoverReclaimed(w) \/ RecoverDeleted(w)
    BY <1>2, <1>5
       DEF RecoverCleaning, RecoverReclaimed, RecoverDeleted, CleanupCandidate,
           ReclaimCandidate, Purgeable, Condemned
  <1>6. ASSUME NEW a, worker' = [worker EXCEPT ![w].at = a], UNCHANGED rows,
               worker[w] # Asleep, a # "sweeping", a = "finalize" => object' = worker[w].want
        PROVE  WorkerMove(w)
    <2>1. worker'[w] = [worker[w] EXCEPT !.at = a]
      BY <1>0, <1>6
    <2>2. worker'[w].at = a /\ worker'[w].job = worker[w].job /\ worker'[w].want = worker[w].want
      BY <1>0, <2>1, MovedPass
    <2> QED BY <1>0, <1>6, <2>2 DEF WorkerMove, rows
  <1>7. CASE SweepObject(w)
    <2>1. /\ worker' = [worker EXCEPT ![w].at = "swept"]
          /\ UNCHANGED rows /\ worker[w] # Asleep
      BY <1>7 DEF SweepObject, Asleep
    <2> QED BY <1>6, <2>1
  <1>8. CASE Observe(w)
    <2>0. worker[w] # Asleep /\ UNCHANGED rows /\ object' = object
      <3>1. worker[w].at = "observing" /\ rows' = rows /\ provider' = provider
        BY <1>8 DEF Observe
      <3>2. worker[w] # Asleep
        BY <3>1 DEF Asleep
      <3>3. object' = object
        BY <3>1 DEF provider
      <3> QED BY <3>1, <3>2, <3>3
    <2>1. ASSUME NEW a, a = CompletionAction(worker[w].want),
                 worker' = [worker EXCEPT ![w].at = a]
          PROVE  WorkerMove(w)
      <3>1. a # "sweeping" /\ (a = "finalize" => object' = worker[w].want)
        BY <2>0, <2>1 DEF CompletionAction
      <3> QED BY <1>6, <2>0, <2>1, <3>1
    <2>2. CASE worker[w].job = "observe"
      <3> DEFINE b == Uploaded(worker[w].mode)
                 x == [worker[w] EXCEPT !.at = "commit", !.want = b]
      <3>1. worker'[w] \in {x, Asleep}
        BY <1>0, <1>8, <2>2 DEF Observe
      <3>2. x.at = "commit" /\ x.job = "observe"
        BY <1>0, <2>2 DEF WorkerStates, Asleep
      <3> QED BY <1>0, <2>0, <2>2, <3>1, <3>2 DEF WorkerMove, rows
    <2> QED BY <1>8, <2>1, <2>2 DEF Observe
  <1> QED BY <1>1, <1>3, <1>4, <1>5, <1>7, <1>8
          DEF PassStep, ContinuePass, Act, FinishSweep, PassStops

LEMMA NextMovesPasses == ASSUME IInv, [Next]_vars, NEW w \in Workers PROVE WorkerMove(w)
  <1>1. CASE UNCHANGED worker
    BY <1>1 DEF WorkerMove
  <1>2. ASSUME NEW v \in Workers, PassStep(v) PROVE WorkerMove(w)
    <2>1. CASE v = w
      BY <1>2, <2>1, OwnPassMove
    <2>2. CASE v # w
      <3>1. worker \in [Workers -> WorkerStates]
        BY DEF IInv, TypeOK
      <3>2. worker'[w] = worker[w]
        BY <1>2, <2>2, <3>1
           DEF PassStep, ContinuePass, RecoverObserve, RecoverCompletion, RecoverCleaning,
               RecoverReclaimed, RecoverDeleted, BeginRecovery, Observe, Act, SweepObject,
               FinishSweep, PassStops
      <3> QED BY <3>2 DEF WorkerMove
    <2> QED BY <2>1, <2>2
  <1> QED BY <1>1, <1>2, StepKinds, OthersLeaveActors, RequestLeavesPasses DEF vars

LEMMA NextMovesLate == ASSUME IInv, [Next]_vars PROVE LateMove
  <1>0. TypeOK /\ Fresh /\ Modes /\ DeletesOnlyCondemned /\ RowMove
    BY NextMovesRows DEF IInv
  <1>1. CASE late' \subseteq late
    BY <1>1 DEF LateMove
  <1>2. ASSUME NEW c, Abandon(c), file # "none", c.op = "put" => ~multi,
               c.op = "complete" => multi, c.op \in {"cleanup", "remove"} => Condemned
        PROVE  LateMove
    <2>1. late' \subseteq late \cup {c}
      BY <1>2 DEF Abandon
    <2> QED BY <1>0, <1>2, <2>1, StaysBorn, StaysCondemned DEF LateMove
  <1>3. ASSUME NEW r \in Requests, RequestStep(r) PROVE LateMove
    <2>1. ASSUME req[r].at = "calling", Abandon(CallOf(req[r])) PROVE LateMove
      <3>1. req[r].op \in {"put", "create", "abort", "part", "complete"} /\ file # "none"
        <4>1. req[r] \in RequestStates
          BY <1>0 DEF TypeOK
        <4>2. req[r] # Idle
          BY <2>1 DEF Idle
        <4> QED BY <1>0, <2>1, <4>1, <4>2, RequestFields DEF Fresh
      <3>2. (req[r].op = "put" => ~multi) /\ (req[r].op = "complete" => multi)
        BY <1>0 DEF Modes
      <3>3. CallOf(req[r]).op = req[r].op
        BY DEF CallOf, Call
      <3> QED BY <1>2, <2>1, <3>1, <3>2, <3>3
    <2>2. CASE UNCHANGED late
      BY <1>1, <2>2
    <2>3. CASE Continue(r)
      BY <2>1, <2>2, <2>3
         DEF Continue, AttachUploadId, CreateFails, ReclaimPending, Spooled, RecordUpload,
             FinishPart, CancelPart, CommitSingle, ClaimListed, CommitMultipart,
             ProviderAnswers, RequestDies, At
    <2> QED BY <1>3, <2>2, <2>3
            DEF RequestStep, Heartbeat, CreateMultipart, ObserveForCommit, ListParts,
                CompleteRelayed, RelayPut, ClaimPart
  <1>4. ASSUME NEW w \in Workers, PassStep(w) PROVE LateMove
    <2>1. ASSUME worker[w].at = "sweeping", Abandon(SweepCall(w)) PROVE LateMove
      <3>1. Condemned /\ file # "none"
        BY <1>0, <2>1 DEF Fresh, Asleep, DeletesOnlyCondemned
      <3> QED BY <1>2, <2>1, <3>1, SweepCallTyped
    <2>2. CASE UNCHANGED late
      BY <1>1, <2>2
    <2> QED BY <1>4, <2>1, <2>2
            DEF PassStep, ContinuePass, RecoverObserve, RecoverCompletion, RecoverCleaning,
                RecoverReclaimed, RecoverDeleted, BeginRecovery, Observe, Act, SweepObject,
                FinishSweep, PassStops
  <1>5. CASE Others
    BY <1>1, <1>5
       DEF Others, LateApplies, Direct, DirectPut, DirectPart, UrlExpires, ReplaceStorage,
           CreateSingle, IssueParts, MarkDeleted, IssueRead, Download, DownloadEnds, ReadLapses,
           ExpireReadLease, PruneReadLease, ReadLeaseMoves, LeaseLapses, RetryDue,
           ReclaimExpired, PruneLease, PruneFile
  <1> QED BY <1>1, <1>3, <1>4, <1>5, StepKinds DEF vars

-----------------------------------------------------------------------------
(* The invariant is inductive.                                                 *)

LEMMA KeepsFresh == ASSUME IInv, [Next]_vars PROVE Fresh'
  <1>0. RowMove /\ LateMove /\ TypeOK /\ Fresh /\ Published
    BY NextMovesRows, NextMovesLate DEF IInv
  <1>1. SUFFICES ASSUME file' = "none" PROVE Fresh'
    BY DEF Fresh
  <1>2. file = "none"
    BY <1>0, <1>1, StaysBorn
  <1>3. /\ upload = "none" /\ etag = Nothing /\ late = {} /\ url = "none"
        /\ object = Nothing /\ session = "none" /\ reading = Nothing /\ reads = "none"
        /\ \A r \in Requests : req[r] = Idle
        /\ \A w \in Workers : worker[w] = Asleep
    BY <1>0, <1>2 DEF Fresh, Published
  <1>4. \A r \in Requests : req'[r] = Idle
    BY <1>1, <1>3, NextMovesRequests DEF RequestMove
  <1>5. \A w \in Workers : worker'[w] = Asleep
    BY <1>1, <1>3, NextMovesPasses DEF WorkerMove
  <1>6. late' = {}
    BY <1>0, <1>1, <1>3 DEF LateMove
  <1>7. UNCHANGED <<upload, etag>>
    BY <1>0, <1>1, <1>2
       DEF RowMove, Fate, PruneLease, Reserve, Committable, Claimable, Unowned,
           ExpiredCompletion, ReleaseLocation, MarkDeleted, PruneFile
  <1>8. UNCHANGED <<url, object, session, reading>>
    <2>1. CASE UNCHANGED provider /\ UNCHANGED outside
      BY <2>1 DEF provider, outside
    <2>2. ASSUME NEW r \in Requests, RequestStep(r) PROVE UNCHANGED <<provider, outside>>
      <3>1. req[r].at = "idle"
        BY <1>3 DEF Idle
      <3> QED BY <2>2, <3>1
              DEF RequestStep, Continue, AttachUploadId, CreateFails, ReclaimPending, Spooled,
                  RecordUpload, FinishPart, CancelPart, CommitSingle, ClaimListed, At,
                  CommitMultipart, ProviderAnswers, RequestDies, Heartbeat, CreateMultipart,
                  ObserveForCommit, ListParts, CompleteRelayed, RelayPut, ClaimPart
    <2>3. ASSUME NEW w \in Workers, PassStep(w) PROVE UNCHANGED <<provider, outside>>
      <3>1. worker[w].at = "idle"
        BY <1>3 DEF Asleep
      <3> QED BY <2>3, <3>1
              DEF PassStep, ContinuePass, RecoverObserve, RecoverCompletion, RecoverCleaning,
                  RecoverReclaimed, RecoverDeleted, BeginRecovery, Observe, Act, SweepObject,
                  FinishSweep, PassStops
    <2>4. CASE Others
      BY <1>1, <1>2, <1>3, <2>4
         DEF Others, LateApplies, Direct, DirectPut, DirectPart, UrlExpires, ReplaceStorage,
             CreateSingle, Reserve, IssueParts, Unowned, MarkDeleted, IssueRead, Readable,
             Download, DownloadEnds, ReadLapses, ExpireReadLease, PruneReadLease,
             ReadLeaseMoves, LeaseLapses, RetryDue, ReclaimExpired, PruneLease, PruneFile,
             provider, outside
    <2> QED BY <2>1, <2>2, <2>3, <2>4, StepKinds DEF vars
  <1> QED BY <1>3, <1>4, <1>5, <1>6, <1>7, <1>8 DEF Fresh

LEMMA KeepsModes == ASSUME IInv, [Next]_vars PROVE Modes'
  <1>0. RowMove /\ LateMove /\ TypeOK /\ Fresh /\ Modes
    BY NextMovesRows, NextMovesLate DEF IInv
  <1>1. file # "none" => multi' = multi
    BY <1>0, StaysBorn
  <1>2. upload' # "none" => multi'
    BY <1>0
       DEF RowMove, Fate, PruneLease, Reserve, Committable, Claimable, Unowned,
           ExpiredCompletion, ReleaseLocation, MarkDeleted, PruneFile, Fresh, Modes
  <1>3. ASSUME NEW r \in Requests
        PROVE  /\ req'[r].op \in {"create", "abort", "part", "complete"} => multi'
               /\ req'[r].op \in {"put", "commit"} => ~multi'
    <2>1. CASE req'[r] = Idle
      BY <2>1 DEF Idle
    <2>2. CASE req'[r] = req[r] /\ req[r] # Idle
      BY <1>0, <1>1, <2>2 DEF Fresh, Modes
    <2> QED BY <2>1, <2>2, NextMovesRequests DEF RequestMove
  <1>4. ASSUME NEW w \in Workers
        PROVE  /\ worker'[w].job = "complete" => multi'
               /\ worker'[w].job = "observe" => ~multi'
    <2>1. CASE worker'[w] = Asleep
      BY <2>1 DEF Asleep
    <2>2. CASE worker'[w] = worker[w] /\ worker[w] # Asleep
      BY <1>0, <1>1, <2>2 DEF Fresh, Modes
    <2> QED BY <2>1, <2>2, NextMovesPasses DEF WorkerMove
  <1>5. ASSUME NEW c \in late'
        PROVE  (c.op = "put" => ~multi') /\ (c.op = "complete" => multi')
    BY <1>0, <1>1 DEF LateMove, Fresh, Modes
  <1> QED BY <1>2, <1>3, <1>4, <1>5 DEF Modes

LEMMA KeepsDeletes == ASSUME IInv, [Next]_vars PROVE DeletesOnlyCondemned'
  <1>0. RowMove /\ LateMove /\ DeletesOnlyCondemned
    BY NextMovesRows, NextMovesLate DEF IInv
  <1>1. SUFFICES ASSUME ~Condemned' PROVE DeletesOnlyCondemned'
    BY DEF DeletesOnlyCondemned
  <1>2. ~Condemned
    BY <1>0, <1>1, StaysCondemned
  <1>3. \A c \in late' : c.op \notin {"cleanup", "remove"}
    BY <1>0, <1>1, <1>2 DEF LateMove, DeletesOnlyCondemned
  <1>4. ASSUME NEW w \in Workers PROVE worker'[w].at # "sweeping"
    <2>1. Asleep.at # "sweeping"
      BY DEF Asleep
    <2> QED BY <1>0, <1>1, <1>2, <2>1, NextMovesPasses DEF WorkerMove, DeletesOnlyCondemned
  <1> QED BY <1>3, <1>4 DEF DeletesOnlyCondemned

(* Nothing replaces the object of a multipart file: nobody puts it, and its    *)
(* session is closed.  Only the sweep of a condemned file removes it.          *)
LEMMA ObjectKept ==
  ASSUME IInv, [Next]_vars, multi, object # Nothing
  PROVE  UNCHANGED <<object, session>> \/ (Condemned' /\ object' = Nothing /\ UNCHANGED session)
  <1>1. ProviderMove /\ RowMove /\ session = "closed"
    BY NextMovesProvider, NextMovesRows DEF IInv, ObjectStands
  <1> QED BY <1>1, StaysCondemned DEF ProviderMove, StoreMove

LEMMA KeepsObject == ASSUME IInv, [Next]_vars PROVE ObjectStands'
  <1>0. /\ ProviderMove /\ RowMove /\ TypeOK /\ Fresh /\ Modes /\ ObjectStands
        /\ file # "none" => multi' = multi
    BY NextMovesProvider, NextMovesRows, StaysBorn DEF IInv
  <1>1. \A x \in Lists : x # Nothing
    BY NativeAssumption DEF Lists
  <1>2. multi' /\ object' # Nothing => session' = "closed"
    <2>1. CASE UNCHANGED <<object, session>>
      BY <1>0, <2>1 DEF Fresh, ObjectStands
    <2>2. CASE UNCHANGED rows /\ StoreMove
      BY <1>0, <2>2 DEF rows, StoreMove, ObjectStands
    <2> QED BY <1>0, <2>1, <2>2 DEF ProviderMove
  <1>3. ASSUME NEW r \in Requests, req'[r].at = "answered", req'[r].op = "complete"
        PROVE  Condemned' \/ object' = req'[r].body
    <2>1. CASE req'[r] = req[r]
      <3>1. Condemned \/ object = req[r].body
        BY <1>0, <1>3, <2>1 DEF ObjectStands, At
      <3>2. multi /\ req[r].body \in Lists
        BY <1>0, <1>3, <2>1, RequestFields DEF Modes, TypeOK
      <3> QED BY <1>0, <1>1, <2>1, <3>1, <3>2, ObjectKept, StaysCondemned
    <2>2. req'[r] # Idle
      BY <1>3 DEF Idle
    <2> QED BY <1>3, <2>1, <2>2, NextMovesRequests DEF RequestMove
  <1>4. ASSUME NEW w \in Workers, worker'[w].at = "finalize"
        PROVE  Condemned' \/ object' = worker'[w].want
    <2>1. CASE worker'[w] = worker[w]
      <3>1. Condemned \/ object = worker[w].want
        BY <1>0, <1>4, <2>1 DEF ObjectStands
      <3>2. worker[w] \in WorkerStates /\ worker[w].at = "finalize"
        BY <1>0, <1>4, <2>1 DEF TypeOK
      <3>3. multi /\ worker[w].want \in Lists
        BY <1>0, <3>2, WorkerFields DEF Modes
      <3> QED BY <1>0, <1>1, <2>1, <3>1, <3>3, ObjectKept, StaysCondemned
    <2>2. worker'[w] # Asleep
      BY <1>4 DEF Asleep
    <2> QED BY <1>4, <2>1, <2>2, NextMovesPasses DEF WorkerMove
  <1> QED BY <1>2, <1>3, <1>4 DEF ObjectStands, At

(* Readers: leases are issued for active files, downloads are opened by them.  *)
ReaderMove ==
  /\ reads' = reads \/ (UNCHANGED rows /\ (reads # "none" \/ file = "active"))
  /\ reading' = reading \/ Download \/ DownloadEnds

LEMMA NextMovesReaders == ASSUME [Next]_vars PROVE ReaderMove
  <1>1. CASE UNCHANGED <<reads, reading>>
    BY <1>1 DEF ReaderMove
  <1>2. ASSUME NEW r \in Requests, RequestStep(r) PROVE UNCHANGED <<reads, reading>>
    <2>1. CASE Continue(r)
      BY <2>1
         DEF Continue, AttachUploadId, CreateFails, ReclaimPending, Spooled, RecordUpload,
             FinishPart, CancelPart, CommitSingle, ClaimListed, CommitMultipart,
             ProviderAnswers, RequestDies, outside
    <2> QED BY <1>2, <2>1
            DEF RequestStep, Heartbeat, CreateMultipart, ObserveForCommit, ListParts,
                CompleteRelayed, RelayPut, ClaimPart, outside
  <1>3. ASSUME NEW w \in Workers, PassStep(w) PROVE UNCHANGED <<reads, reading>>
    BY <1>3
       DEF PassStep, ContinuePass, RecoverObserve, RecoverCompletion, RecoverCleaning,
           RecoverReclaimed, RecoverDeleted, BeginRecovery, Observe, Act, SweepObject,
           FinishSweep, PassStops, outside
  <1>4. CASE Others
    BY <1>4
       DEF Others, LateApplies, Direct, DirectPut, DirectPart, UrlExpires, ReplaceStorage,
           CreateSingle, IssueParts, MarkDeleted, IssueRead, Readable, Download, DownloadEnds,
           ReadLapses, ExpireReadLease, PruneReadLease, ReadLeaseMoves, LeaseLapses, RetryDue,
           ReclaimExpired, PruneLease, PruneFile, outside, ReaderMove
  <1> QED BY <1>1, <1>2, <1>3, <1>4, StepKinds DEF vars, outside

(* A row that moves leaves the object where it is. *)
LEMMA KeepsPublished == ASSUME IInv, [Next]_vars PROVE Published'
  <1>0. /\ ProviderMove /\ RowMove /\ ReaderMove
        /\ TypeOK /\ Fresh /\ Modes /\ AlwaysScannable /\ ObjectStands /\ Published
        /\ file # "none" => multi' = multi
    BY NextMovesProvider, NextMovesRows, NextMovesReaders, StaysBorn DEF IInv
  <1>1. /\ Condemned' => file' # "active"
        /\ file' \in {"active", "deleted"} =>
             UNCHANGED rows \/ UNCHANGED <<object, session>>
    BY <1>0 DEF Condemned, ProviderMove
  <1>2. file' = "active" => located'
    <2> USE DEF RowMove, Fate, PruneLease, Reserve, Committable, Claimable, Unowned,
                ExpiredCompletion, ReleaseLocation, MarkDeleted, PruneFile
    <2>1. SUFFICES ASSUME file' = "active" PROVE located'
      OBVIOUS
    <2>2. CASE file = "active"
      <3>1. located
        BY <1>0, <2>2 DEF Published
      <3>2. UNCHANGED located \/ \E x \in {"reclaimed", "deleted"} : located' = (located /\ file # x)
        BY <1>0, <2>1, <2>2
      <3> QED BY <2>2, <3>1, <3>2
    <2>3. CASE file # "active"
      <3>1. file = "pending" /\ located' = located
        BY <1>0, <2>1, <2>3
      <3> QED BY <1>0, <3>1 DEF AlwaysScannable
    <2> QED BY <2>2, <2>3
  <1>3. multi' /\ file' \in {"active", "deleted"} =>
          /\ file' = "active" => object' # Nothing /\ object' = etag'
          /\ object' \in {Nothing, etag'}
          /\ session' = "closed"
    <2>1. SUFFICES ASSUME multi', file' \in {"active", "deleted"}
                   PROVE  /\ file' = "active" => object' # Nothing /\ object' = etag'
                          /\ object' \in {Nothing, etag'}
                          /\ session' = "closed"
      OBVIOUS
    <2>2. CASE UNCHANGED rows
      <3>1. UNCHANGED <<file, multi, etag>> /\ multi /\ session = "closed"
        BY <1>0, <2>1, <2>2 DEF rows, Published
      <3>2. UNCHANGED <<object, session>> \/ (Condemned /\ object' = Nothing /\ UNCHANGED session)
        BY <1>0, <3>1 DEF ProviderMove, StoreMove
      <3> QED BY <1>0, <2>1, <3>1, <3>2 DEF Published, Condemned
    <2>3. CASE UNCHANGED <<object, session>>
      <3>1. file # "none"
        BY <1>0, <2>1
           DEF RowMove, Fate, PruneLease, Reserve, Committable, Claimable, Unowned,
               ExpiredCompletion, ReleaseLocation, MarkDeleted, PruneFile
      <3>2. multi
        BY <1>0, <2>1, <3>1
      <3>3. CASE file = "pending"
        <4>1. object = etag' /\ etag' \in Lists /\ file' = "active"
          BY <1>0, <2>1, <3>2, <3>3
             DEF RowMove, Fate, PruneLease, Reserve, Committable, Claimable, Unowned,
                 ExpiredCompletion, ReleaseLocation, MarkDeleted, PruneFile
        <4>2. object # Nothing
          BY <4>1, NativeAssumption DEF Lists
        <4> QED BY <1>0, <2>3, <3>2, <4>1, <4>2 DEF ObjectStands
      <3>4. CASE file \in {"active", "deleted"}
        <4>1. UNCHANGED etag /\ (file = "deleted" => file' = "deleted")
          BY <1>0, <2>1, <3>2, <3>4
             DEF RowMove, Fate, PruneLease, Reserve, Committable, Claimable, Unowned,
                 ExpiredCompletion, ReleaseLocation, MarkDeleted, PruneFile
        <4> QED BY <1>0, <2>1, <2>3, <3>2, <3>4, <4>1 DEF Published
      <3>5. file \in {"pending", "active", "deleted"}
        BY <1>0, <2>1, <3>1
           DEF RowMove, Fate, PruneLease, Reserve, Committable, Claimable, Unowned,
               ExpiredCompletion, ReleaseLocation, MarkDeleted, PruneFile
      <3> QED BY <3>3, <3>4, <3>5
    <2> QED BY <1>0, <2>2, <2>3 DEF ProviderMove
  <1>4. reads' # "none" => file' \in {"active", "deleted"}
    <2>1. CASE UNCHANGED rows
      BY <1>0, <2>1 DEF ReaderMove, rows, Published
    <2>2. CASE reads' = reads
      BY <1>0, <2>2
         DEF RowMove, Fate, PruneLease, Reserve, Committable, Claimable, Unowned,
             ExpiredCompletion, ReleaseLocation, MarkDeleted, PruneFile, Published
    <2> QED BY <1>0, <2>1, <2>2 DEF ReaderMove
  <1> QED BY <1>2, <1>3, <1>4 DEF Published

LEMMA InitInv == Init => IInv
  <1> SUFFICES ASSUME Init PROVE IInv
    OBVIOUS
  <1>1. TypeOK
    BY InitTyped
  <1>2. Fresh /\ AlwaysScannable
    BY DEF Init, Fresh, AlwaysScannable
  <1>3. Modes /\ DeletesOnlyCondemned
    BY DEF Init, Modes, DeletesOnlyCondemned, Idle, Asleep
  <1>4. ObjectStands /\ Published
    BY DEF Init, ObjectStands, Published, At, Idle, Asleep
  <1> QED BY <1>1, <1>2, <1>3, <1>4 DEF IInv

LEMMA InvInductive == IInv /\ [Next]_vars => IInv'
  <1> SUFFICES ASSUME IInv, [Next]_vars PROVE IInv'
    OBVIOUS
  <1>1. TypeOK'
    BY NextTyped DEF IInv
  <1>2. Fresh' /\ Modes' /\ DeletesOnlyCondemned'
    BY KeepsFresh, KeepsModes, KeepsDeletes
  <1>3. AlwaysScannable'
    BY NextMovesRows, StaysScannable
  <1>4. ObjectStands' /\ Published'
    BY KeepsObject, KeepsPublished
  <1> QED BY <1>1, <1>2, <1>3, <1>4 DEF IInv

LEMMA Inductive == Spec => []IInv
  BY InitInv, InvInductive, PTL DEF Spec

(* Whatever a handler or a job has read before it takes the file row, the row  *)
(* moves along the edges of the state diagrams only.                           *)
THEOREM LifecycleFollowed == Spec => FollowsLifecycle
  <1>1. IInv /\ [Next]_vars => [LifecycleStep]_vars
    BY NextMovesRows, MovesFollowLifecycle
  <1> QED BY <1>1, Inductive, PTL DEF Spec, FollowsLifecycle

(* No cleanup or delete call, sent or still in flight, can reach the object of *)
(* a file that is active or may yet become so.                                 *)
THEOREM DeletionsOfCondemned == Spec => []DeletesOnlyCondemned
  <1>1. IInv => DeletesOnlyCondemned
    BY DEF IInv
  <1> QED BY <1>1, Inductive, PTL

(* Every pending file stays in the scan of some job of the reconciler.         *)
THEOREM ScannableAlways == Spec => []AlwaysScannable
  <1>1. IInv => AlwaysScannable
    BY DEF IInv
  <1> QED BY <1>1, Inductive, PTL

(* The ETag of an active multipart file is that of its object, whatever URLs,  *)
(* uploads and calls are still about.                                          *)
THEOREM MultipartFaithful == Spec => []MultipartIsFaithful
  <1>1. IInv => MultipartIsFaithful
    BY DEF IInv, Published, MultipartIsFaithful
  <1> QED BY <1>1, Inductive, PTL

-----------------------------------------------------------------------------
(* Relayed single uploads: one at a time, under the lock of the files row.     *)

\* Calls end with their callers: no PutObject given up on is still in flight.
NoLatePut == \A c \in late : c.op # "put"

\* The request that uploads holds the row of a pending single file, alone.
PutAlone ==
  \A r \in Requests : req[r].op = "put" =>
    /\ file = "pending" /\ upload = "none" /\ ~multi
    /\ \A s \in Requests : req[s].op = "put" => s = r

\* Nothing is recorded before the provider has answered.
Unrecorded ==
  /\ file = "none" => recorded = Nothing
  /\ \A r \in Requests : req[r].op = "put" /\ req[r].at # "spooling" => recorded = Nothing

\* What is recorded, and what is about to be, is stored.
Kept ==
  url = "none" /\ ~multi /\ file \in {"pending", "active"} =>
    /\ recorded # Nothing => object = recorded
    /\ \A r \in Requests : At(r, "answered", "put") => object = req[r].body

RelayInv == IInv /\ PutAlone /\ Unrecorded /\ Kept

(* What a step may do to a relayed upload. *)
PutMove(r) ==
  \/ req'[r] = req[r]
  \/ req'[r].op # "put"
  \/ /\ req'[r].at = "spooling" /\ ~Locked /\ Unowned /\ ~multi /\ UNCHANGED rows
     /\ \A s \in Requests \ {r} : req'[s] = req[s]
  \/ /\ req[r].op = "put" /\ UNCHANGED rows
     /\ \/ req'[r].at = "calling" /\ recorded = Nothing
        \/ req[r].at = "calling" /\ req'[r].at = "answered" /\ object' = req'[r].body

LEMMA OwnPutMove == ASSUME IInv, NEW r \in Requests, RequestStep(r) PROVE PutMove(r)
  <1>0. req \in [Requests -> RequestStates] /\ req[r] \in RequestStates
    BY DEF IInv, TypeOK
  <1>1. CASE Return(r) \/ UNCHANGED req
    <2>1. Idle.op # "put"
      BY DEF Idle
    <2> QED BY <1>0, <1>1, <2>1 DEF Return, PutMove
  <1>2. ASSUME NEW a, Move(r, a)
        PROVE  req'[r].at = a /\ req'[r].op = req[r].op /\ req'[r].body = req[r].body
    <2>1. req'[r] = [req[r] EXCEPT !.at = a]
      BY <1>0, <1>2 DEF Move
    <2> QED BY <1>0, <2>1, MovedRequest
  <1>3. CASE ProviderAnswers(r)
    <2>1. req[r].op = "put" => object' = req[r].body
      BY <1>3 DEF ProviderAnswers, Apply, CallOf, Call, PutObject
    <2>2. req'[r].at = "answered" /\ req'[r].op = req[r].op /\ req'[r].body = req[r].body
      BY <1>2, <1>3 DEF ProviderAnswers
    <2> QED BY <1>3, <2>1, <2>2 DEF ProviderAnswers, PutMove
  <1>4. CASE Spooled(r)
    <2>1. CASE Promoted(req[r].body) /\ Move(r, "calling") /\ UNCHANGED rows
      BY <1>2, <1>4, <2>1 DEF Spooled, At, Promoted, PutMove
    <2> QED BY <1>1, <1>4, <2>1 DEF Spooled
  <1>5. CASE ClaimListed(r)
    BY <1>1, <1>2, <1>5 DEF ClaimListed, At, PutMove
  <1>6. CASE CreateFails(r)
    <2>1. req'[r] = [req[r] EXCEPT !.at = "calling", !.op = "abort"]
      BY <1>0, <1>6 DEF CreateFails
    <2>2. req'[r].op = "abort"
      BY <1>0, <2>1 DEF RequestStates, Idle
    <2> QED BY <2>2 DEF PutMove
  <1>7. ASSUME NEW a, NEW o, NEW p, NEW b, Start(r, a, o, p, b)
        PROVE  /\ req'[r].at = a /\ req'[r].op = o
               /\ \A s \in Requests \ {r} : req'[s] = req[s]
    BY <1>0, <1>7 DEF Start
  <1>8. ASSUME NEW d \in Data, RelayPut(r, d) PROVE PutMove(r)
    <2>1. Start(r, "spooling", "put", Nothing, d)
      BY <1>8 DEF RelayPut
    <2> QED BY <1>7, <1>8, <2>1 DEF RelayPut, PutMove
  <1>9. CASE \/ CreateMultipart(r) \/ ObserveForCommit(r) \/ ListParts(r) \/ CompleteRelayed(r)
             \/ \E d \in Data, p \in Parts : ClaimPart(r, p, d)
    <2>1. ASSUME NEW a, NEW o, NEW p, NEW b, Start(r, a, o, p, b), o # "put" PROVE PutMove(r)
      BY <1>7, <2>1 DEF PutMove
    <2>2. CASE CreateMultipart(r) \/ ObserveForCommit(r) \/ ListParts(r) \/ CompleteRelayed(r)
      BY <2>1, <2>2 DEF CreateMultipart, ObserveForCommit, ListParts, CompleteRelayed
    <2>3. ASSUME NEW d \in Data, NEW p \in Parts, ClaimPart(r, p, d) PROVE PutMove(r)
      BY <2>1, <2>3 DEF ClaimPart
    <2> QED BY <1>9, <2>2, <2>3
  <1>10. CASE Continue(r)
    BY <1>1, <1>3, <1>4, <1>5, <1>6, <1>10
       DEF Continue, AttachUploadId, ReclaimPending, RecordUpload, FinishPart, CancelPart,
           CommitSingle, CommitMultipart, RequestDies
  <1> QED BY <1>1, <1>8, <1>9, <1>10 DEF RequestStep, Heartbeat

LEMMA NextMovesPuts == ASSUME IInv, [Next]_vars, NEW r \in Requests PROVE PutMove(r)
  <1>1. CASE UNCHANGED req
    BY <1>1 DEF PutMove
  <1>2. ASSUME NEW q \in Requests, RequestStep(q) PROVE PutMove(r)
    <2>1. CASE q = r
      BY <1>2, <2>1, OwnPutMove
    <2>2. CASE q # r
      BY <1>2, <2>2, OneRequestMoves DEF PutMove, IInv
    <2> QED BY <2>1, <2>2
  <1> QED BY <1>1, <1>2, StepKinds, OthersLeaveActors, PassLeavesRequests DEF vars

(* While the row is locked by an upload, nothing changes the state of the file. *)
LEMMA LockHolds ==
  ASSUME IInv, PutAlone, Locked, [Next]_vars
  PROVE  UNCHANGED <<file, multi, upload>>
  <1>1. file = "pending" /\ upload = "none" /\ ~multi /\ Modes
    BY DEF Locked, PutAlone, IInv
  <1>2. ASSUME NEW b, FinalizeCompletion(b) \/ FinalizeCommit(b) PROVE UNCHANGED <<file, multi, upload>>
    BY <1>1, <1>2 DEF FinalizeCompletion, Finalizable, FinalizeCommit, rows
  <1>3. ASSUME NEW r \in Requests, RequestStep(r) PROVE UNCHANGED <<file, multi, upload>>
    <2>1. CASE ReclaimPending(r)
      BY <1>1, <2>1 DEF ReclaimPending, At, Modes
    <2>2. CASE CommitSingle(r) \/ CommitMultipart(r)
      BY <1>2, <2>2 DEF CommitSingle, CommitMultipart
    <2>3. CASE Spooled(r) \/ RecordUpload(r)
      BY <2>3 DEF Spooled, RecordUpload, Record, rows
    <2>4. CASE ClaimListed(r) \/ CompleteRelayed(r)
      BY <1>1, <2>4 DEF ClaimListed, CompleteRelayed, ClaimCompletion, Claimable, rows
    <2>5. CASE \/ AttachUploadId(r) \/ CreateFails(r) \/ FinishPart(r) \/ CancelPart(r)
               \/ ProviderAnswers(r) \/ RequestDies(r) \/ Heartbeat(r)
      BY <2>5 DEF AttachUploadId, CreateFails, FinishPart, CancelPart, SetPart, ProviderAnswers,
                  RequestDies, Heartbeat, rows
    <2>6. CASE \/ CreateMultipart(r) \/ ObserveForCommit(r) \/ ListParts(r)
               \/ \E d \in Data : RelayPut(r, d) \/ \E p \in Parts : ClaimPart(r, p, d)
      BY <1>1, <2>6 DEF CreateMultipart, Reserve, ObserveForCommit, ListParts, RelayPut,
                        ClaimPart, rows
    <2> QED BY <1>3, <2>1, <2>2, <2>3, <2>4, <2>5, <2>6 DEF RequestStep, Continue
  <1>4. ASSUME NEW w \in Workers, PassStep(w) PROVE UNCHANGED <<file, multi, upload>>
    <2>1. CASE Act(w)
      BY <1>1, <1>2, <2>1 DEF Act, ReopenCompletion, ClaimCleanup, ExpiredCompletion, rows
    <2>2. CASE FinishSweep(w)
      BY <1>1, <2>2 DEF FinishSweep, FinalizeCleanup, ReleaseLocation, rows
    <2> QED BY <1>4, <2>1, <2>2
            DEF PassStep, ContinuePass, RecoverObserve, RecoverCompletion, RecoverCleaning,
                RecoverReclaimed, RecoverDeleted, BeginRecovery, Observe, SweepObject,
                PassStops, rows
  <1>5. CASE Others
    BY <1>1, <1>5
       DEF Others, LateApplies, Direct, DirectPut, DirectPart, UrlExpires, ReplaceStorage,
           CreateSingle, Reserve, IssueParts, MarkDeleted, IssueRead, Download, DownloadEnds,
           ReadLapses, ExpireReadLease, PruneReadLease, ReadLeaseMoves, LeaseLapses, RetryDue,
           ReclaimExpired, Reclaimable, PruneLease, PruneFile, rows
  <1>6. CASE UNCHANGED vars
    BY <1>6 DEF vars, rows
  <1> QED BY <1>3, <1>4, <1>5, <1>6, StepKinds

(* What a step may do to the recorded upload, to the URLs and to the object of *)
(* a single file that is not condemned.                                        *)
RecordMove ==
  \/ recorded' \in {recorded, Nothing}
  \/ \E r \in Requests :
       /\ At(r, "answered", "put") /\ recorded' = req[r].body
       /\ Return(r) /\ UNCHANGED provider

UrlMove == url' = "none" => url = "none" \/ file = "none"

SingleMove ==
  \/ UNCHANGED object
  \/ url = "valid" \/ multi \/ Condemned
  \/ \E r \in Requests : At(r, "calling", "put") /\ UNCHANGED rows

LEMMA NextMovesRecord == ASSUME IInv, [Next]_vars PROVE RecordMove
  <1>1. CASE UNCHANGED recorded
    BY <1>1 DEF RecordMove
  <1>2. CASE UNCHANGED rows
    BY <1>1, <1>2 DEF rows, leaserow
  <1>3. ASSUME NEW r \in Requests, RequestStep(r) PROVE RecordMove
    <2>1. CASE RecordUpload(r)
      BY <2>1 DEF RecordUpload, Record, RecordMove
    <2>2. CASE Spooled(r)
      BY <1>2, <2>2 DEF Spooled, Record, RecordMove
    <2>3. CASE Continue(r)
      BY <1>1, <1>2, <2>1, <2>2, <2>3
         DEF Continue, AttachUploadId, CreateFails, ReclaimPending, FinishPart, CancelPart,
             SetPart, CommitSingle, FinalizeCommit, ClaimListed, ClaimCompletion,
             CommitMultipart, FinalizeCompletion, ProviderAnswers, RequestDies
    <2> QED BY <1>1, <1>2, <1>3, <2>3
            DEF RequestStep, Heartbeat, CreateMultipart, Reserve, ObserveForCommit, ListParts,
                CompleteRelayed, ClaimCompletion, RelayPut, ClaimPart
  <1>4. ASSUME NEW w \in Workers, PassStep(w) PROVE RecordMove
    <2>1. CASE Act(w)
      BY <1>1, <1>2, <2>1
         DEF Act, FinalizeCommit, FinalizeCompletion, ReopenCompletion, ClaimCleanup
    <2>2. CASE FinishSweep(w)
      BY <1>1, <1>2, <2>2 DEF FinishSweep, FinalizeCleanup, ReleaseLocation, leaserow
    <2> QED BY <1>1, <1>2, <1>4, <2>1, <2>2
            DEF PassStep, ContinuePass, RecoverObserve, RecoverCompletion, RecoverCleaning,
                RecoverReclaimed, RecoverDeleted, BeginRecovery, Observe, SweepObject,
                PassStops, leaserow
  <1>5. CASE PruneLease
    BY <1>5 DEF PruneLease, RecordMove
  <1>6. CASE Others
    BY <1>1, <1>2, <1>5, <1>6
       DEF Others, LateApplies, Direct, DirectPut, DirectPart, UrlExpires, ReplaceStorage,
           CreateSingle, Reserve, IssueParts, MarkDeleted, IssueRead, Download, DownloadEnds,
           ReadLapses, ExpireReadLease, PruneReadLease, ReadLeaseMoves, LeaseLapses, RetryDue,
           ReclaimExpired, PruneFile, leaserow
  <1> QED BY <1>2, <1>3, <1>4, <1>6, StepKinds DEF vars

LEMMA NextMovesUrl == ASSUME [Next]_vars PROVE UrlMove
  <1>1. CASE UNCHANGED outside
    BY <1>1 DEF outside, UrlMove
  <1>2. ASSUME NEW r \in Requests, RequestStep(r) PROVE UNCHANGED outside
    <2>1. CASE Continue(r)
      BY <2>1
         DEF Continue, AttachUploadId, CreateFails, ReclaimPending, Spooled, RecordUpload,
             FinishPart, CancelPart, CommitSingle, ClaimListed, CommitMultipart,
             ProviderAnswers, RequestDies
    <2> QED BY <1>2, <2>1
            DEF RequestStep, Heartbeat, CreateMultipart, ObserveForCommit, ListParts,
                CompleteRelayed, RelayPut, ClaimPart
  <1>3. ASSUME NEW w \in Workers, PassStep(w) PROVE UNCHANGED outside
    BY <1>3
       DEF PassStep, ContinuePass, RecoverObserve, RecoverCompletion, RecoverCleaning,
           RecoverReclaimed, RecoverDeleted, BeginRecovery, Observe, Act, SweepObject,
           FinishSweep, PassStops
  <1>4. CASE Others
    BY <1>4
       DEF Others, LateApplies, Direct, DirectPut, DirectPart, UrlExpires, ReplaceStorage,
           CreateSingle, Reserve, IssueParts, MarkDeleted, IssueRead, Download, DownloadEnds,
           ReadLapses, ExpireReadLease, PruneReadLease, ReadLeaseMoves, LeaseLapses, RetryDue,
           ReclaimExpired, PruneLease, PruneFile, outside, UrlMove
  <1> QED BY <1>1, <1>2, <1>3, <1>4, StepKinds DEF vars

LEMMA NextMovesSingle == ASSUME IInv, NoLatePut, [Next]_vars PROVE SingleMove
  <1>0. TypeOK /\ Modes /\ DeletesOnlyCondemned
    BY DEF IInv
  <1>1. CASE UNCHANGED provider
    BY <1>1 DEF provider, SingleMove
  <1>2. ASSUME NEW c, Apply(c), c.op \in {"create", "part", "abort"} PROVE UNCHANGED object
    BY <1>2 DEF Apply, CreateSession, UploadPart, AbortSession
  <1>3. ASSUME NEW r \in Requests, RequestStep(r) PROVE SingleMove
    <2>1. CASE ProviderAnswers(r)
      <3>1. req[r].op \in {"put", "create", "abort", "part", "complete"}
        BY <1>0, <2>1, RequestFields DEF ProviderAnswers, TypeOK
      <3>2. CallOf(req[r]).op = req[r].op /\ Apply(CallOf(req[r]))
        BY <2>1 DEF ProviderAnswers, CallOf, Call
      <3>3. CASE req[r].op = "put"
        BY <2>1, <3>3 DEF ProviderAnswers, At, SingleMove
      <3>4. CASE req[r].op = "complete"
        BY <1>0, <3>4 DEF Modes, SingleMove
      <3> QED BY <1>2, <3>1, <3>2, <3>3, <3>4 DEF SingleMove
    <2>2. CASE Continue(r)
      BY <1>1, <2>1, <2>2
         DEF Continue, AttachUploadId, CreateFails, ReclaimPending, Spooled, RecordUpload,
             FinishPart, CancelPart, CommitSingle, ClaimListed, CommitMultipart, RequestDies
    <2> QED BY <1>1, <1>3, <2>2
            DEF RequestStep, Heartbeat, CreateMultipart, ObserveForCommit, ListParts,
                CompleteRelayed, RelayPut, ClaimPart
  <1>4. ASSUME NEW w \in Workers, PassStep(w) PROVE SingleMove
    <2>1. CASE SweepObject(w)
      BY <1>0, <2>1 DEF SweepObject, DeletesOnlyCondemned, SingleMove
    <2> QED BY <1>1, <1>4, <2>1
            DEF PassStep, ContinuePass, RecoverObserve, RecoverCompletion, RecoverCleaning,
                RecoverReclaimed, RecoverDeleted, BeginRecovery, Observe, Act, FinishSweep,
                PassStops
  <1>5. ASSUME NEW c \in late, LateApplies(c) PROVE SingleMove
    <2>1. c \in CallStates /\ c.op # "put" /\ (c.op = "complete" => multi)
      BY <1>0 DEF TypeOK, NoLatePut, Modes
    <2>2. CASE c.op \in {"cleanup", "remove"}
      BY <1>0, <2>2 DEF DeletesOnlyCondemned, SingleMove
    <2>3. CASE c.op \in {"create", "part", "abort"}
      BY <1>2, <1>5, <2>3 DEF LateApplies, SingleMove
    <2>4. CASE c.op = "complete"
      BY <2>1, <2>4 DEF SingleMove
    <2> QED BY <2>1, <2>2, <2>3, <2>4, CallFields
  <1>6. CASE Direct
    BY <1>6 DEF Direct, DirectPut, DirectPart, SingleMove
  <1>7. CASE Others
    BY <1>1, <1>5, <1>6, <1>7
       DEF Others, UrlExpires, ReplaceStorage, CreateSingle, IssueParts, MarkDeleted, IssueRead,
           Download, DownloadEnds, ReadLapses, ExpireReadLease, PruneReadLease,
           ReadLeaseMoves, LeaseLapses, RetryDue, ReclaimExpired, PruneLease, PruneFile
  <1> QED BY <1>1, <1>3, <1>4, <1>7, StepKinds DEF vars

(* The uploads stay alone. *)
LEMMA KeepsPutAlone == ASSUME IInv, PutAlone, [Next]_vars PROVE PutAlone'
  <1>1. SUFFICES ASSUME NEW r \in Requests, req'[r].op = "put"
                 PROVE  /\ file' = "pending" /\ upload' = "none" /\ ~multi'
                        /\ \A s \in Requests : req'[s].op = "put" => s = r
    BY DEF PutAlone
  <1>2. CASE Locked
    <2>1. file' = "pending" /\ upload' = "none" /\ ~multi'
      BY <1>2, LockHolds DEF Locked, PutAlone
    <2>2. \A s \in Requests : req'[s].op = "put" => req[s].op = "put"
      BY <1>2, NextMovesPuts DEF PutMove
    <2> QED BY <1>1, <2>1, <2>2 DEF PutAlone
  <1>3. CASE ~Locked
    <2>1. req[r].op # "put"
      BY <1>3 DEF Locked
    <2>2. /\ Unowned /\ ~multi /\ UNCHANGED rows
          /\ \A s \in Requests \ {r} : req'[s] = req[s]
      BY <1>1, <2>1, NextMovesPuts DEF PutMove
    <2> QED BY <1>3, <2>2 DEF Unowned, rows, Locked
  <1> QED BY <1>2, <1>3

(* Nothing is recorded too early. *)
LEMMA KeepsUnrecorded ==
  ASSUME IInv, PutAlone, Unrecorded, [Next]_vars
  PROVE  Unrecorded'
  <1>0. RowMove /\ RecordMove /\ TypeOK /\ Fresh
    BY NextMovesRows, NextMovesRecord DEF IInv
  <1>1. ASSUME file' = "none" PROVE recorded' = Nothing
    <2>1. file = "none"
      BY <1>0, <1>1, StaysBorn
    <2>2. recorded = Nothing /\ \A r \in Requests : req[r].at = "idle"
      BY <1>0, <2>1 DEF Unrecorded, Fresh, Idle
    <2> QED BY <1>0, <2>2 DEF RecordMove, At
  <1>2. ASSUME NEW r \in Requests, req'[r].op = "put", req'[r].at # "spooling"
        PROVE  recorded' = Nothing
    <2>1. req[r].op = "put" /\ (req'[r] = req[r] \/ UNCHANGED rows)
      BY <1>2, NextMovesPuts DEF PutMove
    <2>2. recorded = Nothing
      BY <1>2, NextMovesPuts DEF PutMove, Unrecorded
    <2>3. ASSUME NEW q \in Requests, At(q, "answered", "put"), Return(q) PROVE FALSE
      <3>1. q = r
        BY <2>1, <2>3 DEF At, PutAlone
      <3>2. req'[r] = Idle
        BY <1>0, <2>3, <3>1 DEF TypeOK, Return
      <3> QED BY <1>2, <3>2 DEF Idle
    <2> QED BY <1>0, <2>2, <2>3 DEF RecordMove
  <1> QED BY <1>1, <1>2 DEF Unrecorded

(* What is recorded, or answered, stays stored. *)
LEMMA KeepsKept ==
  ASSUME RelayInv, NoLatePut, [Next]_vars
  PROVE  Kept'
  <1>0. /\ RowMove /\ RecordMove /\ UrlMove /\ SingleMove
        /\ TypeOK /\ Fresh /\ Modes /\ PutAlone /\ Unrecorded
    BY NextMovesRows, NextMovesRecord, NextMovesUrl, NextMovesSingle DEF RelayInv, IInv
  <1>1. SUFFICES ASSUME url' = "none", ~multi', file' \in {"pending", "active"}
                 PROVE  /\ recorded' # Nothing => object' = recorded'
                        /\ \A r \in Requests :
                             req'[r].at = "answered" /\ req'[r].op = "put" => object' = req'[r].body
    BY DEF Kept, At
  <1>2. CASE file = "none"
    <2>1. recorded = Nothing /\ \A r \in Requests : req[r] = Idle
      BY <1>0, <1>2 DEF Unrecorded, Fresh
    <2>2. recorded' = Nothing
      BY <1>0, <2>1 DEF RecordMove, At, Idle
    <2>3. \A r \in Requests : ~(req'[r].at = "answered" /\ req'[r].op = "put")
      BY <1>0, <2>1, NextMovesPuts DEF PutMove, Idle, RelayInv
    <2> QED BY <2>2, <2>3
  <1>3. CASE file # "none"
    <2>1. ~multi /\ url = "none"
      BY <1>0, <1>1, <1>3, StaysBorn DEF UrlMove
    <2>2. ~Condemned'
      BY <1>0, <1>1, <2>1
         DEF Condemned, Modes, RowMove, Fate, PruneLease, Reserve, Committable, Claimable, Unowned,
             ExpiredCompletion, ReleaseLocation, MarkDeleted, PruneFile
    <2>3. ~Condemned /\ file \in {"pending", "active"}
      BY <1>0, <1>3, <2>2, StaysCondemned DEF RelayInv, Condemned, TypeOK
    <2>4. /\ recorded # Nothing => object = recorded
          /\ \A r \in Requests : At(r, "answered", "put") => object = req[r].body
      BY <2>1, <2>3 DEF RelayInv, Kept
    <2>5. UNCHANGED object \/ \E r \in Requests : At(r, "calling", "put") /\ UNCHANGED rows
      BY <1>0, <2>1, <2>3 DEF SingleMove
    <2>6. ASSUME recorded' # Nothing PROVE object' = recorded'
      <3>1. CASE recorded' = recorded
        <4>1. ~\E r \in Requests : At(r, "calling", "put")
          BY <1>0, <2>6, <3>1 DEF Unrecorded, At
        <4> QED BY <2>4, <2>5, <2>6, <3>1, <4>1
      <3>2. ASSUME NEW r \in Requests, At(r, "answered", "put"), recorded' = req[r].body,
                   UNCHANGED provider
            PROVE  object' = recorded'
        BY <2>4, <3>2 DEF provider
      <3> QED BY <1>0, <2>6, <3>1, <3>2 DEF RecordMove
    <2>7. ASSUME NEW r \in Requests, req'[r].at = "answered", req'[r].op = "put"
          PROVE  object' = req'[r].body
      <3>1. CASE req'[r] = req[r]
        <4>1. At(r, "answered", "put")
          BY <2>7, <3>1 DEF At
        <4>2. ~\E q \in Requests : At(q, "calling", "put")
          BY <1>0, <4>1 DEF PutAlone, At
        <4> QED BY <2>4, <2>5, <3>1, <4>1, <4>2
      <3> QED BY <2>7, <3>1, NextMovesPuts DEF PutMove, RelayInv
    <2> QED BY <2>6, <2>7
  <1> QED BY <1>2, <1>3

LEMMA RelayInductive == NoLatePut /\ RelayInv /\ [Next]_vars => RelayInv'
  <1> SUFFICES ASSUME NoLatePut, RelayInv, [Next]_vars PROVE RelayInv'
    OBVIOUS
  <1>1. IInv'
    BY InvInductive DEF RelayInv
  <1>2. PutAlone' /\ Unrecorded' /\ Kept'
    BY KeepsPutAlone, KeepsUnrecorded, KeepsKept DEF RelayInv
  <1> QED BY <1>1, <1>2 DEF RelayInv

LEMMA InitRelay == Init => RelayInv
  <1> SUFFICES ASSUME Init PROVE RelayInv
    OBVIOUS
  <1>1. \A r \in Requests : req[r].op = "none"
    BY DEF Init, Idle
  <1>2. file = "none" /\ recorded = Nothing
    BY DEF Init
  <1> QED BY <1>1, <1>2, InitInv DEF RelayInv, PutAlone, Unrecorded, Kept, At

(* A relayed single upload that was recorded stays what the provider holds,    *)
(* whatever later uploads of its lease do, as long as no PutObject outlives    *)
(* the request that sent it.                                                   *)
THEOREM RecordedStored == Spec /\ []NoLatePut => []RecordedIsStored
  <1>1. RelayInv => RecordedIsStored
    BY DEF RelayInv, Kept, RecordedIsStored
  <1> QED BY <1>1, InitRelay, RelayInductive, PTL DEF Spec

(* Where the bound admits no call without a caller, there is none. *)
LEMMA NoLateCalls == ASSUME MaxLate = 0, late = {}, [Next]_vars PROVE late' = {}
  <1>1. ASSUME NEW c, Abandon(c) PROVE late' = {}
    <2>1. late' = {} \/ (late' = {c} /\ Cardinality({c}) <= 0)
      BY <1>1 DEF Abandon
    <2>2. Cardinality({c}) = 1
      BY FS_Singleton
    <2> QED BY <2>1, <2>2
  <1>2. ASSUME UNCHANGED late PROVE late' = {}
    BY <1>2
  <1>3. ASSUME NEW r \in Requests, RequestStep(r) PROVE late' = {}
    <2>1. CASE Continue(r)
      BY <1>1, <1>2, <2>1
         DEF Continue, AttachUploadId, CreateFails, ReclaimPending, Spooled, RecordUpload,
             FinishPart, CancelPart, CommitSingle, ClaimListed, CommitMultipart,
             ProviderAnswers, RequestDies
    <2> QED BY <1>2, <1>3, <2>1
            DEF RequestStep, Heartbeat, CreateMultipart, ObserveForCommit, ListParts,
                CompleteRelayed, RelayPut, ClaimPart
  <1>4. ASSUME NEW w \in Workers, PassStep(w) PROVE late' = {}
    BY <1>1, <1>2, <1>4
       DEF PassStep, ContinuePass, RecoverObserve, RecoverCompletion, RecoverCleaning,
           RecoverReclaimed, RecoverDeleted, BeginRecovery, Observe, Act, SweepObject,
           FinishSweep, PassStops
  <1>5. CASE Others
    BY <1>2, <1>5
       DEF Others, LateApplies, Direct, DirectPut, DirectPart, UrlExpires, ReplaceStorage,
           CreateSingle, IssueParts, MarkDeleted, IssueRead, Download, DownloadEnds, ReadLapses,
           ExpireReadLease, PruneReadLease, ReadLeaseMoves, LeaseLapses, RetryDue,
           ReclaimExpired, PruneLease, PruneFile
  <1> QED BY <1>2, <1>3, <1>4, <1>5, StepKinds DEF vars

(* So it does where every call ends with its caller.                           *)
THEOREM RecordedStays == ASSUME MaxLate = 0 PROVE Spec => []RecordedIsStored
  <1>1. Init => late = {}
    BY DEF Init
  <1>2. late = {} /\ [Next]_vars => (late = {})'
    BY NoLateCalls
  <1>3. late = {} => NoLatePut
    BY DEF NoLatePut
  <1> QED BY <1>1, <1>2, <1>3, RecordedStored, PTL DEF Spec

-----------------------------------------------------------------------------
(* The refinement.                                                             *)

(* Opening and closing a download. *)
LEMMA ReadersRefine ==
  ASSUME IInv, Download \/ DownloadEnds
  PROVE  [Store!Next]_(Store!vars)
  <1>1. /\ UNCHANGED <<file, multi, etag>>
        /\ \/ reading = Nothing /\ reading' = object /\ reads = "issued"
           \/ reading # Nothing /\ reading' = Nothing
    BY DEF Download, DownloadEnds, rows
  <1>2. CASE ~multi
    BY <1>1, <1>2 DEF Store!vars
  <1>3. CASE multi /\ reading # Nothing /\ reading' = Nothing
    <2>1. Store!Close
      BY <1>1, <1>3 DEF Store!Close
    <2> QED BY <2>1 DEF Store!Next
  <1>4. CASE multi /\ reading = Nothing /\ reading' = object /\ reads = "issued"
    <2>1. file \in {"active", "deleted"} /\ object \in {Nothing, etag}
      BY <1>4 DEF IInv, Published
    <2>2. CASE object = Nothing
      BY <1>1, <1>4, <2>2 DEF Store!vars
    <2>3. CASE object = etag
      BY <1>1, <1>4, <2>1, <2>3 DEF Store!Next, Store!Open, FateOf
    <2> QED BY <2>1, <2>2, <2>3
  <1> QED BY <1>1, <1>2, <1>3, <1>4 DEF IInv, TypeOK

(* The rows decide the fate of the content. *)
LEMMA RowsRefine ==
  ASSUME IInv, RowMove, UNCHANGED reading
  PROVE  [Store!Next]_(Store!vars)
  <1>1. CASE UNCHANGED <<file, multi, etag>>
    BY <1>1 DEF Store!vars
  <1>2. ASSUME NEW m \in BOOLEAN, Reserve(m) PROVE Store!Begin
    <2>1. file = "none" /\ file' = "pending" /\ etag = Nothing /\ etag' = Nothing
          /\ reading = Nothing
      BY <1>2 DEF Reserve, IInv, Fresh
    <2> QED BY <2>1 DEF Store!Begin, FateOf
  <1>3. CASE /\ Committable /\ ~multi /\ file' = "active" /\ UNCHANGED multi
    BY <1>3 DEF Committable, Store!Next, Store!Publish, FateOf
  <1>4. CASE /\ file = "pending" /\ file' = "active" /\ etag' \in Lists /\ UNCHANGED multi
    BY <1>4 DEF Store!Next, Store!Publish, FateOf
  <1>5. CASE \/ file = "pending" /\ file' = "reclaimed" /\ UNCHANGED <<multi, etag>>
             \/ MarkDeleted
    BY <1>5 DEF MarkDeleted, Store!Next, Store!Drop, FateOf
  <1>6. CASE PruneFile
    BY <1>6 DEF PruneFile, Store!vars, FateOf
  <1> QED BY <1>1, <1>2, <1>3, <1>4, <1>5, <1>6
          DEF RowMove, Fate, PruneLease, ReleaseLocation, Store!Next

(* A multipart file keeps the promise of WriteOnce, for every instance. *)
THEOREM WriteOnceImplemented == Spec => ImplementsWriteOnce
  <1>1. Init => Store!Init
    BY DEF Init, Store!Init, FateOf
  <1>2. IInv /\ [Next]_vars => [Store!Next]_(Store!vars)
    BY NextMovesRows, NextMovesReaders, ReadersRefine, RowsRefine DEF ReaderMove
  <1> QED BY <1>1, <1>2, Inductive, PTL DEF Spec, ImplementsWriteOnce, Store!Spec
===============================================================================
