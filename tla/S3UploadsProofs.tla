--------------------------- MODULE S3UploadsProofs ---------------------------
(* Proofs about S3Uploads, for every set of files, keys, parts, requests and  *)
(* passes and every bound on late calls: the types, the key table, and the    *)
(* promise of KeyedStore.                                                     *)
EXTENDS S3Uploads, TLAPS

-----------------------------------------------------------------------------
(* The initial state has the types of the columns. *)
LEMMA InitTyped == Init => TypeOK
  BY ConstantsAssumption DEF Init, TypeOK, RowsOK, NoParts, PartRows, NoVendorParts,
     RequestStates, WorkerStates

-----------------------------------------------------------------------------
(* What a request holds in each of its states, and the states it moves to. *)
LEMMA RequestFields ==
  ASSUME NEW x \in RequestStates
  PROVE  /\ x.at # "idle" => x.file \in Files
         /\ x.op = "put" => x.body \in Data
         /\ x.op = "part" => x.part \in Parts /\ x.body \in Data
         /\ x.op \in {"create", "cleanup"} => x.body = Nothing
         /\ x.op = "complete" => x.body \in Lists
         /\ x.at = "calling" => Call(x, x.op) \in CallStates
         /\ x.at = "calling" => [x EXCEPT !.at = "answered"] \in RequestStates
         /\ x.at = "spooling" => [x EXCEPT !.at = "calling"] \in RequestStates
         /\ x.at = "answered" /\ x.op = "create" => [x EXCEPT !.at = "aborted"] \in RequestStates
  BY DEF RequestStates, CallStates, Call, Idle

(* What a pass holds in each of its states, and the states it moves to. *)
LEMMA WorkerFields ==
  ASSUME NEW x \in WorkerStates
  PROVE  /\ x.at # "idle" => x.file \in Files
         /\ x.at = "observing" =>
              \A a \in {"observing", "finalize", "reopen", "clean"} :
                [x EXCEPT !.at = a] \in WorkerStates
         /\ x.at = "sweeping" =>
              /\ [x EXCEPT !.at = "swept"] \in WorkerStates
              /\ [op |-> x.job, file |-> x.file, part |-> Nothing, body |-> Nothing] \in CallStates
  BY DEF WorkerStates, CallStates, Asleep

(* A request that returns, or that moves to a well-formed state, is typed. *)
LEMMA ReturnTyped ==
  ASSUME TypeOK, NEW r \in Requests, Return(r)
  PROVE  req' \in [Requests -> RequestStates]
  BY DEF TypeOK, Return, RequestStates

(* A request that moves within its operation keeps its fields. *)
LEMMA MoveTyped ==
  ASSUME TypeOK, NEW r \in Requests, NEW at, Move(r, at),
         [req[r] EXCEPT !.at = at] \in RequestStates
  PROVE  req' \in [Requests -> RequestStates]
  BY DEF TypeOK, Move

(* A request that starts is well-formed when its first state is. *)
LEMMA StartTyped ==
  ASSUME TypeOK, NEW r \in Requests, NEW f, NEW p, NEW b, NEW at, NEW op,
         Start(r, at, op, f, p, b),
         [at |-> at, op |-> op, file |-> f, part |-> p, body |-> b] \in RequestStates
  PROVE  req' \in [Requests -> RequestStates]
  BY DEF TypeOK, Start

(* A call given up on joins the calls in flight, or not. *)
LEMMA AbandonTyped ==
  ASSUME TypeOK, NEW c \in CallStates, Abandon(c)
  PROVE  late' \subseteq CallStates
  BY DEF TypeOK, Abandon

(* What a provider call carries. *)
LEMMA CallFields ==
  ASSUME NEW c \in CallStates
  PROVE  /\ c.file \in Files
         /\ c.op \in {"put", "create", "part", "complete", "cleanup", "remove"}
         /\ c.op = "put" => c.body \in Data
         /\ c.op = "part" => c.part \in Parts /\ c.body \in Data
         /\ c.op = "complete" => c.body \in Lists
  BY DEF CallStates

(* A call the provider applies leaves its state well-formed. *)
LEMMA ApplyTyped ==
  ASSUME TypeOK, NEW c \in CallStates, Apply(c)
  PROVE  /\ object' \in [Files -> Bodies \cup {Nothing}]
         /\ session' \in [Files -> {"none", "open", "closed"}]
         /\ vpart' \in [Files -> [Parts -> Data \cup {Nothing}]]
  <1>0. c.file \in Files
    BY CallFields
  <1>1. CASE c.op = "put"
    BY <1>0, <1>1, CallFields DEF Apply, TypeOK, Bodies
  <1>2. CASE c.op = "create"
    BY <1>0, <1>2 DEF Apply, TypeOK
  <1>3. CASE c.op = "part"
    <2>1. c.file \in Files /\ c.part \in Parts /\ c.body \in Data
      BY <1>3, CallFields
    <2>2. vpart[c.file] \in [Parts -> Data \cup {Nothing}]
      BY <2>1 DEF TypeOK
    <2>3. vpart' = [vpart EXCEPT ![c.file] = [vpart[c.file] EXCEPT ![c.part] = c.body]]
      BY <1>3 DEF Apply
    <2>4. [vpart[c.file] EXCEPT ![c.part] = c.body] \in [Parts -> Data \cup {Nothing}]
      BY <2>1, <2>2
    <2> QED BY <1>3, <2>1, <2>3, <2>4 DEF Apply, TypeOK
  <1>4. CASE c.op = "complete"
    <2>1. object' = [object EXCEPT ![c.file] = c.body] /\ c.body \in Bodies
      BY <1>4, CallFields DEF Apply, Bodies
    <2>2. /\ session' = [session EXCEPT ![c.file] = "closed"]
          /\ vpart' = [vpart EXCEPT ![c.file] = NoVendorParts]
      BY <1>4 DEF Apply
    <2>3. NoVendorParts \in [Parts -> Data \cup {Nothing}]
      BY DEF NoVendorParts
    <2> QED BY <1>0, <2>1, <2>2, <2>3 DEF TypeOK
  <1>5. CASE c.op \in {"cleanup", "remove"}
    <2>1. object' = [object EXCEPT ![c.file] = Nothing]
      BY <1>5 DEF Apply
    <2>2. \/ /\ session' = [session EXCEPT ![c.file] = "closed"]
             /\ vpart' = [vpart EXCEPT ![c.file] = NoVendorParts]
          \/ UNCHANGED <<session, vpart>>
      BY <1>5 DEF Apply
    <2>3. NoVendorParts \in [Parts -> Data \cup {Nothing}]
      BY DEF NoVendorParts
    <2> QED BY <1>0, <2>1, <2>2, <2>3 DEF TypeOK
  <1> QED BY <1>1, <1>2, <1>3, <1>4, <1>5, CallFields

(* The transactions keep the rows well-formed. *)
LEMMA PartRowMoves ==
  ASSUME NEW x \in PartRows
  PROVE  /\ [x EXCEPT !.state = "claimed"] \in PartRows
         /\ x.state = "claimed" => [x EXCEPT !.state = Cancelled(x)] \in PartRows
         /\ \A d \in Data : [state |-> "done", md5 |-> d] \in PartRows
  BY DEF PartRows, Cancelled

(* Replacing one row of a ledger by a well-formed one keeps it typed. *)
LEMMA LedgerTyped ==
  ASSUME RowsOK, NEW f \in Files, NEW p \in Parts, NEW row \in PartRows,
         ledger' = [ledger EXCEPT ![f] = [ledger[f] EXCEPT ![p] = row]]
  PROVE  ledger' \in [Files -> [Parts -> PartRows]]
  BY DEF RowsOK

(* Opening an upload: create_upload. *)
LEMMA CreateUploadTyped ==
  ASSUME RowsOK, NEW f \in Files, CreateUpload(f)
  PROVE  RowsOK'
  BY DEF RowsOK, CreateUpload

(* Claiming a completion: claim_completion. *)
LEMMA ClaimCompletionTyped ==
  ASSUME RowsOK, NEW f \in Files, NEW b \in Bodies, ClaimCompletion(f, b)
  PROVE  RowsOK'
  BY DEF RowsOK, ClaimCompletion

(* Handing an upload over to cleanup, whatever becomes of its lease. *)
LEMMA ToCleaningTyped ==
  ASSUME RowsOK, NEW f \in Files, ToCleaning(f),
         lease' \in [Files -> {"none", "issued", "lapsed", "committed", "expired"}]
  PROVE  RowsOK'
  BY DEF RowsOK, ToCleaning

(* A step that leaves every row alone. *)
LEMMA UnchangedRowsTyped ==
  ASSUME RowsOK, UNCHANGED rows
  PROVE  RowsOK'
  BY DEF RowsOK, rows

(* The three outcomes of finalize_upload. *)
LEMMA FinalizeUploadTyped ==
  ASSUME RowsOK, NEW f \in Files, FinalizeUpload(f)
  PROVE  RowsOK'
  <1>1. CASE CommitUpload(f)
    <2>1. KeyOf[f] \in Keys
      BY ConstantsAssumption
    <2> QED BY <1>1, <2>1 DEF CommitUpload, RowsOK
  <1>2. CASE PreconditionFailed(f)
    BY <1>2, ToCleaningTyped DEF PreconditionFailed, RowsOK
  <1>3. CASE UNCHANGED rows
    BY <1>3, UnchangedRowsTyped
  <1> QED BY <1>1, <1>2, <1>3 DEF FinalizeUpload

(* finalize_abort and discard_unstarted_upload. *)
LEMMA FinalizeReclaimedTyped ==
  ASSUME RowsOK, NEW f \in Files, NEW s, FinalizeReclaimed(f, s)
  PROVE  RowsOK'
  <1>1. CASE UNCHANGED rows
    BY <1>1, UnchangedRowsTyped
  <1>2. CASE /\ file' = [file EXCEPT ![f] = "reclaimed"]
             /\ lease' = [lease EXCEPT ![f] = IF LeaseHeld(f) THEN "expired" ELSE @]
             /\ located' = [located EXCEPT ![f] = FALSE]
             /\ upload' = [upload EXCEPT ![f] = "none"]
             /\ claim' = [claim EXCEPT ![f] = Nothing]
             /\ UNCHANGED <<handle, ledger, etag, due, key>>
    <2>1. /\ file' \in [Files -> {"none", "pending", "active", "deleted", "reclaimed", "gone"}]
          /\ upload' \in [Files -> {"none", "open", "completing", "cleaning"}]
          /\ claim' \in [Files -> Bodies \cup {Nothing}]
      BY <1>2 DEF RowsOK
    <2>2. /\ lease' \in [Files -> {"none", "issued", "lapsed", "committed", "expired"}]
          /\ located' \in [Files -> BOOLEAN]
      BY <1>2 DEF RowsOK
    <2> QED BY <1>2, <2>1, <2>2 DEF RowsOK
  <1> QED BY <1>1, <1>2 DEF FinalizeReclaimed

(* Reopening a completion whose object is absent. *)
LEMMA ReopenCompletionTyped ==
  ASSUME RowsOK, NEW f \in Files, ReopenCompletion(f)
  PROVE  RowsOK'
  BY DEF RowsOK, ReopenCompletion

-----------------------------------------------------------------------------
(* The first steps of a request. *)
LEMMA StartsTyped ==
  ASSUME TypeOK, NEW r \in Requests, NEW f \in Files
  PROVE  /\ \A d \in Data : PutObject(r, f, d) => TypeOK'
         /\ CreateMultipart(r, f) => TypeOK'
         /\ AbortMultipart(r, f) => TypeOK'
         /\ \A p \in Parts, d \in Data : ClaimPart(r, f, p, d) => TypeOK'
         /\ \A list \in Lists : CompleteMultipart(r, f, list) => TypeOK'
  <1> USE DEF TypeOK
  <1>1. ASSUME NEW d \in Data, PutObject(r, f, d) PROVE TypeOK'
    <2>1. [at |-> "spooling", op |-> "put", file |-> f, part |-> Nothing, body |-> d] \in RequestStates
      BY DEF RequestStates
    <2>2. req' \in [Requests -> RequestStates]
      BY <1>1, <2>1, StartTyped DEF PutObject
    <2> QED BY <1>1, <2>2, CreateUploadTyped DEF PutObject, provider
  <1>2. ASSUME CreateMultipart(r, f) PROVE TypeOK'
    <2>1. [at |-> "calling", op |-> "create", file |-> f, part |-> Nothing, body |-> Nothing] \in RequestStates
      BY DEF RequestStates
    <2>2. req' \in [Requests -> RequestStates]
      BY <1>2, <2>1, StartTyped DEF CreateMultipart
    <2> QED BY <1>2, <2>2, CreateUploadTyped DEF CreateMultipart, provider
  <1>3. ASSUME AbortMultipart(r, f) PROVE TypeOK'
    <2>1. [at |-> "calling", op |-> "cleanup", file |-> f, part |-> Nothing, body |-> Nothing] \in RequestStates
      BY DEF RequestStates
    <2>2. req' \in [Requests -> RequestStates]
      BY <1>3, <2>1, StartTyped DEF AbortMultipart
    <2>3. RowsOK'
      BY <1>3, ToCleaningTyped DEF AbortMultipart, ClaimAbort, RowsOK
    <2> QED BY <1>3, <2>2, <2>3 DEF AbortMultipart, provider
  <1>4. ASSUME NEW p \in Parts, NEW d \in Data, ClaimPart(r, f, p, d) PROVE TypeOK'
    <2>1. [at |-> "calling", op |-> "part", file |-> f, part |-> p, body |-> d] \in RequestStates
      BY DEF RequestStates
    <2>2. req' \in [Requests -> RequestStates]
      BY <1>4, <2>1, StartTyped DEF ClaimPart
    <2>3. [ledger[f][p] EXCEPT !.state = "claimed"] \in PartRows
      <3>1. ledger[f][p] \in PartRows
        BY DEF RowsOK
      <3> QED BY <3>1, PartRowMoves
    <2>4. ledger' = [ledger EXCEPT ![f] = [ledger[f] EXCEPT ![p] = [ledger[f][p] EXCEPT !.state = "claimed"]]]
      BY <1>4 DEF ClaimPart
    <2>5. RowsOK'
      BY <1>4, <2>3, <2>4 DEF ClaimPart, RowsOK
    <2> QED BY <1>4, <2>2, <2>5 DEF ClaimPart, provider
  <1>5. ASSUME NEW list \in Lists, CompleteMultipart(r, f, list) PROVE TypeOK'
    <2>1. [at |-> "calling", op |-> "complete", file |-> f, part |-> Nothing, body |-> list] \in RequestStates
      BY DEF RequestStates
    <2>2. req' \in [Requests -> RequestStates]
      BY <1>5, <2>1, StartTyped DEF CompleteMultipart
    <2> QED BY <1>5, <2>2, ClaimCompletionTyped DEF CompleteMultipart, provider, Bodies
  <1> QED BY <1>1, <1>2, <1>3, <1>4, <1>5

(* The later steps of a request. *)
LEMMA ContinueTyped ==
  ASSUME TypeOK, NEW r \in Requests, Continue(r)
  PROVE  TypeOK'
  <1> DEFINE f == req[r].file
             p == req[r].part
  <1>0. /\ req[r] \in RequestStates
        /\ req[r].at # "idle" => f \in Files
    BY RequestFields DEF TypeOK
  <1>1. CASE ClaimPut(r)
    <2>1. f \in Files /\ req[r].body \in Bodies
      BY <1>0, <1>1, RequestFields DEF ClaimPut, At, Bodies
    <2>2. RowsOK'
      BY <1>1, <2>1, ClaimCompletionTyped, UnchangedRowsTyped DEF ClaimPut, TypeOK
    <2>3. req' \in [Requests -> RequestStates]
      BY <1>0, <1>1, RequestFields, MoveTyped, ReturnTyped DEF ClaimPut, At
    <2> QED BY <1>1, <2>2, <2>3 DEF ClaimPut, TypeOK, provider
  <1>2. CASE AttachUploadId(r)
    <2>1. f \in Files
      BY <1>0, <1>2 DEF AttachUploadId, At
    <2>2. req' \in [Requests -> RequestStates]
      BY <1>2, ReturnTyped DEF AttachUploadId
    <2> QED BY <1>2, <2>1, <2>2 DEF AttachUploadId, TypeOK, RowsOK, provider
  <1>3. CASE ScheduleCreateCleanup(r)
    <2>1. f \in Files
      BY <1>0, <1>3 DEF ScheduleCreateCleanup, At
    <2>2. req' \in [Requests -> RequestStates]
      BY <1>3, ReturnTyped DEF ScheduleCreateCleanup
    <2>3. RowsOK'
      BY <1>3, <2>1, ToCleaningTyped, UnchangedRowsTyped
         DEF ScheduleCreateCleanup, ClaimAbort, TypeOK, RowsOK
    <2>4. late' \subseteq CallStates
      BY <1>0, <1>3, RequestFields, AbandonTyped DEF ScheduleCreateCleanup, At, TypeOK
    <2> QED BY <1>3, <2>2, <2>3, <2>4 DEF ScheduleCreateCleanup, TypeOK, provider
  <1>4. CASE AttachFails(r)
    <2>1. f \in Files
      BY <1>0, <1>4 DEF AttachFails, At
    <2>2. req' \in [Requests -> RequestStates]
      BY <1>0, <1>4, RequestFields, MoveTyped DEF AttachFails, At
    <2>3. NoVendorParts \in [Parts -> Data \cup {Nothing}]
      BY DEF NoVendorParts
    <2>4. RowsOK'
      BY <1>4, UnchangedRowsTyped DEF AttachFails, TypeOK
    <2> QED BY <1>4, <2>1, <2>2, <2>3, <2>4 DEF AttachFails, TypeOK
  <1>5. CASE DiscardUnstarted(r)
    <2>1. f \in Files
      BY <1>0, <1>5 DEF DiscardUnstarted, At
    <2>2. req' \in [Requests -> RequestStates]
      BY <1>5, ReturnTyped DEF DiscardUnstarted
    <2> QED BY <1>5, <2>1, <2>2, FinalizeReclaimedTyped DEF DiscardUnstarted, TypeOK, provider
  <1>6. CASE FinishPart(r)
    <2>1. f \in Files /\ p \in Parts /\ req[r].body \in Data
      BY <1>0, <1>6, RequestFields DEF FinishPart, At
    <2>2. req' \in [Requests -> RequestStates]
      BY <1>6, ReturnTyped DEF FinishPart
    <2>3. [state |-> "done", md5 |-> req[r].body] \in PartRows
      BY <2>1 DEF PartRows
    <2>4. \/ ledger' = [ledger EXCEPT ![f] = [ledger[f] EXCEPT ![p] = [state |-> "done", md5 |-> req[r].body]]]
          \/ ledger' = ledger
      BY <1>6 DEF FinishPart
    <2>5. ledger' \in [Files -> [Parts -> PartRows]]
      BY <2>1, <2>3, <2>4, LedgerTyped DEF TypeOK, RowsOK
    <2> QED BY <1>6, <2>2, <2>5 DEF FinishPart, TypeOK, RowsOK, provider
  <1>7. CASE CancelPart(r)
    <2>1. f \in Files /\ p \in Parts
      BY <1>0, <1>7, RequestFields DEF CancelPart, At
    <2>2. req' \in [Requests -> RequestStates]
      BY <1>7, ReturnTyped DEF CancelPart
    <2>3. ledger[f][p] \in PartRows
      BY <2>1 DEF TypeOK, RowsOK
    <2>4. \/ /\ ledger[f][p].state = "claimed"
             /\ ledger' = [ledger EXCEPT ![f] = [ledger[f] EXCEPT ![p] =
                            [ledger[f][p] EXCEPT !.state = Cancelled(ledger[f][p])]]]
          \/ ledger' = ledger
      BY <1>7 DEF CancelPart
    <2>5. ledger' \in [Files -> [Parts -> PartRows]]
      <3>1. CASE ledger' = ledger
        BY <3>1 DEF TypeOK, RowsOK
      <3>2. CASE ledger[f][p].state = "claimed"
        <4>1. [ledger[f][p] EXCEPT !.state = Cancelled(ledger[f][p])] \in PartRows
          BY <2>3, <3>2, PartRowMoves
        <4> QED BY <2>1, <2>4, <3>1, <4>1, LedgerTyped DEF TypeOK
      <3> QED BY <2>4, <3>1, <3>2
    <2>6. Call(req[r], "part") \in CallStates
      BY <1>0, <1>7, RequestFields DEF CancelPart, At
    <2>7. late' \subseteq CallStates
      BY <1>7, <2>6, AbandonTyped DEF CancelPart
    <2> QED BY <1>7, <2>2, <2>5, <2>7 DEF CancelPart, TypeOK, RowsOK, provider
  <1>8. CASE FinalizeRequest(r)
    <2>1. f \in Files
      BY <1>0, <1>8 DEF FinalizeRequest, At
    <2>2. req' \in [Requests -> RequestStates]
      BY <1>8, ReturnTyped DEF FinalizeRequest
    <2> QED BY <1>8, <2>1, <2>2, FinalizeUploadTyped DEF FinalizeRequest, TypeOK, provider
  <1>9. CASE FinalizeAbort(r)
    <2>1. f \in Files
      BY <1>0, <1>9 DEF FinalizeAbort, At
    <2>2. req' \in [Requests -> RequestStates]
      BY <1>9, ReturnTyped DEF FinalizeAbort
    <2> QED BY <1>9, <2>1, <2>2, FinalizeReclaimedTyped DEF FinalizeAbort, TypeOK, provider
  <1>10. CASE ProviderAnswers(r)
    <2>1. Call(req[r], req[r].op) \in CallStates
      BY <1>0, <1>10, RequestFields DEF ProviderAnswers
    <2>2. req' \in [Requests -> RequestStates]
      BY <1>0, <1>10, RequestFields, MoveTyped DEF ProviderAnswers
    <2>3. late' \subseteq CallStates
      BY <1>10, <2>1, AbandonTyped DEF ProviderAnswers
    <2>4. RowsOK'
      BY <1>10, UnchangedRowsTyped DEF ProviderAnswers, TypeOK
    <2> QED BY <1>10, <2>1, <2>2, <2>3, <2>4, ApplyTyped DEF ProviderAnswers, TypeOK
  <1>11. CASE RequestDies(r)
    <2>1. req' \in [Requests -> RequestStates]
      BY <1>11, ReturnTyped DEF RequestDies
    <2>2. late' \subseteq CallStates
      BY <1>0, <1>11, RequestFields, AbandonTyped DEF RequestDies, TypeOK
    <2>3. RowsOK'
      BY <1>11, UnchangedRowsTyped DEF RequestDies, TypeOK
    <2> QED BY <1>11, <2>1, <2>2, <2>3 DEF RequestDies, TypeOK, provider
  <1> QED BY <1>1, <1>2, <1>3, <1>4, <1>5, <1>6, <1>7, <1>8, <1>9, <1>10, <1>11 DEF Continue

(* The steps of a reconciler pass. *)
LEMMA PassTyped ==
  ASSUME TypeOK, NEW w \in Workers, PassStep(w)
  PROVE  TypeOK'
  <1> DEFINE g == worker[w].file
  <1>0. /\ worker[w] \in WorkerStates
        /\ worker[w].at # "idle" => g \in Files
    BY WorkerFields DEF TypeOK
  <1>1. ASSUME worker' = [worker EXCEPT ![w] = Asleep]
        PROVE  worker' \in [Workers -> WorkerStates]
    BY <1>1 DEF TypeOK, WorkerStates
  <1>2. ASSUME NEW f \in Files, NEW job, NEW at, BeginRecovery(w, job, f, at),
               \A b \in Bodies \cup {Nothing} :
                 [at |-> at, job |-> job, file |-> f, want |-> b] \in WorkerStates
        PROVE  TypeOK'
    <2>1. claim[f] \in Bodies \cup {Nothing}
      BY DEF TypeOK, RowsOK
    <2>2. worker' \in [Workers -> WorkerStates]
      BY <1>2, <2>1 DEF BeginRecovery, TypeOK
    <2> QED BY <1>2, <2>2 DEF BeginRecovery, TypeOK, RowsOK, provider
  <1>3. ASSUME NEW f \in Files, RecoverCompletion(w, f) PROVE TypeOK'
    BY <1>2, <1>3 DEF RecoverCompletion, WorkerStates
  <1>4. ASSUME NEW f \in Files, RecoverCleaning(w, f) PROVE TypeOK'
    BY <1>2, <1>4 DEF RecoverCleaning, WorkerStates
  <1>5. ASSUME NEW f \in Files, RecoverDeleted(w, f) PROVE TypeOK'
    BY <1>2, <1>5 DEF RecoverDeleted, WorkerStates
  <1>6. CASE Observe(w)
    <2>1. worker' \in [Workers -> WorkerStates]
      BY <1>0, <1>6, WorkerFields DEF Observe, CompletionAction, TypeOK
    <2>2. RowsOK'
      BY <1>6, UnchangedRowsTyped DEF Observe, TypeOK
    <2> QED BY <1>6, <2>1, <2>2 DEF Observe, TypeOK, provider
  <1>7. CASE Act(w)
    <2>1. g \in Files
      BY <1>0, <1>7 DEF Act
    <2>2. RowsOK'
      <3>1. CASE FinalizeUpload(g)
        BY <2>1, <3>1, FinalizeUploadTyped DEF TypeOK
      <3>2. CASE ReopenCompletion(g)
        BY <2>1, <3>2, ReopenCompletionTyped DEF TypeOK
      <3>3. CASE MarkCompletionAborting(g)
        BY <2>1, <3>3, ToCleaningTyped DEF MarkCompletionAborting, TypeOK, RowsOK
      <3>4. CASE UNCHANGED rows
        BY <3>4, UnchangedRowsTyped DEF TypeOK
      <3> QED BY <1>7, <3>1, <3>2, <3>3, <3>4 DEF Act
    <2> QED BY <1>1, <1>7, <2>2 DEF Act, TypeOK, provider
  <1>8. CASE SweepObject(w)
    <2>1. SweepCall(w) \in CallStates
      BY <1>0, <1>8, WorkerFields DEF SweepObject, SweepCall
    <2>2. worker' \in [Workers -> WorkerStates]
      BY <1>0, <1>8, WorkerFields DEF SweepObject, TypeOK
    <2>3. late' \subseteq CallStates
      BY <1>8, <2>1, AbandonTyped DEF SweepObject
    <2>4. RowsOK'
      BY <1>8, UnchangedRowsTyped DEF SweepObject, TypeOK
    <2> QED BY <1>8, <2>1, <2>2, <2>3, <2>4, ApplyTyped DEF SweepObject, TypeOK
  <1>9. CASE FinishSweep(w)
    <2>1. g \in Files
      BY <1>0, <1>9 DEF FinishSweep
    <2>2. RowsOK'
      <3>1. CASE FinalizeReclaimed(g, "cleaning")
        BY <2>1, <3>1, FinalizeReclaimedTyped DEF TypeOK
      <3>2. CASE FinalizePurge(g)
        <4>1. located' \in [Files -> BOOLEAN]
          BY <2>1, <3>2 DEF FinalizePurge, TypeOK, RowsOK
        <4> QED BY <3>2, <4>1 DEF FinalizePurge, TypeOK, RowsOK
      <3> QED BY <1>9, <3>1, <3>2 DEF FinishSweep
    <2> QED BY <1>1, <1>9, <2>2 DEF FinishSweep, TypeOK, provider
  <1>10. CASE PassStops(w)
    <2>1. worker[w].at = "sweeping" => SweepCall(w) \in CallStates
      BY <1>0, WorkerFields DEF SweepCall
    <2>2. late' \subseteq CallStates
      BY <1>10, <2>1, AbandonTyped DEF PassStops, TypeOK
    <2>3. RowsOK'
      BY <1>10, UnchangedRowsTyped DEF PassStops, TypeOK
    <2> QED BY <1>1, <1>10, <2>2, <2>3 DEF PassStops, TypeOK, provider
  <1> QED BY <1>3, <1>4, <1>5, <1>6, <1>7, <1>8, <1>9, <1>10 DEF PassStep, ContinuePass

(* A call that is applied after its caller went away. *)
LEMMA LateTyped ==
  ASSUME TypeOK, NEW c \in late, LateApplies(c)
  PROVE  TypeOK'
  <1>1. c \in CallStates /\ c.file \in Files
    BY CallFields DEF TypeOK
  <1>2. NoVendorParts \in [Parts -> Data \cup {Nothing}]
    BY DEF NoVendorParts
  <1>3. /\ object' \in [Files -> Bodies \cup {Nothing}]
        /\ session' \in [Files -> {"none", "open", "closed"}]
        /\ vpart' \in [Files -> [Parts -> Data \cup {Nothing}]]
    <2>1. CASE Apply(c)
      BY <1>1, <2>1, ApplyTyped
    <2>2. \/ Apply(c)
          \/ /\ session' = [session EXCEPT ![c.file] = "closed"]
             /\ vpart' = [vpart EXCEPT ![c.file] = NoVendorParts]
             /\ object' = object
          \/ /\ object' = [object EXCEPT ![c.file] = Nothing]
             /\ session' = session /\ vpart' = vpart
      BY DEF LateApplies
    <2> QED BY <1>1, <1>2, <2>1, <2>2 DEF TypeOK
  <1>4. RowsOK'
    BY UnchangedRowsTyped DEF LateApplies, TypeOK
  <1> QED BY <1>3, <1>4 DEF LateApplies, TypeOK

(* The renewal of a lease. *)
LEMMA HeartbeatTyped ==
  ASSUME TypeOK, NEW r \in Requests, Heartbeat(r)
  PROVE  TypeOK'
  <1>1. req[r].file \in Files
    BY RequestFields DEF Heartbeat, StillOwned, At, TypeOK
  <1> QED BY <1>1 DEF Heartbeat, TypeOK, RowsOK, provider

(* Deletions, time and pruning. *)
LEMMA OtherTyped ==
  ASSUME TypeOK
  PROVE  /\ \A k \in Keys : DeleteObject(k) => TypeOK'
         /\ \A f \in Files : NativeDelete(f) \/ LeaseLapses(f) \/ RetryDue(f) => TypeOK'
         /\ \A f \in Files : ExpireOpen(f) \/ PruneLease(f) \/ PruneFile(f) => TypeOK'
  <1> USE DEF TypeOK, provider
  <1>1. ASSUME NEW k \in Keys, DeleteObject(k) PROVE TypeOK'
    <2>0. key' = [key EXCEPT ![k] = NoFile]
      BY <1>1 DEF DeleteObject
    <2>1. /\ file' \in [Files -> {"none", "pending", "active", "deleted", "reclaimed", "gone"}]
          /\ due' \in [Files -> BOOLEAN]
          /\ key' \in [Keys -> Files \cup {NoFile}]
      <3>1. CASE file[key[k]] = "active"
        <4>1. /\ file' = [file EXCEPT ![key[k]] = "deleted"]
              /\ due' = [due EXCEPT ![key[k]] = TRUE]
          BY <1>1, <3>1 DEF DeleteObject
        <4> QED BY <2>0, <4>1 DEF RowsOK
      <3>2. CASE file[key[k]] # "active"
        <4>1. file' = file /\ due' = due
          BY <1>1, <3>2 DEF DeleteObject
        <4> QED BY <2>0, <4>1 DEF RowsOK
      <3> QED BY <3>1, <3>2
    <2>2. RowsOK'
      BY <1>1, <2>1 DEF DeleteObject, RowsOK
    <2> QED BY <1>1, <2>2 DEF DeleteObject
  <1>2. ASSUME NEW f \in Files, NativeDelete(f) PROVE TypeOK'
    BY <1>2 DEF NativeDelete, RowsOK
  <1>3. ASSUME NEW f \in Files, LeaseLapses(f) PROVE TypeOK'
    BY <1>3 DEF LeaseLapses, RowsOK
  <1>4. ASSUME NEW f \in Files, RetryDue(f) PROVE TypeOK'
    BY <1>4 DEF RetryDue, RowsOK
  <1>5. ASSUME NEW f \in Files, ExpireOpen(f) PROVE TypeOK'
    <2>1. RowsOK'
      BY <1>5, ToCleaningTyped DEF ExpireOpen, RowsOK
    <2> QED BY <1>5, <2>1 DEF ExpireOpen
  <1>6. ASSUME NEW f \in Files, PruneLease(f) PROVE TypeOK'
    <2>1. NoParts \in [Parts -> PartRows]
      BY DEF NoParts, PartRows
    <2> QED BY <1>6, <2>1 DEF PruneLease, RowsOK
  <1>7. ASSUME NEW f \in Files, PruneFile(f) PROVE TypeOK'
    BY <1>7 DEF PruneFile, RowsOK
  <1> QED BY <1>1, <1>2, <1>3, <1>4, <1>5, <1>6, <1>7

(* A step that changes nothing. *)
LEMMA StutterTyped ==
  ASSUME TypeOK, UNCHANGED vars
  PROVE  TypeOK'
  <1>1. RowsOK'
    BY UnchangedRowsTyped DEF vars, TypeOK
  <1> QED BY <1>1 DEF vars, provider, TypeOK

(* Every step keeps the types. *)
LEMMA StepTyped == TypeOK /\ [Next]_vars => TypeOK'
  <1> SUFFICES ASSUME TypeOK, [Next]_vars PROVE TypeOK'
    OBVIOUS
  <1>1. ASSUME NEW r \in Requests, RequestStep(r) PROVE TypeOK'
    BY <1>1, StartsTyped, ContinueTyped, HeartbeatTyped DEF RequestStep
  <1> QED BY <1>1, PassTyped, LateTyped, OtherTyped, StutterTyped DEF Next

(* Type correctness, for every instance: the CHECK constraints hold and no    *)
(* request or pass reaches a step without what the step needs.                *)
THEOREM TypeCorrect == Spec => []TypeOK
  BY InitTyped, StepTyped, PTL DEF Spec

-----------------------------------------------------------------------------
(* The key table: an active file is the one its key names, and the S3 surface *)
(* keeps the promise of KeyedStore, for every instance.                       *)

(* A key names an upload that was made under it and that has been active.     *)
KeysNameOwn ==
  \A k \in Keys : key[k] # NoFile => KeyOf[key[k]] = k /\ file[key[k]] \in {"active", "deleted"}

(* The inductive invariant. *)
KeysInv == RowsOK /\ KeysNameOwn /\ ActiveIsReachable

(* An upload that ends without having been published. *)
Reclaims(f) ==
  /\ file[f] = "pending"
  /\ file' = [file EXCEPT ![f] = "reclaimed"]
  /\ UNCHANGED key

(* The steps that change the file states or the key table. *)
TableStep ==
  \/ \E f \in Files : CreateUpload(f) \/ CommitUpload(f) \/ Reclaims(f)
  \/ \E f \in Files : NativeDelete(f) \/ PruneFile(f)
  \/ \E k \in Keys : DeleteObject(k)
  \/ UNCHANGED <<file, key>>

-----------------------------------------------------------------------------
(* What the shared transactions do to the file states and the key table. *)
LEMMA TableMoves ==
  ASSUME NEW f \in Files
  PROVE  /\ FinalizeUpload(f) => TableStep
         /\ \A s : FinalizeReclaimed(f, s) => TableStep
         /\ \A b : ClaimCompletion(f, b) => TableStep
         /\ ToCleaning(f) \/ ReopenCompletion(f) \/ FinalizePurge(f) => TableStep
  <1>1. FinalizeUpload(f) => TableStep
    BY DEF FinalizeUpload, PreconditionFailed, ToCleaning, rows, TableStep
  <1>2. ASSUME NEW s, FinalizeReclaimed(f, s) PROVE TableStep
    BY <1>2 DEF FinalizeReclaimed, Pending, Reclaims, rows, TableStep
  <1>3. ASSUME NEW b, ClaimCompletion(f, b) PROVE TableStep
    BY <1>3 DEF ClaimCompletion, TableStep
  <1>4. ToCleaning(f) \/ ReopenCompletion(f) \/ FinalizePurge(f) => TableStep
    BY DEF ToCleaning, ReopenCompletion, FinalizePurge, TableStep
  <1> QED BY <1>1, <1>2, <1>3, <1>4

(* Every step is one of them. *)
LEMMA NextIsTableStep ==
  ASSUME TypeOK, [Next]_vars
  PROVE  TableStep
  <1>0. UNCHANGED rows => TableStep
    BY DEF rows, TableStep
  <1>1. ASSUME NEW r \in Requests, RequestStep(r) PROVE TableStep
    <2>1. req[r].at # "idle" => req[r].file \in Files
      BY RequestFields DEF TypeOK
    <2>2. ASSUME NEW f \in Files, NEW d \in Data, PutObject(r, f, d) PROVE TableStep
      BY <2>2 DEF PutObject, TableStep
    <2>3. ASSUME NEW f \in Files, CreateMultipart(r, f) \/ AbortMultipart(r, f) PROVE TableStep
      BY <2>3, TableMoves DEF CreateMultipart, AbortMultipart, ClaimAbort, TableStep
    <2>4. ASSUME NEW f \in Files, NEW p \in Parts, NEW d \in Data, ClaimPart(r, f, p, d)
          PROVE TableStep
      BY <2>4 DEF ClaimPart, TableStep
    <2>5. ASSUME NEW f \in Files, NEW list \in Lists, CompleteMultipart(r, f, list)
          PROVE TableStep
      BY <2>5, TableMoves DEF CompleteMultipart
    <2>6. CASE ClaimPut(r)
      BY <1>0, <2>1, <2>6, TableMoves DEF ClaimPut, At
    <2>7. CASE ScheduleCreateCleanup(r)
      BY <1>0, <2>1, <2>7, TableMoves DEF ScheduleCreateCleanup, ClaimAbort, At
    <2>8. CASE DiscardUnstarted(r) \/ FinalizeRequest(r) \/ FinalizeAbort(r)
      BY <2>1, <2>8, TableMoves DEF DiscardUnstarted, FinalizeRequest, FinalizeAbort, At
    <2>9. CASE AttachUploadId(r) \/ FinishPart(r) \/ CancelPart(r) \/ Heartbeat(r)
      BY <2>9 DEF AttachUploadId, FinishPart, CancelPart, Heartbeat, TableStep
    <2>10. CASE AttachFails(r) \/ ProviderAnswers(r) \/ RequestDies(r)
      BY <1>0, <2>10 DEF AttachFails, ProviderAnswers, RequestDies
    <2> QED BY <1>1, <2>2, <2>3, <2>4, <2>5, <2>6, <2>7, <2>8, <2>9, <2>10
            DEF RequestStep, Continue
  <1>2. ASSUME NEW w \in Workers, PassStep(w) PROVE TableStep
    <2>1. worker[w].at # "idle" => worker[w].file \in Files
      BY WorkerFields DEF TypeOK
    <2>2. ASSUME NEW f \in Files,
                 RecoverCompletion(w, f) \/ RecoverCleaning(w, f) \/ RecoverDeleted(w, f)
          PROVE  TableStep
      BY <2>2 DEF RecoverCompletion, RecoverCleaning, RecoverDeleted, BeginRecovery, TableStep
    <2>3. CASE Observe(w) \/ SweepObject(w) \/ PassStops(w)
      BY <1>0, <2>3 DEF Observe, SweepObject, PassStops
    <2>4. CASE Act(w)
      BY <1>0, <2>1, <2>4, TableMoves DEF Act, MarkCompletionAborting
    <2>5. CASE FinishSweep(w)
      BY <2>1, <2>5, TableMoves DEF FinishSweep
    <2> QED BY <1>2, <2>2, <2>3, <2>4, <2>5 DEF PassStep, ContinuePass
  <1>3. ASSUME NEW c \in late, LateApplies(c) PROVE TableStep
    BY <1>0, <1>3 DEF LateApplies
  <1>4. ASSUME NEW k \in Keys, DeleteObject(k) PROVE TableStep
    BY <1>4 DEF TableStep
  <1>5. ASSUME NEW f \in Files, NativeDelete(f) \/ PruneFile(f) PROVE TableStep
    BY <1>5 DEF TableStep
  <1>6. ASSUME NEW f \in Files, ExpireOpen(f) PROVE TableStep
    BY <1>6, TableMoves DEF ExpireOpen
  <1>7. ASSUME NEW f \in Files, LeaseLapses(f) \/ RetryDue(f) \/ PruneLease(f) PROVE TableStep
    BY <1>7 DEF LeaseLapses, RetryDue, PruneLease, TableStep
  <1>8. CASE UNCHANGED vars
    BY <1>0, <1>8 DEF vars
  <1> QED BY <1>1, <1>2, <1>3, <1>4, <1>5, <1>6, <1>7, <1>8 DEF Next

-----------------------------------------------------------------------------
(* Every change of the tables leaves the keys on their own uploads, and every *)
(* active file under its key.                                                 *)
LEMMA KeysStep ==
  ASSUME KeysInv, TableStep
  PROVE  KeysNameOwn' /\ ActiveIsReachable'
  <1> USE DEF KeysInv, RowsOK, KeysNameOwn, ActiveIsReachable
  <1>0. NoFile \notin Files /\ \A f \in Files : KeyOf[f] \in Keys
    BY ConstantsAssumption
  <1>1. ASSUME NEW f \in Files, CreateUpload(f) PROVE KeysNameOwn' /\ ActiveIsReachable'
    BY <1>1 DEF CreateUpload
  <1>2. ASSUME NEW f \in Files, CommitUpload(f) PROVE KeysNameOwn' /\ ActiveIsReachable'
    <2>1. /\ file[f] = "pending"
          /\ file' = [g \in Files |-> IF g = f THEN "active"
                                      ELSE IF g \in Displaced(f) THEN "deleted" ELSE file[g]]
          /\ key' = [key EXCEPT ![KeyOf[f]] = f]
      BY <1>2 DEF CommitUpload, Finalizable, Pending
    <2>2. KeysNameOwn'
      BY <1>0, <2>1 DEF Displaced
    <2>3. ActiveIsReachable'
      BY <1>0, <2>1 DEF Displaced
    <2> QED BY <2>2, <2>3
  <1>3. ASSUME NEW f \in Files, Reclaims(f) PROVE KeysNameOwn' /\ ActiveIsReachable'
    BY <1>3 DEF Reclaims
  <1>4. ASSUME NEW f \in Files, NativeDelete(f) PROVE KeysNameOwn' /\ ActiveIsReachable'
    BY <1>4 DEF NativeDelete
  <1>5. ASSUME NEW f \in Files, PruneFile(f) PROVE KeysNameOwn' /\ ActiveIsReachable'
    BY <1>0, <1>5 DEF PruneFile
  <1>6. ASSUME NEW k \in Keys, DeleteObject(k) PROVE KeysNameOwn' /\ ActiveIsReachable'
    <2>1. key[k] \in Files /\ KeyOf[key[k]] = k /\ key' = [key EXCEPT ![k] = NoFile]
      BY <1>0, <1>6 DEF DeleteObject
    <2>2. \A h \in Keys : key[h] = key[k] /\ key[k] # NoFile => h = k
      BY <2>1
    <2>3. CASE file[key[k]] = "active"
      <3>1. file' = [file EXCEPT ![key[k]] = "deleted"]
        BY <1>6, <2>3 DEF DeleteObject
      <3>2. KeysNameOwn'
        BY <1>0, <2>1, <3>1
      <3>3. ActiveIsReachable'
        BY <1>0, <2>1, <2>3, <3>1
      <3> QED BY <3>2, <3>3
    <2>4. CASE file[key[k]] # "active"
      <3>1. file' = file
        BY <1>6, <2>4 DEF DeleteObject
      <3>2. KeysNameOwn'
        BY <1>0, <2>1, <3>1
      <3>3. ActiveIsReachable'
        BY <1>0, <2>1, <2>4, <3>1
      <3> QED BY <3>2, <3>3
    <2> QED BY <2>3, <2>4
  <1>7. CASE UNCHANGED <<file, key>>
    BY <1>7
  <1> QED BY <1>1, <1>2, <1>3, <1>4, <1>5, <1>6, <1>7 DEF TableStep

(* Initially no key names anything. *)
LEMMA KeysInit == Init => KeysNameOwn /\ ActiveIsReachable
  BY DEF Init, KeysNameOwn, ActiveIsReachable

(* Every step keeps the invariant. *)
LEMMA KeysInductive ==
  TypeOK /\ KeysNameOwn /\ ActiveIsReachable /\ [Next]_vars => KeysNameOwn' /\ ActiveIsReachable'
  BY NextIsTableStep, KeysStep DEF TypeOK, KeysInv

(* keys.rs: no active file is ever out of reach of its key, whichever PUTs,   *)
(* completions, recoveries and deletions of one key overlap.                  *)
THEOREM ActiveReachable == Spec => []ActiveIsReachable
  BY KeysInit, KeysInductive, TypeCorrect, PTL DEF Spec

-----------------------------------------------------------------------------
(* What a client sees: the fate of each upload, and the upload under a key.   *)
Fates   == [f \in Files |-> FateOf(file[f])]
Visible == [k \in Keys |-> IF key[k] # NoFile /\ file[key[k]] = "active"
                           THEN key[k] ELSE NoFile]

(* The actions of KeyedStore, in these terms. *)
LEMMA StoreActions ==
  ASSUME NEW f, NEW k
  PROVE  /\ Store!Begin(f) <=>
              /\ Fates[f] = "unborn"
              /\ Fates' = [Fates EXCEPT ![f] = "running"]
              /\ Visible' = Visible
         /\ Store!Publish(f) <=>
              /\ Fates[f] = "running"
              /\ f \in Conditional => Visible[KeyOf[f]] = NoFile
              /\ Fates' = [g \in Files |-> IF g = f THEN "visible"
                                           ELSE IF g = Visible[KeyOf[f]] THEN "dropped" ELSE Fates[g]]
              /\ Visible' = [Visible EXCEPT ![KeyOf[f]] = f]
         /\ Store!Drop(f) <=>
              /\ Fates[f] = "running"
              /\ Fates' = [Fates EXCEPT ![f] = "dropped"]
              /\ Visible' = Visible
         /\ Store!Withdraw(k) <=>
              /\ Visible[k] # NoFile
              /\ Fates' = [Fates EXCEPT ![Visible[k]] = "dropped"]
              /\ Visible' = [Visible EXCEPT ![k] = NoFile]
         /\ UNCHANGED Store!vars <=> Fates' = Fates /\ Visible' = Visible
  BY DEF Fates, Visible, Store!Begin, Store!Publish, Store!Drop, Store!Withdraw, Store!vars

(* What an active upload is known by. *)
LEMMA FateValues ==
  /\ FateOf("none") = "unborn"
  /\ FateOf("pending") = "running"
  /\ FateOf("active") = "visible"
  /\ \A s \in {"deleted", "reclaimed", "gone"} : FateOf(s) = "dropped"
  BY DEF FateOf

(* The invariant, as the refinement uses it. *)
LEMMA KeysFacts ==
  ASSUME KeysInv
  PROVE  /\ NoFile \notin Files
         /\ \A f \in Files : KeyOf[f] \in Keys
         /\ file \in [Files -> {"none", "pending", "active", "deleted", "reclaimed", "gone"}]
         /\ key \in [Keys -> Files \cup {NoFile}]
         /\ \A k \in Keys : key[k] # NoFile =>
              KeyOf[key[k]] = k /\ file[key[k]] \in {"active", "deleted"}
         /\ \A f \in Files : file[f] = "active" => key[KeyOf[f]] = f
  <1>1. NoFile \notin Files /\ \A f \in Files : KeyOf[f] \in Keys
    BY ConstantsAssumption
  <1>2. /\ file \in [Files -> {"none", "pending", "active", "deleted", "reclaimed", "gone"}]
        /\ key \in [Keys -> Files \cup {NoFile}]
    BY DEF KeysInv, RowsOK
  <1> QED BY <1>1, <1>2 DEF KeysInv, KeysNameOwn, ActiveIsReachable

(* Taking an active upload away from its key is a Withdraw. *)
LEMMA WithdrawsActive ==
  ASSUME KeysInv, NEW f \in Files, file[f] = "active",
         file' = [file EXCEPT ![f] = "deleted"],
         key' \in {key, [key EXCEPT ![KeyOf[f]] = NoFile]}
  PROVE  Store!Withdraw(KeyOf[f])
  <1>0. /\ NoFile \notin Files /\ KeyOf[f] \in Keys /\ key[KeyOf[f]] = f
        /\ file \in [Files -> {"none", "pending", "active", "deleted", "reclaimed", "gone"}]
        /\ key \in [Keys -> Files \cup {NoFile}]
        /\ \A k \in Keys : key[k] = f => k = KeyOf[f]
    BY KeysFacts
  <1>1. Visible[KeyOf[f]] = f
    BY <1>0 DEF Visible
  <1>2. Fates' = [Fates EXCEPT ![f] = "dropped"]
    <2>1. \A g \in Files : Fates'[g] = IF g = f THEN "dropped" ELSE Fates[g]
      BY <1>0, FateValues DEF Fates
    <2> QED BY <2>1 DEF Fates
  <1>3. Visible' = [Visible EXCEPT ![KeyOf[f]] = NoFile]
    <2>1. \A k \in Keys : Visible'[k] = IF k = KeyOf[f] THEN NoFile ELSE Visible[k]
      <3>1. ASSUME NEW k \in Keys, k # KeyOf[f] PROVE Visible'[k] = Visible[k]
        <4>1. key'[k] = key[k] /\ key[k] # f
          BY <1>0, <3>1
        <4> QED BY <1>0, <4>1 DEF Visible
      <3>2. Visible'[KeyOf[f]] = NoFile
        BY <1>0 DEF Visible
      <3> QED BY <3>1, <3>2
    <2> QED BY <2>1 DEF Visible
  <1> QED BY <1>0, <1>1, <1>2, <1>3, StoreActions

(* A commit is a Publish: it displaces exactly what the key showed. *)
LEMMA CommitPublishes ==
  ASSUME KeysInv, NEW f \in Files, CommitUpload(f)
  PROVE  Store!Publish(f)
  <1>0. /\ NoFile \notin Files /\ KeyOf[f] \in Keys
        /\ file \in [Files -> {"none", "pending", "active", "deleted", "reclaimed", "gone"}]
        /\ key \in [Keys -> Files \cup {NoFile}]
        /\ \A k \in Keys : key[k] # NoFile => KeyOf[key[k]] = k
        /\ \A k \in Keys : key[k] # f
    BY KeysFacts DEF CommitUpload, Finalizable, Pending
  <1>1. /\ file[f] = "pending"
        /\ ~KeyTaken(f)
        /\ file' = [g \in Files |-> IF g = f THEN "active"
                                    ELSE IF g \in Displaced(f) THEN "deleted" ELSE file[g]]
        /\ key' = [key EXCEPT ![KeyOf[f]] = f]
    BY DEF CommitUpload, Finalizable, Pending
  <1>2. \A g \in Files : g \in Displaced(f) <=> g = Visible[KeyOf[f]]
    BY <1>0, <1>1 DEF Displaced, Visible
  <1>3. Fates' = [g \in Files |-> IF g = f THEN "visible"
                                  ELSE IF g = Visible[KeyOf[f]] THEN "dropped" ELSE Fates[g]]
    BY <1>0, <1>1, <1>2, FateValues DEF Fates
  <1>4. Visible' = [Visible EXCEPT ![KeyOf[f]] = f]
    <2>1. \A k \in Keys : Visible'[k] = IF k = KeyOf[f] THEN f ELSE Visible[k]
      <3>1. ASSUME NEW k \in Keys, k # KeyOf[f] PROVE Visible'[k] = Visible[k]
        <4>1. key'[k] = key[k] /\ (key[k] # NoFile => key[k] \in Files /\ key[k] \notin Displaced(f))
          BY <1>0, <1>1, <3>1 DEF Displaced
        <4> QED BY <1>0, <1>1, <4>1 DEF Visible
      <3>2. Visible'[KeyOf[f]] = f
        BY <1>0, <1>1 DEF Visible
      <3> QED BY <3>1, <3>2
    <2> QED BY <2>1 DEF Visible
  <1>5. f \in Conditional => Visible[KeyOf[f]] = NoFile
    BY <1>0, <1>1 DEF KeyTaken, Visible
  <1>6. Fates[f] = "running"
    BY <1>1, FateValues DEF Fates
  <1> QED BY <1>3, <1>4, <1>5, <1>6, StoreActions

(* A step of the tables is a step of KeyedStore, or leaves what it shows. *)
LEMMA TableStepImplements ==
  ASSUME KeysInv, TableStep
  PROVE  [Store!Next]_(Store!vars)
  <1>0. /\ NoFile \notin Files
        /\ file \in [Files -> {"none", "pending", "active", "deleted", "reclaimed", "gone"}]
        /\ key \in [Keys -> Files \cup {NoFile}]
        /\ \A k \in Keys : key[k] # NoFile => KeyOf[key[k]] = k /\ file[key[k]] \in {"active", "deleted"}
    BY KeysFacts
  <1>1. ASSUME NEW f \in Files, CreateUpload(f) PROVE Store!Begin(f)
    <2>1. file[f] = "none" /\ file' = [file EXCEPT ![f] = "pending"] /\ key' = key
      BY <1>1 DEF CreateUpload
    <2>2. \A g \in Files : Fates'[g] = IF g = f THEN "running" ELSE Fates[g]
      BY <1>0, <2>1, FateValues DEF Fates
    <2>3. Visible' = Visible
      BY <1>0, <2>1 DEF Visible
    <2>4. Fates[f] = "unborn" /\ Fates' = [Fates EXCEPT ![f] = "running"]
      BY <2>1, <2>2, FateValues DEF Fates
    <2> QED BY <2>3, <2>4, StoreActions
  <1>2. ASSUME NEW f \in Files, CommitUpload(f) PROVE Store!Publish(f)
    BY <1>2, CommitPublishes
  <1>3. ASSUME NEW f \in Files, Reclaims(f) PROVE Store!Drop(f)
    <2>1. file[f] = "pending" /\ file' = [file EXCEPT ![f] = "reclaimed"] /\ key' = key
      BY <1>3 DEF Reclaims
    <2>2. \A g \in Files : Fates'[g] = IF g = f THEN "dropped" ELSE Fates[g]
      BY <1>0, <2>1, FateValues DEF Fates
    <2>3. Visible' = Visible
      BY <1>0, <2>1 DEF Visible
    <2>4. Fates[f] = "running" /\ Fates' = [Fates EXCEPT ![f] = "dropped"]
      BY <2>1, <2>2, FateValues DEF Fates
    <2> QED BY <2>3, <2>4, StoreActions
  <1>4. ASSUME NEW f \in Files, NativeDelete(f) PROVE Store!Withdraw(KeyOf[f])
    BY <1>4, WithdrawsActive DEF NativeDelete
  <1>5. ASSUME NEW f \in Files, PruneFile(f) PROVE UNCHANGED Store!vars
    <2>1. /\ file[f] \in {"deleted", "reclaimed"} /\ file' = [file EXCEPT ![f] = "gone"]
          /\ key' = [k \in Keys |-> IF key[k] = f THEN NoFile ELSE key[k]]
      BY <1>5 DEF PruneFile
    <2>2. Fates' = Fates
      BY <1>0, <2>1, FateValues DEF Fates
    <2>3. Visible' = Visible
      BY <1>0, <2>1 DEF Visible
    <2> QED BY <2>2, <2>3, StoreActions
  <1>6. ASSUME NEW k \in Keys, DeleteObject(k) PROVE Store!Withdraw(k) \/ UNCHANGED Store!vars
    <2>1. key[k] \in Files /\ KeyOf[key[k]] = k /\ key' = [key EXCEPT ![k] = NoFile]
      BY <1>0, <1>6 DEF DeleteObject
    <2>2. CASE file[key[k]] = "active"
      BY <1>6, <2>1, <2>2, WithdrawsActive DEF DeleteObject
    <2>3. CASE file[key[k]] # "active"
      <3>1. file' = file
        BY <1>6, <2>3 DEF DeleteObject
      <3>2. Fates' = Fates /\ Visible' = Visible
        BY <1>0, <2>1, <2>3, <3>1 DEF Fates, Visible
      <3> QED BY <3>2, StoreActions
    <2> QED BY <2>2, <2>3
  <1>7. CASE UNCHANGED <<file, key>>
    <2>1. Fates' = Fates /\ Visible' = Visible
      BY <1>7 DEF Fates, Visible
    <2> QED BY <2>1, StoreActions
  <1>8. \A f \in Files : KeyOf[f] \in Keys
    BY ConstantsAssumption
  <1> QED BY <1>1, <1>2, <1>3, <1>4, <1>5, <1>6, <1>7, <1>8 DEF TableStep, Store!Next

(* The S3 surface implements KeyedStore, for every instance.                  *)
THEOREM KeyedStoreImplemented == Spec => ImplementsKeyedStore
  <1>1. Init => Store!Init
    BY DEF Init, Store!Init, FateOf
  <1>2. TypeOK /\ KeysNameOwn /\ ActiveIsReachable /\ [Next]_vars
          => [Store!Next]_(Store!vars)
    BY NextIsTableStep, TableStepImplements DEF TypeOK, KeysInv
  <1>3. Spec => [](KeysNameOwn /\ ActiveIsReachable)
    BY KeysInit, KeysInductive, TypeCorrect, PTL DEF Spec
  <1> QED BY <1>1, <1>2, <1>3, TypeCorrect, PTL DEF Spec, ImplementsKeyedStore, Store!Spec
=============================================================================
