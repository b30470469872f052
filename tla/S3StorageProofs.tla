--------------------------- MODULE S3StorageProofs ---------------------------
(* Uploads follow the state diagram, and nothing that destroys content is     *)
(* ever under way for a file that is active or may still become so.           *)
EXTENDS S3UploadsProofs

-----------------------------------------------------------------------------
(* The transactions along the state diagram. *)
LEMMA RowMoves ==
  ASSUME RowsOK, NEW f \in Files
  PROVE  /\ CreateUpload(f) => LifecycleStep
         /\ \A b \in Bodies : ClaimCompletion(f, b) => LifecycleStep
         /\ Pending(f, "open") \/ Pending(f, "completing") => (ToCleaning(f) => LifecycleStep)
         /\ FinalizeUpload(f) => LifecycleStep
         /\ FinalizeReclaimed(f, "open") \/ FinalizeReclaimed(f, "cleaning") => LifecycleStep
         /\ ReopenCompletion(f) => LifecycleStep
         /\ UNCHANGED <<file, upload>> => LifecycleStep
  <1> USE DEF RowsOK, LifecycleStep, LifeOf, Transitions
  <1>1. CreateUpload(f) => LifecycleStep
    BY DEF CreateUpload
  <1>2. ASSUME NEW b \in Bodies, ClaimCompletion(f, b) PROVE LifecycleStep
    BY <1>2 DEF ClaimCompletion, Pending
  <1>3. ASSUME Pending(f, "open") \/ Pending(f, "completing"), ToCleaning(f) PROVE LifecycleStep
    BY <1>3 DEF ToCleaning, Pending
  <1>4. UNCHANGED <<file, upload>> => LifecycleStep
    OBVIOUS
  <1>5. ASSUME FinalizeUpload(f) PROVE LifecycleStep
    <2>1. CASE CommitUpload(f)
      BY <2>1 DEF CommitUpload, Finalizable, Pending, Displaced
    <2>2. CASE PreconditionFailed(f)
      BY <2>2, <1>3 DEF PreconditionFailed, Finalizable
    <2>3. CASE UNCHANGED rows
      BY <2>3 DEF rows
    <2> QED BY <1>5, <2>1, <2>2, <2>3 DEF FinalizeUpload
  <1>6. ASSUME FinalizeReclaimed(f, "open") \/ FinalizeReclaimed(f, "cleaning") PROVE LifecycleStep
    BY <1>6 DEF FinalizeReclaimed, Pending, rows
  <1>7. ReopenCompletion(f) => LifecycleStep
    BY DEF ReopenCompletion, ExpiredCompletion, Pending
  <1> HIDE DEF RowsOK, LifecycleStep, LifeOf, Transitions
  <1> QED BY <1>1, <1>2, <1>3, <1>4, <1>5, <1>6, <1>7

(* Every step of every handler and job is along the diagram. *)
LEMMA LifecycleHolds ==
  ASSUME TypeOK, [Next]_vars
  PROVE  LifecycleStep
  <1>0. RowsOK
    BY DEF TypeOK
  <1>1. ASSUME NEW r \in Requests, RequestStep(r) PROVE LifecycleStep
    <2>1. req[r] \in RequestStates /\ (req[r].at # "idle" => req[r].file \in Files)
      BY RequestFields DEF TypeOK
    <2>2. ASSUME NEW f \in Files, NEW d \in Data, PutObject(r, f, d) PROVE LifecycleStep
      BY <1>0, <2>2, RowMoves DEF PutObject
    <2>3. ASSUME NEW f \in Files, CreateMultipart(r, f) PROVE LifecycleStep
      BY <1>0, <2>3, RowMoves DEF CreateMultipart
    <2>4. ASSUME NEW f \in Files, AbortMultipart(r, f) PROVE LifecycleStep
      BY <1>0, <2>4, RowMoves DEF AbortMultipart, ClaimAbort
    <2>5. ASSUME NEW f \in Files, NEW p \in Parts, NEW d \in Data, ClaimPart(r, f, p, d)
          PROVE LifecycleStep
      BY <1>0, <2>5, RowMoves DEF ClaimPart
    <2>6. ASSUME NEW f \in Files, NEW list \in Lists, CompleteMultipart(r, f, list)
          PROVE LifecycleStep
      BY <1>0, <2>6, RowMoves DEF CompleteMultipart, Bodies
    <2>7. CASE ClaimPut(r)
      <3>1. req[r].file \in Files /\ req[r].body \in Bodies
        BY <2>1, <2>7, RequestFields DEF ClaimPut, At, Bodies
      <3> QED BY <1>0, <2>7, <3>1, RowMoves DEF ClaimPut, rows
    <2>8. CASE ScheduleCreateCleanup(r)
      <3>1. req[r].file \in Files
        BY <2>1, <2>8 DEF ScheduleCreateCleanup, At
      <3> QED BY <1>0, <2>8, <3>1, RowMoves DEF ScheduleCreateCleanup, ClaimAbort, rows
    <2>9. CASE DiscardUnstarted(r)
      BY <1>0, <2>1, <2>9, RowMoves DEF DiscardUnstarted, At
    <2>10. CASE FinalizeRequest(r)
      BY <1>0, <2>1, <2>10, RowMoves DEF FinalizeRequest, At
    <2>11. CASE FinalizeAbort(r)
      BY <1>0, <2>1, <2>11, RowMoves DEF FinalizeAbort, At
    <2>12. CASE UNCHANGED <<file, upload>>
      BY <2>12 DEF LifecycleStep, LifeOf
    <2>13. CASE \/ AttachUploadId(r) \/ AttachFails(r) \/ FinishPart(r) \/ CancelPart(r)
                \/ ProviderAnswers(r) \/ RequestDies(r) \/ Heartbeat(r)
      BY <2>12, <2>13 DEF AttachUploadId, AttachFails, FinishPart, CancelPart,
         ProviderAnswers, RequestDies, Heartbeat, rows
    <2> QED BY <1>1, <2>2, <2>3, <2>4, <2>5, <2>6, <2>7, <2>8, <2>9, <2>10, <2>11, <2>13
            DEF RequestStep, Continue
  <1>2. ASSUME NEW w \in Workers, PassStep(w) PROVE LifecycleStep
    <2>1. worker[w] \in WorkerStates /\ (worker[w].at # "idle" => worker[w].file \in Files)
      BY WorkerFields DEF TypeOK
    <2>2. CASE UNCHANGED <<file, upload>>
      BY <2>2 DEF LifecycleStep, LifeOf
    <2>3. CASE \/ \E f \in Files : RecoverCompletion(w, f) \/ RecoverCleaning(w, f) \/ RecoverDeleted(w, f)
               \/ Observe(w) \/ SweepObject(w) \/ PassStops(w)
      BY <2>2, <2>3 DEF RecoverCompletion, RecoverCleaning, RecoverDeleted, BeginRecovery,
         Observe, SweepObject, PassStops, rows
    <2>4. CASE Act(w)
      <3>1. worker[w].file \in Files
        BY <2>1, <2>4 DEF Act
      <3> QED BY <1>0, <2>2, <2>4, <3>1, RowMoves
              DEF Act, MarkCompletionAborting, ExpiredCompletion, rows
    <2>5. CASE FinishSweep(w)
      <3>1. worker[w].file \in Files
        BY <2>1, <2>5 DEF FinishSweep
      <3> QED BY <1>0, <2>2, <2>5, <3>1, RowMoves DEF FinishSweep, FinalizePurge
    <2> QED BY <1>2, <2>3, <2>4, <2>5 DEF PassStep, ContinuePass
  <1>3. ASSUME NEW c \in late, LateApplies(c) PROVE LifecycleStep
    BY <1>3 DEF LateApplies, rows, LifecycleStep, LifeOf
  <1>4. ASSUME NEW k \in Keys, DeleteObject(k) PROVE LifecycleStep
    BY <1>0, <1>4 DEF DeleteObject, RowsOK, LifecycleStep, LifeOf, Transitions
  <1>5. ASSUME NEW f \in Files, ExpireOpen(f) PROVE LifecycleStep
    BY <1>0, <1>5, RowMoves DEF ExpireOpen
  <1>6. ASSUME NEW f \in Files, NativeDelete(f) \/ PruneFile(f) PROVE LifecycleStep
    BY <1>0, <1>6 DEF NativeDelete, PruneFile, RowsOK, LifecycleStep, LifeOf, Transitions
  <1>7. ASSUME NEW f \in Files, LeaseLapses(f) \/ RetryDue(f) \/ PruneLease(f) PROVE LifecycleStep
    BY <1>7 DEF LeaseLapses, RetryDue, PruneLease, LifecycleStep, LifeOf
  <1>8. CASE UNCHANGED vars
    BY <1>8 DEF vars, rows, LifecycleStep, LifeOf
  <1> QED BY <1>1, <1>2, <1>3, <1>4, <1>5, <1>6, <1>7, <1>8 DEF Next

(* Every step of every handler and job, whatever interleaving it is part of,  *)
(* follows the documented state diagram.                                      *)
THEOREM LifecycleFollowed == Spec => FollowsLifecycle
  <1>1. TypeOK /\ [Next]_vars => [LifecycleStep]_vars
    BY LifecycleHolds
  <1> QED BY <1>1, TypeCorrect, PTL DEF Spec, FollowsLifecycle

-----------------------------------------------------------------------------
(* A condemned file stays condemned: no transaction leads back.               *)
LEMMA CondemnedStable ==
  ASSUME TypeOK, [Next]_vars, NEW f \in Files, Condemned(f)
  PROVE  Condemned(f)'
  <1>1. LifecycleStep /\ RowsOK /\ RowsOK'
    BY LifecycleHolds, StepTyped DEF TypeOK
  <1>2. LifeOf(f) \in {"deleted", "reclaimed", "gone", "cleaning"}
    BY <1>1 DEF Condemned, LifeOf, Pending, RowsOK
  <1>3. LifeOf(f)' \in {"deleted", "reclaimed", "gone", "cleaning"}
    BY <1>1, <1>2 DEF LifecycleStep, Transitions
  <1> QED BY <1>1, <1>3 DEF Condemned, LifeOf, Pending, RowsOK

(* What a step adds to the deletions under way: a call that its sender gives  *)
(* up on, a request that has just claimed the abort of its file, a pass that  *)
(* has just taken a file from one of the cleanup scans.                       *)
Deletes(c) == c.op \in {"cleanup", "remove"}
NewDeletions ==
  /\ \A c \in late' : c \in late \/ (Deletes(c) => Condemned(c.file))
  /\ \A r \in Requests :
       At(r, "calling", {"cleanup"})' => req'[r] = req[r] \/ Condemned(req[r].file)'
  /\ \A w \in Workers :
       worker'[w].at = "sweeping" => worker'[w] = worker[w] \/ Condemned(worker'[w].file)

(* A call given up on is the only one that can be new in flight.              *)
LEMMA AbandonAdds ==
  ASSUME NEW c, Abandon(c), Deletes(c) => Condemned(c.file)
  PROVE  \A d \in late' : d \in late \/ (Deletes(d) => Condemned(d.file))
  BY DEF Abandon

(* Where a request stands after a move, and what it can be deleting.          *)
LEMMA RequestMoves ==
  ASSUME NEW x \in RequestStates
  PROVE  /\ \A at : [x EXCEPT !.at = at].at = at /\ [x EXCEPT !.at = at].op = x.op
         /\ x.at = "calling" => x.op = "cleanup" \/ ~Deletes(Call(x, x.op))
  BY DEF RequestStates, Idle, Deletes, Call

(* The deletions that the steps of a request add. *)
LEMMA RequestDeletions ==
  ASSUME TypeOK, DeletesOnlyCondemned, NEW r \in Requests, RequestStep(r)
  PROVE  NewDeletions
  <1>0. /\ req \in [Requests -> RequestStates]
        /\ At(r, "calling", {"cleanup"}) => Condemned(req[r].file)
        /\ req[r].at = "calling" => At(r, "calling", {"cleanup"}) \/ ~Deletes(Call(req[r], req[r].op))
        /\ \A at : [req[r] EXCEPT !.at = at].at = at /\ [req[r] EXCEPT !.at = at].op = req[r].op
    BY RequestMoves DEF TypeOK, DeletesOnlyCondemned, At
  <1>1. ASSUME NEW f \in Files, AbortMultipart(r, f) PROVE NewDeletions
    <2>1. Condemned(f)'
      BY <1>1 DEF AbortMultipart, ClaimAbort, ToCleaning, Condemned, Pending, TypeOK, RowsOK
    <2> QED BY <1>0, <1>1, <2>1 DEF AbortMultipart, Start, NewDeletions, At
  <1>2. ASSUME UNCHANGED late, UNCHANGED worker,
               \A s \in Requests : req'[s] = req[s] \/ req'[s].at # "calling" \/ req'[s].op # "cleanup"
        PROVE  NewDeletions
    BY <1>2 DEF NewDeletions, At
  <1>3. CASE \/ \E f \in Files, d \in Data : PutObject(r, f, d)
             \/ \E f \in Files : CreateMultipart(r, f)
             \/ \E f \in Files, p \in Parts, d \in Data : ClaimPart(r, f, p, d)
             \/ \E f \in Files, list \in Lists : CompleteMultipart(r, f, list)
    BY <1>0, <1>2, <1>3 DEF PutObject, CreateMultipart, ClaimPart, CompleteMultipart, Start
  <1>4. ASSUME NEW at, Move(r, at), at # "calling" \/ req[r].op # "cleanup"
        PROVE  \A s \in Requests : req'[s] = req[s] \/ req'[s].at # "calling" \/ req'[s].op # "cleanup"
    <2>1. req'[r] = [req[r] EXCEPT !.at = at] /\ \A s \in Requests \ {r} : req'[s] = req[s]
      BY <1>0, <1>4 DEF Move
    <2>2. req'[r].at = at /\ req'[r].op = req[r].op
      BY <1>0, <2>1
    <2> QED BY <1>4, <2>1, <2>2
  <1>11. CASE ClaimPut(r)
    <2>1. \A s \in Requests : req'[s] = req[s] \/ req'[s].at # "calling" \/ req'[s].op # "cleanup"
      <3>1. CASE Move(r, "calling")
        BY <1>4, <1>11, <3>1 DEF ClaimPut, At
      <3>2. CASE Return(r)
        BY <1>0, <3>2 DEF Return, Idle
      <3> QED BY <1>11, <3>1, <3>2 DEF ClaimPut
    <2> QED BY <1>2, <1>11, <2>1 DEF ClaimPut
  <1>12. CASE AttachFails(r)
    BY <1>2, <1>4, <1>12 DEF AttachFails
  <1>13. CASE AttachUploadId(r) \/ DiscardUnstarted(r) \/ FinishPart(r)
    BY <1>0, <1>2, <1>13 DEF AttachUploadId, DiscardUnstarted, FinishPart, Return, Idle
  <1>5. CASE FinalizeRequest(r) \/ FinalizeAbort(r) \/ Heartbeat(r)
    BY <1>0, <1>2, <1>5 DEF FinalizeRequest, FinalizeAbort, Heartbeat, Return, Idle
  <1>6. ASSUME NEW op, Abandon(Call(req[r], op)) \/ UNCHANGED late, UNCHANGED worker,
               At(r, "calling", {"cleanup"}) \/ ~Deletes(Call(req[r], op)),
               Return(r) \/ Move(r, "answered")
        PROVE  NewDeletions
    <2>1. Deletes(Call(req[r], op)) => Condemned(Call(req[r], op).file)
      BY <1>0, <1>6 DEF Call
    <2>2. \A d \in late' : d \in late \/ (Deletes(d) => Condemned(d.file))
      BY <1>6, <2>1, AbandonAdds
    <2>3. \A s \in Requests : req'[s] = req[s] \/ req'[s].at # "calling" \/ req'[s].op # "cleanup"
      <3>1. CASE Return(r)
        BY <1>0, <3>1 DEF Return, Idle
      <3> QED BY <1>4, <1>6, <3>1
    <2> QED BY <1>6, <2>2, <2>3 DEF NewDeletions, At
  <1>7. CASE ScheduleCreateCleanup(r)
    <2>1. ~Deletes(Call(req[r], "create"))
      BY DEF Deletes, Call
    <2> QED BY <1>6, <1>7, <2>1 DEF ScheduleCreateCleanup
  <1>8. CASE CancelPart(r)
    <2>1. ~Deletes(Call(req[r], "part"))
      BY DEF Deletes, Call
    <2> QED BY <1>6, <1>8, <2>1 DEF CancelPart
  <1>9. CASE ProviderAnswers(r)
    BY <1>0, <1>6, <1>9 DEF ProviderAnswers
  <1>10. CASE RequestDies(r)
    <2>1. CASE req[r].at = "calling"
      BY <1>0, <1>6, <1>10, <2>1 DEF RequestDies
    <2>2. CASE req[r].at # "calling"
      BY <1>0, <1>2, <1>10, <2>2 DEF RequestDies, Return, Idle
    <2> QED BY <2>1, <2>2
  <1> QED BY <1>1, <1>3, <1>5, <1>7, <1>8, <1>9, <1>10, <1>11, <1>12, <1>13 DEF RequestStep, Continue

(* The deletions that the steps of a reconciler pass add. *)
LEMMA PassDeletions ==
  ASSUME TypeOK, DeletesOnlyCondemned, NEW w \in Workers, PassStep(w)
  PROVE  NewDeletions
  <1>0. /\ worker \in [Workers -> WorkerStates]
        /\ worker[w].at = "sweeping" => Condemned(worker[w].file)
        /\ \A s \in Requests : UNCHANGED req => req'[s] = req[s]
    BY DEF TypeOK, DeletesOnlyCondemned
  <1>1. ASSUME NEW job, NEW at, NEW f \in Files, BeginRecovery(w, job, f, at),
               at # "sweeping" \/ Condemned(f)
        PROVE  NewDeletions
    <2>1. Condemned(f) => Condemned(f)'
      BY <1>1 DEF BeginRecovery, Condemned, Pending
    <2> QED BY <1>0, <1>1, <2>1 DEF BeginRecovery, NewDeletions
  <1>2. ASSUME NEW f \in Files, RecoverCompletion(w, f) PROVE NewDeletions
    BY <1>1, <1>2 DEF RecoverCompletion
  <1>3. ASSUME NEW f \in Files, RecoverCleaning(w, f) PROVE NewDeletions
    <2>1. Condemned(f)
      BY <1>3 DEF RecoverCleaning, CleanupCandidate, Condemned
    <2> QED BY <1>1, <1>3, <2>1 DEF RecoverCleaning
  <1>4. ASSUME NEW f \in Files, RecoverDeleted(w, f) PROVE NewDeletions
    <2>1. Condemned(f)
      BY <1>4 DEF RecoverDeleted, Purgeable, Condemned
    <2> QED BY <1>1, <1>4, <2>1 DEF RecoverDeleted
  <1>5. ASSUME UNCHANGED req, (Abandon(SweepCall(w)) /\ worker[w].at = "sweeping") \/ UNCHANGED late,
               \A v \in Workers : worker'[v] = worker[v] \/ worker'[v].at # "sweeping"
        PROVE  NewDeletions
    <2>1. CASE UNCHANGED late
      BY <1>5, <2>1 DEF NewDeletions
    <2>2. CASE Abandon(SweepCall(w)) /\ worker[w].at = "sweeping"
      <3>1. Condemned(SweepCall(w).file)
        BY <1>0, <2>2 DEF SweepCall
      <3>2. \A d \in late' : d \in late \/ (Deletes(d) => Condemned(d.file))
        BY <2>2, <3>1, AbandonAdds
      <3> QED BY <1>5, <3>2 DEF NewDeletions
    <2> QED BY <1>5, <2>1, <2>2
  <1>6. CASE Observe(w)
    <2>1. CompletionAction(worker[w].file, worker[w].want) # "sweeping"
      BY DEF CompletionAction
    <2> QED BY <1>0, <1>5, <1>6, <2>1 DEF Observe
  <1>7. CASE Act(w) \/ FinishSweep(w)
    BY <1>0, <1>5, <1>7 DEF Act, FinishSweep, Asleep
  <1>8. CASE SweepObject(w)
    BY <1>0, <1>5, <1>8 DEF SweepObject
  <1>9. CASE PassStops(w)
    BY <1>0, <1>5, <1>9 DEF PassStops, Asleep
  <1> QED BY <1>2, <1>3, <1>4, <1>6, <1>7, <1>8, <1>9 DEF PassStep, ContinuePass

(* The deletions that any step adds are of condemned files. *)
LEMMA StepDeletions ==
  ASSUME TypeOK, DeletesOnlyCondemned, [Next]_vars
  PROVE  NewDeletions
  <1>1. ASSUME late' \subseteq late, UNCHANGED <<req, worker>> PROVE NewDeletions
    BY <1>1 DEF NewDeletions
  <1>2. ASSUME NEW c \in late, LateApplies(c) PROVE NewDeletions
    BY <1>1, <1>2 DEF LateApplies
  <1>3. ASSUME NEW k \in Keys, DeleteObject(k) PROVE NewDeletions
    BY <1>1, <1>3 DEF DeleteObject
  <1>4. ASSUME NEW f \in Files,
               \/ NativeDelete(f) \/ LeaseLapses(f) \/ RetryDue(f)
               \/ ExpireOpen(f) \/ PruneLease(f) \/ PruneFile(f)
        PROVE  NewDeletions
    BY <1>1, <1>4 DEF NativeDelete, LeaseLapses, RetryDue, ExpireOpen, PruneLease, PruneFile
  <1>5. CASE UNCHANGED vars
    BY <1>1, <1>5 DEF vars
  <1> QED BY <1>2, <1>3, <1>4, <1>5, RequestDeletions, PassDeletions DEF Next

(* Every step leaves only condemned files under deletion. *)
LEMMA DeletesStep == TypeOK /\ DeletesOnlyCondemned /\ [Next]_vars => DeletesOnlyCondemned'
  <1> SUFFICES ASSUME TypeOK, DeletesOnlyCondemned, [Next]_vars
               PROVE  DeletesOnlyCondemned'
    OBVIOUS
  <1>0. NewDeletions /\ TypeOK'
    BY StepDeletions, StepTyped
  <1>1. ASSUME NEW c \in late', c.op \in {"cleanup", "remove"} PROVE Condemned(c.file)'
    <2>1. Condemned(c.file)
      BY <1>0, <1>1 DEF NewDeletions, Deletes, DeletesOnlyCondemned
    <2>2. c.file \in Files
      BY <1>0, CallFields DEF TypeOK
    <2> QED BY <2>1, <2>2, CondemnedStable
  <1>2. ASSUME NEW r \in Requests, At(r, "calling", {"cleanup"})' PROVE Condemned(req[r].file)'
    <2>1. CASE req'[r] = req[r]
      <3>1. At(r, "calling", {"cleanup"})
        BY <1>2, <2>1 DEF At
      <3>2. Condemned(req[r].file) /\ req[r].file \in Files
        BY <3>1, RequestFields DEF DeletesOnlyCondemned, TypeOK, At
      <3>3. \A f \in Files : Condemned(f) => Condemned(f)'
        BY CondemnedStable
      <3> QED BY <2>1, <3>2, <3>3 DEF Condemned, Pending
    <2> QED BY <1>0, <1>2, <2>1 DEF NewDeletions
  <1>3. ASSUME NEW w \in Workers, worker'[w].at = "sweeping" PROVE Condemned(worker[w].file)'
    <2>1. CASE worker'[w] = worker[w]
      <3>1. Condemned(worker[w].file) /\ worker[w].file \in Files
        BY <1>3, <2>1, WorkerFields DEF DeletesOnlyCondemned, TypeOK
      <3>2. \A f \in Files : Condemned(f) => Condemned(f)'
        BY CondemnedStable
      <3> QED BY <2>1, <3>1, <3>2 DEF Condemned, Pending
    <2>2. CASE Condemned(worker'[w].file)
      <3>1. worker'[w].file \in Files
        BY <1>0, <1>3, WorkerFields DEF TypeOK
      <3>2. \A f \in Files : Condemned(f) => Condemned(f)'
        BY CondemnedStable
      <3> QED BY <2>2, <3>1, <3>2 DEF Condemned, Pending
    <2> QED BY <1>0, <1>3, <2>1, <2>2 DEF NewDeletions
  <1> QED BY <1>1, <1>2, <1>3 DEF DeletesOnlyCondemned

(* No physical deletion, in progress or in flight, is ever aimed at a file    *)
(* that is active or that a transaction may still make active.                *)
THEOREM DeletionsOfCondemned == Spec => []DeletesOnlyCondemned
  <1>1. Init => DeletesOnlyCondemned
    BY DEF Init, DeletesOnlyCondemned, At, Idle, Asleep
  <1> QED BY <1>1, DeletesStep, TypeCorrect, PTL DEF Spec

-----------------------------------------------------------------------------
(* An active file has its object: a finalization only ever acts on an answer  *)
(* of the provider that still holds, because no deletion can reach the object *)
(* of a file that is not condemned.                                           *)

(* The object of f is there, or f can no longer become active. *)
Stored(f) == object[f] # Nothing \/ Condemned(f)

(* The rows: a completion names its content, and a file keeps its location    *)
(* until it is condemned.                                                     *)
RowsReady ==
  /\ \A f \in Files : upload[f] = "completing" => claim[f] # Nothing
  /\ \A f \in Files : file[f] \in {"pending", "active"} => located[f]

(* Whoever is about to finalize has seen the object. *)
SeenStored ==
  /\ \A r \in Requests : At(r, "answered", {"put", "complete"}) => Stored(req[r].file)
  /\ \A w \in Workers : worker[w].at = "finalize" => Stored(worker[w].file)
  /\ \A w \in Workers : worker[w].at = "observing" => worker[w].want # Nothing

(* The inductive invariant. *)
StorageInv ==
  TypeOK /\ DeletesOnlyCondemned /\ RowsReady /\ SeenStored /\ ActiveIsStored

-----------------------------------------------------------------------------
(* A body is not the absence of one. *)
LEMMA BodyIsSomething == \A b \in Bodies : b # Nothing
  BY ConstantsAssumption DEF Bodies, Lists

(* A call that the provider applies stores an object or, when it deletes one, *)
(* deletes that of a condemned file.                                          *)
LEMMA ApplyStores ==
  ASSUME TypeOK, NEW c \in CallStates, Apply(c), Deletes(c) => Condemned(c.file)
  PROVE  /\ \A f \in Files : object[f] # Nothing => object'[f] # Nothing \/ Condemned(f)
         /\ c.op \in {"put", "complete"} => object'[c.file] # Nothing
  <1>0. c.file \in Files
    BY CallFields
  <1>1. CASE c.op \in {"put", "complete"}
    <2>1. object' = [object EXCEPT ![c.file] = c.body] /\ c.body # Nothing
      BY <1>1, CallFields, BodyIsSomething DEF Apply, Bodies
    <2> QED BY <1>0, <2>1 DEF TypeOK
  <1>2. CASE c.op \in {"create", "part"}
    BY <1>2 DEF Apply
  <1>3. CASE c.op \in {"cleanup", "remove"}
    <2>1. object' = [object EXCEPT ![c.file] = Nothing] /\ Condemned(c.file)
      BY <1>3 DEF Apply, Deletes
    <2> QED BY <1>0, <1>3, <2>1 DEF TypeOK
  <1> QED BY <1>1, <1>2, <1>3, CallFields

(* An object disappears only under a condemned file. *)
LEMMA ObjectKept ==
  ASSUME TypeOK, DeletesOnlyCondemned, [Next]_vars, NEW f \in Files, object[f] # Nothing
  PROVE  object'[f] # Nothing \/ Condemned(f)
  <1>1. ASSUME NEW r \in Requests, RequestStep(r) PROVE object'[f] # Nothing \/ Condemned(f)
    <2>1. CASE ProviderAnswers(r)
      <3>1. /\ Call(req[r], req[r].op) \in CallStates
            /\ Call(req[r], req[r].op).file = req[r].file
            /\ Call(req[r], req[r].op).op = req[r].op
        BY <2>1, RequestFields DEF ProviderAnswers, TypeOK, Call
      <3>2. Deletes(Call(req[r], req[r].op)) => Condemned(req[r].file)
        BY <2>1, <3>1, RequestMoves DEF ProviderAnswers, DeletesOnlyCondemned, At, TypeOK
      <3> QED BY <2>1, <3>1, <3>2, ApplyStores DEF ProviderAnswers
    <2>2. CASE UNCHANGED object
      BY <2>2
    <2>3. CASE Continue(r) \/ Heartbeat(r)
      BY <2>1, <2>2, <2>3 DEF Continue, ClaimPut, AttachUploadId, ScheduleCreateCleanup,
         AttachFails, DiscardUnstarted, FinishPart, CancelPart, FinalizeRequest,
         FinalizeAbort, RequestDies, Heartbeat, provider
    <2> QED BY <1>1, <2>2, <2>3 DEF RequestStep, PutObject, CreateMultipart, AbortMultipart,
               ClaimPart, CompleteMultipart, provider
  <1>2. ASSUME NEW w \in Workers, PassStep(w) PROVE object'[f] # Nothing \/ Condemned(f)
    <2>1. CASE SweepObject(w)
      <3>1. SweepCall(w) \in CallStates /\ SweepCall(w).file = worker[w].file
        BY <2>1, WorkerFields DEF SweepObject, SweepCall, TypeOK
      <3>2. Condemned(worker[w].file)
        BY <2>1 DEF SweepObject, DeletesOnlyCondemned
      <3> QED BY <2>1, <3>1, <3>2, ApplyStores DEF SweepObject
    <2>2. CASE UNCHANGED object
      BY <2>2
    <2> QED BY <1>2, <2>1, <2>2 DEF PassStep, ContinuePass, RecoverCompletion, RecoverCleaning,
               RecoverDeleted, BeginRecovery, Observe, Act, FinishSweep, PassStops, provider
  <1>3. ASSUME NEW c \in late, LateApplies(c) PROVE object'[f] # Nothing \/ Condemned(f)
    <2>1. c \in CallStates /\ c.file \in Files
      BY CallFields DEF TypeOK
    <2>2. Deletes(c) => Condemned(c.file)
      BY DEF Deletes, DeletesOnlyCondemned
    <2>3. CASE Apply(c)
      BY <2>1, <2>2, <2>3, ApplyStores
    <2>4. CASE UNCHANGED object
      BY <2>4
    <2>5. CASE c.op = "cleanup" /\ object' = [object EXCEPT ![c.file] = Nothing]
      BY <2>1, <2>2, <2>5 DEF Deletes, TypeOK
    <2> QED BY <1>3, <2>3, <2>4, <2>5 DEF LateApplies
  <1>4. ASSUME NEW k \in Keys, DeleteObject(k) PROVE object'[f] # Nothing
    BY <1>4 DEF DeleteObject, provider
  <1>5. ASSUME NEW g \in Files,
               \/ NativeDelete(g) \/ LeaseLapses(g) \/ RetryDue(g)
               \/ ExpireOpen(g) \/ PruneLease(g) \/ PruneFile(g)
        PROVE  object'[f] # Nothing
    BY <1>5 DEF NativeDelete, LeaseLapses, RetryDue, ExpireOpen, PruneLease, PruneFile, provider
  <1>6. CASE UNCHANGED vars
    BY <1>6 DEF vars, provider
  <1> QED BY <1>1, <1>2, <1>3, <1>4, <1>5, <1>6 DEF Next

(* What is stored stays stored, or its file is condemned for good. *)
LEMMA StoredStable ==
  ASSUME TypeOK, DeletesOnlyCondemned, [Next]_vars, NEW f \in Files, Stored(f)
  PROVE  Stored(f)'
  <1>1. CASE Condemned(f)
    <2>1. Condemned(f)'
      BY <1>1, CondemnedStable
    <2> QED BY <2>1 DEF Stored
  <1>2. CASE object'[f] # Nothing
    BY <1>2 DEF Stored
  <1> QED BY <1>1, <1>2, ObjectKept DEF Stored

-----------------------------------------------------------------------------
(* What a step of the rows must respect: the rows stay ready, and a file      *)
(* becomes active only when its object is there.                              *)
Activates == \A f \in Files : file'[f] = "active" => file[f] = "active" \/ object[f] # Nothing
RowsKept  == RowsReady' /\ Activates

(* The transactions: all keep the rows ready, and only a finalization of a    *)
(* stored file activates one.                                                 *)
LEMMA RowsMove ==
  ASSUME RowsOK, RowsReady, NEW f \in Files
  PROVE  /\ CreateUpload(f) => RowsKept
         /\ \A b \in Bodies : ClaimCompletion(f, b) => RowsKept
         /\ ToCleaning(f) => RowsKept
         /\ Stored(f) /\ FinalizeUpload(f) => RowsKept
         /\ \A s : FinalizeReclaimed(f, s) => RowsKept
         /\ ReopenCompletion(f) => RowsKept
         /\ UNCHANGED <<file, upload, claim, located>> => RowsKept
  <1> USE DEF RowsOK, RowsReady, RowsKept, Activates
  <1>1. CreateUpload(f) => RowsKept
    BY DEF CreateUpload
  <1>2. ASSUME NEW b \in Bodies, ClaimCompletion(f, b) PROVE RowsKept
    BY <1>2, BodyIsSomething DEF ClaimCompletion, Pending
  <1>3. ToCleaning(f) => RowsKept
    BY DEF ToCleaning
  <1>4. UNCHANGED <<file, upload, claim, located>> => RowsKept
    OBVIOUS
  <1>5. ASSUME Stored(f), FinalizeUpload(f) PROVE RowsKept
    <2>1. CASE CommitUpload(f)
      <3>1. object[f] # Nothing
        BY <1>5, <2>1 DEF CommitUpload, Finalizable, Pending, Stored, Condemned
      <3> QED BY <2>1, <3>1 DEF CommitUpload, Finalizable, Pending, Displaced
    <2>2. CASE PreconditionFailed(f)
      BY <1>3, <2>2 DEF PreconditionFailed
    <2>3. CASE UNCHANGED rows
      BY <2>3 DEF rows
    <2> QED BY <1>5, <2>1, <2>2, <2>3 DEF FinalizeUpload
  <1>6. ASSUME NEW s, FinalizeReclaimed(f, s) PROVE RowsKept
    BY <1>6 DEF FinalizeReclaimed, rows
  <1>7. ReopenCompletion(f) => RowsKept
    BY DEF ReopenCompletion
  <1> HIDE DEF RowsOK, RowsReady, RowsKept, Activates
  <1> QED BY <1>1, <1>2, <1>3, <1>4, <1>5, <1>6, <1>7

(* Every step keeps the rows ready and activates only a stored file. *)
LEMMA RowsStep ==
  ASSUME TypeOK, RowsReady, SeenStored, [Next]_vars
  PROVE  RowsKept
  <1>0. RowsOK
    BY DEF TypeOK
  <1>u. ASSUME UNCHANGED <<file, upload, claim, located>> PROVE RowsKept
    BY <1>u DEF RowsReady, RowsKept, Activates
  <1>1. ASSUME NEW r \in Requests, RequestStep(r) PROVE RowsKept
    <2>1. req[r] \in RequestStates /\ (req[r].at # "idle" => req[r].file \in Files)
      BY RequestFields DEF TypeOK
    <2>2. ASSUME NEW f \in Files, NEW d \in Data, PutObject(r, f, d) PROVE RowsKept
      BY <1>0, <2>2, RowsMove DEF PutObject
    <2>3. ASSUME NEW f \in Files, CreateMultipart(r, f) PROVE RowsKept
      BY <1>0, <2>3, RowsMove DEF CreateMultipart
    <2>4. ASSUME NEW f \in Files, AbortMultipart(r, f) PROVE RowsKept
      BY <1>0, <2>4, RowsMove DEF AbortMultipart, ClaimAbort
    <2>5. ASSUME NEW f \in Files, NEW p \in Parts, NEW d \in Data, ClaimPart(r, f, p, d)
          PROVE RowsKept
      BY <1>u, <2>5 DEF ClaimPart
    <2>6. ASSUME NEW f \in Files, NEW list \in Lists, CompleteMultipart(r, f, list)
          PROVE RowsKept
      BY <1>0, <2>6, RowsMove DEF CompleteMultipart, Bodies
    <2>7. CASE ClaimPut(r)
      <3>1. req[r].file \in Files /\ req[r].body \in Bodies
        BY <2>1, <2>7, RequestFields DEF ClaimPut, At, Bodies
      <3> QED BY <1>0, <1>u, <2>7, <3>1, RowsMove DEF ClaimPut, rows
    <2>8. CASE ScheduleCreateCleanup(r)
      <3>1. req[r].file \in Files
        BY <2>1, <2>8 DEF ScheduleCreateCleanup, At
      <3> QED BY <1>0, <1>u, <2>8, <3>1, RowsMove DEF ScheduleCreateCleanup, ClaimAbort, rows
    <2>9. CASE DiscardUnstarted(r)
      BY <1>0, <2>1, <2>9, RowsMove DEF DiscardUnstarted, At
    <2>10. CASE FinalizeRequest(r)
      <3>1. req[r].file \in Files /\ Stored(req[r].file)
        BY <2>1, <2>10 DEF FinalizeRequest, At, SeenStored
      <3> QED BY <1>0, <2>10, <3>1, RowsMove DEF FinalizeRequest
    <2>11. CASE FinalizeAbort(r)
      BY <1>0, <2>1, <2>11, RowsMove DEF FinalizeAbort, At
    <2>12. CASE \/ AttachUploadId(r) \/ AttachFails(r) \/ FinishPart(r) \/ CancelPart(r)
                \/ ProviderAnswers(r) \/ RequestDies(r) \/ Heartbeat(r)
      BY <1>u, <2>12 DEF AttachUploadId, AttachFails, FinishPart, CancelPart,
         ProviderAnswers, RequestDies, Heartbeat, rows
    <2> QED BY <1>1, <2>2, <2>3, <2>4, <2>5, <2>6, <2>7, <2>8, <2>9, <2>10, <2>11, <2>12
            DEF RequestStep, Continue
  <1>2. ASSUME NEW w \in Workers, PassStep(w) PROVE RowsKept
    <2>1. worker[w] \in WorkerStates /\ (worker[w].at # "idle" => worker[w].file \in Files)
      BY WorkerFields DEF TypeOK
    <2>2. CASE \/ \E f \in Files : RecoverCompletion(w, f) \/ RecoverCleaning(w, f) \/ RecoverDeleted(w, f)
               \/ Observe(w) \/ SweepObject(w) \/ PassStops(w)
      BY <1>u, <2>2 DEF RecoverCompletion, RecoverCleaning, RecoverDeleted, BeginRecovery,
         Observe, SweepObject, PassStops, rows
    <2>3. CASE Act(w)
      <3>1. worker[w].file \in Files
        BY <2>1, <2>3 DEF Act
      <3>2. worker[w].at = "finalize" => Stored(worker[w].file)
        BY DEF SeenStored
      <3> QED BY <1>0, <1>u, <2>3, <3>1, <3>2, RowsMove DEF Act, MarkCompletionAborting, rows
    <2>4. CASE FinishSweep(w)
      <3>1. worker[w].file \in Files
        BY <2>1, <2>4 DEF FinishSweep
      <3>2. FinalizePurge(worker[w].file) => RowsKept
        BY <1>0, <3>1 DEF FinalizePurge, RowsOK, RowsReady, RowsKept, Activates
      <3> QED BY <1>0, <2>4, <3>1, <3>2, RowsMove DEF FinishSweep
    <2> QED BY <1>2, <2>2, <2>3, <2>4 DEF PassStep, ContinuePass
  <1>3. ASSUME NEW c \in late, LateApplies(c) PROVE RowsKept
    BY <1>u, <1>3 DEF LateApplies, rows
  <1>4. ASSUME NEW k \in Keys, DeleteObject(k) PROVE RowsKept
    BY <1>0, <1>4 DEF DeleteObject, RowsOK, RowsReady, RowsKept, Activates
  <1>5. ASSUME NEW f \in Files, ExpireOpen(f) PROVE RowsKept
    BY <1>0, <1>5, RowsMove DEF ExpireOpen
  <1>6. ASSUME NEW f \in Files, NativeDelete(f) \/ PruneFile(f) PROVE RowsKept
    BY <1>0, <1>6 DEF NativeDelete, PruneFile, RowsOK, RowsReady, RowsKept, Activates
  <1>7. ASSUME NEW f \in Files, LeaseLapses(f) \/ RetryDue(f) \/ PruneLease(f) PROVE RowsKept
    BY <1>u, <1>7 DEF LeaseLapses, RetryDue, PruneLease
  <1>8. CASE UNCHANGED vars
    BY <1>u, <1>8 DEF vars, rows
  <1> QED BY <1>1, <1>2, <1>3, <1>4, <1>5, <1>6, <1>7, <1>8 DEF Next

-----------------------------------------------------------------------------
(* What a step adds to the finalizations to come: a request the provider has  *)
(* just answered, and a pass that has just seen the expected object.          *)
NewSeen ==
  /\ \A r \in Requests :
       At(r, "answered", {"put", "complete"})' => req'[r] = req[r] \/ object'[req'[r].file] # Nothing
  /\ \A w \in Workers :
       worker'[w].at = "finalize" => worker'[w] = worker[w] \/ object'[worker'[w].file] # Nothing
  /\ \A w \in Workers :
       worker'[w].at = "observing" => worker'[w] = worker[w] \/ worker'[w].want # Nothing

(* The answers that the steps of a request add. *)
LEMMA RequestSees ==
  ASSUME TypeOK, DeletesOnlyCondemned, NEW r \in Requests, RequestStep(r)
  PROVE  NewSeen
  <1>0. /\ req \in [Requests -> RequestStates]
        /\ \A at : [req[r] EXCEPT !.at = at].at = at /\ [req[r] EXCEPT !.at = at].op = req[r].op
                   /\ [req[r] EXCEPT !.at = at].file = req[r].file
    BY DEF TypeOK, RequestStates, Idle
  <1>1. ASSUME UNCHANGED worker,
               \A s \in Requests : req'[s] = req[s] \/ req'[s].at # "answered"
        PROVE  NewSeen
    BY <1>1 DEF NewSeen, At
  <1>2. ASSUME NEW at, Move(r, at), at # "answered"
        PROVE  \A s \in Requests : req'[s] = req[s] \/ req'[s].at # "answered"
    BY <1>0, <1>2 DEF Move
  <1>3. ASSUME Return(r)
        PROVE  \A s \in Requests : req'[s] = req[s] \/ req'[s].at # "answered"
    BY <1>0, <1>3 DEF Return, Idle
  <1>4. CASE ProviderAnswers(r)
    <2>1. /\ Call(req[r], req[r].op) \in CallStates
          /\ Call(req[r], req[r].op).file = req[r].file
          /\ Call(req[r], req[r].op).op = req[r].op
      BY <1>4, RequestFields DEF ProviderAnswers, TypeOK, Call
    <2>2. Deletes(Call(req[r], req[r].op)) => Condemned(req[r].file)
      BY <1>4, <2>1, RequestMoves DEF ProviderAnswers, DeletesOnlyCondemned, At, TypeOK
    <2>3. req[r].op \in {"put", "complete"} => object'[req[r].file] # Nothing
      BY <1>4, <2>1, <2>2, ApplyStores DEF ProviderAnswers
    <2>4. /\ \A s \in Requests \ {r} : req'[s] = req[s]
          /\ req'[r].op = req[r].op /\ req'[r].file = req[r].file
      BY <1>0, <1>4 DEF ProviderAnswers, Move
    <2> QED BY <1>4, <2>3, <2>4 DEF ProviderAnswers, NewSeen, At
  <1>5. CASE ClaimPut(r)
    BY <1>1, <1>2, <1>3, <1>5 DEF ClaimPut
  <1>6. CASE AttachFails(r)
    BY <1>1, <1>2, <1>6 DEF AttachFails
  <1>7. CASE \/ AttachUploadId(r) \/ ScheduleCreateCleanup(r) \/ DiscardUnstarted(r)
             \/ FinishPart(r) \/ CancelPart(r) \/ FinalizeRequest(r) \/ FinalizeAbort(r)
             \/ RequestDies(r)
    BY <1>1, <1>3, <1>7 DEF AttachUploadId, ScheduleCreateCleanup, DiscardUnstarted,
       FinishPart, CancelPart, FinalizeRequest, FinalizeAbort, RequestDies
  <1>8. CASE Heartbeat(r)
    BY <1>1, <1>8 DEF Heartbeat
  <1>9. CASE \/ \E f \in Files, d \in Data : PutObject(r, f, d)
             \/ \E f \in Files : CreateMultipart(r, f) \/ AbortMultipart(r, f)
             \/ \E f \in Files, p \in Parts, d \in Data : ClaimPart(r, f, p, d)
             \/ \E f \in Files, list \in Lists : CompleteMultipart(r, f, list)
    BY <1>0, <1>1, <1>9 DEF PutObject, CreateMultipart, AbortMultipart, ClaimPart,
       CompleteMultipart, Start
  <1> QED BY <1>4, <1>5, <1>6, <1>7, <1>8, <1>9 DEF RequestStep, Continue

(* The observations that the steps of a reconciler pass add. *)
LEMMA PassSees ==
  ASSUME TypeOK, RowsReady, SeenStored, NEW w \in Workers, PassStep(w)
  PROVE  NewSeen
  <1>0. worker \in [Workers -> WorkerStates]
    BY DEF TypeOK
  <1>1. ASSUME UNCHANGED req,
               \A v \in Workers : worker'[v] = worker[v] \/ worker'[v].at \notin {"finalize", "observing"}
        PROVE  NewSeen
    BY <1>1 DEF NewSeen
  <1>2. ASSUME NEW f \in Files, RecoverCompletion(w, f) PROVE NewSeen
    <2>1. claim[f] # Nothing
      BY <1>2 DEF RecoverCompletion, ExpiredCompletion, Pending, RowsReady
    <2> QED BY <1>0, <1>2, <2>1 DEF RecoverCompletion, BeginRecovery, NewSeen
  <1>3. ASSUME NEW f \in Files, RecoverCleaning(w, f) \/ RecoverDeleted(w, f) PROVE NewSeen
    BY <1>0, <1>1, <1>3 DEF RecoverCleaning, RecoverDeleted, BeginRecovery
  <1>4. CASE Observe(w)
    <2>1. /\ worker[w].want # Nothing
          /\ UNCHANGED <<req, object>>
          /\ worker' = [worker EXCEPT ![w].at = CompletionAction(worker[w].file, worker[w].want)]
      BY <1>4 DEF Observe, SeenStored, provider
    <2>2. /\ \A v \in Workers \ {w} : worker'[v] = worker[v]
          /\ worker'[w].file = worker[w].file
          /\ worker'[w].at = CompletionAction(worker[w].file, worker[w].want)
      BY <1>0, <2>1 DEF WorkerStates, Asleep
    <2>3. CompletionAction(worker[w].file, worker[w].want) = "finalize"
            => object[worker[w].file] # Nothing
      BY <2>1 DEF CompletionAction
    <2>4. CompletionAction(worker[w].file, worker[w].want) # "observing"
      BY DEF CompletionAction
    <2> QED BY <2>1, <2>2, <2>3, <2>4 DEF NewSeen
  <1>5. CASE Act(w) \/ FinishSweep(w) \/ PassStops(w)
    BY <1>0, <1>1, <1>5 DEF Act, FinishSweep, PassStops, Asleep
  <1>6. CASE SweepObject(w)
    BY <1>0, <1>1, <1>6 DEF SweepObject, WorkerStates, Asleep
  <1> QED BY <1>2, <1>3, <1>4, <1>5, <1>6 DEF PassStep, ContinuePass

(* Every step leaves the finalizations to come with a stored object. *)
LEMMA SeenStep ==
  ASSUME TypeOK, DeletesOnlyCondemned, RowsReady, SeenStored, [Next]_vars
  PROVE  SeenStored'
  <1>1. NewSeen
    <2>1. ASSUME UNCHANGED <<req, worker>> PROVE NewSeen
      BY <2>1 DEF NewSeen
    <2>2. ASSUME NEW c \in late, LateApplies(c) PROVE NewSeen
      BY <2>1, <2>2 DEF LateApplies
    <2>3. ASSUME NEW k \in Keys, DeleteObject(k) PROVE NewSeen
      BY <2>1, <2>3 DEF DeleteObject
    <2>4. ASSUME NEW f \in Files,
                 \/ NativeDelete(f) \/ LeaseLapses(f) \/ RetryDue(f)
                 \/ ExpireOpen(f) \/ PruneLease(f) \/ PruneFile(f)
          PROVE  NewSeen
      BY <2>1, <2>4 DEF NativeDelete, LeaseLapses, RetryDue, ExpireOpen, PruneLease, PruneFile
    <2>5. CASE UNCHANGED vars
      BY <2>1, <2>5 DEF vars
    <2> QED BY <2>2, <2>3, <2>4, <2>5, RequestSees, PassSees DEF Next
  <1>2. \A f \in Files : Stored(f) => Stored(f)'
    BY StoredStable
  <1>3. ASSUME NEW r \in Requests, At(r, "answered", {"put", "complete"})'
        PROVE  Stored(req[r].file)'
    <2>1. CASE req'[r] = req[r]
      <3>1. Stored(req[r].file) /\ req[r].file \in Files
        BY <1>3, <2>1, RequestFields DEF At, SeenStored, TypeOK
      <3> QED BY <1>2, <2>1, <3>1 DEF Stored, Condemned, Pending
    <2>2. CASE object'[req'[r].file] # Nothing
      BY <2>2 DEF Stored
    <2> QED BY <1>1, <1>3, <2>1, <2>2 DEF NewSeen
  <1>4. ASSUME NEW w \in Workers, worker'[w].at = "finalize" PROVE Stored(worker[w].file)'
    <2>1. CASE worker'[w] = worker[w]
      <3>1. Stored(worker[w].file) /\ worker[w].file \in Files
        BY <1>4, <2>1, WorkerFields DEF SeenStored, TypeOK
      <3> QED BY <1>2, <2>1, <3>1 DEF Stored, Condemned, Pending
    <2>2. CASE object'[worker'[w].file] # Nothing
      BY <2>2 DEF Stored
    <2> QED BY <1>1, <1>4, <2>1, <2>2 DEF NewSeen
  <1>5. ASSUME NEW w \in Workers, worker'[w].at = "observing" PROVE worker'[w].want # Nothing
    BY <1>1, <1>5 DEF NewSeen, SeenStored
  <1> QED BY <1>3, <1>4, <1>5 DEF SeenStored

(* Every step keeps the invariant. *)
LEMMA StorageStep == StorageInv /\ [Next]_vars => StorageInv'
  <1> SUFFICES ASSUME StorageInv, [Next]_vars PROVE StorageInv'
    OBVIOUS
  <1>1. TypeOK /\ DeletesOnlyCondemned /\ RowsReady /\ SeenStored /\ ActiveIsStored
    BY DEF StorageInv
  <1>2. TypeOK' /\ DeletesOnlyCondemned' /\ RowsKept /\ SeenStored'
    BY <1>1, StepTyped, DeletesStep, RowsStep, SeenStep
  <1>3. ASSUME NEW f \in Files, file'[f] = "active" PROVE located'[f] /\ object'[f] # Nothing
    <2>1. located'[f]
      BY <1>2, <1>3 DEF RowsKept, RowsReady
    <2>2. object[f] # Nothing
      BY <1>1, <1>2, <1>3 DEF RowsKept, Activates, ActiveIsStored
    <2>3. ~Condemned(f)
      <3>1. Condemned(f) => Condemned(f)'
        BY <1>1, CondemnedStable
      <3> QED BY <1>3, <3>1 DEF Condemned, Pending
    <2> QED BY <1>1, <2>1, <2>2, <2>3, ObjectKept
  <1> QED BY <1>2, <1>3 DEF StorageInv, RowsKept, ActiveIsStored

LEMMA StorageHolds == Spec => []StorageInv
  <1>1. Init => StorageInv
    <2> SUFFICES ASSUME Init PROVE StorageInv
      OBVIOUS
    <2>1. TypeOK /\ DeletesOnlyCondemned
      BY InitTyped DEF Init, DeletesOnlyCondemned, At, Idle, Asleep
    <2>2. RowsReady /\ SeenStored /\ ActiveIsStored
      BY DEF Init, RowsReady, SeenStored, ActiveIsStored, At, Idle, Asleep
    <2> QED BY <2>1, <2>2 DEF StorageInv
  <1> QED BY <1>1, StorageStep, PTL DEF Spec

(* An active file has its location and its object, for every instance.        *)
THEOREM ActiveStored == Spec => []ActiveIsStored
  <1>1. StorageInv => ActiveIsStored
    BY DEF StorageInv
  <1> QED BY <1>1, StorageHolds, PTL
=============================================================================
