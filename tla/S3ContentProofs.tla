---------------------------- MODULE S3ContentProofs ----------------------------
(* What an upload holds: the content of an active single PUT, the parts of a  *)
(* completion, the writer of a part, what is left behind by a released file.  *)
(* The first part says once what any step does to one file, one request, one  *)
(* pass and the calls in flight; the invariants are then shown from that.     *)
EXTENDS S3StorageProofs

-----------------------------------------------------------------------------
(* What a step does to the rows of one file. *)
On(x, op, f) == x.op = op /\ x.file = f

StaysPut(f) ==
  /\ file'[f] = file[f] /\ upload'[f] = upload[f] /\ claim'[f] = claim[f]
  /\ located'[f] = located[f] /\ etag'[f] = etag[f]
  /\ lease'[f] = lease[f] \/ (LeaseHeld(f) /\ LeaseHeld(f)') \/ upload[f] = "none"

Opens(f) ==
  /\ file[f] = "none" /\ file'[f] = "pending" /\ upload'[f] = "open"
  /\ located'[f] = TRUE /\ lease'[f] = "issued"

ClaimsPut(f) ==
  \E r \in Requests :
    At(r, "spooling", {"put"}) /\ req[r].file = f /\ claim'[f] = req[r].body /\ Move(r, "calling")

ClaimsParts(f) == handle[f] /\ ~PartClaimed(f) /\ Reconciled(f, claim'[f])

Claims(f) ==
  /\ Pending(f, "open") /\ Pending(f, "completing")'
  /\ located'[f] = located[f] /\ etag'[f] = etag[f]
  /\ lease'[f] = "issued"
  /\ ClaimsPut(f) \/ ClaimsParts(f)

Cleans(f) ==
  /\ Pending(f, "open") \/ Pending(f, "completing")
  /\ Pending(f, "cleaning")'
  /\ located'[f] = located[f] /\ lease'[f] \in {lease[f], "expired"}

Commits(f) ==
  /\ Pending(f, "completing")
  /\ file'[f] = "active" /\ upload'[f] = "none" /\ etag'[f] = claim[f]
  /\ located'[f] = located[f]
  /\ \/ \E r \in Requests : At(r, "answered", {"put", "complete"}) /\ req[r].file = f
     \/ \E w \in Workers : worker[w].at = "finalize" /\ worker[w].file = f

Retires(f) ==
  /\ file[f] = "active" /\ file'[f] = "deleted" /\ upload'[f] = upload[f]
  /\ located'[f] = located[f]

Reclaimed(f) ==
  /\ file'[f] = "reclaimed" /\ upload'[f] = "none"
  /\ \/ Pending(f, "open") /\ \E r \in Requests : On(req[r], "create", f)
     \/ /\ Pending(f, "cleaning")
        /\ \/ \E r \in Requests : At(r, "answered", {"cleanup"}) /\ req[r].file = f
           \/ \E w \in Workers : worker[w].at = "swept" /\ worker[w].file = f

Reopens(f) ==
  /\ Pending(f, "completing") /\ Pending(f, "open")'
  /\ located'[f] = located[f] /\ lease'[f] = "issued"
  /\ \E w \in Workers : worker[w].at = "reopen" /\ worker[w].file = f

Purges(f) ==
  /\ file[f] = "deleted" /\ file'[f] = "deleted" /\ upload'[f] = upload[f]
  /\ \E w \in Workers : worker[w].at = "swept" /\ worker[w].file = f

Forgets(f) ==
  /\ file[f] \in {"deleted", "reclaimed"} /\ file'[f] = "gone" /\ upload'[f] = upload[f]
  /\ located'[f] = located[f] /\ ~located[f]

RowStep(f) ==
  \/ StaysPut(f) \/ Opens(f) \/ Claims(f) \/ Cleans(f) \/ Commits(f)
  \/ Retires(f) \/ Reclaimed(f) \/ Reopens(f) \/ Purges(f) \/ Forgets(f)

(* A step that leaves the rows of one file alone. *)
LEMMA RowsStay ==
  ASSUME UNCHANGED <<file, upload, claim, lease, located, etag>>
  PROVE  \A f \in Files : RowStep(f)
  BY DEF RowStep, StaysPut

(* The transactions, as their callers make them. *)
LEMMA RowTransactions ==
  ASSUME RowsOK, NEW f \in Files
  PROVE  /\ CreateUpload(f) => \A g \in Files : RowStep(g)
         /\ \A b : ClaimCompletion(f, b) /\ (claim'[f] = b => ClaimsPut(f) \/ ClaimsParts(f))
              => \A g \in Files : RowStep(g)
         /\ (Pending(f, "open") \/ Pending(f, "completing")) /\ ToCleaning(f)
            /\ lease' \in {lease, [lease EXCEPT ![f] = "expired"]}
              => \A g \in Files : RowStep(g)
         /\ FinalizeUpload(f)
            /\ (\/ \E r \in Requests : At(r, "answered", {"put", "complete"}) /\ req[r].file = f
                \/ \E w \in Workers : worker[w].at = "finalize" /\ worker[w].file = f)
              => \A g \in Files : RowStep(g)
         /\ \A s \in {"open", "cleaning"} :
              FinalizeReclaimed(f, s) /\ (Pending(f, s) /\ file'[f] = "reclaimed" /\ upload'[f] = "none"
                                            => Reclaimed(f))
              => \A g \in Files : RowStep(g)
         /\ ReopenCompletion(f) /\ (\E w \in Workers : worker[w].at = "reopen" /\ worker[w].file = f)
              => \A g \in Files : RowStep(g)
         /\ FinalizePurge(f) /\ (\E w \in Workers : worker[w].at = "swept" /\ worker[w].file = f)
              => \A g \in Files : RowStep(g)
  <1>1. ASSUME CreateUpload(f) PROVE \A g \in Files : RowStep(g)
    <2>1. ASSUME NEW g \in Files, g # f PROVE StaysPut(g)
      BY <1>1, <2>1 DEF CreateUpload, RowsOK, StaysPut
    <2>2. Opens(f)
      BY <1>1 DEF CreateUpload, RowsOK, Opens
    <2> QED BY <2>1, <2>2 DEF RowStep
  <1>2. ASSUME NEW b, ClaimCompletion(f, b), claim'[f] = b => ClaimsPut(f) \/ ClaimsParts(f)
        PROVE  \A g \in Files : RowStep(g)
    <2>1. ASSUME NEW g \in Files, g # f PROVE StaysPut(g)
      BY <1>2, <2>1 DEF ClaimCompletion, RowsOK, StaysPut
    <2>2. Claims(f)
      <3>1. /\ Pending(f, "open") /\ claim'[f] = b /\ upload'[f] = "completing"
            /\ file' = file /\ located' = located /\ etag' = etag /\ lease'[f] = "issued"
        BY <1>2 DEF ClaimCompletion, RowsOK
      <3> QED BY <1>2, <3>1 DEF Claims, Pending
    <2> QED BY <2>1, <2>2 DEF RowStep
  <1>3. ASSUME Pending(f, "open") \/ Pending(f, "completing"), ToCleaning(f),
               lease' \in {lease, [lease EXCEPT ![f] = "expired"]}
        PROVE  \A g \in Files : RowStep(g)
    <2>1. ASSUME NEW g \in Files, g # f PROVE StaysPut(g)
      BY <1>3, <2>1 DEF ToCleaning, RowsOK, StaysPut
    <2>2. Cleans(f)
      BY <1>3 DEF ToCleaning, RowsOK, Cleans, Pending
    <2> QED BY <2>1, <2>2 DEF RowStep
  <1>4. ASSUME FinalizeUpload(f),
               \/ \E r \in Requests : At(r, "answered", {"put", "complete"}) /\ req[r].file = f
               \/ \E w \in Workers : worker[w].at = "finalize" /\ worker[w].file = f
        PROVE  \A g \in Files : RowStep(g)
    <2>1. CASE CommitUpload(f)
      <3>1. ASSUME NEW g \in Files, g # f PROVE StaysPut(g) \/ Retires(g)
        BY <2>1, <3>1 DEF CommitUpload, RowsOK, StaysPut, Retires, Displaced
      <3>2. Commits(f)
        <4>1. /\ Pending(f, "completing")
              /\ file'[f] = "active" /\ upload'[f] = "none" /\ etag'[f] = claim[f]
              /\ located' = located
          BY <2>1 DEF CommitUpload, Finalizable, RowsOK
        <4> QED BY <1>4, <4>1 DEF Commits
      <3> QED BY <3>1, <3>2 DEF RowStep
    <2>2. CASE PreconditionFailed(f)
      BY <1>3, <2>2 DEF PreconditionFailed, Finalizable
    <2>3. CASE UNCHANGED rows
      BY <2>3, RowsStay DEF rows
    <2> QED BY <1>4, <2>1, <2>2, <2>3 DEF FinalizeUpload
  <1>5. ASSUME NEW s \in {"open", "cleaning"}, FinalizeReclaimed(f, s),
               Pending(f, s) /\ file'[f] = "reclaimed" /\ upload'[f] = "none" => Reclaimed(f)
        PROVE  \A g \in Files : RowStep(g)
    <2>1. CASE UNCHANGED rows
      BY <2>1, RowsStay DEF rows
    <2>2. CASE /\ Pending(f, s)
               /\ file' = [file EXCEPT ![f] = "reclaimed"]
               /\ located' = [located EXCEPT ![f] = FALSE]
               /\ upload' = [upload EXCEPT ![f] = "none"]
               /\ claim' = [claim EXCEPT ![f] = Nothing]
               /\ lease' = [lease EXCEPT ![f] = IF LeaseHeld(f) THEN "expired" ELSE @]
               /\ etag' = etag
      <3>1. ASSUME NEW g \in Files, g # f PROVE StaysPut(g)
        BY <2>2, <3>1 DEF RowsOK, StaysPut
      <3>2. Reclaimed(f)
        BY <1>5, <2>2 DEF RowsOK
      <3> QED BY <3>1, <3>2 DEF RowStep
    <2> QED BY <1>5, <2>1, <2>2 DEF FinalizeReclaimed
  <1>6. ASSUME ReopenCompletion(f), \E w \in Workers : worker[w].at = "reopen" /\ worker[w].file = f
        PROVE  \A g \in Files : RowStep(g)
    <2>1. ASSUME NEW g \in Files, g # f PROVE StaysPut(g)
      BY <1>6, <2>1 DEF ReopenCompletion, RowsOK, StaysPut
    <2>2. Reopens(f)
      BY <1>6 DEF ReopenCompletion, ExpiredCompletion, RowsOK, Reopens, Pending
    <2> QED BY <2>1, <2>2 DEF RowStep
  <1>7. ASSUME FinalizePurge(f), \E w \in Workers : worker[w].at = "swept" /\ worker[w].file = f
        PROVE  \A g \in Files : RowStep(g)
    <2>1. ASSUME NEW g \in Files, g # f PROVE StaysPut(g)
      BY <1>7, <2>1 DEF FinalizePurge, RowsOK, StaysPut
    <2>2. CASE file[f] = "deleted"
      <3>1. Purges(f)
        BY <1>7, <2>2 DEF FinalizePurge, Purges
      <3> QED BY <2>1, <3>1 DEF RowStep
    <2>3. CASE file[f] # "deleted"
      <3>0. located[f] \in BOOLEAN
        BY DEF RowsOK
      <3>1. located'[f] = located[f]
        BY <1>7, <2>3, <3>0 DEF FinalizePurge, RowsOK
      <3>2. StaysPut(f)
        BY <1>7, <3>1 DEF FinalizePurge, StaysPut
      <3> QED BY <2>1, <3>2 DEF RowStep
    <2> QED BY <2>2, <2>3
  <1> QED BY <1>1, <1>2, <1>3, <1>4, <1>5, <1>6, <1>7

(* Every step is, for every file, one of these. *)
LEMMA RowSteps ==
  ASSUME TypeOK, [Next]_vars
  PROVE  \A f \in Files : RowStep(f)
  <1> DEFINE Goal == \A f \in Files : RowStep(f)
  <1>0. RowsOK
    BY DEF TypeOK
  <1>u. UNCHANGED <<file, upload, claim, lease, located, etag>> => Goal
    BY RowsStay
  <1>v. ASSUME UNCHANGED <<file, upload, claim, located, etag>>, NEW f \in Files, NEW s,
               lease' = [lease EXCEPT ![f] = s],
               upload[f] = "none" \/ (LeaseHeld(f) /\ s \in {"issued", "lapsed"})
        PROVE  Goal
    BY <1>0, <1>v DEF RowsOK, RowStep, StaysPut, LeaseHeld
  <1> HIDE DEF Goal
  <1>1. ASSUME NEW r \in Requests, RequestStep(r) PROVE Goal
    <2>1. req[r].at # "idle" => req[r].file \in Files
      BY RequestFields DEF TypeOK
    <2>2. ASSUME NEW f \in Files, NEW d \in Data, PutObject(r, f, d) PROVE Goal
      BY <1>0, <2>2, RowTransactions DEF PutObject, Goal
    <2>3. ASSUME NEW f \in Files, CreateMultipart(r, f) PROVE Goal
      BY <1>0, <2>3, RowTransactions DEF CreateMultipart, Goal
    <2>4. ASSUME NEW f \in Files, AbortMultipart(r, f) PROVE Goal
      BY <1>0, <2>4, RowTransactions DEF AbortMultipart, ClaimAbort, Goal
    <2>5. ASSUME NEW f \in Files, NEW p \in Parts, NEW d \in Data, ClaimPart(r, f, p, d)
          PROVE Goal
      BY <1>u, <2>5 DEF ClaimPart
    <2>6. ASSUME NEW f \in Files, NEW list \in Lists, CompleteMultipart(r, f, list) PROVE Goal
      <3>1. ClaimCompletion(f, list) /\ (claim'[f] = list => ClaimsParts(f))
        BY <2>6 DEF CompleteMultipart, ClaimsParts
      <3> QED BY <1>0, <3>1, RowTransactions DEF Goal
    <2>7. CASE ClaimPut(r)
      <3>1. CASE UNCHANGED rows
        BY <1>u, <3>1 DEF rows
      <3>2. CASE ClaimCompletion(req[r].file, req[r].body) /\ Move(r, "calling")
        <4>1. req[r].file \in Files /\ (claim'[req[r].file] = req[r].body => ClaimsPut(req[r].file))
          BY <2>1, <2>7, <3>2 DEF ClaimPut, At, ClaimsPut
        <4> QED BY <1>0, <3>2, <4>1, RowTransactions DEF Goal
      <3> QED BY <2>7, <3>1, <3>2 DEF ClaimPut
    <2>8. CASE ScheduleCreateCleanup(r)
      <3>1. CASE UNCHANGED rows
        BY <1>u, <3>1 DEF rows
      <3>2. CASE ClaimAbort(req[r].file)
        <4>1. req[r].file \in Files
          BY <2>1, <2>8 DEF ScheduleCreateCleanup, At
        <4> QED BY <1>0, <3>2, <4>1, RowTransactions DEF ClaimAbort, Goal
      <3> QED BY <2>8, <3>1, <3>2 DEF ScheduleCreateCleanup
    <2>9. CASE DiscardUnstarted(r)
      <3>1. req[r].file \in Files /\ On(req[r], "create", req[r].file)
        BY <2>1, <2>9 DEF DiscardUnstarted, At, On
      <3>2. Pending(req[r].file, "open") /\ file'[req[r].file] = "reclaimed"
               /\ upload'[req[r].file] = "none" => Reclaimed(req[r].file)
        BY <3>1 DEF Reclaimed
      <3> QED BY <1>0, <2>9, <3>1, <3>2, RowTransactions DEF DiscardUnstarted, Goal
    <2>10. CASE FinalizeRequest(r)
      <3>1. req[r].file \in Files /\ At(r, "answered", {"put", "complete"})
        BY <2>1, <2>10 DEF FinalizeRequest, At
      <3> QED BY <1>0, <2>10, <3>1, RowTransactions DEF FinalizeRequest, Goal
    <2>11. CASE FinalizeAbort(r)
      <3>1. req[r].file \in Files /\ At(r, "answered", {"cleanup"})
        BY <2>1, <2>11 DEF FinalizeAbort, At
      <3>2. Pending(req[r].file, "cleaning") /\ file'[req[r].file] = "reclaimed"
               /\ upload'[req[r].file] = "none" => Reclaimed(req[r].file)
        BY <3>1 DEF Reclaimed
      <3> QED BY <1>0, <2>11, <3>1, <3>2, RowTransactions DEF FinalizeAbort, Goal
    <2>12. CASE \/ AttachUploadId(r) \/ AttachFails(r) \/ FinishPart(r) \/ CancelPart(r)
                \/ ProviderAnswers(r) \/ RequestDies(r)
      BY <1>u, <2>12 DEF AttachUploadId, AttachFails, FinishPart, CancelPart,
         ProviderAnswers, RequestDies, rows
    <2>13. CASE Heartbeat(r)
      <3>1. req[r].file \in Files
        BY <2>1, <2>13 DEF Heartbeat, StillOwned, At
      <3> QED BY <1>v, <2>13, <3>1 DEF Heartbeat, LeaseHeld
    <2> QED BY <1>1, <2>2, <2>3, <2>4, <2>5, <2>6, <2>7, <2>8, <2>9, <2>10, <2>11, <2>12, <2>13
            DEF RequestStep, Continue
  <1>2. ASSUME NEW w \in Workers, PassStep(w) PROVE Goal
    <2>1. worker[w].at # "idle" => worker[w].file \in Files
      BY WorkerFields DEF TypeOK
    <2>2. CASE \/ \E f \in Files : RecoverCompletion(w, f) \/ RecoverCleaning(w, f) \/ RecoverDeleted(w, f)
               \/ Observe(w) \/ SweepObject(w) \/ PassStops(w)
      BY <1>u, <2>2 DEF RecoverCompletion, RecoverCleaning, RecoverDeleted, BeginRecovery,
         Observe, SweepObject, PassStops, rows
    <2>3. CASE Act(w)
      <3>1. worker[w].file \in Files
        BY <2>1, <2>3 DEF Act
      <3>2. CASE worker[w].at = "finalize" /\ FinalizeUpload(worker[w].file)
        BY <1>0, <3>1, <3>2, RowTransactions DEF Goal
      <3>3. CASE worker[w].at = "reopen" /\ ReopenCompletion(worker[w].file)
        BY <1>0, <3>1, <3>3, RowTransactions DEF Goal
      <3>4. CASE MarkCompletionAborting(worker[w].file)
        BY <1>0, <3>1, <3>4, RowTransactions DEF MarkCompletionAborting, ExpiredCompletion, Goal
      <3>5. CASE UNCHANGED rows
        BY <1>u, <3>5 DEF rows
      <3> QED BY <2>3, <3>2, <3>3, <3>4, <3>5 DEF Act
    <2>4. CASE FinishSweep(w)
      <3>1. worker[w].file \in Files /\ worker[w].at = "swept"
        BY <2>1, <2>4 DEF FinishSweep
      <3>2. Pending(worker[w].file, "cleaning") /\ file'[worker[w].file] = "reclaimed"
               /\ upload'[worker[w].file] = "none" => Reclaimed(worker[w].file)
        BY <3>1 DEF Reclaimed
      <3> QED BY <1>0, <2>4, <3>1, <3>2, RowTransactions DEF FinishSweep, Goal
    <2> QED BY <1>2, <2>2, <2>3, <2>4 DEF PassStep, ContinuePass
  <1>3. ASSUME NEW c \in late, LateApplies(c) PROVE Goal
    BY <1>u, <1>3 DEF LateApplies, rows
  <1>4. ASSUME NEW k \in Keys, DeleteObject(k) PROVE Goal
    <2>1. CASE file[key[k]] = "active"
      <3>1. file' = [file EXCEPT ![key[k]] = "deleted"] /\ UNCHANGED <<upload, claim, lease, located, etag>>
        BY <1>4, <2>1 DEF DeleteObject
      <3> QED BY <1>0, <2>1, <3>1 DEF RowsOK, Goal, RowStep, StaysPut, Retires
    <2>2. CASE file[key[k]] # "active"
      BY <1>4, <1>u, <2>2 DEF DeleteObject
    <2> QED BY <2>1, <2>2
  <1>5. ASSUME NEW f \in Files, ExpireOpen(f) PROVE Goal
    BY <1>0, <1>5, RowTransactions DEF ExpireOpen, Goal
  <1>6. ASSUME NEW f \in Files, NativeDelete(f) PROVE Goal
    BY <1>0, <1>6 DEF NativeDelete, RowsOK, Goal, RowStep, StaysPut, Retires
  <1>7. ASSUME NEW f \in Files, PruneFile(f) PROVE Goal
    BY <1>0, <1>7 DEF PruneFile, RowsOK, Goal, RowStep, StaysPut, Forgets
  <1>8. ASSUME NEW f \in Files, LeaseLapses(f) \/ RetryDue(f) \/ PruneLease(f) PROVE Goal
    <2>1. CASE LeaseLapses(f)
      BY <1>v, <2>1 DEF LeaseLapses, LeaseHeld
    <2>2. CASE RetryDue(f)
      BY <1>u, <2>2 DEF RetryDue
    <2>3. CASE PruneLease(f)
      BY <1>v, <2>3 DEF PruneLease, LeasePrunable
    <2> QED BY <1>8, <2>1, <2>2, <2>3
  <1>9. CASE UNCHANGED vars
    BY <1>u, <1>9 DEF vars, rows, Goal
  <1> QED BY <1>1, <1>2, <1>3, <1>4, <1>5, <1>6, <1>7, <1>8, <1>9 DEF Next, Goal

-----------------------------------------------------------------------------
(* What a step does to one request. *)
Proceeds(r) ==
  /\ req'[r].op = req[r].op /\ req'[r].file = req[r].file
  /\ req'[r].part = req[r].part /\ req'[r].body = req[r].body

TakesUp(r) ==
  \E f \in Files :
    /\ req'[r].file = f
    /\ \/ /\ At(r, "spooling", {"put"})' /\ f \notin Multiparts
          /\ file[f] = "none" /\ Pending(f, "open")'
       \/ /\ At(r, "calling", {"create"})' /\ f \in Multiparts
          /\ file[f] = "none" /\ Pending(f, "open")'
       \/ /\ At(r, "calling", {"part"})' /\ handle[f] /\ Pending(f, "open") /\ Pending(f, "open")'
          /\ req'[r].part \in Parts
          /\ ledger[f][req'[r].part].state # "claimed"
          /\ ledger'[f][req'[r].part].state = "claimed"
       \/ At(r, "calling", {"complete"})' /\ handle[f] /\ Pending(f, "completing")'
       \/ At(r, "calling", {"cleanup"})' /\ handle[f] /\ Condemned(f)'

ReqStep(r) ==
  \/ req'[r] = req[r]
  \/ req'[r] = Idle
  \/ /\ Proceeds(r) /\ At(r, "spooling", {"put"}) /\ req'[r].at = "calling"
     /\ Pending(req[r].file, "completing")' /\ claim'[req[r].file] = req[r].body
  \/ Proceeds(r) /\ req[r].at = "calling" /\ req'[r].at = "answered" /\ Apply(Call(req[r], req[r].op))
  \/ /\ Proceeds(r) /\ At(r, "answered", {"create"}) /\ req'[r].at = "aborted"
     /\ session' = [session EXCEPT ![req[r].file] = "closed"]
  \/ req[r] = Idle /\ TakesUp(r)

OthersWait(r) == \A s \in Requests \ {r} : req'[s] = req[s]

(* A request that returns or moves on, and the others meanwhile. *)
LEMMA ReqMoves ==
  ASSUME TypeOK, NEW r \in Requests
  PROVE  /\ Return(r) => req'[r] = Idle /\ OthersWait(r)
         /\ \A at : Move(r, at) => Proceeds(r) /\ req'[r].at = at /\ OthersWait(r)
         /\ \A at, op, f, p, b : Start(r, at, op, f, p, b) =>
              /\ req[r] = Idle /\ OthersWait(r)
              /\ req'[r].at = at /\ req'[r].op = op /\ req'[r].file = f
              /\ req'[r].part = p /\ req'[r].body = b
  <1>1. req \in [Requests -> RequestStates] /\ req[r] \in RequestStates
    BY DEF TypeOK
  <1>2. Return(r) => req'[r] = Idle /\ OthersWait(r)
    BY <1>1 DEF Return, OthersWait
  <1>3. ASSUME NEW at, Move(r, at) PROVE Proceeds(r) /\ req'[r].at = at /\ OthersWait(r)
    <2>1. req'[r] = [req[r] EXCEPT !.at = at] /\ OthersWait(r)
      BY <1>1, <1>3 DEF Move, OthersWait
    <2>2. \A x \in RequestStates :
            /\ [x EXCEPT !.at = at].at = at /\ [x EXCEPT !.at = at].op = x.op
            /\ [x EXCEPT !.at = at].file = x.file /\ [x EXCEPT !.at = at].part = x.part
            /\ [x EXCEPT !.at = at].body = x.body
      BY DEF RequestStates, Idle
    <2> QED BY <1>1, <2>1, <2>2 DEF Proceeds
  <1>4. ASSUME NEW at, NEW op, NEW f, NEW p, NEW b, Start(r, at, op, f, p, b)
        PROVE  /\ req[r] = Idle /\ OthersWait(r)
               /\ req'[r].at = at /\ req'[r].op = op /\ req'[r].file = f
               /\ req'[r].part = p /\ req'[r].body = b
    BY <1>1, <1>4 DEF Start, OthersWait
  <1> QED BY <1>2, <1>3, <1>4

(* Every step moves at most one request, by one of these. *)
LEMMA ReqSteps ==
  ASSUME TypeOK, [Next]_vars
  PROVE  /\ \A r \in Requests : ReqStep(r)
         /\ UNCHANGED req \/ \E r \in Requests : OthersWait(r)
  <1> DEFINE Goal == (\A r \in Requests : ReqStep(r))
                     /\ (UNCHANGED req \/ \E r \in Requests : OthersWait(r))
  <1>u. UNCHANGED req => Goal
    BY DEF ReqStep
  <1>r. ASSUME NEW r \in Requests, OthersWait(r), ReqStep(r) PROVE Goal
    BY <1>r DEF OthersWait, ReqStep
  <1> HIDE DEF Goal
  <1>1. ASSUME NEW r \in Requests, RequestStep(r) PROVE Goal
    <2>1. req[r].at # "idle" => req[r].file \in Files
      BY RequestFields DEF TypeOK
    <2>2. ASSUME NEW f \in Files, NEW d \in Data, PutObject(r, f, d) PROVE Goal
      <3>1. f \in Files \ Multiparts /\ file[f] = "none" /\ Start(r, "spooling", "put", f, Nothing, d)
        BY <2>2 DEF PutObject, CreateUpload
      <3>2. Pending(f, "open")'
        BY <2>2 DEF PutObject, CreateUpload, Pending, TypeOK, RowsOK
      <3>3. TakesUp(r) /\ req[r] = Idle /\ OthersWait(r)
        BY <3>1, <3>2, ReqMoves DEF TakesUp, At, Pending
      <3> QED BY <1>r, <3>3 DEF ReqStep
    <2>3. ASSUME NEW f \in Files, CreateMultipart(r, f) PROVE Goal
      <3>1. f \in Multiparts /\ file[f] = "none" /\ Start(r, "calling", "create", f, Nothing, Nothing)
        BY <2>3 DEF CreateMultipart, CreateUpload
      <3>2. Pending(f, "open")'
        BY <2>3 DEF CreateMultipart, CreateUpload, Pending, TypeOK, RowsOK
      <3>3. TakesUp(r) /\ req[r] = Idle /\ OthersWait(r)
        BY <3>1, <3>2, ReqMoves DEF TakesUp, At, Pending
      <3> QED BY <1>r, <3>3 DEF ReqStep
    <2>4. ASSUME NEW f \in Files, AbortMultipart(r, f) PROVE Goal
      <3>1. handle[f] /\ Start(r, "calling", "cleanup", f, Nothing, Nothing)
        BY <2>4 DEF AbortMultipart
      <3>2. Condemned(f)'
        BY <2>4 DEF AbortMultipart, ClaimAbort, ToCleaning, Condemned, Pending, TypeOK, RowsOK
      <3>3. /\ req'[r].at = "calling" /\ req'[r].op = "cleanup" /\ req'[r].file = f
            /\ req[r] = Idle /\ OthersWait(r)
        BY <3>1, ReqMoves
      <3>4. TakesUp(r)
        BY <3>1, <3>2, <3>3 DEF TakesUp, At, Condemned, Pending
      <3> QED BY <1>r, <3>3, <3>4 DEF ReqStep
    <2>5. ASSUME NEW f \in Files, NEW p \in Parts, NEW d \in Data, ClaimPart(r, f, p, d)
          PROVE Goal
      <3>1. /\ handle[f] /\ Pending(f, "open") /\ ledger[f][p].state # "claimed"
            /\ Start(r, "calling", "part", f, p, d) /\ file' = file /\ upload' = upload
            /\ ledger' = [ledger EXCEPT ![f][p].state = "claimed"]
        BY <2>5 DEF ClaimPart, PartGranted
      <3>2. /\ req'[r].at = "calling" /\ req'[r].op = "part" /\ req'[r].file = f
            /\ req'[r].part = p /\ req[r] = Idle /\ OthersWait(r)
        BY <3>1, ReqMoves
      <3>3. ledger'[f][p].state = "claimed"
        <4>1. ledger'[f][p] = [ledger[f][p] EXCEPT !.state = "claimed"]
          BY <3>1 DEF TypeOK, RowsOK
        <4>2. ledger[f][p] \in PartRows
          BY DEF TypeOK, RowsOK
        <4> QED BY <4>1, <4>2 DEF PartRows
      <3>4. TakesUp(r)
        BY <3>1, <3>2, <3>3 DEF TakesUp, At, Pending
      <3> QED BY <1>r, <3>2, <3>4 DEF ReqStep
    <2>6. ASSUME NEW f \in Files, NEW list \in Lists, CompleteMultipart(r, f, list) PROVE Goal
      <3>1. handle[f] /\ Start(r, "calling", "complete", f, Nothing, list)
        BY <2>6 DEF CompleteMultipart
      <3>2. Pending(f, "completing")'
        BY <2>6 DEF CompleteMultipart, ClaimCompletion, Pending, TypeOK, RowsOK
      <3>3. /\ req'[r].at = "calling" /\ req'[r].op = "complete" /\ req'[r].file = f
            /\ req[r] = Idle /\ OthersWait(r)
        BY <3>1, ReqMoves
      <3>4. TakesUp(r)
        BY <3>1, <3>2, <3>3 DEF TakesUp, At, Pending
      <3> QED BY <1>r, <3>3, <3>4 DEF ReqStep
    <2>7. CASE ClaimPut(r)
      <3>0. At(r, "spooling", {"put"}) /\ req[r].file \in Files
        BY <2>1, <2>7 DEF ClaimPut, At
      <3>1. CASE Return(r)
        BY <1>r, <3>1, ReqMoves DEF ReqStep
      <3>2. CASE ClaimCompletion(req[r].file, req[r].body) /\ Move(r, "calling")
        <4>1. Proceeds(r) /\ req'[r].at = "calling" /\ OthersWait(r)
          BY <3>2, ReqMoves
        <4>2. /\ file'[req[r].file] = "pending" /\ upload'[req[r].file] = "completing"
              /\ claim'[req[r].file] = req[r].body
          BY <3>0, <3>2 DEF ClaimCompletion, Pending, TypeOK, RowsOK
        <4>3. ReqStep(r)
          BY <3>0, <4>1, <4>2 DEF ReqStep, Pending, Proceeds
        <4> QED BY <1>r, <4>1, <4>3
      <3> QED BY <2>7, <3>1, <3>2 DEF ClaimPut
    <2>8. CASE AttachFails(r)
      <3>1. Proceeds(r) /\ req'[r].at = "aborted" /\ OthersWait(r)
        BY <2>8, ReqMoves DEF AttachFails
      <3>2. /\ At(r, "answered", {"create"})
            /\ session' = [session EXCEPT ![req[r].file] = "closed"]
        BY <2>8 DEF AttachFails
      <3> QED BY <1>r, <3>1, <3>2 DEF ReqStep
    <2>9. CASE ProviderAnswers(r)
      <3>1. Proceeds(r) /\ req'[r].at = "answered" /\ OthersWait(r)
        BY <2>9, ReqMoves DEF ProviderAnswers
      <3>2. req[r].at = "calling" /\ Apply(Call(req[r], req[r].op))
        BY <2>9 DEF ProviderAnswers
      <3> QED BY <1>r, <3>1, <3>2 DEF ReqStep
    <2>10. CASE Return(r)
      BY <1>r, <2>10, ReqMoves DEF ReqStep
    <2>11. CASE \/ AttachUploadId(r) \/ ScheduleCreateCleanup(r) \/ DiscardUnstarted(r)
                \/ FinishPart(r) \/ CancelPart(r) \/ FinalizeRequest(r) \/ FinalizeAbort(r)
                \/ RequestDies(r)
      BY <2>10, <2>11 DEF AttachUploadId, ScheduleCreateCleanup, DiscardUnstarted,
         FinishPart, CancelPart, FinalizeRequest, FinalizeAbort, RequestDies
    <2>12. CASE Heartbeat(r)
      BY <1>u, <2>12 DEF Heartbeat
    <2> QED BY <1>1, <2>2, <2>3, <2>4, <2>5, <2>6, <2>7, <2>8, <2>9, <2>11, <2>12
            DEF RequestStep, Continue
  <1>2. ASSUME NEW w \in Workers, PassStep(w) PROVE Goal
    BY <1>u, <1>2 DEF PassStep, ContinuePass, RecoverCompletion, RecoverCleaning, RecoverDeleted,
       BeginRecovery, Observe, Act, SweepObject, FinishSweep, PassStops
  <1>3. ASSUME NEW c \in late, LateApplies(c) PROVE Goal
    BY <1>u, <1>3 DEF LateApplies
  <1>4. ASSUME NEW k \in Keys, DeleteObject(k) PROVE Goal
    BY <1>u, <1>4 DEF DeleteObject
  <1>5. ASSUME NEW f \in Files,
               \/ NativeDelete(f) \/ LeaseLapses(f) \/ RetryDue(f)
               \/ ExpireOpen(f) \/ PruneLease(f) \/ PruneFile(f)
        PROVE Goal
    BY <1>u, <1>5 DEF NativeDelete, LeaseLapses, RetryDue, ExpireOpen, PruneLease, PruneFile
  <1>6. UNCHANGED vars => Goal
    BY <1>u DEF vars
  <1>7. Goal
    BY <1>1, <1>2, <1>3, <1>4, <1>5, <1>6 DEF Next
  <1> QED BY <1>7 DEF Goal

-----------------------------------------------------------------------------
(* What a step does to the calls in flight, to the provider, to a pass, to    *)
(* the vendor's handle and to the ledger.                                     *)
InFlight(c) ==
  \/ c \in late
  \/ \E r \in Requests : req[r].at = "calling" /\ c = Call(req[r], req[r].op)
  \/ \E w \in Workers : worker[w].at = "sweeping" /\ c = SweepCall(w)

Moves(c, f) ==
  \/ c.op = "part" /\ object'[f] = object[f] /\ session'[f] = session[f]
  \/ c.op = "put" /\ object'[f] = c.body /\ session'[f] = session[f]
  \/ /\ c.op = "create" /\ session[f] = "none"
     /\ object'[f] = object[f] /\ session'[f] = "open"
  \/ /\ c.op = "complete" /\ session[f] = "open"
     /\ object'[f] = c.body /\ session'[f] = "closed"
  \/ /\ c.op \in {"cleanup", "remove"}
     /\ object'[f] \in {object[f], Nothing}
     /\ session'[f] = session[f] \/ (session[f] = "open" /\ session'[f] = "closed")

ProviderStep(f) ==
  \/ object'[f] = object[f] /\ session'[f] = session[f]
  \/ \E c \in CallStates : InFlight(c) /\ c.file = f /\ Moves(c, f)
  \/ /\ \E r \in Requests : At(r, "answered", {"create"}) /\ req[r].file = f
     /\ object'[f] = object[f] /\ session'[f] = "closed"

WorkerStep(w) ==
  \/ worker'[w] = worker[w]
  \/ worker'[w] = Asleep
  \/ /\ worker[w] = Asleep /\ worker'[w].file \in Files
     /\ \/ worker'[w].at = "observing" /\ Pending(worker'[w].file, "completing")
        \/ /\ worker'[w].at = "sweeping" /\ worker'[w].job = "cleanup"
           /\ Pending(worker'[w].file, "cleaning")
        \/ /\ worker'[w].at = "sweeping" /\ worker'[w].job = "remove"
           /\ file[worker'[w].file] = "deleted"
     /\ UNCHANGED <<file, upload, provider>>
  \/ /\ worker'[w].file = worker[w].file /\ worker'[w].job = worker[w].job
     /\ \/ /\ worker[w].at = "observing"
           /\ worker'[w].at = CompletionAction(worker[w].file, worker[w].want)
        \/ worker[w].at = "sweeping" /\ worker'[w].at = "swept" /\ Apply(SweepCall(w))

HandleStep(f) ==
  \/ handle'[f] = handle[f]
  \/ handle'[f] = FALSE
  \/ /\ \E r \in Requests : At(r, "answered", {"create"}) /\ req[r].file = f /\ req'[r] = Idle
     /\ UNCHANGED <<file, provider>>

PartStep(f, p) ==
  \/ ledger'[f][p] = ledger[f][p]
  \/ /\ UNCHANGED <<file, upload, claim>>
     /\ \/ upload[f] = "none"
        \/ \E r \in Requests :
             /\ OthersWait(r)
             /\ \/ /\ req'[r].op = "part" /\ req[r] = Idle
                   /\ req'[r].file = f /\ req'[r].part = p
                   /\ Pending(f, "open") /\ ledger[f][p].state # "claimed"
                   /\ ledger'[f][p].state = "claimed"
                \/ /\ On(req[r], "part", f) /\ req[r].part = p /\ req'[r] = Idle
                   /\ Pending(f, "open") \/ ledger[f][p].state = "claimed"

(* A call that the provider applies, seen from one file. *)
LEMMA ApplyMoves ==
  ASSUME TypeOK, NEW c \in CallStates, Apply(c)
  PROVE  /\ Moves(c, c.file)
         /\ \A f \in Files \ {c.file} : object'[f] = object[f] /\ session'[f] = session[f]
  <1>0. /\ c.file \in Files /\ object \in [Files -> Bodies \cup {Nothing}]
        /\ session \in [Files -> {"none", "open", "closed"}]
    BY CallFields DEF TypeOK
  <1>1. CASE c.op = "put"
    BY <1>0, <1>1 DEF Apply, Moves
  <1>2. CASE c.op = "create"
    BY <1>0, <1>2 DEF Apply, Moves
  <1>3. CASE c.op = "part"
    BY <1>0, <1>3 DEF Apply, Moves
  <1>4. CASE c.op = "complete"
    BY <1>0, <1>4 DEF Apply, Moves
  <1>5. CASE c.op \in {"cleanup", "remove"}
    BY <1>0, <1>5 DEF Apply, Moves
  <1> QED BY <1>1, <1>2, <1>3, <1>4, <1>5, CallFields

(* The calls in flight are well-formed. *)
LEMMA InFlightTyped ==
  ASSUME TypeOK, NEW c, InFlight(c)
  PROVE  c \in CallStates
  <1>1. \A r \in Requests : req[r].at = "calling" => Call(req[r], req[r].op) \in CallStates
    BY RequestFields DEF TypeOK
  <1>2. \A w \in Workers : worker[w].at = "sweeping" => SweepCall(w) \in CallStates
    BY WorkerFields DEF TypeOK, SweepCall
  <1> QED BY <1>1, <1>2 DEF TypeOK, InFlight

(* Nothing is in flight that was not in flight, called for or swept before. *)
LEMMA LateSteps ==
  ASSUME TypeOK, [Next]_vars
  PROVE  \A c \in late' : InFlight(c)
  <1> DEFINE Goal == \A c \in late' : InFlight(c)
  <1>u. late' \subseteq late => Goal
    BY DEF InFlight
  <1>a. \A c : InFlight(c) /\ Abandon(c) => Goal
    BY DEF InFlight, Abandon
  <1> HIDE DEF Goal
  <1>1. ASSUME NEW r \in Requests, RequestStep(r) PROVE Goal
    <2>1. req[r].at = "calling" => InFlight(Call(req[r], req[r].op))
      BY DEF InFlight
    <2>2. CASE ScheduleCreateCleanup(r)
      <3>1. CASE UNCHANGED late
        BY <1>u, <3>1
      <3>2. CASE At(r, "calling", {"create"}) /\ Abandon(Call(req[r], "create"))
        BY <1>a, <2>1, <3>2 DEF At
      <3> QED BY <2>2, <3>1, <3>2 DEF ScheduleCreateCleanup
    <2>3. CASE CancelPart(r)
      BY <1>a, <2>1, <2>3 DEF CancelPart, At
    <2>4. CASE ProviderAnswers(r)
      BY <1>a, <2>1, <2>4 DEF ProviderAnswers
    <2>5. CASE RequestDies(r)
      BY <1>a, <1>u, <2>1, <2>5 DEF RequestDies
    <2>6. CASE \/ \E f \in Files, d \in Data : PutObject(r, f, d)
               \/ \E f \in Files : CreateMultipart(r, f) \/ AbortMultipart(r, f)
               \/ \E f \in Files, p \in Parts, d \in Data : ClaimPart(r, f, p, d)
               \/ \E f \in Files, list \in Lists : CompleteMultipart(r, f, list)
      BY <1>u, <2>6 DEF PutObject, CreateMultipart, AbortMultipart, ClaimPart, CompleteMultipart
    <2>7. CASE \/ ClaimPut(r) \/ AttachUploadId(r) \/ AttachFails(r) \/ DiscardUnstarted(r)
               \/ FinishPart(r) \/ FinalizeRequest(r) \/ FinalizeAbort(r) \/ Heartbeat(r)
      BY <1>u, <2>7 DEF ClaimPut, AttachUploadId, AttachFails, DiscardUnstarted, FinishPart,
         FinalizeRequest, FinalizeAbort, Heartbeat
    <2> QED BY <1>1, <2>2, <2>3, <2>4, <2>5, <2>6, <2>7 DEF RequestStep, Continue
  <1>2. ASSUME NEW w \in Workers, PassStep(w) PROVE Goal
    <2>1. worker[w].at = "sweeping" => InFlight(SweepCall(w))
      BY DEF InFlight
    <2>2. CASE SweepObject(w) \/ PassStops(w)
      BY <1>a, <1>u, <2>1, <2>2 DEF SweepObject, PassStops
    <2>3. CASE \/ \E f \in Files : RecoverCompletion(w, f) \/ RecoverCleaning(w, f) \/ RecoverDeleted(w, f)
               \/ Observe(w) \/ Act(w) \/ FinishSweep(w)
      BY <1>u, <2>3 DEF RecoverCompletion, RecoverCleaning, RecoverDeleted, BeginRecovery,
         Observe, Act, FinishSweep
    <2> QED BY <1>2, <2>2, <2>3 DEF PassStep, ContinuePass
  <1>3. ASSUME NEW c \in late, LateApplies(c) PROVE Goal
    BY <1>u, <1>3 DEF LateApplies
  <1>4. ASSUME NEW k \in Keys, DeleteObject(k) PROVE Goal
    BY <1>u, <1>4 DEF DeleteObject
  <1>5. ASSUME NEW f \in Files,
               \/ NativeDelete(f) \/ LeaseLapses(f) \/ RetryDue(f)
               \/ ExpireOpen(f) \/ PruneLease(f) \/ PruneFile(f)
        PROVE Goal
    BY <1>u, <1>5 DEF NativeDelete, LeaseLapses, RetryDue, ExpireOpen, PruneLease, PruneFile
  <1>6. UNCHANGED vars => Goal
    BY <1>u DEF vars
  <1>7. Goal
    BY <1>1, <1>2, <1>3, <1>4, <1>5, <1>6 DEF Next
  <1> QED BY <1>7 DEF Goal

(* The provider changes by a call in flight, or by the abort of the session   *)
(* that a failed attach leaves.                                               *)
LEMMA ProviderSteps ==
  ASSUME TypeOK, [Next]_vars
  PROVE  \A f \in Files : ProviderStep(f)
  <1> DEFINE Goal == \A f \in Files : ProviderStep(f)
  <1>u. UNCHANGED <<object, session>> => Goal
    BY DEF ProviderStep
  <1>a. ASSUME NEW c, InFlight(c), Apply(c) PROVE Goal
    BY <1>a, InFlightTyped, ApplyMoves DEF ProviderStep
  <1> HIDE DEF Goal
  <1>1. ASSUME NEW r \in Requests, RequestStep(r) PROVE Goal
    <2>1. CASE ProviderAnswers(r)
      BY <1>a, <2>1 DEF ProviderAnswers, InFlight
    <2>2. CASE AttachFails(r)
      BY <2>2 DEF AttachFails, ProviderStep, TypeOK, At, Goal
    <2>3. CASE \/ \E f \in Files, d \in Data : PutObject(r, f, d)
               \/ \E f \in Files : CreateMultipart(r, f) \/ AbortMultipart(r, f)
               \/ \E f \in Files, p \in Parts, d \in Data : ClaimPart(r, f, p, d)
               \/ \E f \in Files, list \in Lists : CompleteMultipart(r, f, list)
      BY <1>u, <2>3 DEF PutObject, CreateMultipart, AbortMultipart, ClaimPart, CompleteMultipart,
         provider
    <2>4. CASE \/ ClaimPut(r) \/ AttachUploadId(r) \/ ScheduleCreateCleanup(r) \/ DiscardUnstarted(r)
               \/ FinishPart(r) \/ CancelPart(r) \/ FinalizeRequest(r) \/ FinalizeAbort(r)
               \/ RequestDies(r) \/ Heartbeat(r)
      BY <1>u, <2>4 DEF ClaimPut, AttachUploadId, ScheduleCreateCleanup, DiscardUnstarted,
         FinishPart, CancelPart, FinalizeRequest, FinalizeAbort, RequestDies, Heartbeat, provider
    <2> QED BY <1>1, <2>1, <2>2, <2>3, <2>4 DEF RequestStep, Continue
  <1>2. ASSUME NEW w \in Workers, PassStep(w) PROVE Goal
    <2>1. CASE SweepObject(w)
      BY <1>a, <2>1 DEF SweepObject, InFlight
    <2>2. CASE \/ \E f \in Files : RecoverCompletion(w, f) \/ RecoverCleaning(w, f) \/ RecoverDeleted(w, f)
               \/ Observe(w) \/ Act(w) \/ FinishSweep(w) \/ PassStops(w)
      BY <1>u, <2>2 DEF RecoverCompletion, RecoverCleaning, RecoverDeleted, BeginRecovery,
         Observe, Act, FinishSweep, PassStops, provider
    <2> QED BY <1>2, <2>1, <2>2 DEF PassStep, ContinuePass
  <1>3. ASSUME NEW c \in late, LateApplies(c) PROVE Goal
    <2>1. InFlight(c) /\ c \in CallStates
      BY InFlightTyped DEF InFlight
    <2>2. CASE Apply(c)
      BY <1>a, <2>1, <2>2
    <2>3. CASE /\ c.op = "cleanup" /\ session[c.file] = "open"
               /\ session' = [session EXCEPT ![c.file] = "closed"]
               /\ UNCHANGED object
      BY <2>1, <2>3 DEF Goal, ProviderStep, Moves, TypeOK
    <2>4. CASE /\ c.op = "cleanup" /\ object' = [object EXCEPT ![c.file] = Nothing]
               /\ UNCHANGED session
      BY <2>1, <2>4 DEF Goal, ProviderStep, Moves, TypeOK
    <2> QED BY <1>3, <2>2, <2>3, <2>4 DEF LateApplies
  <1>4. ASSUME NEW k \in Keys, DeleteObject(k) PROVE Goal
    BY <1>u, <1>4 DEF DeleteObject, provider
  <1>5. ASSUME NEW f \in Files,
               \/ NativeDelete(f) \/ LeaseLapses(f) \/ RetryDue(f)
               \/ ExpireOpen(f) \/ PruneLease(f) \/ PruneFile(f)
        PROVE Goal
    BY <1>u, <1>5 DEF NativeDelete, LeaseLapses, RetryDue, ExpireOpen, PruneLease, PruneFile, provider
  <1>6. UNCHANGED vars => Goal
    BY <1>u DEF vars, provider
  <1>7. Goal
    BY <1>1, <1>2, <1>3, <1>4, <1>5, <1>6 DEF Next
  <1> QED BY <1>7 DEF Goal

(* Every step moves a pass by one of these. *)
LEMMA WorkerSteps ==
  ASSUME TypeOK, [Next]_vars
  PROVE  \A w \in Workers : WorkerStep(w)
  <1> DEFINE Goal == \A w \in Workers : WorkerStep(w)
  <1>0. worker \in [Workers -> WorkerStates]
    BY DEF TypeOK
  <1>u. UNCHANGED worker => Goal
    BY DEF WorkerStep
  <1>w. ASSUME NEW w \in Workers, NEW x, worker' = [worker EXCEPT ![w] = x],
               worker'[w] = x => WorkerStep(w)
        PROVE  Goal
    BY <1>0, <1>w DEF WorkerStep
  <1>m. \A x \in WorkerStates : \A at :
          /\ [x EXCEPT !.at = at].at = at
          /\ [x EXCEPT !.at = at].file = x.file
          /\ [x EXCEPT !.at = at].job = x.job
    BY DEF WorkerStates, Asleep
  <1> HIDE DEF Goal
  <1>1. ASSUME NEW w \in Workers, PassStep(w) PROVE Goal
    <2>1. ASSUME NEW job, NEW f \in Files, NEW at, BeginRecovery(w, job, f, at),
                 \/ at = "observing" /\ Pending(f, "completing")
                 \/ at = "sweeping" /\ job = "cleanup" /\ Pending(f, "cleaning")
                 \/ at = "sweeping" /\ job = "remove" /\ file[f] = "deleted"
          PROVE Goal
      <3>1. /\ worker[w] = Asleep /\ UNCHANGED <<file, upload, provider>>
            /\ worker' = [worker EXCEPT ![w] = [at |-> at, job |-> job, file |-> f, want |-> claim[f]]]
        BY <2>1 DEF BeginRecovery
      <3>2. worker'[w] = [at |-> at, job |-> job, file |-> f, want |-> claim[f]] => WorkerStep(w)
        BY <2>1, <3>1 DEF WorkerStep
      <3> QED BY <1>w, <3>1, <3>2
    <2>2. ASSUME NEW f \in Files, RecoverCompletion(w, f) PROVE Goal
      BY <2>1, <2>2 DEF RecoverCompletion, ExpiredCompletion
    <2>3. ASSUME NEW f \in Files, RecoverCleaning(w, f) PROVE Goal
      BY <2>1, <2>3 DEF RecoverCleaning, CleanupCandidate
    <2>4. ASSUME NEW f \in Files, RecoverDeleted(w, f) PROVE Goal
      BY <2>1, <2>4 DEF RecoverDeleted, Purgeable
    <2>5. CASE Observe(w)
      <3>1. /\ worker[w].at = "observing"
            /\ worker' = [worker EXCEPT ![w] = [worker[w] EXCEPT !.at =
                            CompletionAction(worker[w].file, worker[w].want)]]
        BY <2>5 DEF Observe
      <3>2. worker'[w] = [worker[w] EXCEPT !.at = CompletionAction(worker[w].file, worker[w].want)]
              => WorkerStep(w)
        BY <1>0, <1>m, <3>1 DEF WorkerStep
      <3> QED BY <1>w, <3>1, <3>2
    <2>6. CASE SweepObject(w)
      <3>1. /\ worker[w].at = "sweeping" /\ Apply(SweepCall(w))
            /\ worker' = [worker EXCEPT ![w] = [worker[w] EXCEPT !.at = "swept"]]
        BY <2>6 DEF SweepObject
      <3>2. worker'[w] = [worker[w] EXCEPT !.at = "swept"] => WorkerStep(w)
        BY <1>0, <1>m, <3>1 DEF WorkerStep
      <3> QED BY <1>w, <3>1, <3>2
    <2>7. CASE Act(w) \/ FinishSweep(w) \/ PassStops(w)
      BY <1>w, <2>7 DEF Act, FinishSweep, PassStops, WorkerStep
    <2> QED BY <1>1, <2>2, <2>3, <2>4, <2>5, <2>6, <2>7 DEF PassStep, ContinuePass
  <1>2. ASSUME NEW r \in Requests, RequestStep(r) PROVE Goal
    BY <1>u, <1>2 DEF RequestStep, Continue, PutObject, CreateMultipart, AbortMultipart, ClaimPart,
       CompleteMultipart, ClaimPut, AttachUploadId, ScheduleCreateCleanup, AttachFails,
       DiscardUnstarted, FinishPart, CancelPart, FinalizeRequest, FinalizeAbort,
       ProviderAnswers, RequestDies, Heartbeat
  <1>3. ASSUME NEW c \in late, LateApplies(c) PROVE Goal
    BY <1>u, <1>3 DEF LateApplies
  <1>4. ASSUME NEW k \in Keys, DeleteObject(k) PROVE Goal
    BY <1>u, <1>4 DEF DeleteObject
  <1>5. ASSUME NEW f \in Files,
               \/ NativeDelete(f) \/ LeaseLapses(f) \/ RetryDue(f)
               \/ ExpireOpen(f) \/ PruneLease(f) \/ PruneFile(f)
        PROVE Goal
    BY <1>u, <1>5 DEF NativeDelete, LeaseLapses, RetryDue, ExpireOpen, PruneLease, PruneFile
  <1>6. UNCHANGED vars => Goal
    BY <1>u DEF vars
  <1>7. Goal
    BY <1>1, <1>2, <1>3, <1>4, <1>5, <1>6 DEF Next
  <1> QED BY <1>7 DEF Goal

(* The transactions leave the handles and the ledger alone. *)
LEMMA TransactionsKeep ==
  ASSUME NEW f
  PROVE  /\ CreateUpload(f) => UNCHANGED <<handle, ledger>>
         /\ \A b : ClaimCompletion(f, b) => UNCHANGED <<handle, ledger>>
         /\ ToCleaning(f) => UNCHANGED <<handle, ledger>>
         /\ FinalizeUpload(f) => UNCHANGED <<handle, ledger>>
         /\ \A s : FinalizeReclaimed(f, s) => UNCHANGED <<handle, ledger>>
         /\ ReopenCompletion(f) => UNCHANGED <<handle, ledger>>
         /\ FinalizePurge(f) => UNCHANGED <<handle, ledger>>
         /\ UNCHANGED rows => UNCHANGED <<handle, ledger>>
  BY DEF CreateUpload, ClaimCompletion, ToCleaning, FinalizeUpload, CommitUpload,
     PreconditionFailed, FinalizeReclaimed, ReopenCompletion, FinalizePurge, rows

(* Only a request that has opened the vendor session records the handle, only *)
(* part requests and the prune of a terminal lease write the ledger.          *)
LEMMA LedgerSteps ==
  ASSUME TypeOK, [Next]_vars
  PROVE  /\ \A f \in Files : HandleStep(f)
         /\ \A f \in Files, p \in Parts : PartStep(f, p)
  <1> DEFINE Goal == (\A f \in Files : HandleStep(f)) /\ \A f \in Files, p \in Parts : PartStep(f, p)
  <1>0. /\ handle \in [Files -> BOOLEAN] /\ ledger \in [Files -> [Parts -> PartRows]]
        /\ req \in [Requests -> RequestStates]
    BY DEF TypeOK, RowsOK
  <1>u. UNCHANGED <<handle, ledger>> => Goal
    BY DEF HandleStep, PartStep
  <1>p. ASSUME NEW g \in Files, NEW q \in Parts, NEW row, UNCHANGED handle,
               ledger' = [ledger EXCEPT ![g] = [ledger[g] EXCEPT ![q] = row]],
               ledger'[g][q] = row => PartStep(g, q)
        PROVE  Goal
    <2>1. /\ \A f \in Files \ {g} : ledger'[f] = ledger[f]
          /\ ledger'[g][q] = row
          /\ \A p \in Parts \ {q} : ledger'[g][p] = ledger[g][p]
      BY <1>0, <1>p
    <2>2. ASSUME NEW f \in Files, NEW p \in Parts PROVE PartStep(f, p)
      <3>1. CASE f = g /\ p = q
        BY <1>p, <2>1, <3>1
      <3>2. CASE ~(f = g /\ p = q)
        BY <2>1, <3>2 DEF PartStep
      <3> QED BY <3>1, <3>2
    <2> QED BY <1>p, <2>2 DEF HandleStep
  <1> HIDE DEF Goal
  <1>1. ASSUME NEW r \in Requests, RequestStep(r) PROVE Goal
    <2>0. /\ req[r].at # "idle" => req[r].file \in Files
          /\ req[r].op = "part" => req[r].part \in Parts
      BY <1>0, RequestFields
    <2>1. CASE \/ \E f \in Files, d \in Data : PutObject(r, f, d)
               \/ \E f \in Files : CreateMultipart(r, f) \/ AbortMultipart(r, f)
               \/ \E f \in Files, list \in Lists : CompleteMultipart(r, f, list)
      BY <1>u, <2>1, TransactionsKeep
         DEF PutObject, CreateMultipart, AbortMultipart, ClaimAbort, CompleteMultipart
    <2>2. CASE ClaimPut(r) \/ ScheduleCreateCleanup(r) \/ DiscardUnstarted(r)
      BY <1>u, <2>2, TransactionsKeep DEF ClaimPut, ScheduleCreateCleanup, ClaimAbort, DiscardUnstarted
    <2>3. CASE FinalizeRequest(r) \/ FinalizeAbort(r)
      BY <1>u, <2>3, TransactionsKeep DEF FinalizeRequest, FinalizeAbort
    <2>4. CASE AttachFails(r) \/ ProviderAnswers(r) \/ RequestDies(r)
      BY <1>u, <2>4, TransactionsKeep DEF AttachFails, ProviderAnswers, RequestDies
    <2>5. CASE Heartbeat(r)
      BY <1>u, <2>5 DEF Heartbeat
    <2>6. CASE AttachUploadId(r)
      <3>1. /\ At(r, "answered", {"create"}) /\ req'[r] = Idle
            /\ UNCHANGED <<file, provider, ledger>>
            /\ handle' = [handle EXCEPT ![req[r].file] = lease[req[r].file] # "none"]
        BY <1>0, <2>6, ReqMoves DEF AttachUploadId
      <3>2. ASSUME NEW f \in Files PROVE HandleStep(f)
        <4>1. CASE f = req[r].file
          BY <3>1, <4>1 DEF HandleStep
        <4>2. CASE f # req[r].file
          BY <1>0, <3>1, <4>2 DEF HandleStep
        <4> QED BY <4>1, <4>2
      <3> QED BY <3>1, <3>2 DEF Goal, PartStep
    <2>7. ASSUME NEW f \in Files, NEW p \in Parts, NEW d \in Data, ClaimPart(r, f, p, d)
          PROVE Goal
      <3>1. /\ Pending(f, "open") /\ ledger[f][p].state # "claimed"
            /\ ledger' = [ledger EXCEPT ![f] = [ledger[f] EXCEPT ![p] =
                            [ledger[f][p] EXCEPT !.state = "claimed"]]]
            /\ Start(r, "calling", "part", f, p, d)
            /\ UNCHANGED <<file, upload, claim, handle>>
        BY <2>7 DEF ClaimPart, PartGranted
      <3>2. /\ req'[r].op = "part" /\ req'[r].file = f /\ req'[r].part = p
            /\ req[r] = Idle /\ OthersWait(r)
        BY <3>1, ReqMoves
      <3>3. [ledger[f][p] EXCEPT !.state = "claimed"].state = "claimed"
        <4>1. \A x \in PartRows : [x EXCEPT !.state = "claimed"].state = "claimed"
          BY DEF PartRows
        <4> QED BY <1>0, <4>1
      <3>4. ledger'[f][p] = [ledger[f][p] EXCEPT !.state = "claimed"] => PartStep(f, p)
        BY <3>1, <3>2, <3>3 DEF PartStep
      <3> QED BY <1>p, <3>1, <3>4
    <2>8. CASE FinishPart(r) \/ CancelPart(r)
      <3>1. /\ req[r].op = "part" /\ req[r].file \in Files /\ req[r].part \in Parts
            /\ UNCHANGED <<file, upload, claim, handle>> /\ Return(r)
        BY <2>0, <2>8 DEF FinishPart, CancelPart, At
      <3>2. req'[r] = Idle /\ OthersWait(r)
        BY <3>1, ReqMoves
      <3>3. CASE UNCHANGED ledger
        BY <1>u, <3>1, <3>3
      <3>4. ASSUME NEW row,
                   ledger' = [ledger EXCEPT ![req[r].file] =
                               [ledger[req[r].file] EXCEPT ![req[r].part] = row]],
                   Pending(req[r].file, "open") \/ ledger[req[r].file][req[r].part].state = "claimed"
            PROVE Goal
        <4>1. PartStep(req[r].file, req[r].part)
          BY <3>1, <3>2, <3>4 DEF PartStep, On
        <4> QED BY <1>p, <3>1, <3>4, <4>1
      <3>5. CASE FinishPart(r)
        BY <3>3, <3>4, <3>5 DEF FinishPart
      <3>6. CASE CancelPart(r)
        BY <3>3, <3>4, <3>6 DEF CancelPart
      <3> QED BY <2>8, <3>5, <3>6
    <2> QED BY <1>1, <2>1, <2>2, <2>3, <2>4, <2>5, <2>6, <2>7, <2>8 DEF RequestStep, Continue
  <1>2. ASSUME NEW w \in Workers, PassStep(w) PROVE Goal
    <2>1. CASE Act(w)
      BY <1>u, <2>1, TransactionsKeep DEF Act, MarkCompletionAborting
    <2>2. CASE FinishSweep(w)
      BY <1>u, <2>2, TransactionsKeep DEF FinishSweep
    <2>3. CASE \/ \E f \in Files : RecoverCompletion(w, f) \/ RecoverCleaning(w, f) \/ RecoverDeleted(w, f)
               \/ Observe(w) \/ SweepObject(w) \/ PassStops(w)
      BY <1>u, <2>3 DEF RecoverCompletion, RecoverCleaning, RecoverDeleted, BeginRecovery,
         Observe, SweepObject, PassStops, rows
    <2> QED BY <1>2, <2>1, <2>2, <2>3 DEF PassStep, ContinuePass
  <1>3. ASSUME NEW c \in late, LateApplies(c) PROVE Goal
    BY <1>u, <1>3 DEF LateApplies, rows
  <1>4. ASSUME NEW k \in Keys, DeleteObject(k) PROVE Goal
    BY <1>u, <1>4 DEF DeleteObject
  <1>5. ASSUME NEW f \in Files, NativeDelete(f) \/ LeaseLapses(f) \/ RetryDue(f) \/ PruneFile(f)
        PROVE Goal
    BY <1>u, <1>5 DEF NativeDelete, LeaseLapses, RetryDue, PruneFile
  <1>6. ASSUME NEW f \in Files, ExpireOpen(f) PROVE Goal
    BY <1>u, <1>6, TransactionsKeep DEF ExpireOpen
  <1>7. ASSUME NEW f \in Files, PruneLease(f) PROVE Goal
    <2>1. \A g \in Files \ {f} : handle'[g] = handle[g] /\ ledger'[g] = ledger[g]
      BY <1>0, <1>7 DEF PruneLease
    <2>2. handle'[f] = FALSE /\ upload[f] = "none" /\ UNCHANGED <<file, upload, claim>>
      BY <1>0, <1>7 DEF PruneLease, LeasePrunable
    <2> QED BY <2>1, <2>2 DEF Goal, HandleStep, PartStep
  <1>8. UNCHANGED vars => Goal
    BY <1>u DEF vars, rows
  <1>9. Goal
    BY <1>1, <1>2, <1>3, <1>4, <1>5, <1>6, <1>7, <1>8 DEF Next
  <1> QED BY <1>9 DEF Goal

-----------------------------------------------------------------------------
(* All of it: what the invariants below are shown from. *)
StepMoves ==
  /\ TypeOK /\ TypeOK'
  /\ \A f \in Files : RowStep(f) /\ ProviderStep(f) /\ HandleStep(f)
  /\ \A f \in Files, p \in Parts : PartStep(f, p)
  /\ \A r \in Requests : ReqStep(r)
  /\ UNCHANGED req \/ \E r \in Requests : OthersWait(r)
  /\ \A w \in Workers : WorkerStep(w)
  /\ \A c \in late' : InFlight(c)

LEMMA EveryStep ==
  ASSUME TypeOK, [Next]_vars
  PROVE  StepMoves
  BY StepTyped, RowSteps, ProviderSteps, LedgerSteps, ReqSteps, WorkerSteps, LateSteps DEF StepMoves

(* A request or pass that is at work is on a file. *)
LEMMA AtWork ==
  ASSUME TypeOK
  PROVE  /\ \A r \in Requests : req[r].file = NoFile \/ req[r].file \in Files
         /\ \A r \in Requests : req[r].op # "none" => req[r].file \in Files
         /\ \A r \in Requests : req[r].at # "idle" => req[r].file \in Files
         /\ \A w \in Workers : worker[w].at # "idle" => worker[w].file \in Files
         /\ Idle.file = NoFile /\ Idle.op = "none" /\ Idle.at = "idle"
         /\ Asleep.file = NoFile /\ Asleep.at = "idle"
  BY DEF TypeOK, RequestStates, WorkerStates, Idle, Asleep

(* A session row belongs to a pending file. *)
Live == \A f \in Files : upload[f] # "none" => file[f] = "pending"

LEMMA LiveStep ==
  ASSUME Live, StepMoves
  PROVE  Live'
  <1> SUFFICES ASSUME NEW f \in Files, upload'[f] # "none" PROVE file'[f] = "pending"
    BY DEF Live
  <1>1. RowStep(f)
    BY DEF StepMoves
  <1>2. upload[f] # "none" => file[f] = "pending"
    BY DEF Live
  <1> QED BY <1>1, <1>2 DEF RowStep, StaysPut, Opens, Claims, Cleans, Commits, Retires,
             Reclaimed, Reopens, Purges, Forgets, Pending

LEMMA ScannableStep ==
  ASSUME AlwaysScannable, StepMoves
  PROVE  AlwaysScannable'
  <1> SUFFICES ASSUME NEW f \in Files, file'[f] = "pending"
               PROVE  /\ located'[f]
                      /\ \/ upload'[f] \in {"open", "completing"} /\ LeaseHeld(f)'
                         \/ upload'[f] = "cleaning" /\ lease'[f] # "none"
    BY DEF AlwaysScannable
  <1>1. RowStep(f)
    BY DEF StepMoves
  <1>2. file[f] = "pending" =>
          /\ located[f]
          /\ \/ upload[f] \in {"open", "completing"} /\ LeaseHeld(f)
             \/ upload[f] = "cleaning" /\ lease[f] # "none"
    BY DEF AlwaysScannable
  <1> QED BY <1>1, <1>2 DEF RowStep, StaysPut, Opens, Claims, Cleans, Commits, Retires,
             Reclaimed, Reopens, Purges, Forgets, Pending, LeaseHeld

(* Every pending file is in the scan of some reconciler job, whatever lease   *)
(* renewals, finalizations, prunes and crashes have come before.              *)
THEOREM PendingScannable == Spec => []AlwaysScannable
  <1>1. Init => AlwaysScannable
    BY DEF Init, AlwaysScannable
  <1>2. TypeOK /\ AlwaysScannable /\ [Next]_vars => AlwaysScannable'
    BY EveryStep, ScannableStep
  <1> QED BY <1>1, <1>2, TypeCorrect, PTL DEF Spec

-----------------------------------------------------------------------------
(* Before its insert a file is known to nobody. *)
Unborn(f) ==
  /\ object[f] = Nothing /\ session[f] = "none" /\ ~handle[f]
  /\ \A c \in late : c.file # f
  /\ \A r \in Requests : req[r].file # f
  /\ \A w \in Workers : worker[w].file # f
Fresh == \A f \in Files : file[f] = "none" => Unborn(f)

(* What is in flight is on a file that somebody knows. *)
LEMMA InFlightOn ==
  ASSUME NEW c, InFlight(c)
  PROVE  \/ c \in late
         \/ \E r \in Requests : /\ req[r].at = "calling" /\ c.op = req[r].op
                                /\ c.file = req[r].file /\ c.body = req[r].body
         \/ \E w \in Workers : /\ worker[w].at = "sweeping" /\ c.op = worker[w].job
                               /\ c.file = worker[w].file
  BY DEF InFlight, Call, SweepCall

LEMMA FreshStep ==
  ASSUME Fresh, StepMoves
  PROVE  Fresh'
  <1> SUFFICES ASSUME NEW f \in Files, file'[f] = "none" PROVE Unborn(f)'
    BY DEF Fresh
  <1>1. file[f] = "none" /\ Unborn(f)
    <2>1. RowStep(f)
      BY DEF StepMoves
    <2>2. file[f] = "none"
      BY <2>1 DEF RowStep, StaysPut, Opens, Claims, Cleans, Commits, Retires,
         Reclaimed, Reopens, Purges, Forgets, Pending
    <2> QED BY <2>2 DEF Fresh
  <1>2. \A c : InFlight(c) => c.file # f
    BY <1>1, InFlightOn DEF Unborn
  <1>3. f # NoFile /\ TypeOK /\ TypeOK'
    BY ConstantsAssumption DEF StepMoves
  <1>4. object'[f] = Nothing /\ session'[f] = "none"
    <2>1. ProviderStep(f)
      BY DEF StepMoves
    <2> QED BY <1>1, <1>2, <2>1 DEF ProviderStep, Unborn
  <1>5. ~handle'[f]
    <2>1. HandleStep(f)
      BY DEF StepMoves
    <2>2. handle'[f] = handle[f] \/ handle'[f] = FALSE
      BY <1>1, <2>1 DEF HandleStep, Unborn
    <2> QED BY <1>1, <2>2 DEF Unborn
  <1>6. \A c \in late' : c.file # f
    BY <1>2 DEF StepMoves
  <1>7. ASSUME NEW r \in Requests PROVE req'[r].file # f
    <2>1. ReqStep(r) /\ req[r].file # f
      BY <1>1 DEF StepMoves, Unborn
    <2>2. ASSUME TakesUp(r), req'[r].file = f PROVE FALSE
      BY <1>1, <2>2 DEF TakesUp, Unborn, Pending, Condemned
    <2> QED BY <1>3, <2>1, <2>2, AtWork DEF ReqStep, Proceeds
  <1>8. ASSUME NEW w \in Workers PROVE worker'[w].file # f
    <2>1. WorkerStep(w) /\ worker[w].file # f
      BY <1>1 DEF StepMoves, Unborn
    <2>2. CASE worker[w] = Asleep /\ worker'[w].file = f
      BY <1>1, <2>1, <2>2 DEF WorkerStep, Pending
    <2> QED BY <1>3, <2>1, <2>2, AtWork DEF WorkerStep
  <1> QED BY <1>4, <1>5, <1>6, <1>7, <1>8 DEF Unborn

-----------------------------------------------------------------------------
(* Single PUTs and multipart uploads do not meet: each call, each request and *)
(* each pass that would reopen is on a file of its own kind.                  *)
MultipartOps == {"create", "part", "complete"}
Kinds ==
  /\ \A r \in Requests :
       /\ req[r].op = "put" => req[r].file \notin Multiparts
       /\ req[r].op \in MultipartOps \cup {"cleanup"} => req[r].file \in Multiparts
  /\ \A c \in late :
       /\ c.op = "put" => c.file \notin Multiparts
       /\ c.op \in MultipartOps => c.file \in Multiparts
  /\ \A w \in Workers : worker[w].at = "reopen" => worker[w].file \in Multiparts
  /\ \A f \in Files : handle[f] => f \in Multiparts

LEMMA InFlightKinds ==
  ASSUME Kinds, TypeOK, NEW c, InFlight(c)
  PROVE  /\ c.op = "put" => c.file \notin Multiparts
         /\ c.op \in MultipartOps => c.file \in Multiparts
  <1>1. \A w \in Workers : worker[w].at = "sweeping" => worker[w].job \in {"cleanup", "remove"}
    BY DEF TypeOK, WorkerStates, Asleep
  <1> QED BY <1>1, InFlightOn DEF Kinds, MultipartOps

LEMMA KindsStep ==
  ASSUME Kinds, StepMoves
  PROVE  Kinds'
  <1>0. TypeOK
    BY DEF StepMoves
  <1>1. ASSUME NEW r \in Requests
        PROVE  /\ req'[r].op = "put" => req'[r].file \notin Multiparts
               /\ req'[r].op \in MultipartOps \cup {"cleanup"} => req'[r].file \in Multiparts
    <2>1. ReqStep(r) /\ (\A f \in Files : handle[f] => f \in Multiparts)
          /\ (req[r].op = "put" => req[r].file \notin Multiparts)
          /\ (req[r].op \in MultipartOps \cup {"cleanup"} => req[r].file \in Multiparts)
      BY DEF StepMoves, Kinds
    <2>2. CASE TakesUp(r)
      BY <2>1, <2>2 DEF TakesUp, At, MultipartOps
    <2>3. CASE req'[r] = Idle
      BY <2>3 DEF Idle, MultipartOps
    <2> QED BY <2>1, <2>2, <2>3 DEF ReqStep, Proceeds
  <1>2. ASSUME NEW c \in late'
        PROVE  /\ c.op = "put" => c.file \notin Multiparts
               /\ c.op \in MultipartOps => c.file \in Multiparts
    BY <1>0, <1>2, InFlightKinds DEF StepMoves
  <1>3. ASSUME NEW w \in Workers, worker'[w].at = "reopen" PROVE worker'[w].file \in Multiparts
    <2>1. WorkerStep(w) /\ (worker[w].at = "reopen" => worker[w].file \in Multiparts)
      BY DEF StepMoves, Kinds
    <2> QED BY <1>3, <2>1, <1>0, AtWork DEF WorkerStep, CompletionAction
  <1>4. ASSUME NEW f \in Files, handle'[f] PROVE f \in Multiparts
    <2>1. HandleStep(f) /\ (handle[f] => f \in Multiparts)
      BY DEF StepMoves, Kinds
    <2> QED BY <1>4, <2>1 DEF HandleStep, Kinds, At, MultipartOps
  <1> QED BY <1>1, <1>2, <1>3, <1>4 DEF Kinds

-----------------------------------------------------------------------------
(* The ledger row of a running part request is claimed for it, until the file *)
(* is condemned.                                                              *)
Claimed(r) ==
  \/ Condemned(req[r].file)
  \/ /\ Pending(req[r].file, "open")
     /\ ledger[req[r].file][req[r].part].state = "claimed"
PartsClaimed == \A r \in Requests : req[r].op = "part" => Claimed(r)

LEMMA CondemnedMove ==
  ASSUME StepMoves, NEW f \in Files, Condemned(f)
  PROVE  Condemned(f)'
  <1>1. RowStep(f)
    BY DEF StepMoves
  <1> QED BY <1>1 DEF RowStep, StaysPut, Opens, Claims, Cleans, Commits, Retires,
             Reclaimed, Reopens, Purges, Forgets, Pending, Condemned

(* A part request is never joined by another on its part. *)
LEMMA ExclusiveStep ==
  ASSUME Kinds, PartsClaimed, PartWritesExclusive, StepMoves
  PROVE  PartWritesExclusive'
  <1>0. TypeOK
    BY DEF StepMoves
  <1>1. ASSUME NEW r \in Requests, req'[r].op = "part"
        PROVE  \/ /\ req[r].op = "part" /\ req'[r].file = req[r].file /\ req'[r].part = req[r].part
               \/ /\ req[r] = Idle /\ req'[r].file \in Files /\ Pending(req'[r].file, "open")
                  /\ ledger[req'[r].file][req'[r].part].state # "claimed"
    BY <1>0, <1>1, AtWork DEF StepMoves, ReqStep, Proceeds, TakesUp, At
  <1>2. UNCHANGED req \/ \E r \in Requests : OthersWait(r)
    BY DEF StepMoves
  <1>3. SUFFICES ASSUME NEW r \in Requests, NEW s \in Requests, r # s,
                        req'[r].op = "part", req'[s].op = "part",
                        req'[r].file = req'[s].file, req'[r].part = req'[s].part
                 PROVE  FALSE
    BY DEF PartWritesExclusive
  <1>4. req'[r] = req[r] \/ req'[s] = req[s]
    BY <1>2, <1>3 DEF OthersWait
  <1>5. ASSUME NEW x \in Requests, NEW y \in Requests, x # y, req'[x] = req[x],
               req'[x].op = "part", req'[y].op = "part",
               req'[x].file = req'[y].file, req'[x].part = req'[y].part
        PROVE  FALSE
    <2>1. Claimed(x)
      BY <1>5 DEF PartsClaimed
    <2>2. CASE req[y].op = "part" /\ req'[y].file = req[y].file /\ req'[y].part = req[y].part
      BY <1>5, <2>2 DEF PartWritesExclusive
    <2>3. CASE /\ Pending(req'[y].file, "open")
               /\ ledger[req'[y].file][req'[y].part].state # "claimed"
      BY <1>5, <2>1, <2>3 DEF Claimed, Condemned, Pending
    <2> QED BY <1>1, <1>5, <2>2, <2>3
  <1> QED BY <1>3, <1>4, <1>5

LEMMA PartsClaimedStep ==
  ASSUME Kinds, PartsClaimed, PartWritesExclusive, StepMoves
  PROVE  PartsClaimed'
  <1>0. TypeOK
    BY DEF StepMoves
  <1> SUFFICES ASSUME NEW r \in Requests, req'[r].op = "part" PROVE Claimed(r)'
    BY DEF PartsClaimed
  <1>1. CASE req[r] = Idle
    <2>1. TakesUp(r)
      BY <1>0, <1>1, AtWork DEF StepMoves, ReqStep, At
    <2>2. PICK f \in Files : /\ req'[r].file = f /\ Pending(f, "open")'
                             /\ ledger'[f][req'[r].part].state = "claimed"
      BY <2>1 DEF TakesUp, At
    <2> QED BY <2>2 DEF Claimed, Pending
  <1>2. CASE req[r] # Idle
    <2>1. /\ req[r].op = "part"
          /\ req'[r].file = req[r].file /\ req'[r].part = req[r].part
      BY <1>0, <1>2, AtWork DEF StepMoves, ReqStep, Proceeds
    <2>2. req[r].file \in Files /\ req[r].file \in Multiparts /\ req[r].part \in Parts
      BY <1>0, <2>1, AtWork, RequestFields DEF Kinds, MultipartOps, TypeOK
    <2>3. PICK f \in Files, p \in Parts : f = req[r].file /\ p = req[r].part /\ f \in Multiparts
      BY <2>2
    <2>4. CASE Condemned(f)
      <3>1. Condemned(f)'
        BY <2>4, CondemnedMove
      <3> QED BY <2>1, <2>3, <3>1 DEF Claimed, Condemned, Pending
    <2>5. CASE ~Condemned(f)
      <3>1. Pending(f, "open") /\ ledger[f][p].state = "claimed" /\ PartClaimed(f)
        BY <2>1, <2>3, <2>5 DEF PartsClaimed, Claimed, PartClaimed
      <3>2. Pending(f, "open")' \/ Condemned(f)'
        <4>1. RowStep(f)
          BY DEF StepMoves
        <4>2. ~Claims(f)
          BY <2>3, <3>1 DEF Claims, ClaimsPut, ClaimsParts, Kinds, At
        <4> QED BY <3>1, <4>1, <4>2 DEF RowStep, StaysPut, Opens, Cleans, Commits, Retires,
                   Reclaimed, Reopens, Purges, Forgets, Pending, Condemned
      <3>3. ledger'[f][p].state = "claimed"
        <4>1. PartStep(f, p)
          BY DEF StepMoves
        <4>2. ASSUME NEW s \in Requests, OthersWait(s), On(req[s], "part", f), req[s].part = p,
                     req'[s] = Idle
              PROVE  FALSE
          BY <1>0, <2>1, <2>3, <4>2, AtWork DEF On, PartWritesExclusive
        <4>3. ledger'[f][p] = ledger[f][p] \/ ledger'[f][p].state = "claimed"
          BY <3>1, <4>1, <4>2 DEF PartStep, Pending
        <4> QED BY <3>1, <4>3
      <3> QED BY <2>1, <2>3, <3>2, <3>3 DEF Claimed, Condemned, Pending
    <2> QED BY <2>4, <2>5
  <1> QED BY <1>1, <1>2

(* What a completion claims stays what the ledger records. *)
LEMMA ClaimMatchesStep ==
  ASSUME Kinds, Live, ClaimMatchesLedger, StepMoves
  PROVE  ClaimMatchesLedger'
  <1> SUFFICES ASSUME NEW f \in Multiparts, upload'[f] = "completing"
               PROVE  Reconciled(f, claim[f])'
    BY DEF ClaimMatchesLedger
  <1>1. f \in Files /\ RowStep(f) /\ \A p \in Parts : PartStep(f, p)
    BY ConstantsAssumption DEF StepMoves
  <1>2. CASE upload[f] = "completing"
    <2>1. claim'[f] = claim[f]
      BY <1>1, <1>2 DEF RowStep, StaysPut, Opens, Claims, Cleans, Commits, Retires,
         Reclaimed, Reopens, Purges, Forgets, Pending, Live
    <2>2. Reconciled(f, claim[f])
      BY <1>2 DEF ClaimMatchesLedger
    <2>3. ASSUME NEW p \in DOMAIN claim[f] PROVE ledger'[f][p] = ledger[f][p]
      <3>1. p \in Parts
        BY <2>2, <2>3 DEF Reconciled, Lists
      <3>2. ledger[f][p] = [state |-> "done", md5 |-> claim[f][p]]
        BY <2>2, <2>3 DEF Reconciled
      <3>3. ledger[f][p].state = "done" /\ PartStep(f, p)
        BY <1>1, <3>1, <3>2
      <3> QED BY <1>2, <3>3 DEF PartStep, Pending
    <2> QED BY <2>1, <2>2, <2>3 DEF Reconciled
  <1>3. CASE upload[f] # "completing"
    <2>1. Claims(f)
      BY <1>1, <1>3 DEF RowStep, StaysPut, Opens, Cleans, Commits, Retires,
         Reclaimed, Reopens, Purges, Forgets, Pending
    <2>2. Reconciled(f, claim'[f])
      BY <2>1 DEF Claims, ClaimsPut, ClaimsParts, Kinds, At
    <2>3. ASSUME NEW p \in Parts PROVE ledger'[f][p] = ledger[f][p]
      BY <1>1, <1>3 DEF PartStep
    <2>4. \A p \in DOMAIN claim'[f] : p \in Parts
      BY <2>2 DEF Reconciled, Lists
    <2> QED BY <2>2, <2>3, <2>4 DEF Reconciled
  <1> QED BY <1>2, <1>3

(* The inductive invariant of the rows and the ledger. *)
LedgerInv ==
  /\ TypeOK /\ Live /\ Fresh /\ Kinds
  /\ PartsClaimed /\ PartWritesExclusive /\ ClaimMatchesLedger

LEMMA LedgerInductive ==
  /\ Init => LedgerInv
  /\ LedgerInv /\ [Next]_vars => LedgerInv'
  <1>1. ASSUME Init PROVE LedgerInv
    <2>1. TypeOK
      BY <1>1, InitTyped
    <2>2. \A f \in Files : f # NoFile
      BY ConstantsAssumption
    <2>3. Live /\ Fresh
      BY <1>1, <2>2 DEF Init, Live, Fresh, Unborn, Idle, Asleep
    <2>4. Kinds /\ PartsClaimed /\ PartWritesExclusive
      BY <1>1 DEF Init, Kinds, PartsClaimed, PartWritesExclusive, Idle, Asleep, MultipartOps
    <2>5. ClaimMatchesLedger
      BY <1>1, ConstantsAssumption DEF Init, ClaimMatchesLedger
    <2> QED BY <2>1, <2>3, <2>4, <2>5 DEF LedgerInv
  <1>2. ASSUME LedgerInv, [Next]_vars PROVE LedgerInv'
    <2>1. StepMoves /\ TypeOK'
      BY <1>2, EveryStep DEF LedgerInv, StepMoves
    <2> QED BY <1>2, <2>1, LiveStep, FreshStep, KindsStep, PartsClaimedStep, ExclusiveStep,
               ClaimMatchesStep DEF LedgerInv
  <1> QED BY <1>1, <1>2

LEMMA LedgerHolds == Spec => []LedgerInv
  BY LedgerInductive, PTL DEF Spec

(* Of two requests for one part of one upload only one ever writes. *)
THEOREM PartsExclusive == Spec => []PartWritesExclusive
  BY LedgerHolds, PTL DEF LedgerInv

(* A completion sends the provider the parts it has verified on the ledger,   *)
(* whatever part requests finish or are cancelled meanwhile.                  *)
THEOREM ClaimsMatch == Spec => []ClaimMatchesLedger
  BY LedgerHolds, PTL DEF LedgerInv

-----------------------------------------------------------------------------
(* The object of a single PUT is written by one request only: nothing before  *)
(* its completion is claimed, then the content the claim has recorded.        *)
ContentOf(f) == IF upload[f] = "completing" THEN claim[f] ELSE etag[f]
Decided(f)   == Pending(f, "completing") \/ file[f] = "active"

Unwritten(f) ==
  /\ object[f] = Nothing
  /\ \A c \in late : ~On(c, "put", f)
  /\ \A r \in Requests : On(req[r], "put", f) => req[r].at = "spooling"

WritesOnly(f, b) ==
  /\ object[f] \in {Nothing, b}
  /\ \A c \in late : On(c, "put", f) => c.body = b
  /\ \A r \in Requests : On(req[r], "put", f) => req[r].at # "spooling" /\ req[r].body = b

PutsAlone ==
  \A r, s \in Requests :
    r # s /\ req[r].op = "put" /\ req[s].op = "put" => req[r].file # req[s].file

SinglePutOnce ==
  /\ PutsAlone
  /\ \A f \in Files \ Multiparts :
       /\ Pending(f, "open") => Unwritten(f)
       /\ Decided(f) => WritesOnly(f, ContentOf(f))

LEMMA PutsAloneStep ==
  ASSUME Fresh, PutsAlone, StepMoves
  PROVE  PutsAlone'
  <1>0. TypeOK
    BY DEF StepMoves
  <1>1. SUFFICES ASSUME NEW r \in Requests, NEW s \in Requests, r # s,
                        req'[r].op = "put", req'[s].op = "put", req'[r].file = req'[s].file
                 PROVE  FALSE
    BY DEF PutsAlone
  <1>2. req'[r] = req[r] \/ req'[s] = req[s]
    BY <1>1 DEF OthersWait, StepMoves
  <1>3. ASSUME NEW x \in Requests, req'[x].op = "put"
        PROVE  \/ req[x].op = "put" /\ req'[x].file = req[x].file
               \/ req'[x].file \in Files /\ file[req'[x].file] = "none"
    BY <1>0, <1>3, AtWork DEF StepMoves, ReqStep, Proceeds, TakesUp, At
  <1>4. ASSUME NEW x \in Requests, NEW y \in Requests, x # y, req'[x] = req[x],
               req'[x].op = "put", req'[y].op = "put", req'[x].file = req'[y].file
        PROVE  FALSE
    BY <1>3, <1>4 DEF PutsAlone, Fresh, Unborn
  <1> QED BY <1>1, <1>2, <1>4

(* What the provider holds of a single PUT after a step.                      *)
LEMMA SinglePutMoves ==
  ASSUME Kinds, DeletesOnlyCondemned, StepMoves, NEW f \in Files \ Multiparts, ~Condemned(f)
  PROVE  \/ object'[f] = object[f]
         \/ \E c : InFlight(c) /\ On(c, "put", f) /\ object'[f] = c.body
  <1>0. TypeOK /\ ProviderStep(f)
    BY DEF StepMoves
  <1>1. ASSUME NEW c \in CallStates, InFlight(c), c.file = f, Moves(c, f)
        PROVE  c.op = "put" \/ object'[f] = object[f]
    <2>1. c.op \notin {"cleanup", "remove"}
      <3>1. InFlight(c) => \/ c \in late
                           \/ \E r \in Requests : /\ req[r].at = "calling" /\ c.op = req[r].op
                                                  /\ c.file = req[r].file
                           \/ \E w \in Workers : worker[w].at = "sweeping" /\ c.file = worker[w].file
        BY InFlightOn
      <3>2. \A r \in Requests : req[r].op # "remove"
        BY <1>0 DEF TypeOK, RequestStates, Idle
      <3> QED BY <1>1, <3>1, <3>2 DEF DeletesOnlyCondemned, At
    <2>2. c.op # "complete"
      BY <1>0, <1>1, InFlightKinds DEF MultipartOps
    <2> QED BY <1>1, <2>1, <2>2 DEF Moves
  <1> QED BY <1>0, <1>1 DEF ProviderStep, On, Moves

(* A put in flight comes from a put request.                                  *)
LEMMA PutInFlight ==
  ASSUME TypeOK, NEW f, NEW c, InFlight(c), On(c, "put", f)
  PROVE  \/ c \in late
         \/ \E r \in Requests : On(req[r], "put", f) /\ req[r].at = "calling" /\ c.body = req[r].body
  <1>1. \A w \in Workers : worker[w].at = "sweeping" => worker[w].job \in {"cleanup", "remove"}
    BY DEF TypeOK, WorkerStates, Asleep
  <1> QED BY <1>1, InFlightOn DEF On

LEMMA UnwrittenStep ==
  ASSUME Kinds, DeletesOnlyCondemned, StepMoves, NEW f \in Files \ Multiparts,
         ~Condemned(f), Unwritten(f)
  PROVE  /\ object'[f] = Nothing
         /\ \A c \in late' : ~On(c, "put", f)
         /\ Pending(f, "open")' => Unwritten(f)'
  <1>0. TypeOK
    BY DEF StepMoves
  <1>1. \A c : InFlight(c) => ~On(c, "put", f)
    BY <1>0, PutInFlight DEF Unwritten
  <1>2. object'[f] = Nothing
    BY <1>1, SinglePutMoves DEF Unwritten
  <1>3. \A c \in late' : ~On(c, "put", f)
    BY <1>1 DEF StepMoves
  <1>4. ASSUME Pending(f, "open")', NEW r \in Requests, On(req'[r], "put", f)
        PROVE  req'[r].at = "spooling"
    <2>1. ReqStep(r) /\ (On(req[r], "put", f) => req[r].at = "spooling")
      BY DEF StepMoves, Unwritten
    <2>2. CASE req'[r] = Idle
      BY <1>4, <2>2 DEF Idle, On
    <2>3. CASE TakesUp(r)
      BY <1>4, <2>3 DEF TakesUp, At, On
    <2>4. ~(Proceeds(r) /\ Pending(req[r].file, "completing")')
      BY <1>4 DEF On, Pending
    <2>5. CASE Proceeds(r) /\ req[r].at # "spooling"
      BY <1>4, <2>1, <2>5 DEF Proceeds, On
    <2>6. CASE req'[r] = req[r]
      BY <1>4, <2>1, <2>6
    <2> QED BY <2>1, <2>2, <2>3, <2>4, <2>5, <2>6 DEF ReqStep, At
  <1> QED BY <1>2, <1>3, <1>4 DEF Unwritten

LEMMA WritesOnlyStep ==
  ASSUME Kinds, DeletesOnlyCondemned, StepMoves, NEW f \in Files \ Multiparts, NEW b,
         ~Condemned(f), file[f] # "none", WritesOnly(f, b)
  PROVE  WritesOnly(f, b)'
  <1>0. TypeOK
    BY DEF StepMoves
  <1>1. \A c : InFlight(c) /\ On(c, "put", f) => c.body = b
    BY <1>0, PutInFlight DEF WritesOnly
  <1>2. object'[f] \in {Nothing, b}
    BY <1>1, SinglePutMoves DEF WritesOnly
  <1>3. \A c \in late' : On(c, "put", f) => c.body = b
    BY <1>1 DEF StepMoves
  <1>4. ASSUME NEW r \in Requests, On(req'[r], "put", f)
        PROVE  req'[r].at # "spooling" /\ req'[r].body = b
    <2>1. ReqStep(r) /\ (On(req[r], "put", f) => req[r].at # "spooling" /\ req[r].body = b)
      BY DEF StepMoves, WritesOnly
    <2>2. CASE req'[r] = Idle
      BY <1>4, <2>2 DEF Idle, On
    <2>3. CASE TakesUp(r)
      BY <1>4, <2>3 DEF TakesUp, At, On
    <2> QED BY <1>4, <2>1, <2>2, <2>3 DEF ReqStep, Proceeds, On, At
  <1> QED BY <1>2, <1>3, <1>4 DEF WritesOnly

(* The claim decides the content. *)
LEMMA ClaimDecides ==
  ASSUME Kinds, DeletesOnlyCondemned, PutsAlone, StepMoves, NEW f \in Files \ Multiparts,
         Unwritten(f), Claims(f), NEW b, b = claim'[f]
  PROVE  WritesOnly(f, b)'
  <1>0. TypeOK /\ ~Condemned(f)
    BY DEF StepMoves, Claims, Condemned, Pending
  <1>1. object'[f] = Nothing /\ \A c \in late' : ~On(c, "put", f)
    BY <1>0, UnwrittenStep
  <1>2. PICK r \in Requests :
          At(r, "spooling", {"put"}) /\ req[r].file = f /\ claim'[f] = req[r].body /\ Move(r, "calling")
    BY DEF Claims, ClaimsPut, ClaimsParts, Kinds
  <1>3. Proceeds(r) /\ req'[r].at = "calling" /\ OthersWait(r)
    BY <1>0, <1>2, ReqMoves
  <1>4. \A s \in Requests \ {r} : ~On(req'[s], "put", f)
    BY <1>2, <1>3 DEF OthersWait, PutsAlone, On, At
  <1>5. req'[r].body = b
    BY <1>2, <1>3 DEF Proceeds
  <1> QED BY <1>1, <1>3, <1>4, <1>5 DEF WritesOnly

LEMMA SinglePutStep ==
  ASSUME Live, Fresh, Kinds, DeletesOnlyCondemned, SinglePutOnce, StepMoves
  PROVE  SinglePutOnce'
  <1>1. PutsAlone'
    BY PutsAloneStep DEF SinglePutOnce
  <1>2. ASSUME NEW f \in Files \ Multiparts, Pending(f, "open")' PROVE Unwritten(f)'
    <2>1. RowStep(f)
      BY DEF StepMoves
    <2>2. ~Reopens(f)
      BY DEF Reopens, Kinds
    <2>3. file[f] = "none" \/ Pending(f, "open")
      BY <1>2, <2>1, <2>2 DEF RowStep, StaysPut, Opens, Claims, Cleans, Commits, Retires,
         Reclaimed, Purges, Forgets, Pending
    <2>4. Unwritten(f) /\ ~Condemned(f)
      BY <2>3 DEF SinglePutOnce, Fresh, Unborn, Unwritten, On, Condemned, Pending
    <2> QED BY <1>2, <2>4, UnwrittenStep
  <1>3. ASSUME NEW f \in Files \ Multiparts, Decided(f)' PROVE WritesOnly(f, ContentOf(f))'
    <2>1. RowStep(f) /\ (upload[f] # "none" => file[f] = "pending")
      BY DEF StepMoves, Live
    <2>2. CASE Claims(f)
      <3>1. Pending(f, "open")
        BY <2>2 DEF Claims
      <3>2. Unwritten(f)
        BY <3>1 DEF SinglePutOnce
      <3>3. PICK b : b = claim'[f]
        OBVIOUS
      <3>4. ContentOf(f)' = b
        BY <2>2, <3>3 DEF Claims, ContentOf, Pending
      <3>5. WritesOnly(f, b)'
        BY <2>2, <3>2, <3>3, ClaimDecides DEF SinglePutOnce
      <3> QED BY <3>4, <3>5
    <2>3. CASE ~Claims(f)
      <3>1. Decided(f) /\ ContentOf(f)' = ContentOf(f)
        BY <1>3, <2>1, <2>3 DEF RowStep, StaysPut, Opens, Cleans, Commits, Retires,
           Reclaimed, Reopens, Purges, Forgets, Pending, Decided, ContentOf
      <3>2. PICK b : b = ContentOf(f)
        OBVIOUS
      <3>3. WritesOnly(f, b) /\ ~Condemned(f) /\ file[f] # "none"
        BY <3>1, <3>2 DEF SinglePutOnce, Decided, Condemned, Pending
      <3>4. WritesOnly(f, b)'
        BY <3>3, WritesOnlyStep
      <3> QED BY <3>1, <3>2, <3>4
    <2> QED BY <2>2, <2>3
  <1> QED BY <1>1, <1>2, <1>3 DEF SinglePutOnce

(* The size and ETag of an active single PUT are those of its object, however *)
(* often the SDK has sent it and whoever has finalized it.                    *)
THEOREM SinglePutsFaithful == Spec => []SinglePutIsFaithful
  <1>1. Init => SinglePutOnce
    BY DEF Init, SinglePutOnce, PutsAlone, Unwritten, WritesOnly, Decided, Pending, Idle
  <1>2. LedgerInv /\ DeletesOnlyCondemned /\ SinglePutOnce /\ [Next]_vars => SinglePutOnce'
    BY EveryStep, SinglePutStep DEF LedgerInv
  <1>3. LedgerInv /\ SinglePutOnce /\ ActiveIsStored => SinglePutIsFaithful
    <2> SUFFICES ASSUME LedgerInv, SinglePutOnce, ActiveIsStored,
                        NEW f \in Files \ Multiparts, file[f] = "active"
                 PROVE  object[f] = etag[f]
      BY DEF SinglePutIsFaithful
    <2>1. upload[f] # "completing" /\ object[f] # Nothing
      BY DEF LedgerInv, Live, ActiveIsStored
    <2>2. object[f] \in {Nothing, ContentOf(f)}
      BY DEF SinglePutOnce, Decided, WritesOnly
    <2> QED BY <2>1, <2>2 DEF ContentOf
  <1> QED BY <1>1, <1>2, <1>3, LedgerHolds, DeletionsOfCondemned, ActiveStored, PTL DEF Spec

-----------------------------------------------------------------------------
(* A multipart object comes from one vendor session, and none of its calls    *)
(* can reach a file whose location has been released.                         *)
NoCompletion(f) ==
  /\ \A c \in late : ~On(c, "complete", f)
  /\ \A r \in Requests : req[r].at = "calling" => ~On(req[r], "complete", f)

Emptied(f) ==
  /\ Condemned(f) /\ object[f] = Nothing
  /\ session[f] = "closed" \/ NoCompletion(f)

SessionKept(f) ==
  /\ object[f] # Nothing => session[f] = "closed"
  /\ file[f] \in {"active", "deleted"} => session[f] = "closed"
  /\ handle[f] => session[f] # "none"
  /\ session[f] = "none" => NoCompletion(f)
SessionsKept == \A f \in Multiparts : SessionKept(f)

Opening(r) ==
  /\ object[req[r].file] = Nothing /\ ~handle[req[r].file] /\ NoCompletion(req[r].file)
  /\ req[r].at # "calling" => session[req[r].file] # "none"
CreatesAlone ==
  /\ \A r, s \in Requests :
       r # s /\ req[r].op = "create" /\ req[s].op = "create" => req[r].file # req[s].file
  /\ \A r \in Requests : req[r].op = "create" => Opening(r)

Swept ==
  /\ \A r \in Requests : At(r, "answered", {"cleanup"}) => Emptied(req[r].file)
  /\ \A w \in Workers :
       worker[w].at = "swept" /\ worker[w].file \in Multiparts => Emptied(worker[w].file)
  /\ \A w \in Workers :
       worker[w].at = "sweeping" /\ worker[w].job = "remove" /\ worker[w].file \in Multiparts
         => session[worker[w].file] = "closed"
  /\ \A f \in Multiparts : file[f] # "none" /\ ~located[f] => Emptied(f)

(* A completion call in flight comes from a completion request.               *)
LEMMA CompletionInFlight ==
  ASSUME TypeOK, NEW f, NEW c, InFlight(c), On(c, "complete", f)
  PROVE  ~NoCompletion(f)
  <1>1. \A w \in Workers : worker[w].at = "sweeping" => worker[w].job \in {"cleanup", "remove"}
    BY DEF TypeOK, WorkerStates, Asleep
  <1> QED BY <1>1, InFlightOn DEF On, NoCompletion

(* No step adds one, but a completion that starts with the vendor's handle.   *)
LEMMA NoCompletionKept ==
  ASSUME StepMoves, NEW f \in Files, NoCompletion(f)
  PROVE  NoCompletion(f)' \/ (handle[f] /\ Pending(f, "completing")')
  <1>0. TypeOK
    BY DEF StepMoves
  <1>1. \A c \in late' : ~On(c, "complete", f)
    BY <1>0, CompletionInFlight DEF StepMoves
  <1>2. ASSUME NEW r \in Requests, req'[r].at = "calling", On(req'[r], "complete", f)
        PROVE  handle[f] /\ Pending(f, "completing")'
    <2>1. ReqStep(r) /\ ~(req[r].at = "calling" /\ On(req[r], "complete", f))
      BY DEF StepMoves, NoCompletion
    <2>2. CASE TakesUp(r)
      BY <1>2, <2>2 DEF TakesUp, At, On
    <2>3. CASE req'[r] = Idle
      BY <1>2, <2>3 DEF Idle, On
    <2>4. ~(Proceeds(r) /\ At(r, "spooling", {"put"}))
      BY <1>2 DEF Proceeds, At, On
    <2> QED BY <1>2, <2>1, <2>2, <2>3, <2>4 DEF ReqStep
  <1> QED BY <1>1, <1>2 DEF NoCompletion

(* A closed session stays closed, and an opened one is not forgotten.         *)
LEMMA SessionMoves ==
  ASSUME StepMoves, NEW f \in Files
  PROVE  /\ session[f] = "closed" => session'[f] = "closed"
         /\ session[f] # "none" => session'[f] # "none"
  <1>1. ProviderStep(f)
    BY DEF StepMoves
  <1> QED BY <1>1 DEF ProviderStep, Moves

(* An empty object stays empty unless a completion reaches an open session.   *)
LEMMA EmptyMoves ==
  ASSUME Kinds, StepMoves, NEW f \in Multiparts, object[f] = Nothing,
         session[f] = "closed" \/ NoCompletion(f)
  PROVE  object'[f] = Nothing
  <1>0. TypeOK /\ f \in Files /\ ProviderStep(f)
    BY ConstantsAssumption DEF StepMoves
  <1>1. \A c : InFlight(c) /\ c.file = f => c.op # "put" /\ (c.op = "complete" => session[f] = "closed")
    BY <1>0, InFlightKinds, CompletionInFlight DEF On
  <1> QED BY <1>0, <1>1 DEF ProviderStep, Moves

LEMMA EmptiedStep ==
  ASSUME Kinds, StepMoves, NEW f \in Multiparts, Emptied(f)
  PROVE  Emptied(f)'
  <1>0. f \in Files
    BY ConstantsAssumption
  <1>1. Condemned(f)' /\ object'[f] = Nothing
    BY <1>0, CondemnedMove, EmptyMoves DEF Emptied
  <1>2. ~Pending(f, "completing")'
    BY <1>1 DEF Condemned, Pending
  <1>3. session'[f] = "closed" \/ NoCompletion(f)'
    BY <1>0, <1>2, SessionMoves, NoCompletionKept DEF Emptied
  <1> QED BY <1>1, <1>3 DEF Emptied

LEMMA SessionsStep ==
  ASSUME Live, Kinds, SeenStored, SessionsKept, CreatesAlone, StepMoves
  PROVE  SessionsKept'
  <1> SUFFICES ASSUME NEW f \in Multiparts PROVE SessionKept(f)'
    BY DEF SessionsKept
  <1>0. TypeOK /\ f \in Files /\ SessionKept(f) /\ session[f] \in {"none", "open", "closed"}
    BY ConstantsAssumption DEF StepMoves, SessionsKept, TypeOK
  <1>1. object'[f] # Nothing => session'[f] = "closed"
    <2>1. ProviderStep(f)
      BY <1>0 DEF StepMoves
    <2>2. \A c : InFlight(c) /\ c.file = f => c.op # "put"
      BY <1>0, InFlightKinds
    <2> QED BY <1>0, <2>1, <2>2 DEF ProviderStep, Moves, SessionKept
  <1>2. file'[f] \in {"active", "deleted"} => session'[f] = "closed"
    <2>1. RowStep(f)
      BY <1>0 DEF StepMoves
    <2>2. Commits(f) => session[f] = "closed"
      BY <1>0 DEF Commits, SeenStored, Stored, Condemned, Pending, SessionKept, At
    <2>3. file'[f] \in {"active", "deleted"} => file[f] \in {"active", "deleted"} \/ Commits(f)
      BY <2>1 DEF RowStep, StaysPut, Opens, Claims, Cleans, Retires,
         Reclaimed, Reopens, Purges, Forgets, Pending
    <2> QED BY <1>0, <2>2, <2>3, SessionMoves DEF SessionKept
  <1>3. handle'[f] => session'[f] # "none"
    <2>1. HandleStep(f)
      BY <1>0 DEF StepMoves
    <2>2. ASSUME NEW r \in Requests, At(r, "answered", {"create"}), req[r].file = f
          PROVE  session[f] # "none"
      BY <2>2 DEF CreatesAlone, Opening, At
    <2> QED BY <1>0, <2>1, <2>2, SessionMoves DEF HandleStep, SessionKept
  <1>4. session'[f] = "none" => NoCompletion(f)'
    <2>1. session'[f] = "none" => session[f] = "none"
      BY <1>0, SessionMoves
    <2>2. session[f] = "none" => NoCompletion(f) /\ ~handle[f]
      BY <1>0 DEF SessionKept
    <2> QED BY <1>0, <2>1, <2>2, NoCompletionKept
  <1> QED BY <1>1, <1>2, <1>3, <1>4 DEF SessionKept

(* The request that opens the session is alone with its file.                 *)
LEMMA CreatesStep ==
  ASSUME Fresh, Kinds, CreatesAlone, StepMoves
  PROVE  CreatesAlone'
  <1>0. TypeOK
    BY DEF StepMoves
  <1>1. ASSUME NEW x \in Requests, req'[x].op = "create"
        PROVE  \/ /\ req[x].op = "create" /\ req'[x].file = req[x].file
                  /\ req'[x] = req[x] \/ Proceeds(x)
               \/ TakesUp(x) /\ req'[x].file \in Files /\ file[req'[x].file] = "none"
    BY <1>0, <1>1, AtWork DEF StepMoves, ReqStep, Proceeds, TakesUp, At
  <1>2. ASSUME NEW r \in Requests, NEW s \in Requests, r # s,
               req'[r].op = "create", req'[s].op = "create"
        PROVE  req'[r].file # req'[s].file
    <2>1. req'[r] = req[r] \/ req'[s] = req[s]
      BY <1>2 DEF OthersWait, StepMoves
    <2>2. ASSUME NEW x \in Requests, NEW y \in Requests, x # y, req'[x] = req[x],
                 req'[x].op = "create", req'[y].op = "create", req'[x].file = req'[y].file
          PROVE  FALSE
      BY <1>1, <2>2 DEF CreatesAlone, Fresh, Unborn
    <2> QED BY <1>2, <2>1, <2>2
  <1>3. ASSUME NEW r \in Requests, req'[r].op = "create" PROVE Opening(r)'
    <2>1. PICK f \in Files :
            /\ req'[r].file = f /\ object[f] = Nothing /\ ~handle[f] /\ NoCompletion(f)
            /\ \A s \in Requests \ {r} : req[s].op = "create" => req[s].file # f
      <3>1. CASE req[r].op = "create" /\ req'[r].file = req[r].file
        BY <1>0, <3>1, AtWork DEF CreatesAlone, Opening
      <3>2. CASE req'[r].file \in Files /\ file[req'[r].file] = "none"
        BY <3>2 DEF Fresh, Unborn, NoCompletion, On
      <3> QED BY <1>1, <1>3, <3>1, <3>2
    <2>2. f \in Multiparts
      <3>1. Kinds'
        BY KindsStep
      <3> QED BY <1>3, <2>1, <3>1 DEF Kinds, MultipartOps
    <2>3. object'[f] = Nothing
      BY <2>1, <2>2, EmptyMoves
    <2>4. NoCompletion(f)'
      BY <2>1, NoCompletionKept
    <2>5. ~handle'[f]
      <3>1. HandleStep(f)
        BY DEF StepMoves
      <3>2. ASSUME NEW s \in Requests, At(s, "answered", {"create"}), req[s].file = f, req'[s] = Idle
            PROVE  FALSE
        BY <1>0, <1>3, <2>1, <3>2, AtWork DEF At
      <3> QED BY <2>1, <3>1, <3>2 DEF HandleStep
    <2>6. req'[r].at # "calling" => session'[f] # "none"
      <3>1. ReqStep(r) /\ session \in [Files -> {"none", "open", "closed"}]
        BY <1>0 DEF StepMoves, TypeOK
      <3>2. CASE req'[r] = req[r] /\ req[r].op = "create"
        BY <2>1, <3>2, SessionMoves DEF CreatesAlone, Opening
      <3>3. CASE TakesUp(r)
        BY <1>3, <3>3 DEF TakesUp, At
      <3>4. CASE Proceeds(r) /\ Apply(Call(req[r], req[r].op))
        <4>1. /\ Call(req[r], req[r].op).op = "create" /\ Call(req[r], req[r].op).file = f
          BY <1>3, <2>1, <3>4 DEF Proceeds, Call
        <4>2. session' = [session EXCEPT ![f] = "open"]
          BY <3>4, <4>1 DEF Apply
        <4> QED BY <3>1, <4>2
      <3>5. CASE Proceeds(r) /\ session' = [session EXCEPT ![req[r].file] = "closed"]
        BY <2>1, <3>1, <3>5 DEF Proceeds
      <3>6. CASE req[r].op = "create" /\ Proceeds(r) /\ At(r, "spooling", {"put"})
        BY <3>6 DEF At
      <3>7. req'[r] # Idle
        BY <1>0, <1>3, AtWork
      <3>8. req[r].op = "create" \/ TakesUp(r)
        BY <1>1, <1>3
      <3> QED BY <3>1, <3>2, <3>3, <3>4, <3>5, <3>6, <3>7, <3>8 DEF ReqStep
    <2> QED BY <2>1, <2>3, <2>4, <2>5, <2>6 DEF Opening, NoCompletion, On
  <1> QED BY <1>2, <1>3 DEF CreatesAlone

(* A cleanup or a removal that the provider has applied leaves nothing.       *)
LEMMA CleanupEmpties ==
  ASSUME Kinds, SessionsKept, StepMoves, NEW f \in Multiparts, Condemned(f), NEW c \in CallStates,
         Apply(c), c.file = f,
         c.op = "cleanup" \/ (c.op = "remove" /\ session[f] = "closed")
  PROVE  Emptied(f)'
  <1>0. TypeOK /\ f \in Files /\ session[f] \in {"none", "open", "closed"} /\ Condemned(f)'
    BY ConstantsAssumption, CondemnedMove DEF StepMoves, TypeOK
  <1>1. object'[f] = Nothing /\ (session[f] = "open" /\ c.op = "cleanup" => session'[f] = "closed")
    BY <1>0 DEF Apply, TypeOK
  <1>2. CASE session[f] = "none"
    <2>1. NoCompletion(f) /\ ~handle[f]
      BY <1>2 DEF SessionsKept, SessionKept
    <2>2. NoCompletion(f)'
      BY <1>0, <2>1, NoCompletionKept
    <2> QED BY <1>0, <1>1, <2>2 DEF Emptied
  <1>3. CASE session[f] # "none"
    <2>1. session'[f] = "closed"
      BY <1>0, <1>1, <1>3, SessionMoves
    <2> QED BY <1>0, <1>1, <2>1 DEF Emptied
  <1> QED BY <1>2, <1>3

LEMMA SweptStep ==
  ASSUME Fresh, Kinds, RowsReady, DeletesOnlyCondemned, SessionsKept, CreatesAlone, Swept, StepMoves
  PROVE  Swept'
  <1>0. TypeOK /\ Multiparts \subseteq Files
    BY ConstantsAssumption DEF StepMoves
  <1>1. ASSUME NEW r \in Requests, At(r, "answered", {"cleanup"})' PROVE Emptied(req[r].file)'
    <2>1. ReqStep(r) /\ req'[r].at = "answered" /\ req'[r].op = "cleanup"
      BY <1>1 DEF StepMoves, At
    <2>2. /\ req[r].op = "cleanup" /\ req'[r].file = req[r].file
          /\ \/ req[r].at = "answered"
             \/ req[r].at = "calling" /\ Apply(Call(req[r], req[r].op))
      BY <1>0, <2>1, AtWork DEF ReqStep, TakesUp, At, Proceeds
    <2>3. PICK f \in Multiparts : f = req[r].file
      BY <2>2 DEF Kinds
    <2>4. Emptied(f)'
      <3>1. CASE req[r].at = "answered"
        BY <2>2, <2>3, <3>1, EmptiedStep DEF Swept, At
      <3>2. CASE req[r].at = "calling" /\ Apply(Call(req[r], req[r].op))
        <4>1. PICK c \in CallStates : c = Call(req[r], req[r].op) /\ Apply(c)
          BY <1>0, <3>2, RequestFields DEF TypeOK
        <4>2. c.op = "cleanup" /\ c.file = f
          BY <2>2, <2>3, <4>1 DEF Call
        <4>3. Condemned(f)
          BY <2>2, <2>3, <3>2 DEF DeletesOnlyCondemned, At
        <4> QED BY <4>1, <4>2, <4>3, CleanupEmpties
      <3> QED BY <2>2, <3>1, <3>2
    <2> QED BY <2>2, <2>3, <2>4 DEF Emptied, Condemned, Pending, NoCompletion, On
  <1>2. ASSUME NEW w \in Workers, worker'[w].at = "swept", worker'[w].file \in Multiparts
        PROVE  Emptied(worker[w].file)'
    <2>1. WorkerStep(w)
      BY DEF StepMoves
    <2>2. PICK f \in Multiparts : f = worker'[w].file
      BY <1>2
    <2>3. /\ worker[w].file = f
          /\ \/ worker[w].at = "swept"
             \/ worker[w].at = "sweeping" /\ Apply(SweepCall(w))
      BY <1>0, <1>2, <2>1, <2>2, AtWork DEF WorkerStep, CompletionAction
    <2>4. Emptied(f)'
      <3>1. CASE worker[w].at = "swept"
        BY <2>3, <3>1, EmptiedStep DEF Swept
      <3>2. CASE worker[w].at = "sweeping" /\ Apply(SweepCall(w))
        <4>1. PICK c \in CallStates : c = SweepCall(w) /\ Apply(c)
          BY <1>0, <3>2, WorkerFields DEF TypeOK, SweepCall
        <4>2. c.op = worker[w].job /\ c.file = f
          BY <2>3, <4>1 DEF SweepCall
        <4>3. Condemned(f) /\ worker[w].job \in {"cleanup", "remove"}
          BY <1>0, <2>3, <3>2 DEF DeletesOnlyCondemned, TypeOK, WorkerStates, Asleep
        <4>4. worker[w].job = "remove" => session[f] = "closed"
          BY <2>3, <3>2 DEF Swept
        <4> QED BY <4>1, <4>2, <4>3, <4>4, CleanupEmpties
      <3> QED BY <2>3, <3>1, <3>2
    <2> QED BY <2>2, <2>4 DEF Emptied, Condemned, Pending, NoCompletion, On
  <1>3. ASSUME NEW w \in Workers, worker'[w].at = "sweeping", worker'[w].job = "remove",
               worker'[w].file \in Multiparts
        PROVE  session'[worker'[w].file] = "closed"
    <2>1. WorkerStep(w)
      BY DEF StepMoves
    <2>2. session[worker'[w].file] = "closed"
      <3>1. CASE worker'[w] = worker[w]
        BY <1>3, <3>1 DEF Swept
      <3>2. CASE file[worker'[w].file] = "deleted"
        BY <1>3, <3>2 DEF SessionsKept, SessionKept
      <3> QED BY <1>0, <1>3, <2>1, <3>1, <3>2, AtWork DEF WorkerStep, CompletionAction
    <2> QED BY <1>0, <1>3, <2>2, SessionMoves
  <1>4. ASSUME NEW f \in Multiparts, file'[f] # "none", ~located'[f] PROVE Emptied(f)'
    <2>1. RowStep(f) /\ f \in Files
      BY <1>0 DEF StepMoves
    <2>2. file[f] \in {"pending", "active"} => located[f]
      BY <2>1 DEF RowsReady
    <2>3. CASE Emptied(f)
      BY <2>3, EmptiedStep
    <2>4. CASE file[f] # "none" /\ ~located[f]
      BY <2>3, <2>4 DEF Swept
    <2>5. CASE Reclaimed(f)
      <3>1. CASE Pending(f, "cleaning")
        BY <2>3, <2>5, <3>1 DEF Reclaimed, Swept, Pending, At
      <3>2. ASSUME NEW r \in Requests, On(req[r], "create", f) PROVE Emptied(f)'
        <4>1. object[f] = Nothing /\ ~handle[f] /\ NoCompletion(f)
          BY <3>2 DEF CreatesAlone, Opening, On
        <4>2. object'[f] = Nothing /\ NoCompletion(f)'
          BY <2>1, <4>1, EmptyMoves, NoCompletionKept
        <4>3. Condemned(f)'
          BY <2>5 DEF Reclaimed, Condemned
        <4> QED BY <4>2, <4>3 DEF Emptied
      <3> QED BY <2>5, <3>1, <3>2 DEF Reclaimed
    <2>6. CASE Purges(f)
      BY <2>3, <2>6 DEF Purges, Swept
    <2> QED BY <1>4, <2>1, <2>2, <2>4, <2>5, <2>6 DEF RowStep, StaysPut, Opens, Claims, Cleans,
               Commits, Retires, Reopens, Forgets, Pending
  <1> QED BY <1>1, <1>2, <1>3, <1>4 DEF Swept

(* The inductive invariant of the vendor sessions. *)
SessionInv == SessionsKept /\ CreatesAlone /\ Swept

LEMMA SessionInductive ==
  /\ Init => SessionInv
  /\ LedgerInv /\ StorageInv /\ SessionInv /\ [Next]_vars => SessionInv'
  <1>1. ASSUME Init PROVE SessionInv
    <2>1. Multiparts \subseteq Files
      BY ConstantsAssumption
    <2>2. SessionsKept
      BY <1>1, <2>1 DEF Init, SessionsKept, SessionKept, NoCompletion, Idle
    <2>3. CreatesAlone /\ Swept
      BY <1>1, <2>1 DEF Init, CreatesAlone, Swept, Idle, Asleep, At
    <2> QED BY <2>2, <2>3 DEF SessionInv
  <1>2. ASSUME LedgerInv, StorageInv, SessionInv, [Next]_vars PROVE SessionInv'
    BY <1>2, EveryStep, SessionsStep, CreatesStep, SweptStep DEF LedgerInv, StorageInv, SessionInv
  <1> QED BY <1>1, <1>2

(* A multipart file whose location is released has no object, and no call     *)
(* that is still in flight will give it one.                                  *)
THEOREM ReleasedMultipartsEmpty == Spec => []ReleasedMultipartIsEmpty
  <1>1. SessionInv => ReleasedMultipartIsEmpty
    BY DEF SessionInv, Swept, Emptied, ReleasedMultipartIsEmpty
  <1> QED BY <1>1, SessionInductive, LedgerHolds, StorageHolds, PTL DEF Spec
=============================================================================
