-------------------------------- MODULE Schedule --------------------------------
(* The object reconciler of one process: passes, the advisory lock, the turns   *)
(* of the job kinds, and the candidates of a job.  Time is what a pass spends   *)
(* waiting: statements that wait for nothing take none of it, so a pass is cut  *)
(* only while it waits for a connection, a row lock or the provider.  What      *)
(* other code holds is input: connections it leaves, and rows it has locked.    *)
EXTENDS Naturals, Sequences, SequencesExt

CONSTANTS
  Jobs,        \* JOBS, in order
  Candidates,
  JobOf,       \* the job whose scan finds a candidate
  Batch,       \* BATCH_LIMIT, 20 in the code
  MaxCrashes,  \* bound: restarts of the process
  Nothing

VARIABLES
  left,       \* connections that nothing but the reconciler holds
  locked,     \* candidates whose row somebody else has locked
  remaining,  \* Schedule.remaining
  worker,
  queue,      \* candidates by recovery_after and id
  due,        \* those whose recovery_after has passed
  crashes

reconciler == <<remaining, worker, queue, due, crashes>>

Asleep == [pc |-> "asleep", runs |-> 0, job |-> Nothing, batch |-> <<>>]

Init ==
  /\ remaining = <<>>
  /\ worker = Asleep
  /\ queue = SetToSeq(Candidates)
  /\ due = Candidates
  /\ crashes = 0

-------------------------------------------------------------------------------
\* with_advisory_lock keeps its connection while the job takes others.
Held ==
  IF worker.pc \in {"asleep", "connecting"} THEN 0
  ELSE IF worker.pc = "claiming" THEN 2 ELSE 1

Free == left > Held

Step(w) == worker' = w

\* A tick, and the local spool sweep, which takes at most half of the pass.
Tick ==
  /\ worker.pc = "asleep"
  /\ Step([Asleep EXCEPT !.pc = "connecting"])
  /\ UNCHANGED <<remaining, queue, due, crashes>>

TakeLock ==
  /\ worker.pc = "connecting" /\ Free
  /\ Step([worker EXCEPT !.pc = "locked"])
  /\ UNCHANGED <<remaining, queue, due, crashes>>

Turn == IF remaining = <<>> THEN Jobs ELSE remaining

(* Mutant: the job keeps its turn until it has returned. *)
StartJobKept ==
  /\ worker.pc = "locked" /\ worker.runs < Len(Jobs)
  /\ remaining' = Turn
  /\ Step([worker EXCEPT !.pc = "scanning", !.runs = @ + 1, !.job = Head(Turn)])
  /\ UNCHANGED <<queue, due, crashes>>

\* run: the cursor moves before the job is awaited
StartJob ==
  /\ worker.pc = "locked" /\ worker.runs < Len(Jobs)
  /\ remaining' = Tail(Turn)
  /\ Step([worker EXCEPT !.pc = "scanning", !.runs = @ + 1, !.job = Head(Turn)])
  /\ UNCHANGED <<queue, due, crashes>>

EndPass ==
  /\ worker.pc = "locked" /\ worker.runs = Len(Jobs)
  /\ Step(Asleep)
  /\ UNCHANGED <<remaining, queue, due, crashes>>

\* the scan: ORDER BY recovery_after, id LIMIT
Found ==
  LET ready == SelectSeq(queue, LAMBDA c : c \in due /\ JobOf[c] = worker.job)
  IN  IF Len(ready) <= Batch THEN ready ELSE SubSeq(ready, 1, Batch)

Scan ==
  /\ worker.pc = "scanning" /\ Free
  /\ Step([worker EXCEPT !.pc = "batch", !.batch = Found])
  /\ UNCHANGED <<remaining, queue, due, crashes>>

EndJob ==
  /\ worker.pc = "batch" /\ worker.batch = <<>>
  /\ Step([worker EXCEPT !.pc = "locked", !.job = Nothing])
  /\ UNCHANGED <<remaining, queue, due, crashes>>

BeginClaim ==
  /\ worker.pc = "batch" /\ worker.batch # <<>> /\ Free
  /\ Step([worker EXCEPT !.pc = "claiming"])
  /\ UNCHANGED <<remaining, queue, due, crashes>>

(* Mutant: the retry is not recorded. *)
ClaimUnrecorded ==
  LET c == Head(worker.batch) IN
  /\ worker.pc = "claiming" /\ c \notin locked
  /\ Step([worker EXCEPT !.pc = "trying"])
  /\ UNCHANGED <<remaining, queue, due, crashes>>

\* claim_recovery, claim: the row lock, then the retry time, before any I/O
Claim ==
  LET c == Head(worker.batch) IN
  /\ worker.pc = "claiming" /\ c \notin locked
  /\ queue' = Append(Remove(queue, c), c)
  /\ due' = due \ {c}
  /\ Step([worker EXCEPT !.pc = "trying"])
  /\ UNCHANGED <<remaining, crashes>>

\* The attempt is refused, fails, or has no answer for the ten seconds of
\* recovery_io,
Fails ==
  /\ worker.pc = "trying"
  /\ Step([worker EXCEPT !.pc = "batch", !.batch = Tail(@)])
  /\ UNCHANGED <<remaining, queue, due, crashes>>

\* or succeeds, and its transaction gets the row.
Succeeds ==
  LET c == Head(worker.batch) IN
  /\ worker.pc = "trying" /\ Free /\ c \notin locked
  /\ queue' = Remove(queue, c)
  /\ due' = due \ {c}
  /\ Step([worker EXCEPT !.pc = "batch", !.batch = Tail(@)])
  /\ UNCHANGED <<remaining, crashes>>

Waiting ==
  \/ (worker.pc \in {"connecting", "scanning", "batch"} /\ ~Free)
  \/ (worker.pc = "claiming" /\ Head(worker.batch) \in locked)
  \/ worker.pc = "trying"

\* bounded_pass drops the pass, its transactions and its connections
PassTimeout ==
  /\ Waiting
  /\ Step(Asleep)
  /\ UNCHANGED <<remaining, queue, due, crashes>>

RetryDue(c) ==
  /\ c \in ToSet(queue) \ due
  /\ due' = due \cup {c}
  /\ UNCHANGED <<remaining, worker, queue, crashes>>

\* The cursor is memory; the retry times are rows.
Crash ==
  /\ crashes < MaxCrashes
  /\ crashes' = crashes + 1
  /\ Step(Asleep) /\ remaining' = <<>>
  /\ UNCHANGED <<queue, due>>

Work ==
  \/ Tick \/ TakeLock \/ StartJob \/ EndPass
  \/ Scan \/ EndJob \/ BeginClaim \/ Claim
  \/ Fails \/ Succeeds \/ PassTimeout

-------------------------------------------------------------------------------
\* Schedule::run: whatever hangs, every kind of job is started again and again.
EveryJobRuns == \A j \in ToSet(Jobs) : []<>(worker.pc = "scanning" /\ worker.job = j)

\* Twenty candidates a scan, in the order of their retry times, which are
\* written before the attempt: a candidate is tried again and again until it is
\* settled, however many before it fail, hang or are cut off.
EveryCandidateTried ==
  \A c \in Candidates :
    []<>(\/ c \notin ToSet(queue)
         \/ worker.pc = "trying" /\ Head(worker.batch) = c)
===============================================================================
