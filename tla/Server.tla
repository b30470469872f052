--------------------------------- MODULE Server ---------------------------------
(* One process: its uploads and its reconciler share the connection pool, and   *)
(* the row of a file that a relayed PUT has locked is one the reconciler waits  *)
(* for.  Other requests hold a connection for a statement or two and are left   *)
(* out.                                                                         *)
EXTENDS Spool

CONSTANTS Connections, Jobs, JobOf, Batch, MaxCrashes

VARIABLES remaining, worker, queue, due, crashes

W == INSTANCE Schedule WITH left <- Connections - Cardinality(Connected), locked <- Locked

reconciler == <<remaining, worker, queue, due, crashes>>

vars == <<slots, bytes, claims, claimed, transfer, disk,
          remaining, worker, queue, due, crashes>>

ServerInit == Init /\ W!Init

\* The end of the process returns every permit, connection and lock; files are
\* left to the local sweep, which spares the young.
Restart ==
  /\ W!Crash
  /\ slots' = SlotLimit /\ bytes' = Capacity /\ claims' = ClaimLimit
  /\ transfer' = [t \in Transfers |-> Idle]
  /\ disk' = [t \in Transfers |-> 0]
  /\ UNCHANGED claimed

Upload(t) ==
  /\ Proceed(t) \/ (LockFile(t) /\ W!Free)
  /\ UNCHANGED reconciler

Next ==
  \/ \E t \in Transfers : Request(t) /\ UNCHANGED reconciler
  \/ \E t \in Transfers : Upload(t)
  \/ W!Work /\ UNCHANGED spool
  \/ \E c \in Candidates : W!RetryDue(c) /\ UNCHANGED spool
  \/ Restart

\* Ticks go on; a receive and a provider call end by their deadlines; time
\* passes.  Clients need not come, and those that come need not be served.
Fairness ==
  /\ WF_vars(W!Work /\ UNCHANGED spool)
  /\ \A t \in Transfers : WF_vars(Upload(t))
  /\ \A c \in Candidates : WF_vars(W!RetryDue(c) /\ UNCHANGED spool)

Spec == ServerInit /\ [][Next]_vars /\ Fairness

-------------------------------------------------------------------------------
\* Schedule's liveness, with the connections and the locks the uploads hold.
EveryJobRuns        == W!EveryJobRuns
EveryCandidateTried == W!EveryCandidateTried
===============================================================================
