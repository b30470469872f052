--------------------------------- MODULE Spool ---------------------------------
(* Transfers through the process: an upload that Grove receives itself is      *)
(* admitted by two semaphores (spool.rs), buffered in a temporary file and     *)
(* sent on.  A relayed single PUT also holds one of a few claims and, for its  *)
(* whole length, the row lock of its file and the connection that has it       *)
(* (lease_relay.rs, relay_upload.rs); the others hold neither (kind "part":    *)
(* a part, or a PUT of the S3 surface).  A transfer may fail, be refused or be *)
(* cut off at every await; its guards are dropped in the order of the code.    *)
EXTENDS Naturals, FiniteSets

CONSTANTS
  Transfers,   \* bound: uploads at one time
  Candidates,  \* files a relayed single PUT may be for
  Requests,    \* the uploads that come: a file or Nothing, and a declared size
  Unit,        \* BUDGET_UNIT
  Budget,      \* max_bytes
  SlotLimit,   \* SPOOL_CONCURRENCY_LIMIT, 16 in the code
  ClaimLimit,  \* SINGLE_UPLOAD_CLAIM_LIMIT, 4 in the code
  MaxClaims,   \* bound: relayed PUTs that get a claim
  Nothing

ASSUME SpoolAssumption ==
  /\ Requests \subseteq [file : Candidates \cup {Nothing}, size : Nat] /\ Unit \in Nat \ {0} /\ Budget \in Nat
  /\ SlotLimit \in Nat /\ ClaimLimit \in Nat /\ MaxClaims \in Nat
  /\ Nothing \notin Candidates

VARIABLES
  slots, bytes,   \* permits left in the two semaphores of SpoolBudget
  claims,         \* permits left in single_upload_claims
  claimed,        \* claims given so far
  transfer,       \* one record per request
  disk            \* what its temporary file holds

spool == <<slots, bytes, claims, claimed, transfer, disk>>

Idle == [pc |-> "idle", file |-> Nothing, size |-> 0]

Capacity == Budget \div Unit

(* Mutant: the reservation is rounded like the capacity. *)
UnitsDown(size) == size \div Unit

Units(size) == (size + Unit - 1) \div Unit

Init ==
  /\ slots = SlotLimit /\ bytes = Capacity
  /\ claims = ClaimLimit /\ claimed = 0
  /\ transfer = [t \in Transfers |-> Idle]
  /\ disk = [t \in Transfers |-> 0]

-------------------------------------------------------------------------------
Put(t) == transfer[t].file # Nothing

\* The claim's transaction: a connection, and the lock of the file row.
Locking(t) == Put(t) /\ transfer[t].pc \in {"locked", "receiving", "storing"}

Connected == {t \in Transfers : Locking(t)}
Locked    == {transfer[t].file : t \in Connected}

Go(t, pc) == transfer' = [transfer EXCEPT ![t].pc = pc]

\* try_acquire: the slot first...
TakeSlot(t, r) ==
  /\ transfer[t].pc = "idle"
  /\ slots > 0
  /\ slots' = slots - 1
  /\ transfer' = [transfer EXCEPT ![t] = [pc |-> "slot", file |-> r.file, size |-> r.size]]
  /\ UNCHANGED <<bytes, claims, claimed, disk>>

\* ...and then the bytes, which other requests may have taken meanwhile;
TakeBytes(t) ==
  /\ transfer[t].pc = "slot"
  /\ Units(transfer[t].size) <= bytes
  /\ bytes' = bytes - Units(transfer[t].size)
  /\ Go(t, "admitted")
  /\ UNCHANGED <<slots, claims, claimed, disk>>

\* without them the slot is dropped on the way out.
RefuseBytes(t) ==
  /\ transfer[t].pc = "slot"
  /\ Units(transfer[t].size) > bytes
  /\ slots' = slots + 1
  /\ transfer' = [transfer EXCEPT ![t] = Idle]
  /\ UNCHANGED <<bytes, claims, claimed, disk>>

TakeClaim(t) ==
  /\ Put(t) /\ transfer[t].pc = "admitted"
  /\ claims > 0 /\ claimed < MaxClaims
  /\ claims' = claims - 1 /\ claimed' = claimed + 1
  /\ Go(t, "promoted")
  /\ UNCHANGED <<slots, bytes, disk>>

\* claim_relay_upload, on a connection that is free: FOR UPDATE SKIP LOCKED
LockFile(t) ==
  /\ transfer[t].pc = "promoted"
  /\ Go(t, IF transfer[t].file \in Locked THEN "unlinked" ELSE "locked")
  /\ UNCHANGED <<slots, bytes, claims, claimed, disk>>

\* begin_write, and the body up to the declared size
Receive(t) ==
  /\ transfer[t].pc = "locked" \/ (~Put(t) /\ transfer[t].pc = "admitted")
  /\ disk' = [disk EXCEPT ![t] = transfer[t].size]
  /\ Go(t, "receiving")
  /\ UNCHANGED <<slots, bytes, claims, claimed>>

Store(t) ==
  /\ transfer[t].pc = "receiving"
  /\ Go(t, "storing")
  /\ UNCHANGED <<slots, bytes, claims, claimed, disk>>

\* The end of any kind, at any await: Cleanup unlinks the file and the claim's
\* transaction is over before a permit goes back.
Unlink(t) ==
  /\ transfer[t].pc \in {"admitted", "promoted", "locked", "receiving", "storing"}
  /\ disk' = [disk EXCEPT ![t] = 0]
  /\ Go(t, IF transfer[t].pc = "admitted" THEN "returning" ELSE "unlinked")
  /\ UNCHANGED <<slots, bytes, claims, claimed>>

ReturnClaim(t) ==
  /\ transfer[t].pc = "unlinked"
  /\ claims' = claims + (IF Put(t) THEN 1 ELSE 0)
  /\ Go(t, "returning")
  /\ UNCHANGED <<slots, bytes, claimed, disk>>

\* SpoolPermit's fields in their order
ReturnSlot(t) ==
  /\ transfer[t].pc = "returning"
  /\ slots' = slots + 1
  /\ Go(t, "last")
  /\ UNCHANGED <<bytes, claims, claimed, disk>>

ReturnBytes(t) ==
  /\ transfer[t].pc = "last"
  /\ bytes' = bytes + Units(transfer[t].size)
  /\ transfer' = [transfer EXCEPT ![t] = Idle]
  /\ UNCHANGED <<slots, claims, claimed, disk>>

\* What a request does once admission has begun; LockFile needs a connection.
Proceed(t) ==
  \/ TakeBytes(t) \/ RefuseBytes(t) \/ TakeClaim(t)
  \/ Receive(t) \/ Store(t) \/ Unlink(t)
  \/ ReturnClaim(t) \/ ReturnSlot(t) \/ ReturnBytes(t)

Request(t) == \E r \in Requests : TakeSlot(t, r)

-------------------------------------------------------------------------------
Reserved(t) == transfer[t].pc \notin {"idle", "slot"}

\* The bytes on the disk, and the units of the budget that are taken, each with
\* the transfer whose it is; who holds a slot, and who a claim.
Stored   == UNION {{t} \X (1..disk[t]) : t \in Transfers}
Taken    == UNION {{t} \X (1..Units(transfer[t].size)) : t \in {u \in Transfers : Reserved(u)}}
Slotted  == {t \in Transfers : transfer[t].pc \notin {"idle", "last"}}
Claiming == {t \in Transfers : Put(t) /\ transfer[t].pc \in {"promoted", "locked", "receiving",
                                                          "storing", "unlinked"}}

\* SpoolBudget: what the temporary files of the process hold stays within the
\* configured budget, although the two permits are taken and given back one by
\* one and the file outlives neither; and no refusal, failure or cut-off loses
\* or doubles a permit.
SpoolWithinBudget ==
  /\ Cardinality(Stored) <= Budget
  /\ bytes + Cardinality(Taken) = Capacity
  /\ slots + Cardinality(Slotted) = SlotLimit
  /\ claims + Cardinality(Claiming) = ClaimLimit
===============================================================================
