----------------------------- MODULE KeyedStore -----------------------------
(* What the S3 surface promises about the names of its objects, whatever      *)
(* fails underneath: an upload is published under its key in one step that    *)
(* also retires the object it replaces, a conditional upload is published     *)
(* only under a free key, and an upload is published at most once.            *)
CONSTANTS Files, Conditional, Keys, KeyOf, NoFile

VARIABLES
  fate,     \* of each upload: "unborn", "running", "visible" or "dropped"
  visible   \* the upload whose object a read of the key returns, or NoFile

vars == <<fate, visible>>

Init ==
  /\ fate = [f \in Files |-> "unborn"]
  /\ visible = [k \in Keys |-> NoFile]

Begin(f) ==
  /\ fate[f] = "unborn"
  /\ fate' = [fate EXCEPT ![f] = "running"]
  /\ UNCHANGED visible

Publish(f) ==
  /\ fate[f] = "running"
  /\ f \in Conditional => visible[KeyOf[f]] = NoFile
  /\ fate' = [g \in Files |-> IF g = f THEN "visible"
                              ELSE IF g = visible[KeyOf[f]] THEN "dropped" ELSE fate[g]]
  /\ visible' = [visible EXCEPT ![KeyOf[f]] = f]

Drop(f) ==
  /\ fate[f] = "running"
  /\ fate' = [fate EXCEPT ![f] = "dropped"]
  /\ UNCHANGED visible

Withdraw(k) ==
  /\ visible[k] # NoFile
  /\ fate' = [fate EXCEPT ![visible[k]] = "dropped"]
  /\ visible' = [visible EXCEPT ![k] = NoFile]

Next ==
  \/ \E f \in Files : Begin(f) \/ Publish(f) \/ Drop(f)
  \/ \E k \in Keys : Withdraw(k)

Spec == Init /\ [][Next]_vars
=============================================================================
