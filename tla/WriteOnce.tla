------------------------------ MODULE WriteOnce ------------------------------
(* What the native surface promises about the content of one file: it is      *)
(* fixed when the file is committed, it is delivered only from then on, and   *)
(* every download, however late, delivers that content or nothing.            *)
CONSTANTS Contents, Nothing

VARIABLES
  fate,      \* "unborn", "running", "visible" or "dropped"
  content,   \* what was committed
  served     \* what the download that is open delivers, or Nothing

vars == <<fate, content, served>>

Init == fate = "unborn" /\ content = Nothing /\ served = Nothing

Begin ==
  /\ fate = "unborn" /\ fate' = "running"
  /\ UNCHANGED <<content, served>>

Publish ==
  /\ fate = "running" /\ fate' = "visible"
  /\ content' \in Contents
  /\ UNCHANGED served

Drop ==
  /\ fate \in {"running", "visible"} /\ fate' = "dropped"
  /\ UNCHANGED <<content, served>>

Open ==
  /\ fate \in {"visible", "dropped"}
  /\ served = Nothing /\ served' = content
  /\ UNCHANGED <<fate, content>>

Close ==
  /\ served # Nothing /\ served' = Nothing
  /\ UNCHANGED <<fate, content>>

Next == Begin \/ Publish \/ Drop \/ Open \/ Close

Spec == Init /\ [][Next]_vars
=============================================================================
