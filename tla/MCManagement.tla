----------------------------- MODULE MCManagement -----------------------------
(* An instance of Management for TLC, from a moment of the Accounts model on: *)
(* an admin is signed in, and another works with a token.                    *)
EXTENDS Management, TLC

CONSTANTS ann, bob, t1, s1, c1, k1, x, y, u, v, f1, m1, w1, w2

Pair         == {ann, bob}
TwoRoles     == {"admin", "reader"}
OneToken     == {t1}
NoRequests    == {}
OneStorage   == {s1}
OneClient    == {c1}
OneKey       == {k1}
TwoAddresses == {x, y}
TwoSecrets   == {u, v}
OneSecret    == {u}
OneFile      == {f1}
OneOperator  == {m1}
OneWorker    == {w1}
TwoWorkers   == {w1, w2}

Alike == Permutations(TwoAddresses) \cup Permutations(TwoSecrets) \cup Permutations(TwoWorkers)

SignedIn ==
  /\ R!Init
  /\ status = (ann :> "active" @@ bob :> "active")
  /\ role = (ann :> "admin" @@ bob :> "admin")
  /\ generation = (ann :> 1 @@ bob :> 0)
  /\ link = (ann :> 0 @@ bob :> 0) /\ links = 0
  /\ holder = <<ann>> /\ proof = <<1>> /\ live = {1}
  /\ token = (t1 :> bob)
  /\ req = [q \in Requests |-> Idle]

StartedSpec == SignedIn /\ [][ManagementNext]_allvars
===============================================================================
